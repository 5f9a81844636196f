-------------------------- MODULE SchedulerProofs --------------------------
(***************************************************************************)
(* Theorems about Scheduler, for any threads, fibers, callbacks and        *)
(* bounds.  In two parts: types and stacks, whatever callers do; and what  *)
(* Scheduler promises each task when callers keep to the wake-up protocol, *)
(* that nothing handed over is lost, doubled or switched to in the wrong   *)
(* state.                                                                  *)
(***************************************************************************)
EXTENDS Scheduler, SequenceTheorems, FiniteSetTheorems, TLAPS

\* The fibers of a thread, and those of tasks, are fibers; they do not overlap.
LEMMA FiberSets ==
    /\ \A t \in Threads : Main(t) \in Fibers /\ Root(t) \in Fibers /\ Idle(t) \in Fibers
    /\ TaskFibers \subseteq Fibers /\ CbFibers \subseteq TaskFibers
    /\ \A c \in Cbs : CbFiber(c) \in CbFibers
    /\ \A t \in Threads : Idle(t) \notin TaskFibers
    /\ Null \notin Fibers /\ Null \notin Cbs
BY FiberAssumption DEF Fibers, TaskFibers, ThreadFibers, CbFibers

\* Taking an entry out of a queue leaves a queue.
LEMMA RemoveAtType ==
    ASSUME NEW S, NEW q \in Seq(S), NEW i \in DOMAIN q
    PROVE  RemoveAt(q, i) \in Seq(S)
<1>1. i \in 1..Len(q) /\ Len(q) \in Nat
  OBVIOUS
<1>2. SubSeq(q, 1, i - 1) \in Seq(S)
  <2>1. \A j \in 1..(i - 1) : q[j] \in S
    BY <1>1
  <2> QED
    BY <1>1, <2>1, SubSeqProperties
<1>3. SubSeq(q, i + 1, Len(q)) \in Seq(S)
  BY <1>1, SubSeqProperties
<1> QED
  BY <1>2, <1>3, ConcatProperties DEF RemoveAt

\* The constants the entries are made of.
LEMMA Entries0 ==
    /\ NoEntry \in Entry
    /\ \A f \in TaskFibers, thr \in Pins \cup {AnyThread} : FiberEntry(f, thr) \in Entry
    /\ \A c \in Cbs, thr \in Pins \cup {AnyThread} : CbEntry(c, thr) \in Entry
BY DEF NoEntry, Entry, FiberEntry, CbEntry

\* While a branch of the loop has its fiber switched in, that fiber is a task's
\* or the idle fiber.
LEMMA TargetType ==
    ASSUME IInv, NEW s \in Threads,
           pc[s] \in InSwap \cup {"requeue", "settle", "sethold"}
    PROVE  /\ Target(s) \in TaskFibers \cup {Idle(s)}
           /\ branch[s] # "idle" => Target(s) \in TaskFibers
           /\ Target(s) \in Fibers
BY FiberSets DEF IInv, LoopShape, TypeOK, LoopTypeOK, Target, Entry, CbFibers

\* The initial states satisfy the invariant.
LEMMA InitIInv == Init => IInv
<1> SUFFICES ASSUME Init PROVE IInv
  OBVIOUS
<1>1. TypeOK
  BY FiberSets, Entries0 DEF Init, FiberInit, TypeOK, FiberTypeOK, QueueTypeOK, FlagTypeOK, LoopTypeOK, TaskTypeOK, State, Bodies, Contexts, Points, EntryContext, Pcs
<1>2. OwnContexts
  BY DEF Init, FiberInit, OwnContexts, EntryContext
<1>3. OnItsStack
  BY DEF Init, FiberInit, OnItsStack, StackOf, Alive
<1>4. LoopShape
  BY DEF Init, LoopShape, LoopPcs, InSwap
<1>5. IdleNeverReady
  BY FiberSets DEF Init, FiberInit, IdleNeverReady
<1> QED
  BY <1>1, <1>2, <1>3, <1>4, <1>5 DEF IInv

\* A switch whose caller runs on the stack of the fiber it saves in lands on the
\* stack of the fiber it loads.
LEMMA SwapContextLoads ==
    ASSUME FiberTypeOK, OwnContexts, NEW t \in Threads, NEW save \in Fibers,
           NEW at \in Points, NEW load \in Fibers, cpu[t] = save,
           SwapContext(t, save, at, load)
    PROVE  /\ m_ctx' \in [Fibers -> Contexts] /\ OwnContexts'
           /\ cpu' = [cpu EXCEPT ![t] = load]
BY DEF FiberTypeOK, OwnContexts, SwapContext, Contexts, Points

\* A starting scheduler's queue holds what was scheduled before it started.
LEMMA QueuedForType ==
    ASSUME QueueTypeOK, NEW s \in Threads
    PROVE  QueuedFor(s) \subseteq Cbs
<1>1. m_fibers[s] \in Seq(Entry)
  BY DEF QueueTypeOK
<1>2. ToSet(m_fibers[s]) \subseteq Entry
  BY <1>1 DEF ToSet
<1>3. \A e \in Entry : e.cb \in Cbs \cup {Null}
  BY DEF Entry
<1> QED
  BY <1>2, <1>3 DEF QueuedFor

\* Construction, start(), stop() and destruction preserve the invariant.
LEMMA LifeStep ==
    ASSUME IInv, NEW s \in Threads, Life(s)
    PROVE  IInv'
<1>1. ASSUME NEW cfg \in Configs, Construct(s, cfg[1], cfg[2]) PROVE IInv'
  <2>1. TypeOK'
    <3>1. FiberTypeOK'
      BY <1>1, FiberSets DEF IInv, TypeOK, FiberTypeOK, State, Bodies, Construct, Goto
    <3>2. FlagTypeOK'
      BY <1>1, SchedulerAssumption DEF IInv, TypeOK, FlagTypeOK, Construct, Goto
    <3>3. LoopTypeOK'
      BY <1>1, FiberSets, Entries0 DEF IInv, TypeOK, LoopTypeOK, Pcs, LoopPcs, Construct,
         Goto, loopVars, countVars
    <3>4. QueueTypeOK' /\ TaskTypeOK'
      BY <1>1 DEF IInv, TypeOK, QueueTypeOK, TaskTypeOK, Construct, queueVars, taskVars
    <3> QED
      BY <3>1, <3>2, <3>3, <3>4 DEF TypeOK
  <2>2. OwnContexts'
    BY <1>1 DEF IInv, OwnContexts, Construct, Goto, fiberVars
  <2>3. OnItsStack'
    BY <1>1, FiberSets DEF IInv, TypeOK, FiberTypeOK, LoopTypeOK, FlagTypeOK, OnItsStack,
       StackOf, Alive, Target, LoopShape, LoopPcs, Construct, Goto, fiberVars, loopVars,
       flagVars
  <2>4. LoopShape'
    BY <1>1 DEF IInv, TypeOK, LoopTypeOK, FlagTypeOK, LoopShape, InSwap, LoopPcs, Construct,
       Goto, loopVars, countVars, flagVars
  <2>5. IdleNeverReady'
    BY <1>1, FiberSets DEF IInv, TypeOK, FiberTypeOK, LoopTypeOK, IdleNeverReady, Construct,
       Goto, fiberVars, loopVars
  <2> QED
    BY <2>1, <2>2, <2>3, <2>4, <2>5 DEF IInv
<1>2. CASE StartAgain(s)
  <2>1. TypeOK'
    <3>1. FlagTypeOK'
      BY <1>2, QueuedForType DEF IInv, TypeOK, FlagTypeOK, QueueTypeOK, StartAgain
    <3>2. FiberTypeOK' /\ QueueTypeOK' /\ TaskTypeOK' /\ LoopTypeOK'
      BY <1>2 DEF IInv, TypeOK, FiberTypeOK, QueueTypeOK, TaskTypeOK, LoopTypeOK,
         StartAgain, fiberVars, queueVars, taskVars, loopVars, countVars
    <3> QED
      BY <3>1, <3>2 DEF TypeOK
  <2>2. OwnContexts'
    BY <1>2 DEF IInv, OwnContexts, StartAgain, fiberVars
  <2>3. OnItsStack'
    BY <1>2, FiberSets DEF IInv, TypeOK, FiberTypeOK, LoopTypeOK, FlagTypeOK, OnItsStack,
       StackOf, Alive, Target, LoopShape, LoopPcs, StartAgain, fiberVars, loopVars, flagVars
  <2>4. LoopShape'
    BY <1>2 DEF IInv, TypeOK, LoopTypeOK, FlagTypeOK, LoopShape, InSwap, LoopPcs,
       StartAgain, loopVars, countVars, flagVars
  <2>5. IdleNeverReady'
    BY <1>2, FiberSets DEF IInv, TypeOK, FiberTypeOK, LoopTypeOK, IdleNeverReady,
       StartAgain, fiberVars, loopVars
  <2> QED
    BY <2>1, <2>2, <2>3, <2>4, <2>5 DEF IInv
<1>3. CASE Start(s)
  <2>0. /\ m_ctx' \in [Fibers -> Contexts] /\ OwnContexts'
        /\ cpu' = [cpu EXCEPT ![s] = Root(s)]
    BY <1>3, FiberSets, SwapContextLoads DEF IInv, TypeOK, FiberTypeOK, OnItsStack, StackOf,
       Points, Start, Goto, BeginStart, Call
  <2>1. TypeOK'
    <3>1. FiberTypeOK'
      BY <1>3, <2>0, FiberSets DEF IInv, TypeOK, FiberTypeOK, State, Bodies, Start, Goto,
         BeginStart, Call
    <3>2. FlagTypeOK'
      BY <1>3, <2>0, QueuedForType DEF IInv, TypeOK, FlagTypeOK, QueueTypeOK, Start, Goto,
         BeginStart, Call
    <3>3. LoopTypeOK'
      BY <1>3, <2>0, FiberSets, Entries0 DEF IInv, TypeOK, LoopTypeOK, Pcs, LoopPcs,
         Start, Goto, BeginStart, Call, loopVars, countVars
    <3>4. QueueTypeOK' /\ TaskTypeOK'
      BY <1>3 DEF IInv, TypeOK, QueueTypeOK, TaskTypeOK, Start, Goto, BeginStart, Call,
         queueVars, taskVars
    <3> QED
      BY <3>1, <3>2, <3>3, <3>4 DEF TypeOK
  <2>3. OnItsStack'
    BY <1>3, <2>0, FiberSets DEF IInv, TypeOK, FiberTypeOK, LoopTypeOK, FlagTypeOK,
       OnItsStack, StackOf, Alive, Target, LoopShape, LoopPcs, Start, Goto, BeginStart,
       Call, fiberVars, loopVars, flagVars
  <2>4. LoopShape'
    BY <1>3, <2>0 DEF IInv, TypeOK, LoopTypeOK, FlagTypeOK, LoopShape, InSwap, LoopPcs,
       Start, Goto, BeginStart, Call, loopVars, countVars, flagVars
  <2>5. IdleNeverReady'
    BY <1>3, <2>0, FiberSets DEF IInv, TypeOK, FiberTypeOK, LoopTypeOK, IdleNeverReady,
       Start, Goto, BeginStart, Call, fiberVars, loopVars
  <2> QED
    BY <2>1, <2>0, <2>3, <2>4, <2>5 DEF IInv
<1>4. CASE StartWorkers(s)
  <2>1. TypeOK'
    <3>1. FlagTypeOK'
      BY <1>4, QueuedForType DEF IInv, TypeOK, FlagTypeOK, QueueTypeOK, StartWorkers,
         BeginStart, Die
    <3>2. LoopTypeOK'
      BY <1>4, FiberSets, Entries0 DEF IInv, TypeOK, LoopTypeOK, Pcs, LoopPcs,
         StartWorkers, BeginStart, Die, loopVars, countVars
    <3>3. FiberTypeOK' /\ QueueTypeOK' /\ TaskTypeOK'
      BY <1>4 DEF IInv, TypeOK, FiberTypeOK, QueueTypeOK, TaskTypeOK, StartWorkers,
         BeginStart, Die, fiberVars, queueVars, taskVars
    <3> QED
      BY <3>1, <3>2, <3>3 DEF TypeOK
  <2>2. OwnContexts'
    BY <1>4 DEF IInv, OwnContexts, StartWorkers, BeginStart, Die, fiberVars
  <2>3. OnItsStack'
    BY <1>4, FiberSets DEF IInv, TypeOK, FiberTypeOK, LoopTypeOK, FlagTypeOK, OnItsStack,
       StackOf, Alive, Target, LoopShape, LoopPcs, StartWorkers, BeginStart, Die, fiberVars,
       loopVars, flagVars
  <2>4. LoopShape'
    BY <1>4 DEF IInv, TypeOK, LoopTypeOK, FlagTypeOK, LoopShape, InSwap, LoopPcs,
       StartWorkers, BeginStart, Die, loopVars, countVars, flagVars
  <2>5. IdleNeverReady'
    BY <1>4, FiberSets DEF IInv, TypeOK, FiberTypeOK, LoopTypeOK, IdleNeverReady,
       StartWorkers, BeginStart, Die, fiberVars, loopVars
  <2> QED
    BY <2>1, <2>2, <2>3, <2>4, <2>5 DEF IInv
<1>5. CASE Restart(s)
  <2>1. TypeOK'
    <3>1. FlagTypeOK'
      BY <1>5, QueuedForType DEF IInv, TypeOK, FlagTypeOK, QueueTypeOK, Restart, BeginStart, Die
    <3>2. LoopTypeOK'
      BY <1>5, FiberSets, Entries0 DEF IInv, TypeOK, LoopTypeOK, Pcs, LoopPcs, Restart,
         BeginStart, Die, loopVars, countVars
    <3>3. FiberTypeOK' /\ QueueTypeOK' /\ TaskTypeOK'
      BY <1>5 DEF IInv, TypeOK, FiberTypeOK, QueueTypeOK, TaskTypeOK, Restart, BeginStart,
         Die, fiberVars, queueVars, taskVars
    <3> QED
      BY <3>1, <3>2, <3>3 DEF TypeOK
  <2>2. OwnContexts'
    BY <1>5 DEF IInv, OwnContexts, Restart, BeginStart, Die, fiberVars
  <2>3. OnItsStack'
    BY <1>5, FiberSets DEF IInv, TypeOK, FiberTypeOK, LoopTypeOK, FlagTypeOK, OnItsStack,
       StackOf, Alive, Target, LoopShape, LoopPcs, Restart, BeginStart, Die, fiberVars,
       loopVars, flagVars
  <2>4. LoopShape'
    BY <1>5 DEF IInv, TypeOK, LoopTypeOK, FlagTypeOK, LoopShape, InSwap, LoopPcs, Restart,
       BeginStart, Die, loopVars, countVars, flagVars
  <2>5. IdleNeverReady'
    BY <1>5, FiberSets DEF IInv, TypeOK, FiberTypeOK, LoopTypeOK, IdleNeverReady, Restart,
       BeginStart, Die, fiberVars, loopVars
  <2> QED
    BY <2>1, <2>2, <2>3, <2>4, <2>5 DEF IInv
<1>6. ASSUME NEW t \in Threads, Stop(s, t) PROVE IInv'
  <2>1. TypeOK'
    <3>1. FlagTypeOK'
      BY <1>6 DEF IInv, TypeOK, FlagTypeOK, Stop
    <3>2. FiberTypeOK' /\ QueueTypeOK' /\ TaskTypeOK' /\ LoopTypeOK'
      BY <1>6 DEF IInv, TypeOK, FiberTypeOK, QueueTypeOK, TaskTypeOK, LoopTypeOK, Stop,
         fiberVars, queueVars, taskVars, loopVars, countVars
    <3> QED
      BY <3>1, <3>2 DEF TypeOK
  <2>2. OwnContexts'
    BY <1>6 DEF IInv, OwnContexts, Stop, fiberVars
  <2>3. OnItsStack'
    BY <1>6, FiberSets DEF IInv, TypeOK, FiberTypeOK, LoopTypeOK, FlagTypeOK, OnItsStack,
       StackOf, Alive, Target, LoopShape, LoopPcs, Stop, fiberVars, loopVars, flagVars
  <2>4. LoopShape'
    BY <1>6 DEF IInv, TypeOK, LoopTypeOK, FlagTypeOK, LoopShape, InSwap, LoopPcs, Stop,
       loopVars, countVars, flagVars
  <2>5. IdleNeverReady'
    BY <1>6, FiberSets DEF IInv, TypeOK, FiberTypeOK, LoopTypeOK, IdleNeverReady, Stop,
       fiberVars, loopVars
  <2> QED
    BY <2>1, <2>2, <2>3, <2>4, <2>5 DEF IInv
<1>7. CASE Destroy(s)
  <2>1. TypeOK'
    <3>1. QueueTypeOK'
      BY <1>7, FiberSets, Entries0 DEF IInv, TypeOK, QueueTypeOK, Destroy, Goto
    <3>2. LoopTypeOK'
      BY <1>7, FiberSets, Entries0 DEF IInv, TypeOK, LoopTypeOK, Pcs, LoopPcs, Destroy,
         Goto, loopVars, countVars
    <3>3. FiberTypeOK' /\ FlagTypeOK' /\ TaskTypeOK'
      BY <1>7 DEF IInv, TypeOK, FiberTypeOK, FlagTypeOK, TaskTypeOK, Destroy, fiberVars,
         flagVars, taskVars
    <3> QED
      BY <3>1, <3>2, <3>3 DEF TypeOK
  <2>2. OwnContexts'
    BY <1>7 DEF IInv, OwnContexts, Destroy, Goto, fiberVars
  <2>3. OnItsStack'
    BY <1>7, FiberSets DEF IInv, TypeOK, FiberTypeOK, LoopTypeOK, OnItsStack, StackOf,
       Alive, Target, LoopShape, LoopPcs, Destroy, Goto, fiberVars, loopVars, flagVars
  <2>4. LoopShape'
    BY <1>7 DEF IInv, TypeOK, LoopTypeOK, LoopShape, InSwap, LoopPcs, Destroy, Goto,
       loopVars, countVars, flagVars
  <2>5. IdleNeverReady'
    BY <1>7, FiberSets DEF IInv, TypeOK, FiberTypeOK, LoopTypeOK, IdleNeverReady, Destroy,
       Goto, fiberVars, loopVars
  <2> QED
    BY <2>1, <2>2, <2>3, <2>4, <2>5 DEF IInv
<1>8. CASE DestroyAborts(s)
  <2>1. TypeOK'
    <3>1. LoopTypeOK'
      BY <1>8 DEF IInv, TypeOK, LoopTypeOK, DestroyAborts, Die, loopVars, countVars
    <3>2. FiberTypeOK' /\ QueueTypeOK' /\ FlagTypeOK' /\ TaskTypeOK'
      BY <1>8 DEF IInv, TypeOK, FiberTypeOK, QueueTypeOK, FlagTypeOK, TaskTypeOK,
         DestroyAborts, fiberVars, queueVars, flagVars, taskVars
    <3> QED
      BY <3>1, <3>2 DEF TypeOK
  <2>2. OwnContexts'
    BY <1>8 DEF IInv, OwnContexts, DestroyAborts, fiberVars
  <2>3. OnItsStack'
    BY <1>8 DEF IInv, OnItsStack, StackOf, Alive, Target, DestroyAborts, fiberVars,
       loopVars, flagVars
  <2>4. LoopShape'
    BY <1>8 DEF IInv, LoopShape, DestroyAborts, loopVars, countVars, flagVars
  <2>5. IdleNeverReady'
    BY <1>8 DEF IInv, IdleNeverReady, DestroyAborts, fiberVars, loopVars
  <2> QED
    BY <2>1, <2>2, <2>3, <2>4, <2>5 DEF IInv
<1> QED
  BY <1>1, <1>2, <1>3, <1>4, <1>5, <1>6, <1>7, <1>8 DEF Life

\* A call of scheduler() preserves it.
LEMMA CallersStep ==
    ASSUME IInv, NEW s \in Threads, Callers(s)
    PROVE  IInv'
<1>1. ASSUME NEW thr \in Pins, NEW f \in TaskFibers, ScheduleFiber(s, f, thr) PROVE IInv'
  <2>1. TypeOK'
    <3>1. QueueTypeOK'
      BY <1>1, FiberSets, Entries0 DEF IInv, TypeOK, QueueTypeOK, ScheduleFiber
    <3>2. FiberTypeOK' /\ FlagTypeOK' /\ TaskTypeOK' /\ LoopTypeOK'
      BY <1>1 DEF IInv, TypeOK, FiberTypeOK, FlagTypeOK, TaskTypeOK, LoopTypeOK,
         ScheduleFiber, fiberVars, flagVars, taskVars, loopVars, countVars
    <3> QED
      BY <3>1, <3>2 DEF TypeOK
  <2>2. OwnContexts'
    BY <1>1 DEF IInv, OwnContexts, ScheduleFiber, fiberVars
  <2>3. OnItsStack'
    BY <1>1, FiberSets DEF IInv, TypeOK, FiberTypeOK, LoopTypeOK, OnItsStack, StackOf,
       Alive, Target, LoopShape, LoopPcs, ScheduleFiber, fiberVars, loopVars, flagVars
  <2>4. LoopShape'
    BY <1>1 DEF IInv, TypeOK, LoopTypeOK, LoopShape, InSwap, LoopPcs, ScheduleFiber,
       loopVars, countVars, flagVars
  <2>5. IdleNeverReady'
    BY <1>1, FiberSets DEF IInv, TypeOK, FiberTypeOK, LoopTypeOK, IdleNeverReady,
       ScheduleFiber, fiberVars, loopVars
  <2> QED
    BY <2>1, <2>2, <2>3, <2>4, <2>5 DEF IInv
<1>2. ASSUME NEW thr \in Pins, NEW c \in Cbs, ScheduleCb(s, c, thr) PROVE IInv'
  <2>1. TypeOK'
    <3>1. QueueTypeOK'
      BY <1>2, FiberSets, Entries0 DEF IInv, TypeOK, QueueTypeOK, ScheduleCb
    <3>2. FiberTypeOK' /\ FlagTypeOK' /\ TaskTypeOK' /\ LoopTypeOK'
      BY <1>2 DEF IInv, TypeOK, FiberTypeOK, FlagTypeOK, TaskTypeOK, LoopTypeOK,
         ScheduleCb, fiberVars, flagVars, taskVars, loopVars, countVars
    <3> QED
      BY <3>1, <3>2 DEF TypeOK
  <2>2. OwnContexts'
    BY <1>2 DEF IInv, OwnContexts, ScheduleCb, fiberVars
  <2>3. OnItsStack'
    BY <1>2, FiberSets DEF IInv, TypeOK, FiberTypeOK, LoopTypeOK, OnItsStack, StackOf,
       Alive, Target, LoopShape, LoopPcs, ScheduleCb, fiberVars, loopVars, flagVars
  <2>4. LoopShape'
    BY <1>2 DEF IInv, TypeOK, LoopTypeOK, LoopShape, InSwap, LoopPcs, ScheduleCb, loopVars,
       countVars, flagVars
  <2>5. IdleNeverReady'
    BY <1>2, FiberSets DEF IInv, TypeOK, FiberTypeOK, LoopTypeOK, IdleNeverReady,
       ScheduleCb, fiberVars, loopVars
  <2> QED
    BY <2>1, <2>2, <2>3, <2>4, <2>5 DEF IInv
<1> QED
  BY <1>1, <1>2 DEF Callers

\* A step of Scheduler::run preserves it.
LEMMA LoopStep ==
    ASSUME IInv, NEW s \in Threads, Loop(s)
    PROVE  IInv'
<1>1. CASE Prologue(s)
  <2>1. TypeOK'
    <3>1. FiberTypeOK'
      BY <1>1, FiberSets DEF IInv, TypeOK, FiberTypeOK, State, Bodies, Contexts, Points,
         Prologue, Goto, NewFiber, EntryContext
    <3>2. LoopTypeOK'
      BY <1>1, FiberSets, Entries0 DEF IInv, TypeOK, LoopTypeOK, Pcs, LoopPcs, Prologue,
         Goto, NewFiber, EntryContext, loopVars, countVars
    <3>3. QueueTypeOK' /\ FlagTypeOK' /\ TaskTypeOK'
      BY <1>1 DEF IInv, TypeOK, QueueTypeOK, FlagTypeOK, TaskTypeOK, Prologue, queueVars,
         flagVars, taskVars
    <3> QED
      BY <3>1, <3>2, <3>3 DEF TypeOK
  <2>2. OwnContexts'
    BY <1>1, FiberSets DEF IInv, TypeOK, FiberTypeOK, LoopTypeOK, OwnContexts, Prologue,
       Goto, NewFiber, EntryContext, fiberVars
  <2>3. OnItsStack'
    BY <1>1, FiberSets DEF IInv, TypeOK, FiberTypeOK, LoopTypeOK, OnItsStack, StackOf,
       Alive, Target, LoopShape, LoopPcs, Prologue, Goto, NewFiber, EntryContext, fiberVars,
       loopVars, flagVars
  <2>4. LoopShape'
    BY <1>1 DEF IInv, TypeOK, LoopTypeOK, LoopShape, InSwap, LoopPcs, Prologue, Goto,
       NewFiber, EntryContext, loopVars, countVars, flagVars
  <2>5. IdleNeverReady'
    BY <1>1, FiberSets DEF IInv, TypeOK, FiberTypeOK, LoopTypeOK, IdleNeverReady, Prologue,
       Goto, NewFiber, EntryContext, fiberVars, loopVars
  <2> QED
    BY <2>1, <2>2, <2>3, <2>4, <2>5 DEF IInv
<1>2. CASE Fetch(s)
  <2>1. TypeOK'
    <3>1. QueueTypeOK'
      BY <1>2, FiberSets, Entries0, RemoveAtType DEF IInv, TypeOK, QueueTypeOK, Fetch, Goto
    <3>2. LoopTypeOK'
      BY <1>2, FiberSets, Entries0 DEF IInv, TypeOK, LoopTypeOK, Pcs, LoopPcs,
         QueueTypeOK, Fetch, Goto, loopVars, countVars
    <3>3. FiberTypeOK' /\ FlagTypeOK' /\ TaskTypeOK'
      BY <1>2 DEF IInv, TypeOK, FiberTypeOK, FlagTypeOK, TaskTypeOK, Fetch, fiberVars,
         flagVars, taskVars
    <3> QED
      BY <3>1, <3>2, <3>3 DEF TypeOK
  <2>2. OwnContexts'
    BY <1>2 DEF IInv, OwnContexts, Fetch, Goto, fiberVars
  <2>3. OnItsStack'
    BY <1>2, FiberSets DEF IInv, TypeOK, FiberTypeOK, LoopTypeOK, OnItsStack, StackOf,
       Alive, Target, LoopShape, LoopPcs, Fetch, Goto, fiberVars, loopVars, flagVars
  <2>4. LoopShape'
    BY <1>2 DEF IInv, TypeOK, LoopTypeOK, LoopShape, InSwap, LoopPcs, Fetch, Goto, loopVars,
       countVars, flagVars
  <2>5. IdleNeverReady'
    BY <1>2, FiberSets DEF IInv, TypeOK, FiberTypeOK, LoopTypeOK, IdleNeverReady, Fetch,
       Goto, fiberVars, loopVars
  <2> QED
    BY <2>1, <2>2, <2>3, <2>4, <2>5 DEF IInv
<1>3. CASE FetchNothing(s)
  <2>1. TypeOK'
    <3>1. LoopTypeOK'
      BY <1>3, FiberSets, Entries0 DEF IInv, TypeOK, LoopTypeOK, Pcs, LoopPcs,
         FetchNothing, Goto, loopVars, countVars
    <3>2. FiberTypeOK' /\ QueueTypeOK' /\ FlagTypeOK' /\ TaskTypeOK'
      BY <1>3 DEF IInv, TypeOK, FiberTypeOK, QueueTypeOK, FlagTypeOK, TaskTypeOK,
         FetchNothing, fiberVars, queueVars, flagVars, taskVars
    <3> QED
      BY <3>1, <3>2 DEF TypeOK
  <2>2. OwnContexts'
    BY <1>3 DEF IInv, OwnContexts, FetchNothing, Goto, fiberVars
  <2>3. OnItsStack'
    BY <1>3, FiberSets DEF IInv, TypeOK, FiberTypeOK, LoopTypeOK, OnItsStack, StackOf,
       Alive, Target, LoopShape, LoopPcs, FetchNothing, Goto, fiberVars, loopVars, flagVars
  <2>4. LoopShape'
    BY <1>3 DEF IInv, TypeOK, LoopTypeOK, LoopShape, InSwap, LoopPcs, FetchNothing, Goto,
       loopVars, countVars, flagVars
  <2>5. IdleNeverReady'
    BY <1>3, FiberSets DEF IInv, TypeOK, FiberTypeOK, LoopTypeOK, IdleNeverReady,
       FetchNothing, Goto, fiberVars, loopVars
  <2> QED
    BY <2>1, <2>2, <2>3, <2>4, <2>5 DEF IInv
<1>4. CASE DispatchFiber(s)
  <2>1. TypeOK'
    <3>1. LoopTypeOK'
      BY <1>4, FiberSets, Entries0 DEF IInv, TypeOK, LoopTypeOK, Pcs, LoopPcs,
         DispatchFiber, Goto, HasFiber, loopVars, countVars
    <3>2. FiberTypeOK' /\ QueueTypeOK' /\ FlagTypeOK' /\ TaskTypeOK'
      BY <1>4 DEF IInv, TypeOK, FiberTypeOK, QueueTypeOK, FlagTypeOK, TaskTypeOK,
         DispatchFiber, fiberVars, queueVars, flagVars, taskVars
    <3> QED
      BY <3>1, <3>2 DEF TypeOK
  <2>2. OwnContexts'
    BY <1>4 DEF IInv, OwnContexts, DispatchFiber, Goto, HasFiber, fiberVars
  <2>3. OnItsStack'
    BY <1>4, FiberSets DEF IInv, TypeOK, FiberTypeOK, LoopTypeOK, OnItsStack, StackOf,
       Alive, Target, LoopShape, LoopPcs, DispatchFiber, Goto, HasFiber, fiberVars,
       loopVars, flagVars
  <2>4. LoopShape'
    BY <1>4 DEF IInv, TypeOK, LoopTypeOK, LoopShape, InSwap, LoopPcs, DispatchFiber, Goto,
       HasFiber, loopVars, countVars, flagVars
  <2>5. IdleNeverReady'
    BY <1>4, FiberSets DEF IInv, TypeOK, FiberTypeOK, LoopTypeOK, IdleNeverReady,
       DispatchFiber, Goto, HasFiber, fiberVars, loopVars
  <2> QED
    BY <2>1, <2>2, <2>3, <2>4, <2>5 DEF IInv
<1>5. CASE DispatchCb(s)
  <2>1. TypeOK'
    <3>1. FiberTypeOK'
      <4>1. ft[s].cb \in Cbs
        BY <1>5 DEF IInv, TypeOK, LoopTypeOK, Entry, DispatchCb, HasCb
      <4>2. \E f \in Fibers : NewFiber(f, ft[s].cb)
        BY <1>5, <4>1, FiberSets DEF IInv, TypeOK, LoopTypeOK, DispatchCb, ResetFiber
      <4>3. t_fiber' = t_fiber /\ cpu' = cpu
        BY <1>5 DEF DispatchCb
      <4> QED
        BY <4>1, <4>2, <4>3 DEF IInv, TypeOK, FiberTypeOK, NewFiber, EntryContext, State,
           Bodies, Contexts, Points
    <3>2. QueueTypeOK'
      <4>1. ft[s].cb \in Cbs
        BY <1>5 DEF IInv, TypeOK, LoopTypeOK, Entry, DispatchCb, HasCb
      <4>2. home' \in [TaskFibers -> Threads \cup {Null}]
        BY <1>5, <4>1, FiberSets DEF IInv, TypeOK, QueueTypeOK, DispatchCb
      <4> QED
        BY <1>5, <4>2 DEF IInv, TypeOK, QueueTypeOK, DispatchCb
    <3>3. LoopTypeOK'
      BY <1>5, FiberSets, Entries0 DEF IInv, TypeOK, LoopTypeOK, Pcs, LoopPcs, Entry,
         DispatchCb, Goto, HasCb, ResetFiber, NewFiber, EntryContext, loopVars, countVars
    <3>4. FlagTypeOK' /\ TaskTypeOK'
      BY <1>5 DEF IInv, TypeOK, FlagTypeOK, TaskTypeOK, DispatchCb, flagVars, taskVars
    <3> QED
      BY <3>1, <3>2, <3>3, <3>4 DEF TypeOK
  <2>2. OwnContexts'
    <3>1. cb_fiber[s] \in CbFibers \cup {Null} /\ CbFiber(ft[s].cb) \in Fibers
      BY <1>5, FiberSets DEF IInv, TypeOK, LoopTypeOK, Entry, DispatchCb, HasCb
    <3>2. \E f \in Fibers : NewFiber(f, ft[s].cb)
      BY <1>5, <3>1, FiberSets DEF DispatchCb, ResetFiber
    <3> QED
      BY <3>2 DEF IInv, TypeOK, FiberTypeOK, OwnContexts, NewFiber, EntryContext
  <2>3. OnItsStack'
    BY <1>5, FiberSets DEF IInv, TypeOK, FiberTypeOK, LoopTypeOK, OnItsStack, StackOf,
       Alive, Target, LoopShape, LoopPcs, DispatchCb, Goto, HasCb, ResetFiber, NewFiber,
       EntryContext, fiberVars, loopVars, flagVars
  <2>4. LoopShape'
    <3>1. CbFiber(ft[s].cb) # Null
      BY <1>5, FiberSets DEF IInv, TypeOK, LoopTypeOK, Entry, DispatchCb, HasCb, TaskFibers, Fibers
    <3>2. cb_fiber' = [cb_fiber EXCEPT ![s] = cb_fiber'[s]] /\ cb_fiber'[s] # Null
      BY <1>5, <3>1 DEF IInv, TypeOK, LoopTypeOK, DispatchCb
    <3> QED
      BY <1>5, <3>2 DEF IInv, TypeOK, LoopTypeOK, LoopShape, InSwap, LoopPcs, DispatchCb, Goto,
         flagVars
  <2>5. IdleNeverReady'
    BY <1>5, FiberSets DEF IInv, TypeOK, FiberTypeOK, LoopTypeOK, IdleNeverReady,
       DispatchCb, Goto, HasCb, ResetFiber, NewFiber, EntryContext, fiberVars, loopVars
  <2> QED
    BY <2>1, <2>2, <2>3, <2>4, <2>5 DEF IInv
<1>6. CASE ResetAborts(s)
  <2>1. TypeOK'
    <3>1. LoopTypeOK'
      BY <1>6, FiberSets, Entries0 DEF IInv, TypeOK, LoopTypeOK, Pcs, LoopPcs,
         ResetAborts, Die, loopVars, countVars
    <3>2. FiberTypeOK' /\ QueueTypeOK' /\ FlagTypeOK' /\ TaskTypeOK'
      BY <1>6 DEF IInv, TypeOK, FiberTypeOK, QueueTypeOK, FlagTypeOK, TaskTypeOK,
         ResetAborts, fiberVars, queueVars, flagVars, taskVars
    <3> QED
      BY <3>1, <3>2 DEF TypeOK
  <2>2. OwnContexts'
    BY <1>6 DEF IInv, OwnContexts, ResetAborts, Die, fiberVars
  <2>3. OnItsStack'
    BY <1>6, FiberSets DEF IInv, TypeOK, FiberTypeOK, LoopTypeOK, OnItsStack, StackOf,
       Alive, Target, LoopShape, LoopPcs, ResetAborts, Die, fiberVars, loopVars, flagVars
  <2>4. LoopShape'
    BY <1>6 DEF IInv, TypeOK, LoopTypeOK, LoopShape, InSwap, LoopPcs, ResetAborts, Die,
       loopVars, countVars, flagVars
  <2>5. IdleNeverReady'
    BY <1>6, FiberSets DEF IInv, TypeOK, FiberTypeOK, LoopTypeOK, IdleNeverReady,
       ResetAborts, Die, fiberVars, loopVars
  <2> QED
    BY <2>1, <2>2, <2>3, <2>4, <2>5 DEF IInv
<1>7. CASE DispatchIdle(s)
  <2>1. TypeOK'
    <3>1. LoopTypeOK'
      BY <1>7, FiberSets, Entries0 DEF IInv, TypeOK, LoopTypeOK, Pcs, LoopPcs,
         DispatchIdle, Goto, loopVars, countVars
    <3>2. FiberTypeOK' /\ QueueTypeOK' /\ FlagTypeOK' /\ TaskTypeOK'
      BY <1>7 DEF IInv, TypeOK, FiberTypeOK, QueueTypeOK, FlagTypeOK, TaskTypeOK,
         DispatchIdle, fiberVars, queueVars, flagVars, taskVars
    <3> QED
      BY <3>1, <3>2 DEF TypeOK
  <2>2. OwnContexts'
    BY <1>7 DEF IInv, OwnContexts, DispatchIdle, Goto, fiberVars
  <2>3. OnItsStack'
    BY <1>7, FiberSets DEF IInv, TypeOK, FiberTypeOK, LoopTypeOK, OnItsStack, StackOf,
       Alive, Target, LoopShape, LoopPcs, DispatchIdle, Goto, fiberVars, loopVars, flagVars
  <2>4. LoopShape'
    BY <1>7 DEF IInv, TypeOK, LoopTypeOK, LoopShape, InSwap, LoopPcs, DispatchIdle, Goto,
       loopVars, countVars, flagVars
  <2>5. IdleNeverReady'
    BY <1>7, FiberSets DEF IInv, TypeOK, FiberTypeOK, LoopTypeOK, IdleNeverReady,
       DispatchIdle, Goto, fiberVars, loopVars
  <2> QED
    BY <2>1, <2>2, <2>3, <2>4, <2>5 DEF IInv
<1>8. CASE Break(s)
  <2>1. TypeOK'
    <3>1. FiberTypeOK'
      BY <1>8, FiberSets DEF IInv, TypeOK, FiberTypeOK, OnItsStack, StackOf, State,
         Bodies, Break, Goto, CbReturns
    <3>2. LoopTypeOK'
      BY <1>8, FiberSets, Entries0 DEF IInv, TypeOK, LoopTypeOK, Pcs, LoopPcs, Break,
         Goto, CbReturns, loopVars, countVars
    <3>3. QueueTypeOK' /\ FlagTypeOK' /\ TaskTypeOK'
      BY <1>8 DEF IInv, TypeOK, QueueTypeOK, FlagTypeOK, TaskTypeOK, Break, queueVars,
         flagVars, taskVars
    <3> QED
      BY <3>1, <3>2, <3>3 DEF TypeOK
  <2>2. OwnContexts'
    BY <1>8 DEF IInv, OwnContexts, Break, Goto, CbReturns, fiberVars
  <2>3. OnItsStack'
    BY <1>8, FiberSets DEF IInv, TypeOK, FiberTypeOK, LoopTypeOK, OnItsStack, StackOf,
       Alive, Target, LoopShape, LoopPcs, Break, Goto, CbReturns, fiberVars, loopVars,
       flagVars
  <2>4. LoopShape'
    BY <1>8 DEF IInv, TypeOK, LoopTypeOK, LoopShape, InSwap, LoopPcs, Break, Goto,
       CbReturns, loopVars, countVars, flagVars
  <2>5. IdleNeverReady'
    BY <1>8, FiberSets DEF IInv, TypeOK, FiberTypeOK, LoopTypeOK, IdleNeverReady, Break,
       Goto, CbReturns, fiberVars, loopVars
  <2> QED
    BY <2>1, <2>2, <2>3, <2>4, <2>5 DEF IInv
<1>9. CASE BackToStart(s)
  <2>0. /\ m_ctx' \in [Fibers -> Contexts] /\ OwnContexts'
        /\ cpu' = [cpu EXCEPT ![s] = Main(s)]
    BY <1>9, FiberSets, SwapContextLoads DEF IInv, TypeOK, FiberTypeOK, OnItsStack, StackOf,
       Points, BackToStart, Goto, Back
  <2>1. TypeOK'
    <3>1. FiberTypeOK'
      BY <1>9, <2>0, FiberSets DEF IInv, TypeOK, FiberTypeOK, State, Bodies, BackToStart, Goto, Back
    <3>2. LoopTypeOK'
      BY <1>9, <2>0, FiberSets, Entries0 DEF IInv, TypeOK, LoopTypeOK, Pcs, LoopPcs,
         BackToStart, Goto, Back, loopVars, countVars
    <3>3. QueueTypeOK' /\ FlagTypeOK' /\ TaskTypeOK'
      BY <1>9 DEF IInv, TypeOK, QueueTypeOK, FlagTypeOK, TaskTypeOK, BackToStart,
         queueVars, flagVars, taskVars
    <3> QED
      BY <3>1, <3>2, <3>3 DEF TypeOK
  <2>3. OnItsStack'
    BY <1>9, <2>0, FiberSets DEF IInv, TypeOK, FiberTypeOK, LoopTypeOK, OnItsStack, StackOf,
       Alive, Target, LoopShape, LoopPcs, BackToStart, Goto, Back, fiberVars, loopVars,
       flagVars
  <2>4. LoopShape'
    BY <1>9, <2>0 DEF IInv, TypeOK, LoopTypeOK, LoopShape, InSwap, LoopPcs, BackToStart,
       Goto, Back, loopVars, countVars, flagVars
  <2>5. IdleNeverReady'
    BY <1>9, <2>0, FiberSets DEF IInv, TypeOK, FiberTypeOK, LoopTypeOK, IdleNeverReady,
       BackToStart, Goto, Back, fiberVars, loopVars
  <2> QED
    BY <2>1, <2>0, <2>3, <2>4, <2>5 DEF IInv
<1>10. CASE SwapInTarget(s)
  <2>0. /\ m_ctx' \in [Fibers -> Contexts] /\ OwnContexts'
        /\ cpu' = [cpu EXCEPT ![s] = Target(s)]
    <3>1. Target(s) \in Fibers
      BY <1>10, TargetType DEF SwapInTarget, Goto, InSwap
    <3>2. cpu[s] = Root(s) /\ Root(s) \in Fibers
      BY <1>10, FiberSets DEF IInv, OnItsStack, StackOf, SwapInTarget, Goto
    <3>3. SwapContext(s, Root(s), "loop", Target(s))
      BY <1>10 DEF SwapInTarget, SwapIn
    <3> QED
      BY <3>1, <3>2, <3>3, SwapContextLoads DEF IInv, TypeOK, Points
  <2>1. TypeOK'
    <3>1. FiberTypeOK'
      BY <1>10, <2>0, FiberSets, TargetType DEF IInv, TypeOK, FiberTypeOK, LoopTypeOK,
         OnItsStack, StackOf, InSwap, State, Bodies, SwapInTarget, Goto, SwapIn
    <3>2. LoopTypeOK'
      BY <1>10, <2>0, FiberSets, Entries0 DEF IInv, TypeOK, LoopTypeOK, Pcs, LoopPcs,
         SwapInTarget, Goto, SwapIn, loopVars, countVars
    <3>3. TaskTypeOK'
      BY <1>10, <2>0, TargetType DEF IInv, TypeOK, TaskTypeOK, FiberTypeOK, SwapInTarget,
         Goto, SwapIn
    <3>4. QueueTypeOK' /\ FlagTypeOK'
      BY <1>10 DEF IInv, TypeOK, QueueTypeOK, FlagTypeOK, SwapInTarget, queueVars, flagVars
    <3> QED
      BY <3>1, <3>2, <3>3, <3>4 DEF TypeOK
  <2>3. OnItsStack'
    BY <1>10, <2>0, FiberSets, TargetType DEF IInv, TypeOK, FiberTypeOK, LoopTypeOK,
       OnItsStack, StackOf, Alive, Target, LoopShape, LoopPcs, SwapInTarget, Goto, SwapIn,
       fiberVars, loopVars, flagVars
  <2>4. LoopShape'
    BY <1>10, <2>0 DEF IInv, TypeOK, LoopTypeOK, LoopShape, InSwap, LoopPcs, SwapInTarget,
       Goto, SwapIn, loopVars, countVars, flagVars
  <2>5. IdleNeverReady'
    BY <1>10, <2>0, FiberSets, TargetType DEF IInv, TypeOK, FiberTypeOK, LoopTypeOK,
       IdleNeverReady, OnItsStack, StackOf, Target, SwapInTarget, Goto, SwapIn, fiberVars,
       loopVars
  <2> QED
    BY <2>1, <2>0, <2>3, <2>4, <2>5 DEF IInv
<1>11. CASE SwapInAborts(s)
  <2>1. TypeOK'
    <3>1. LoopTypeOK'
      BY <1>11, FiberSets, Entries0 DEF IInv, TypeOK, LoopTypeOK, Pcs, LoopPcs,
         SwapInAborts, Die, loopVars, countVars
    <3>2. FiberTypeOK' /\ QueueTypeOK' /\ FlagTypeOK' /\ TaskTypeOK'
      BY <1>11 DEF IInv, TypeOK, FiberTypeOK, QueueTypeOK, FlagTypeOK, TaskTypeOK,
         SwapInAborts, fiberVars, queueVars, flagVars, taskVars
    <3> QED
      BY <3>1, <3>2 DEF TypeOK
  <2>2. OwnContexts'
    BY <1>11 DEF IInv, OwnContexts, SwapInAborts, Die, fiberVars
  <2>3. OnItsStack'
    BY <1>11, FiberSets DEF IInv, TypeOK, FiberTypeOK, LoopTypeOK, OnItsStack, StackOf,
       Alive, Target, LoopShape, LoopPcs, SwapInAborts, Die, fiberVars, loopVars, flagVars
  <2>4. LoopShape'
    BY <1>11 DEF IInv, TypeOK, LoopTypeOK, LoopShape, InSwap, LoopPcs, SwapInAborts, Die,
       loopVars, countVars, flagVars
  <2>5. IdleNeverReady'
    BY <1>11, FiberSets DEF IInv, TypeOK, FiberTypeOK, LoopTypeOK, IdleNeverReady,
       SwapInAborts, Die, fiberVars, loopVars
  <2> QED
    BY <2>1, <2>2, <2>3, <2>4, <2>5 DEF IInv
<1>12. CASE Leave(s)
  <2>0. /\ m_ctx' \in [Fibers -> Contexts] /\ OwnContexts'
        /\ cpu' = [cpu EXCEPT ![s] = Root(s)]
    <3>1. cpu[s] = Target(s) /\ Target(s) \in Fibers
      BY <1>12, TargetType DEF IInv, OnItsStack, StackOf, Leave, Goto, InSwap
    <3>2. t_fiber[s] = cpu[s]
      BY <1>12 DEF IInv, OnItsStack, Alive, LoopShape, LoopPcs, Leave, Goto
    <3>3. \E at \in Points : SwapContext(s, cpu[s], at, Root(s))
      BY <1>12, <3>2 DEF Leave, SwapOut, Points
    <3> QED
      BY <3>1, <3>3, FiberSets, SwapContextLoads DEF IInv, TypeOK
  <2>1. TypeOK'
    <3>1. FiberTypeOK'
      BY <1>12, <2>0, FiberSets, TargetType DEF IInv, TypeOK, FiberTypeOK, OnItsStack,
         StackOf, InSwap, State, Bodies, Leave, Goto, SwapOut
    <3>2. LoopTypeOK'
      BY <1>12, <2>0, FiberSets, Entries0 DEF IInv, TypeOK, LoopTypeOK, Pcs, LoopPcs,
         Leave, Goto, SwapOut, loopVars, countVars
    <3>3. QueueTypeOK' /\ FlagTypeOK' /\ TaskTypeOK'
      BY <1>12 DEF IInv, TypeOK, QueueTypeOK, FlagTypeOK, TaskTypeOK, Leave, queueVars,
         flagVars, taskVars
    <3> QED
      BY <3>1, <3>2, <3>3 DEF TypeOK
  <2>3. OnItsStack'
    BY <1>12, <2>0, FiberSets, TargetType DEF IInv, TypeOK, FiberTypeOK, LoopTypeOK,
       OnItsStack, StackOf, Alive, Target, LoopShape, LoopPcs, Leave, Goto, SwapOut,
       fiberVars, loopVars, flagVars
  <2>4. LoopShape'
    BY <1>12, <2>0 DEF IInv, TypeOK, LoopTypeOK, LoopShape, InSwap, LoopPcs, Leave, Goto,
       SwapOut, loopVars, countVars, flagVars
  <2>5. IdleNeverReady'
    BY <1>12, <2>0, FiberSets, TargetType DEF IInv, TypeOK, FiberTypeOK, LoopTypeOK,
       IdleNeverReady, OnItsStack, StackOf, Target, Leave, Goto, SwapOut, fiberVars,
       loopVars
  <2> QED
    BY <2>1, <2>0, <2>3, <2>4, <2>5 DEF IInv
<1>13. CASE After(s)
  <2>1. TypeOK'
    <3>1. LoopTypeOK'
      BY <1>13, FiberSets, Entries0 DEF IInv, TypeOK, LoopTypeOK, Pcs, LoopPcs, LoopShape,
         InSwap, After, Goto, Verdict, Finished, loopVars, countVars
    <3>2. FiberTypeOK' /\ QueueTypeOK' /\ FlagTypeOK' /\ TaskTypeOK'
      BY <1>13 DEF IInv, TypeOK, FiberTypeOK, QueueTypeOK, FlagTypeOK, TaskTypeOK, After,
         fiberVars, queueVars, flagVars, taskVars
    <3> QED
      BY <3>1, <3>2 DEF TypeOK
  <2>2. OwnContexts'
    BY <1>13 DEF IInv, OwnContexts, After, Goto, Verdict, Finished, fiberVars
  <2>3. OnItsStack'
    BY <1>13, FiberSets, TargetType DEF IInv, TypeOK, FiberTypeOK, LoopTypeOK, OnItsStack,
       StackOf, Alive, Target, LoopShape, LoopPcs, After, Goto, Verdict, Finished,
       fiberVars, loopVars, flagVars
  <2>4. LoopShape'
    BY <1>13 DEF IInv, TypeOK, LoopTypeOK, LoopShape, InSwap, LoopPcs, After, Goto, Verdict,
       Finished, loopVars, countVars, flagVars
  <2>5. IdleNeverReady'
    BY <1>13, FiberSets, TargetType DEF IInv, TypeOK, FiberTypeOK, LoopTypeOK,
       IdleNeverReady, OnItsStack, StackOf, Target, After, Goto, Verdict, Finished,
       fiberVars, loopVars
  <2> QED
    BY <2>1, <2>2, <2>3, <2>4, <2>5 DEF IInv
<1>14. CASE Requeue(s)
  <2>1. TypeOK'
    <3>1. QueueTypeOK'
      BY <1>14, FiberSets, Entries0, TargetType DEF IInv, TypeOK, QueueTypeOK,
         IdleNeverReady, InSwap, Requeue, Goto, NextRound
    <3>2. LoopTypeOK'
      BY <1>14, FiberSets, Entries0 DEF IInv, TypeOK, LoopTypeOK, Pcs, LoopPcs, Requeue,
         Goto, NextRound, loopVars, countVars
    <3>3. FiberTypeOK' /\ FlagTypeOK' /\ TaskTypeOK'
      BY <1>14 DEF IInv, TypeOK, FiberTypeOK, FlagTypeOK, TaskTypeOK, Requeue, fiberVars,
         flagVars, taskVars
    <3> QED
      BY <3>1, <3>2, <3>3 DEF TypeOK
  <2>2. OwnContexts'
    BY <1>14 DEF IInv, OwnContexts, Requeue, Goto, NextRound, fiberVars
  <2>3. OnItsStack'
    BY <1>14, FiberSets, TargetType DEF IInv, TypeOK, FiberTypeOK, LoopTypeOK, OnItsStack,
       StackOf, Alive, Target, LoopShape, LoopPcs, Requeue, Goto, NextRound, fiberVars,
       loopVars, flagVars
  <2>4. LoopShape'
    BY <1>14 DEF IInv, TypeOK, LoopTypeOK, LoopShape, InSwap, LoopPcs, Requeue, Goto,
       NextRound, loopVars, countVars, flagVars
  <2>5. IdleNeverReady'
    BY <1>14, FiberSets, TargetType DEF IInv, TypeOK, FiberTypeOK, LoopTypeOK,
       IdleNeverReady, OnItsStack, StackOf, Target, Requeue, Goto, NextRound, fiberVars,
       loopVars
  <2> QED
    BY <2>1, <2>2, <2>3, <2>4, <2>5 DEF IInv
<1>15. CASE Settle(s)
  <2>1. TypeOK'
    <3>1. FiberTypeOK'
      <4>1. CASE branch[s] = "cb"
        <5>1. NewFiber(cb_fiber[s], Null) /\ t_fiber' = t_fiber /\ cpu' = cpu
          BY <1>15, <4>1 DEF Settle, ResetFiber
        <5>2. cb_fiber[s] \in Fibers
          BY <1>15, <4>1, FiberSets DEF IInv, TypeOK, LoopTypeOK, LoopShape, Settle, Goto
        <5> QED
          BY <5>1, <5>2 DEF IInv, TypeOK, FiberTypeOK, NewFiber, EntryContext, State,
             Bodies, Contexts, Points
      <4>2. CASE branch[s] # "cb"
        BY <1>15, <4>2 DEF IInv, TypeOK, FiberTypeOK, Settle, fiberVars
      <4> QED
        BY <4>1, <4>2
    <3>2. LoopTypeOK'
      BY <1>15, FiberSets, Entries0 DEF IInv, TypeOK, LoopTypeOK, Pcs, LoopPcs, Settle,
         Goto, NextRound, ResetFiber, NewFiber, EntryContext, loopVars, countVars
    <3>3. QueueTypeOK' /\ FlagTypeOK' /\ TaskTypeOK'
      BY <1>15 DEF IInv, TypeOK, QueueTypeOK, FlagTypeOK, TaskTypeOK, Settle, queueVars,
         flagVars, taskVars
    <3> QED
      BY <3>1, <3>2, <3>3 DEF TypeOK
  <2>2. OwnContexts'
    BY <1>15, FiberSets DEF IInv, TypeOK, FiberTypeOK, LoopTypeOK, OwnContexts, Settle,
       Goto, NextRound, ResetFiber, NewFiber, EntryContext, fiberVars
  <2>3. OnItsStack'
    BY <1>15, FiberSets, TargetType DEF IInv, TypeOK, FiberTypeOK, LoopTypeOK, OnItsStack,
       StackOf, Alive, Target, LoopShape, LoopPcs, Settle, Goto, NextRound, ResetFiber,
       NewFiber, EntryContext, fiberVars, loopVars, flagVars
  <2>4. LoopShape'
    BY <1>15 DEF IInv, TypeOK, LoopTypeOK, LoopShape, InSwap, LoopPcs, Settle, Goto,
       NextRound, ResetFiber, NewFiber, EntryContext, loopVars, countVars, flagVars
  <2>5. IdleNeverReady'
    BY <1>15, FiberSets, TargetType DEF IInv, TypeOK, FiberTypeOK, LoopTypeOK,
       IdleNeverReady, OnItsStack, StackOf, Target, Settle, Goto, NextRound, ResetFiber,
       NewFiber, EntryContext, fiberVars, loopVars
  <2> QED
    BY <2>1, <2>2, <2>3, <2>4, <2>5 DEF IInv
<1>16. CASE SetHold(s)
  <2>1. TypeOK'
    <3>1. FiberTypeOK'
      BY <1>16, FiberSets, TargetType DEF IInv, TypeOK, FiberTypeOK, OnItsStack, StackOf,
         InSwap, State, Bodies, SetHold, Goto, NextRound
    <3>2. LoopTypeOK'
      BY <1>16, FiberSets, Entries0 DEF IInv, TypeOK, LoopTypeOK, Pcs, LoopPcs, SetHold,
         Goto, NextRound, loopVars, countVars
    <3>3. QueueTypeOK' /\ FlagTypeOK' /\ TaskTypeOK'
      BY <1>16 DEF IInv, TypeOK, QueueTypeOK, FlagTypeOK, TaskTypeOK, SetHold, queueVars,
         flagVars, taskVars
    <3> QED
      BY <3>1, <3>2, <3>3 DEF TypeOK
  <2>2. OwnContexts'
    BY <1>16 DEF IInv, OwnContexts, SetHold, Goto, NextRound, fiberVars
  <2>3. OnItsStack'
    BY <1>16, FiberSets, TargetType DEF IInv, TypeOK, FiberTypeOK, LoopTypeOK, OnItsStack,
       StackOf, Alive, Target, LoopShape, LoopPcs, SetHold, Goto, NextRound, fiberVars,
       loopVars, flagVars
  <2>4. LoopShape'
    BY <1>16 DEF IInv, TypeOK, LoopTypeOK, LoopShape, InSwap, LoopPcs, SetHold, Goto,
       NextRound, loopVars, countVars, flagVars
  <2>5. IdleNeverReady'
    BY <1>16, FiberSets, TargetType DEF IInv, TypeOK, FiberTypeOK, LoopTypeOK,
       IdleNeverReady, OnItsStack, StackOf, Target, SetHold, Goto, NextRound, fiberVars,
       loopVars
  <2> QED
    BY <2>1, <2>2, <2>3, <2>4, <2>5 DEF IInv
<1> QED
  BY <1>1, <1>2, <1>3, <1>4, <1>5, <1>6, <1>7, <1>8, <1>9, <1>10, <1>11, <1>12, <1>13, <1>14,
     <1>15, <1>16 DEF Loop

\* A step of the code on a fiber preserves it.
LEMMA TaskStep ==
    ASSUME IInv, NEW s \in Threads, Task(s)
    PROVE  IInv'
<1>1. CASE YieldToReady(s)
  <2>1. TypeOK'
    <3>1. FiberTypeOK'
      BY <1>1, FiberSets, TargetType DEF IInv, TypeOK, FiberTypeOK, OnItsStack, StackOf,
         Alive, LoopShape, LoopPcs, InSwap, State, Bodies, YieldToReady, Goto,
         MarkCurrent, Running
    <3>2. LoopTypeOK'
      BY <1>1, FiberSets, Entries0 DEF IInv, TypeOK, LoopTypeOK, Pcs, LoopPcs,
         YieldToReady, Goto, MarkCurrent, Running, loopVars, countVars
    <3>3. TaskTypeOK'
      BY <1>1, TargetType DEF IInv, TypeOK, TaskTypeOK, YieldToReady, Goto, MarkCurrent, Running
    <3>4. QueueTypeOK' /\ FlagTypeOK'
      BY <1>1 DEF IInv, TypeOK, QueueTypeOK, FlagTypeOK, YieldToReady, queueVars, flagVars
    <3> QED
      BY <3>1, <3>2, <3>3, <3>4 DEF TypeOK
  <2>2. OwnContexts'
    BY <1>1 DEF IInv, OwnContexts, YieldToReady, Goto, MarkCurrent, Running, fiberVars
  <2>3. OnItsStack'
    BY <1>1, FiberSets, TargetType DEF IInv, TypeOK, FiberTypeOK, LoopTypeOK, OnItsStack,
       StackOf, Alive, Target, LoopShape, LoopPcs, YieldToReady, Goto, MarkCurrent, Running,
       fiberVars, loopVars, flagVars
  <2>4. LoopShape'
    BY <1>1 DEF IInv, TypeOK, LoopTypeOK, LoopShape, InSwap, LoopPcs, YieldToReady, Goto,
       MarkCurrent, Running, loopVars, countVars, flagVars
  <2>5. IdleNeverReady'
    <3>1. t_fiber[s] \in TaskFibers
      BY <1>1 DEF IInv, OnItsStack, Alive, LoopShape, LoopPcs, YieldToReady, Goto, Running
    <3>2. \A t \in Threads : m_state'[Idle(t)] = m_state[Idle(t)]
      BY <1>1, <3>1, FiberSets DEF IInv, TypeOK, FiberTypeOK, YieldToReady, MarkCurrent
    <3> QED
      BY <1>1, <3>2 DEF IInv, TypeOK, LoopTypeOK, IdleNeverReady, YieldToReady, Goto, loopVars
  <2> QED
    BY <2>1, <2>2, <2>3, <2>4, <2>5 DEF IInv
<1>2. CASE YeidToHold(s)
  <2>1. TypeOK'
    <3>1. FiberTypeOK'
      BY <1>2, FiberSets, TargetType DEF IInv, TypeOK, FiberTypeOK, OnItsStack, StackOf,
         Alive, LoopShape, LoopPcs, InSwap, State, Bodies, YeidToHold, Goto, MarkCurrent,
         Running
    <3>2. LoopTypeOK'
      BY <1>2, FiberSets, Entries0 DEF IInv, TypeOK, LoopTypeOK, Pcs, LoopPcs, YeidToHold,
         Goto, MarkCurrent, Running, loopVars, countVars
    <3>3. QueueTypeOK' /\ FlagTypeOK' /\ TaskTypeOK'
      BY <1>2 DEF IInv, TypeOK, QueueTypeOK, FlagTypeOK, TaskTypeOK, YeidToHold,
         queueVars, flagVars, taskVars
    <3> QED
      BY <3>1, <3>2, <3>3 DEF TypeOK
  <2>2. OwnContexts'
    BY <1>2 DEF IInv, OwnContexts, YeidToHold, Goto, MarkCurrent, Running, fiberVars
  <2>3. OnItsStack'
    BY <1>2, FiberSets, TargetType DEF IInv, TypeOK, FiberTypeOK, LoopTypeOK, OnItsStack,
       StackOf, Alive, Target, LoopShape, LoopPcs, YeidToHold, Goto, MarkCurrent, Running,
       fiberVars, loopVars, flagVars
  <2>4. LoopShape'
    BY <1>2 DEF IInv, TypeOK, LoopTypeOK, LoopShape, InSwap, LoopPcs, YeidToHold, Goto,
       MarkCurrent, Running, loopVars, countVars, flagVars
  <2>5. IdleNeverReady'
    BY <1>2, FiberSets, TargetType DEF IInv, TypeOK, FiberTypeOK, LoopTypeOK,
       IdleNeverReady, OnItsStack, StackOf, Target, YeidToHold, Goto, MarkCurrent, Running,
       fiberVars, loopVars
  <2> QED
    BY <2>1, <2>2, <2>3, <2>4, <2>5 DEF IInv
<1>3. CASE FnReturns(s)
  <2>1. TypeOK'
    <3>1. FiberTypeOK'
      BY <1>3, FiberSets, TargetType DEF IInv, TypeOK, FiberTypeOK, OnItsStack, StackOf,
         InSwap, State, Bodies, FnReturns, Goto, CbReturns
    <3>2. LoopTypeOK'
      BY <1>3, FiberSets, Entries0 DEF IInv, TypeOK, LoopTypeOK, Pcs, LoopPcs, FnReturns,
         Goto, CbReturns, loopVars, countVars
    <3>3. TaskTypeOK'
      BY <1>3, TargetType DEF IInv, TypeOK, TaskTypeOK, FnReturns, Goto, CbReturns
    <3>4. QueueTypeOK' /\ FlagTypeOK'
      BY <1>3 DEF IInv, TypeOK, QueueTypeOK, FlagTypeOK, FnReturns, queueVars, flagVars
    <3> QED
      BY <3>1, <3>2, <3>3, <3>4 DEF TypeOK
  <2>2. OwnContexts'
    BY <1>3 DEF IInv, OwnContexts, FnReturns, Goto, CbReturns, fiberVars
  <2>3. OnItsStack'
    BY <1>3, FiberSets, TargetType DEF IInv, TypeOK, FiberTypeOK, LoopTypeOK, OnItsStack,
       StackOf, Alive, Target, LoopShape, LoopPcs, FnReturns, Goto, CbReturns, fiberVars,
       loopVars, flagVars
  <2>4. LoopShape'
    BY <1>3 DEF IInv, TypeOK, LoopTypeOK, LoopShape, InSwap, LoopPcs, FnReturns, Goto,
       CbReturns, loopVars, countVars, flagVars
  <2>5. IdleNeverReady'
    BY <1>3, FiberSets, TargetType DEF IInv, TypeOK, FiberTypeOK, LoopTypeOK,
       IdleNeverReady, OnItsStack, StackOf, Target, FnReturns, Goto, CbReturns, fiberVars,
       loopVars
  <2> QED
    BY <2>1, <2>2, <2>3, <2>4, <2>5 DEF IInv
<1>4. CASE FnThrows(s)
  <2>1. TypeOK'
    <3>1. FiberTypeOK'
      BY <1>4, FiberSets, TargetType DEF IInv, TypeOK, FiberTypeOK, OnItsStack, StackOf,
         InSwap, State, Bodies, FnThrows, Goto, CbThrows, Running
    <3>2. LoopTypeOK'
      BY <1>4, FiberSets, Entries0 DEF IInv, TypeOK, LoopTypeOK, Pcs, LoopPcs, FnThrows,
         Goto, CbThrows, Running, loopVars, countVars
    <3>3. TaskTypeOK'
      BY <1>4, TargetType DEF IInv, TypeOK, TaskTypeOK, FnThrows, Goto, CbThrows, Running
    <3>4. QueueTypeOK' /\ FlagTypeOK'
      BY <1>4 DEF IInv, TypeOK, QueueTypeOK, FlagTypeOK, FnThrows, queueVars, flagVars
    <3> QED
      BY <3>1, <3>2, <3>3, <3>4 DEF TypeOK
  <2>2. OwnContexts'
    BY <1>4 DEF IInv, OwnContexts, FnThrows, Goto, CbThrows, Running, fiberVars
  <2>3. OnItsStack'
    BY <1>4, FiberSets, TargetType DEF IInv, TypeOK, FiberTypeOK, LoopTypeOK, OnItsStack,
       StackOf, Alive, Target, LoopShape, LoopPcs, FnThrows, Goto, CbThrows, Running,
       fiberVars, loopVars, flagVars
  <2>4. LoopShape'
    BY <1>4 DEF IInv, TypeOK, LoopTypeOK, LoopShape, InSwap, LoopPcs, FnThrows, Goto,
       CbThrows, Running, loopVars, countVars, flagVars
  <2>5. IdleNeverReady'
    BY <1>4, FiberSets, TargetType DEF IInv, TypeOK, FiberTypeOK, LoopTypeOK,
       IdleNeverReady, OnItsStack, StackOf, Target, FnThrows, Goto, CbThrows, Running,
       fiberVars, loopVars
  <2> QED
    BY <2>1, <2>2, <2>3, <2>4, <2>5 DEF IInv
<1> QED
  BY <1>1, <1>2, <1>3, <1>4 DEF Task

\* Every step preserves the invariant.
LEMMA NextIInv == IInv /\ [Next]_vars => IInv'
<1> SUFFICES ASSUME IInv, [Next]_vars PROVE IInv'
  OBVIOUS
<1>1. ASSUME NEW s \in Threads, Life(s) \/ Callers(s) \/ Loop(s) \/ Task(s) PROVE IInv'
  BY <1>1, LifeStep, CallersStep, LoopStep, TaskStep
<1>2. CASE UNCHANGED vars
  <2>1. TypeOK'
    BY <1>2 DEF IInv, TypeOK, FiberTypeOK, QueueTypeOK, FlagTypeOK, LoopTypeOK, TaskTypeOK,
       vars, schedVars, fiberVars, queueVars, flagVars, countVars, loopVars, taskVars
  <2>2. OwnContexts' /\ IdleNeverReady'
    BY <1>2 DEF IInv, OwnContexts, IdleNeverReady, vars, schedVars, fiberVars, loopVars
  <2>3. OnItsStack' /\ LoopShape'
    BY <1>2 DEF IInv, OnItsStack, StackOf, Alive, Target, LoopShape, vars, schedVars,
       fiberVars, flagVars, countVars, loopVars
  <2> QED
    BY <2>1, <2>2, <2>3 DEF IInv
<1> QED
  BY <1>1, <1>2 DEF Next, Terminated

\* The inductive invariant holds in every behaviour, whatever the callers do.
THEOREM Inductive == Spec => []IInv
BY InitIInv, NextIInv, PTL DEF Spec

\* No operation of Fiber and Scheduler leaves a variable outside its type; in
\* particular neither thread counter is decremented below zero.
THEOREM TypeCorrect == Spec => []TypeOK
<1>1. IInv => TypeOK
  BY DEF IInv
<1> QED
  BY <1>1, Inductive, PTL

\* Every thread executes on the stack its loop's position calls for and GetThis()
\* answers the fiber that executes, with any number of schedulers, for callers that
\* schedule any fiber anywhere, up to a failed assertion.
THEOREM StacksCorrect == Spec => []OnItsStack
<1>1. IInv => OnItsStack
  BY DEF IInv
<1> QED
  BY <1>1, Inductive, PTL

-----------------------------------------------------------------------------
(* What a task may rely on.                                                *)

\* Callers keep to the wake-up protocol, and a fiber goes to another scheduler only by
\* code of the thread it was at (see MayWake).
Discipline == ~StaleWakes /\ ~HandOff

\* A branch of the loop is under way, from the choice of its fiber to the end of the round.
SwapPcs == InSwap \cup {"requeue", "settle", "sethold"}

\* The fiber the loop of s has in its hands.
Held(s) ==
    IF pc[s] = "picked" THEN ft[s].fiber
    ELSE IF pc[s] \in SwapPcs THEN Target(s) ELSE Null

QueuedCbs(s) == {e.cb : e \in ToSet(m_fibers[s])}

\* A fiber that can be switched to.  A callback's fiber that is INIT is the loop's
\* own, and nobody else's to schedule.
Waiting(f) == m_state[f] \in {"HOLD", "READY"} \/ (m_state[f] = "INIT" /\ f \in UserFibers)

\* An entry is a fiber or a callback, and neither is in two entries.
Orderly(q) ==
    /\ \A i \in DOMAIN q : q[i].fiber = Null <=> q[i].cb # Null
    /\ \A i, j \in DOMAIN q : i # j =>
           /\ q[i].fiber # Null => q[i].fiber # q[j].fiber
           /\ q[i].cb # Null => q[i].cb # q[j].cb
QueueInv == \A s \in Threads : Orderly(m_fibers[s])

\* run's locals are empty where the loop does not use them.
LocalInv ==
    \A s \in Threads :
        /\ pc[s] \notin {"picked"} \cup SwapPcs => ft[s].fiber = Null /\ ft[s].cb = Null
        /\ pc[s] \in SwapPcs => ft[s].cb = Null
        /\ pc[s] \in SwapPcs /\ branch[s] # "fiber" => ft[s].fiber = Null
        /\ pc[s] \notin {"fetch", "picked"} \cup SwapPcs => cb_fiber[s] = Null
        /\ ft[s].fiber = Null \/ ft[s].cb = Null

\* A fiber is queued, held and kept for reuse by the scheduler it was last given to
\* only; a callback's fiber that does not exist has none.
HomeInv ==
    /\ \A s \in Threads : \A f \in TaskFibers :
           f \in QueuedFibers(s) \/ Held(s) = f \/ cb_fiber[s] = f => home[f] = s
    /\ \A f \in CbFibers : m_state[f] = "none" => home[f] = Null /\ m_cb[f] = Null
    /\ \A f \in UserFibers : m_state[f] # "none"

\* The state of the fiber f fits the place of s in the loop.
Fits(s, f) ==
    /\ pc[s] = "picked" /\ f # Null => Waiting(f)
    /\ pc[s] = "swap" /\ branch[s] = "fiber" => Waiting(f)
    /\ pc[s] = "swap" /\ branch[s] # "fiber" => m_state[f] = "INIT"
    /\ pc[s] = "task" => m_state[f] = "EXEC"
    /\ pc[s] = "yielding" => m_state[f] \in {"READY", "HOLD"}
    /\ pc[s] = "ending" => m_state[f] \in {"TERM", "EXCEPT"}
    /\ pc[s] = "after" => m_state[f] \in {"READY", "HOLD", "TERM", "EXCEPT"}
    /\ pc[s] = "requeue" => m_state[f] = "READY"
    /\ pc[s] = "settle" => m_state[f] \in {"TERM", "EXCEPT"}
    /\ pc[s] = "sethold" => m_state[f] = "HOLD"
StageInv == \A s \in Threads : Fits(s, Held(s))

\* What is queued can be switched to or executes; a READY fiber is queued or held.
QueuedInv ==
    \A s \in Threads : \A f \in TaskFibers :
        f \in QueuedFibers(s) =>
            /\ Waiting(f) \/ m_state[f] = "EXEC"
            /\ m_state[f] = "READY" => Held(s) # f
ReadyInv ==
    \A f \in TaskFibers :
        m_state[f] = "READY" =>
            /\ home[f] \in Threads
            /\ pc[home[f]] # "gone" => f \in QueuedFibers(home[f]) \/ Held(home[f]) = f

\* A context is a saved one unless its fiber executes or is about to leave.
SavedInv ==
    /\ \A f \in TaskFibers :
           /\ m_state[f] = "INIT" => m_ctx[f].at = "entry"
           /\ m_state[f] \in {"HOLD", "READY"} =>
                  m_ctx[f].at = "yield"
                  \/ \E s \in Threads : pc[s] = "yielding" /\ Held(s) = f
    /\ \A s \in Threads : m_state[Idle(s)] = "INIT" => m_ctx[Idle(s)].at = "entry"

\* The fiber kept for the next callback is free.
KeptInv ==
    \A s \in Threads :
        cb_fiber[s] # Null /\ ~(pc[s] \in SwapPcs /\ branch[s] = "cb")
            => m_state[cb_fiber[s]] = "INIT" /\ m_cb[cb_fiber[s]] = Null

\* The idle fiber is entered once, and never yields.
IdleInv ==
    \A s \in Threads :
        /\ m_state[Idle(s)] \in {"none", "INIT", "EXEC", "TERM"}
        /\ pc[s] \in LoopPcs \ {"prologue"} => m_state[Idle(s)] # "none"
        /\ m_state[Idle(s)] = "EXEC" => pc[s] = "task" /\ branch[s] = "idle"

\* A callback belongs to the scheduler it was handed to; in a queue or in ft it has
\* not begun, and the fiber named after it does not exist yet.
OwnerInv ==
    /\ \A s, t \in Threads : \A c \in Cbs :
           c \in ToSet(submitted[s]) /\ c \in ToSet(submitted[t]) => s = t
    /\ \A s \in Threads : \A c \in Cbs :
           /\ c \in QueuedCbs(s) \/ ft[s].cb = c =>
                 c \in ToSet(submitted[s]) /\ c \notin ended /\ m_state[CbFiber(c)] = "none"
           /\ c \in QueuedCbs(s) => ft[s].cb # c
    /\ \A c \in Cbs : ~Submitted(c) => c \notin ended /\ m_state[CbFiber(c)] = "none"

\* A callback on a fiber is there only, and has ended only if it threw.
BodyInv ==
    /\ \A f \in Fibers \ CbFibers : m_cb[f] \in {"body", Null}
    /\ \A f \in CbFibers : m_cb[f] \in Cbs \cup {Null}
    /\ \A f \in CbFibers : \A c \in Cbs :
          m_cb[f] = c =>
             /\ Submitted(c)
             /\ \A s \in Threads : c \notin QueuedCbs(s) /\ ft[s].cb # c
             /\ c \in ended <=> m_state[f] = "EXCEPT"
    /\ \A f, g \in CbFibers : m_cb[f] = m_cb[g] /\ m_cb[f] # Null => f = g
    /\ \A f \in CbFibers : m_state[f] = "TERM" => m_cb[f] = Null

\* A callback that has not ended is somewhere.
KeepInv ==
    \A s \in Threads : \A c \in Cbs :
        c \in ToSet(submitted[s]) /\ pc[s] # "gone" /\ c \notin ended =>
            \/ c \in QueuedCbs(s) \/ ft[s].cb = c
            \/ \E f \in CbFibers : m_cb[f] = c

\* The inductive invariant behind what a task may rely on.
FiberPart ==
    /\ QueueInv /\ LocalInv /\ HomeInv /\ StageInv /\ QueuedInv
    /\ ReadyInv /\ SavedInv /\ KeptInv /\ IdleInv
CbPart == OwnerInv /\ BodyInv /\ KeepInv
TaskInv == FiberPart /\ CbPart

-----------------------------------------------------------------------------
(* Queues.                                                                 *)

\* Taking an entry out shifts the ones behind it.
LEMMA RemoveAtElem ==
    ASSUME NEW S, NEW q \in Seq(S), NEW i \in DOMAIN q
    PROVE  /\ DOMAIN RemoveAt(q, i) = 1..(Len(q) - 1)
           /\ \A j \in 1..(Len(q) - 1) :
                  RemoveAt(q, i)[j] = IF j < i THEN q[j] ELSE q[j + 1]
<1>1. i \in 1..Len(q) /\ Len(q) \in Nat
  OBVIOUS
<1>2. /\ SubSeq(q, 1, i - 1) \in Seq(S) /\ Len(SubSeq(q, 1, i - 1)) = i - 1
      /\ \A j \in 1..(i - 1) : SubSeq(q, 1, i - 1)[j] = q[j]
  BY <1>1, SubSeqProperties
<1>3. /\ SubSeq(q, i + 1, Len(q)) \in Seq(S) /\ Len(SubSeq(q, i + 1, Len(q))) = Len(q) - i
      /\ \A j \in 1..(Len(q) - i) : SubSeq(q, i + 1, Len(q))[j] = q[i + j]
  BY <1>1, SubSeqProperties
<1>4. PICK a \in Seq(S), b \in Seq(S) :
          a = SubSeq(q, 1, i - 1) /\ b = SubSeq(q, i + 1, Len(q))
  BY <1>2, <1>3
<1>5. RemoveAt(q, i) = a \o b
  BY <1>4 DEF RemoveAt
<1>6. /\ Len(a) = i - 1 /\ \A j \in 1..(i - 1) : a[j] = q[j]
      /\ Len(b) = Len(q) - i /\ \A j \in 1..(Len(q) - i) : b[j] = q[i + j]
  BY <1>2, <1>3, <1>4
<1>7. DOMAIN (a \o b) = 1..(Len(q) - 1)
  BY <1>1, <1>6
<1>8. ASSUME NEW j \in 1..(Len(q) - 1)
      PROVE  (a \o b)[j] = IF j < i THEN q[j] ELSE q[j + 1]
  <2>1. CASE j < i
    BY <1>1, <1>6, <2>1
  <2>2. CASE ~(j < i)
    <3>1. (a \o b)[j] = b[j - Len(a)]
      BY <1>1, <1>6, <2>2
    <3>2. j - Len(a) \in 1..(Len(q) - i) /\ i + (j - Len(a)) = j + 1
      BY <1>1, <1>6, <2>2
    <3> QED BY <1>6, <2>2, <3>1, <3>2
  <2> QED BY <2>1, <2>2
<1> QED BY <1>5, <1>7, <1>8

\* An orderly queue less its i-th entry is orderly, and has lost that entry only.
LEMMA OrderlyRemove ==
    ASSUME NEW q \in Seq(Entry), NEW i \in DOMAIN q, Orderly(q)
    PROVE  Orderly(RemoveAt(q, i)) /\ ToSet(RemoveAt(q, i)) = ToSet(q) \ {q[i]}
<1>1. i \in 1..Len(q) /\ Len(q) \in Nat /\ DOMAIN q = 1..Len(q)
  OBVIOUS
<1>2. PICK r : r = RemoveAt(q, i)
  OBVIOUS
<1>3. /\ DOMAIN r = 1..(Len(q) - 1)
      /\ \A j \in 1..(Len(q) - 1) : r[j] = IF j < i THEN q[j] ELSE q[j + 1]
  BY <1>2, RemoveAtElem
<1>4. \A j \in DOMAIN r : \E k \in DOMAIN q : k # i /\ r[j] = q[k] /\ k = IF j < i THEN j ELSE j + 1
  BY <1>1, <1>3
<1>5. \A k \in DOMAIN q : k # i => \E j \in DOMAIN r : r[j] = q[k]
  <2> TAKE k \in DOMAIN q
  <2> HAVE k # i
  <2>1. CASE k < i
    BY <1>1, <1>3, <2>1
  <2>2. CASE k > i
    <3>1. k - 1 \in 1..(Len(q) - 1) /\ ~(k - 1 < i) /\ (k - 1) + 1 = k
      BY <1>1, <2>2
    <3> QED BY <1>3, <3>1
  <2> QED BY <1>1, <2>1, <2>2
<1>6. \A k \in DOMAIN q : k # i => q[k] # q[i]
  BY DEF Orderly
<1>7. ToSet(r) = ToSet(q) \ {q[i]}
  BY <1>4, <1>5, <1>6 DEF ToSet
<1>8. \A j, k \in DOMAIN r : j # k => \E m, n \in DOMAIN q : m # n /\ r[j] = q[m] /\ r[k] = q[n]
  <2> TAKE j, k \in DOMAIN r
  <2> HAVE j # k
  <2>1. PICK m \in DOMAIN q : r[j] = q[m] /\ m = IF j < i THEN j ELSE j + 1
    BY <1>4
  <2>2. PICK n \in DOMAIN q : r[k] = q[n] /\ n = IF k < i THEN k ELSE k + 1
    BY <1>4
  <2>3. m # n
    BY <1>1, <1>3, <2>1, <2>2
  <2> QED BY <2>1, <2>2, <2>3
<1>9. Orderly(r)
  BY <1>4, <1>8 DEF Orderly
<1> QED BY <1>2, <1>7, <1>9

\* An orderly queue with a new entry behind it is orderly.
LEMMA OrderlyAppend ==
    ASSUME NEW q \in Seq(Entry), NEW e \in Entry, Orderly(q), e.fiber = Null <=> e.cb # Null,
           \A x \in ToSet(q) : /\ e.fiber # Null => x.fiber # e.fiber
                               /\ e.cb # Null => x.cb # e.cb
    PROVE  Orderly(Append(q, e)) /\ ToSet(Append(q, e)) = ToSet(q) \cup {e}
<1>1. PICK r : r = Append(q, e)
  OBVIOUS
<1>2. /\ Len(q) \in Nat /\ DOMAIN q = 1..Len(q) /\ DOMAIN r = 1..(Len(q) + 1)
      /\ r[Len(q) + 1] = e /\ \A j \in DOMAIN q : r[j] = q[j]
  BY <1>1
<1>3. \A j \in DOMAIN r : j \in DOMAIN q \/ j = Len(q) + 1
  BY <1>2
<1>4. \A j \in DOMAIN q : j \in DOMAIN r /\ Len(q) + 1 \in DOMAIN r /\ q[j] \in ToSet(q)
  BY <1>2 DEF ToSet
<1>5. Len(q) + 1 \in DOMAIN r
  BY <1>2
<1>6. ToSet(r) = ToSet(q) \cup {e}
  BY <1>2, <1>3, <1>4, <1>5 DEF ToSet
<1>7. Orderly(r)
  BY <1>2, <1>3, <1>4 DEF Orderly
<1> QED BY <1>1, <1>6, <1>7

\* What push_back adds to a list.
LEMMA ToSetAppend ==
    ASSUME NEW S, NEW q \in Seq(S), NEW e \in S
    PROVE  ToSet(Append(q, e)) = ToSet(q) \cup {e}
<1>1. PICK r : r = Append(q, e)
  OBVIOUS
<1>2. /\ Len(q) \in Nat /\ DOMAIN q = 1..Len(q) /\ DOMAIN r = 1..(Len(q) + 1)
      /\ r[Len(q) + 1] = e /\ \A j \in DOMAIN q : r[j] = q[j]
  BY <1>1
<1>3. /\ \A j \in DOMAIN r : j \in DOMAIN q \/ j = Len(q) + 1
      /\ \A j \in DOMAIN q : j \in DOMAIN r
      /\ Len(q) + 1 \in DOMAIN r
  BY <1>2
<1>4. ToSet(r) = ToSet(q) \cup {e}
  BY <1>2, <1>3 DEF ToSet
<1> QED BY <1>1, <1>4

\* What a queue that is not touched has to show.
LEMMA QueueSame ==
    ASSUME NEW s, m_fibers'[s] = m_fibers[s]
    PROVE  /\ QueuedFibers(s)' = QueuedFibers(s) /\ QueuedCbs(s)' = QueuedCbs(s)
           /\ QueuedFor(s)' = QueuedFor(s) /\ Orderly(m_fibers[s])' = Orderly(m_fibers[s])
BY DEF QueuedFibers, QueuedCbs, QueuedFor, Orderly

\* push_back of a fiber that is not in the queue of s.
LEMMA QueueFiber ==
    ASSUME IInv, QueueInv, NEW s \in Threads, NEW f \in TaskFibers, f \notin QueuedFibers(s),
           NEW thr \in Pins \cup {AnyThread},
           m_fibers' = [m_fibers EXCEPT ![s] = Append(@, FiberEntry(f, thr))]
    PROVE  /\ QueueInv' /\ QueuedFibers(s)' = QueuedFibers(s) \cup {f}
           /\ \A c \in Cbs : c \in QueuedCbs(s)' <=> c \in QueuedCbs(s)
           /\ QueuedFor(s)' = QueuedFor(s)
           /\ \A u \in Threads : u # s => m_fibers'[u] = m_fibers[u]
<1>1. m_fibers \in [Threads -> Seq(Entry)]
  BY DEF IInv, TypeOK, QueueTypeOK
<1>2. PICK e \in Entry : e = FiberEntry(f, thr)
  BY Entries0
<1>3. e.fiber = f /\ e.cb = Null /\ f # Null
  BY <1>2, FiberSets DEF FiberEntry
<1>4. m_fibers'[s] = Append(m_fibers[s], e) /\ \A u \in Threads : u # s => m_fibers'[u] = m_fibers[u]
  BY <1>1, <1>2
<1>5. \A x \in ToSet(m_fibers[s]) : x.fiber # e.fiber
  BY <1>3 DEF QueuedFibers
<1>6. Orderly(m_fibers'[s]) /\ ToSet(m_fibers'[s]) = ToSet(m_fibers[s]) \cup {e}
  BY <1>1, <1>3, <1>4, <1>5, OrderlyAppend DEF QueueInv
<1>7. QueueInv'
  BY <1>4, <1>6 DEF QueueInv
<1>8. QueuedFibers(s)' = QueuedFibers(s) \cup {f}
  BY <1>3, <1>6 DEF QueuedFibers
<1>9. \A c \in Cbs : c \in QueuedCbs(s)' <=> c \in QueuedCbs(s)
  BY <1>3, <1>6, FiberSets DEF QueuedCbs
<1>10. QueuedFor(s)' = QueuedFor(s)
  BY <1>3, <1>6 DEF QueuedFor
<1> QED BY <1>4, <1>7, <1>8, <1>9, <1>10

\* push_back of a callback that is not in the queue of s.
LEMMA QueueCb ==
    ASSUME IInv, QueueInv, NEW s \in Threads, NEW c \in Cbs, c \notin QueuedCbs(s),
           NEW thr \in Pins \cup {AnyThread},
           m_fibers' = [m_fibers EXCEPT ![s] = Append(@, CbEntry(c, thr))]
    PROVE  /\ QueueInv' /\ \A f \in TaskFibers : f \in QueuedFibers(s)' <=> f \in QueuedFibers(s)
           /\ \A d \in Cbs : d \in QueuedCbs(s)' <=> d \in QueuedCbs(s) \/ d = c
           /\ QueuedFor(s) \subseteq QueuedFor(s)'
           /\ \A u \in Threads : u # s => m_fibers'[u] = m_fibers[u]
<1>1. m_fibers \in [Threads -> Seq(Entry)]
  BY DEF IInv, TypeOK, QueueTypeOK
<1>2. PICK e \in Entry : e = CbEntry(c, thr)
  BY Entries0
<1>3. e.fiber = Null /\ e.cb = c /\ c # Null
  BY <1>2, FiberSets DEF CbEntry
<1>4. m_fibers'[s] = Append(m_fibers[s], e) /\ \A u \in Threads : u # s => m_fibers'[u] = m_fibers[u]
  BY <1>1, <1>2
<1>5. \A x \in ToSet(m_fibers[s]) : x.cb # e.cb
  BY <1>3 DEF QueuedCbs
<1>6. Orderly(m_fibers'[s]) /\ ToSet(m_fibers'[s]) = ToSet(m_fibers[s]) \cup {e}
  BY <1>1, <1>3, <1>4, <1>5, OrderlyAppend DEF QueueInv
<1>7. QueueInv'
  BY <1>4, <1>6 DEF QueueInv
<1>8. \A f \in TaskFibers : f \in QueuedFibers(s)' <=> f \in QueuedFibers(s)
  BY <1>3, <1>6, FiberSets DEF QueuedFibers
<1>9. \A d \in Cbs : d \in QueuedCbs(s)' <=> d \in QueuedCbs(s) \/ d = c
  BY <1>3, <1>6 DEF QueuedCbs
<1>10. QueuedFor(s) \subseteq QueuedFor(s)'
  BY <1>6 DEF QueuedFor
<1> QED BY <1>4, <1>7, <1>8, <1>9, <1>10

\* The queue of s has lost the entry e and nothing else.
Erased(s, e) ==
    /\ QueueInv' /\ e \in Entry /\ (e.fiber = Null <=> e.cb # Null)
    /\ \A f \in TaskFibers : f \in QueuedFibers(s)' <=> f \in QueuedFibers(s) /\ f # e.fiber
    /\ \A c \in Cbs : c \in QueuedCbs(s)' <=> c \in QueuedCbs(s) /\ c # e.cb
    /\ e.fiber \in QueuedFibers(s) /\ e.cb \in QueuedCbs(s)
    /\ \A c \in QueuedFor(s) : c \in QueuedFor(s)' \/ c = e.cb
    /\ \A u \in Threads : u # s => m_fibers'[u] = m_fibers[u]

\* The erase of the scan.
LEMMA QueueErase ==
    ASSUME IInv, QueueInv, NEW s \in Threads, NEW i \in DOMAIN m_fibers[s], NEW e,
           e = m_fibers[s][i], m_fibers' = [m_fibers EXCEPT ![s] = RemoveAt(@, i)]
    PROVE  Erased(s, e)
<1>1. m_fibers \in [Threads -> Seq(Entry)]
  BY DEF IInv, TypeOK, QueueTypeOK
<1>2. PICK q \in Seq(Entry) : q = m_fibers[s]
  BY <1>1
<1>3. i \in DOMAIN q /\ e = q[i] /\ e \in Entry /\ Orderly(q) /\ e \in ToSet(q)
  BY <1>2 DEF QueueInv, ToSet
<1>4. m_fibers'[s] = RemoveAt(q, i) /\ \A u \in Threads : u # s => m_fibers'[u] = m_fibers[u]
  BY <1>1, <1>2
<1>5. Orderly(m_fibers'[s]) /\ ToSet(m_fibers'[s]) = ToSet(q) \ {e}
  BY <1>3, <1>4, OrderlyRemove
<1>6. \A x \in ToSet(q) : x # e =>
         /\ e.fiber # Null => x.fiber # e.fiber
         /\ e.cb # Null => x.cb # e.cb
  BY <1>3 DEF Orderly, ToSet
<1>7. QueueInv' /\ (e.fiber = Null <=> e.cb # Null)
  BY <1>3, <1>4, <1>5 DEF QueueInv, Orderly
<1>8. \A f \in TaskFibers : f \in QueuedFibers(s)' <=> f \in QueuedFibers(s) /\ f # e.fiber
  BY <1>2, <1>5, <1>6, FiberSets DEF QueuedFibers
<1>9. \A c \in Cbs : c \in QueuedCbs(s)' <=> c \in QueuedCbs(s) /\ c # e.cb
  BY <1>2, <1>5, <1>6, FiberSets DEF QueuedCbs
<1>10. \A c \in QueuedFor(s) : c \in QueuedFor(s)' \/ c = e.cb
  BY <1>2, <1>5 DEF QueuedFor
<1>11. e.fiber \in QueuedFibers(s) /\ e.cb \in QueuedCbs(s)
  BY <1>2, <1>3 DEF QueuedFibers, QueuedCbs
<1> QED BY <1>3, <1>4, <1>7, <1>8, <1>9, <1>10, <1>11 DEF Erased

-----------------------------------------------------------------------------
(* The fiber in the loop's hands.                                          *)

LEMMA HeldSame ==
    ASSUME NEW s, pc'[s] = pc[s], ft'[s] = ft[s], cb_fiber'[s] = cb_fiber[s],
           branch'[s] = branch[s]
    PROVE  Held(s)' = Held(s)
BY DEF Held, Target

\* What Held is, by the place in the loop.
LEMMA HeldType ==
    ASSUME IInv, NEW s \in Threads
    PROVE  /\ pc[s] \in SwapPcs =>
                  /\ Held(s) = Target(s) /\ Held(s) \in TaskFibers \cup {Idle(s)}
                  /\ Held(s) \in Fibers /\ Held(s) # Null
                  /\ branch[s] = "fiber" => Held(s) = ft[s].fiber
                  /\ branch[s] = "cb" => Held(s) = cb_fiber[s] /\ Held(s) \in CbFibers
                  /\ branch[s] = "idle" <=> Held(s) = Idle(s)
                  /\ branch[s] \in {"fiber", "cb", "idle"}
           /\ pc[s] = "picked" => Held(s) = ft[s].fiber /\ Held(s) \in TaskFibers \cup {Null}
           /\ pc[s] \notin {"picked"} \cup SwapPcs => Held(s) = Null
           /\ pc[s] \in {"task", "yielding", "ending"} => cpu[s] = Held(s) /\ t_fiber[s] = Held(s)
<1>1. ASSUME pc[s] \in SwapPcs
      PROVE  /\ Held(s) = Target(s) /\ Held(s) \in TaskFibers \cup {Idle(s)}
             /\ Held(s) \in Fibers /\ Held(s) # Null
             /\ branch[s] = "fiber" => Held(s) = ft[s].fiber
             /\ branch[s] = "cb" => Held(s) = cb_fiber[s] /\ Held(s) \in CbFibers
             /\ branch[s] = "idle" <=> Held(s) = Idle(s)
             /\ branch[s] \in {"fiber", "cb", "idle"}
  <2>1. Held(s) = Target(s)
    BY <1>1 DEF Held, SwapPcs, InSwap
  <2>2. /\ Target(s) \in TaskFibers \cup {Idle(s)} /\ Target(s) \in Fibers
        /\ branch[s] # "idle" => Target(s) \in TaskFibers
    BY <1>1, TargetType DEF SwapPcs
  <2>3. /\ branch[s] \in {"fiber", "cb", "idle"}
        /\ branch[s] = "cb" => cb_fiber[s] \in CbFibers
    BY <1>1 DEF IInv, TypeOK, LoopTypeOK, LoopShape, SwapPcs
  <2>4. /\ branch[s] = "fiber" => Target(s) = ft[s].fiber
        /\ branch[s] = "cb" => Target(s) = cb_fiber[s]
        /\ branch[s] = "idle" => Target(s) = Idle(s)
    BY DEF Target
  <2> QED BY <2>1, <2>2, <2>3, <2>4, FiberSets
<1>2. ASSUME pc[s] = "picked" PROVE Held(s) = ft[s].fiber /\ Held(s) \in TaskFibers \cup {Null}
  <2>1. ft[s].fiber \in TaskFibers \cup {Null}
    BY DEF IInv, TypeOK, LoopTypeOK, Entry
  <2> QED BY <1>2, <2>1 DEF Held
<1>3. pc[s] \notin {"picked"} \cup SwapPcs => Held(s) = Null
  BY DEF Held
<1>4. ASSUME pc[s] \in {"task", "yielding", "ending"} PROVE cpu[s] = Held(s) /\ t_fiber[s] = Held(s)
  <2>1. Held(s) = Target(s)
    BY <1>1, <1>4 DEF SwapPcs, InSwap
  <2> QED BY <1>4, <2>1 DEF IInv, OnItsStack, StackOf, Alive, LoopShape, LoopPcs
<1> QED BY <1>1, <1>2, <1>3, <1>4

\* Two loops hold different fibers, and none holds the one another keeps for reuse.
LEMMA HeldApart ==
    ASSUME IInv, TaskInv, NEW s \in Threads, NEW u \in Threads, s # u, Held(s) # Null
    PROVE  Held(s) # Held(u) /\ Held(s) # cb_fiber[u] /\ Held(s) # Idle(u)
<1>1. Held(s) \in TaskFibers \cup {Idle(s)} /\ Held(u) \in TaskFibers \cup {Idle(u), Null}
  BY HeldType DEF IInv, TypeOK, LoopTypeOK
<1>2. cb_fiber[u] \in TaskFibers \cup {Null}
  BY FiberSets DEF IInv, TypeOK, LoopTypeOK
<1>3. Idle(s) # Idle(u) /\ Idle(s) \notin TaskFibers /\ Idle(u) \notin TaskFibers
      /\ Idle(s) # Null /\ Idle(u) # Null
  BY FiberSets DEF Idle
<1>4. CASE Held(s) \in TaskFibers
  BY <1>1, <1>2, <1>3, <1>4 DEF TaskInv, FiberPart, HomeInv
<1>5. CASE Held(s) = Idle(s)
  BY <1>1, <1>2, <1>3, <1>5
<1> QED BY <1>1, <1>4, <1>5

\* A fiber that is held exists, and is not the one kept for the next callback
\* unless that is what the branch is about.
LEMMA HeldExists ==
    ASSUME IInv, TaskInv, NEW s \in Threads, Held(s) \in TaskFibers
    PROVE  home[Held(s)] = s /\ m_state[Held(s)] # "none"
<1>1. home[Held(s)] = s /\ s # Null
  BY FiberAssumption DEF TaskInv, FiberPart, HomeInv
<1>2. CASE Held(s) \in UserFibers
  BY <1>1, <1>2 DEF TaskInv, FiberPart, HomeInv
<1>3. CASE Held(s) \in CbFibers
  BY <1>1, <1>3 DEF TaskInv, FiberPart, HomeInv
<1> QED BY <1>1, <1>2, <1>3 DEF TaskFibers

LEMMA KeptApart ==
    ASSUME IInv, TaskInv, NEW s \in Threads, cb_fiber[s] # Null, Held(s) # Null,
           pc[s] = "picked" \/ branch[s] # "cb"
    PROVE  Held(s) # cb_fiber[s]
<1>1. cb_fiber[s] \in CbFibers /\ cb_fiber[s] \notin UserFibers
  BY FiberAssumption DEF IInv, TypeOK, LoopTypeOK
<1>2. m_state[cb_fiber[s]] = "INIT"
  BY DEF TaskInv, FiberPart, KeptInv, SwapPcs, InSwap
<1>3. Fits(s, Held(s)) /\ pc[s] \in {"picked"} \cup SwapPcs
  BY DEF TaskInv, FiberPart, StageInv, Held
<1>4. CASE pc[s] \in SwapPcs /\ branch[s] = "idle"
  BY <1>1, <1>4, HeldType, FiberSets
<1>5. CASE pc[s] = "picked" \/ branch[s] = "fiber"
  BY <1>1, <1>2, <1>3, <1>5 DEF Fits, Waiting, SwapPcs, InSwap
<1> QED BY <1>3, <1>4, <1>5, HeldType

-----------------------------------------------------------------------------
(* Steps within a round: from the choice of a fiber to the verdict on it.  *)

\* What such a step may do to the fiber f the loop of s holds.
RoundStep(s, to, f) ==
    /\ pc' = [pc EXCEPT ![s] = to]
    /\ UNCHANGED <<ft, cb_fiber, branch, m_fibers, home, submitted>>
    /\ \A g \in Fibers : g # f => m_state'[g] = m_state[g] /\ m_cb'[g] = m_cb[g]
    /\ \A g \in TaskFibers : g # f => m_ctx'[g].at = m_ctx[g].at
    /\ \A u \in Threads : Idle(u) # f => m_ctx'[Idle(u)].at = m_ctx[Idle(u)].at
    /\ m_state'[f] \in State \ {"none", "INIT"}
    /\ f = Idle(s) => m_state'[f] \in {"EXEC", "TERM"}
    /\ f \in QueuedFibers(s) => m_state'[f] \in {"HOLD", "EXEC", m_state[f]}
    /\ m_state'[f] \in {"HOLD", "READY"} => m_ctx'[f].at = "yield" \/ to = "yielding"
    /\ \/ /\ m_cb'[f] = m_cb[f] /\ ended' = ended
          /\ m_state'[f] = "EXCEPT" <=> m_state[f] = "EXCEPT"
          /\ m_state'[f] = "TERM" <=> m_state[f] = "TERM"
       \/ /\ ended' = ended \cup ({m_cb[f]} \cap Cbs)
          /\ m_cb'[f] = Null \/ (m_cb'[f] = m_cb[f] /\ m_state'[f] = "EXCEPT")

LEMMA RoundFibers ==
    ASSUME IInv, TaskInv, NEW s \in Threads, NEW to \in SwapPcs \ {"swap"}, NEW f,
           pc[s] \in InSwap, f = Held(s), RoundStep(s, to, f), Fits(s, f)'
    PROVE  FiberPart'
<1>1. /\ pc[s] \in SwapPcs /\ pc'[s] = to /\ to # "swap" /\ to \in SwapPcs
      /\ \A u \in Threads : u # s => pc'[u] = pc[u]
      /\ \A u \in Threads : pc'[u] \in SwapPcs <=> pc[u] \in SwapPcs
      /\ s # Null
  BY FiberAssumption DEF RoundStep, IInv, TypeOK, LoopTypeOK, SwapPcs
<1>2. /\ ft' = ft /\ cb_fiber' = cb_fiber /\ branch' = branch /\ m_fibers' = m_fibers
      /\ home' = home /\ submitted' = submitted
  BY DEF RoundStep
<1>3. /\ f \in Fibers /\ f # Null /\ f \in TaskFibers \cup {Idle(s)}
      /\ f \in TaskFibers => home[f] = s /\ m_state[f] # "none"
  BY <1>1, HeldType, HeldExists
<1>4. \A u \in Threads : Held(u)' = Held(u)
  <2>1. Held(s)' = Held(s)
    BY <1>1, <1>2 DEF Held, Target, SwapPcs, InSwap
  <2>2. ASSUME NEW u \in Threads, u # s PROVE Held(u)' = Held(u)
    BY <1>1, <1>2, <2>2, HeldSame
  <2> QED BY <2>1, <2>2
<1>5. \A u \in Threads : /\ QueuedFibers(u)' = QueuedFibers(u)
                         /\ Orderly(m_fibers[u])' = Orderly(m_fibers[u])
  BY <1>2, QueueSame
<1>6. \A u \in Threads : u # s => Held(u) # f /\ cb_fiber[u] # f /\ Idle(u) # f
  BY <1>3, HeldApart
<1>7. \A g \in Fibers : g # f => m_state'[g] = m_state[g] /\ m_cb'[g] = m_cb[g]
  BY DEF RoundStep
<1>8. m_state'[f] \in State /\ m_state'[f] # "none" /\ m_state'[f] # "INIT"
  BY DEF RoundStep
<1>9. TaskFibers \subseteq Fibers /\ CbFibers \subseteq TaskFibers /\ UserFibers \subseteq TaskFibers
  BY FiberSets DEF TaskFibers
<1>q. QueueInv'
  BY <1>5 DEF TaskInv, FiberPart, QueueInv
<1>l. LocalInv'
  BY <1>1, <1>2 DEF TaskInv, FiberPart, LocalInv, SwapPcs, InSwap
<1>h. HomeInv'
  BY <1>2, <1>4, <1>5, <1>7, <1>8, <1>9 DEF TaskInv, FiberPart, HomeInv
<1>s. StageInv'
  <2>1. Fits(s, Held(s))'
    BY <1>4
  <2>2. ASSUME NEW u \in Threads, u # s PROVE Fits(u, Held(u))'
    <3>1. PICK g : g = Held(u) /\ g # f
      BY <1>6, <2>2
    <3>2. Fits(u, g) /\ pc'[u] = pc[u] /\ branch'[u] = branch[u]
      BY <1>1, <1>2, <2>2, <3>1 DEF TaskInv, FiberPart, StageInv
    <3>3. CASE g \in Fibers
      <4>1. m_state'[g] = m_state[g]
        BY <1>7, <3>1, <3>3
      <4>2. Fits(u, g)'
        BY <3>2, <4>1 DEF Fits, Waiting
      <4> QED BY <1>4, <3>1, <4>2
    <3>4. CASE g \notin Fibers
      <4>1. pc[u] \notin SwapPcs /\ (pc[u] = "picked" => g = Null)
        BY <1>9, <3>1, <3>4, HeldType
      <4>2. Fits(u, g)'
        BY <3>2, <4>1 DEF Fits, SwapPcs, InSwap
      <4> QED BY <1>4, <3>1, <4>2
    <3> QED BY <3>3, <3>4
  <2> QED BY <2>1, <2>2 DEF StageInv
<1>u. QueuedInv'
  <2> SUFFICES ASSUME NEW u \in Threads, NEW g \in TaskFibers, g \in QueuedFibers(u)
               PROVE  /\ Waiting(g)' \/ m_state'[g] = "EXEC"
                      /\ m_state'[g] = "READY" => Held(u) # g
    BY <1>4, <1>5 DEF QueuedInv
  <2>1. (Waiting(g) \/ m_state[g] = "EXEC") /\ (m_state[g] = "READY" => Held(u) # g)
    BY DEF TaskInv, FiberPart, QueuedInv
  <2>2. CASE g # f
    BY <1>7, <1>9, <2>1, <2>2 DEF Waiting
  <2>3. CASE g = f
    <3>1. u = s
      BY <1>3, <2>3 DEF TaskInv, FiberPart, HomeInv
    <3>2. m_state'[f] \in {"HOLD", "EXEC", m_state[f]}
      BY <2>3, <3>1 DEF RoundStep
    <3>3. m_state[f] # "READY"
      BY <2>1, <2>3, <3>1
    <3> QED BY <2>1, <2>3, <3>2, <3>3 DEF Waiting
  <2> QED BY <2>2, <2>3
<1>r. ReadyInv'
  <2> SUFFICES ASSUME NEW g \in TaskFibers, m_state'[g] = "READY"
               PROVE  /\ home[g] \in Threads
                      /\ pc'[home[g]] # "gone" => g \in QueuedFibers(home[g]) \/ Held(home[g]) = g
    BY <1>2, <1>4, <1>5 DEF ReadyInv
  <2>1. CASE g # f
    <3>1. /\ home[g] \in Threads
          /\ pc[home[g]] # "gone" => g \in QueuedFibers(home[g]) \/ Held(home[g]) = g
      BY <1>7, <1>9, <2>1 DEF TaskInv, FiberPart, ReadyInv
    <3> QED BY <1>1, <3>1 DEF SwapPcs, InSwap
  <2>2. CASE g = f
    BY <1>3, <2>2
  <2> QED BY <2>1, <2>2
<1>c. SavedInv'
  <2>1. ASSUME NEW g \in TaskFibers, g # f
        PROVE  /\ m_state'[g] = "INIT" => m_ctx'[g].at = "entry"
               /\ m_state'[g] \in {"HOLD", "READY"} =>
                     m_ctx'[g].at = "yield" \/ \E u \in Threads : pc'[u] = "yielding" /\ Held(u)' = g
    <3>1. m_state'[g] = m_state[g] /\ m_ctx'[g].at = m_ctx[g].at
      BY <1>7, <1>9, <2>1 DEF RoundStep
    <3>2. \A u \in Threads : pc[u] = "yielding" /\ Held(u) = g => pc'[u] = "yielding" /\ Held(u)' = g
      BY <1>1, <1>4, <2>1
    <3> QED BY <3>1, <3>2 DEF TaskInv, FiberPart, SavedInv
  <2>2. ASSUME f \in TaskFibers, m_state'[f] \in {"HOLD", "READY"}
        PROVE  m_ctx'[f].at = "yield" \/ \E u \in Threads : pc'[u] = "yielding" /\ Held(u)' = f
    BY <1>1, <1>4, <2>2 DEF RoundStep
  <2>3. ASSUME NEW u \in Threads, m_state'[Idle(u)] = "INIT" PROVE m_ctx'[Idle(u)].at = "entry"
    <3>1. Idle(u) # f /\ Idle(u) \in Fibers
      BY <1>8, <2>3, FiberSets
    <3> QED BY <1>7, <2>3, <3>1 DEF RoundStep, TaskInv, FiberPart, SavedInv
  <2> QED BY <1>8, <2>1, <2>2, <2>3 DEF SavedInv
<1>k. KeptInv'
  <2> SUFFICES ASSUME NEW u \in Threads, cb_fiber[u] # Null, ~(pc[u] \in SwapPcs /\ branch[u] = "cb")
               PROVE  m_state'[cb_fiber[u]] = "INIT" /\ m_cb'[cb_fiber[u]] = Null
    BY <1>1, <1>2 DEF KeptInv
  <2>1. m_state[cb_fiber[u]] = "INIT" /\ m_cb[cb_fiber[u]] = Null /\ cb_fiber[u] \in Fibers
    BY <1>9 DEF TaskInv, FiberPart, KeptInv, IInv, TypeOK, LoopTypeOK
  <2>2. cb_fiber[u] # f
    BY <1>1, <1>3, <1>6, KeptApart
  <2> QED BY <1>7, <2>1, <2>2
<1>i. IdleInv'
  <2> SUFFICES ASSUME NEW u \in Threads
               PROVE  /\ m_state'[Idle(u)] \in {"none", "INIT", "EXEC", "TERM"}
                      /\ pc'[u] \in LoopPcs \ {"prologue"} => m_state'[Idle(u)] # "none"
                      /\ m_state'[Idle(u)] = "EXEC" => pc'[u] = "task" /\ branch'[u] = "idle"
    BY DEF IdleInv
  <2>1. /\ m_state[Idle(u)] \in {"none", "INIT", "EXEC", "TERM"}
        /\ pc[u] \in LoopPcs \ {"prologue"} => m_state[Idle(u)] # "none"
        /\ m_state[Idle(u)] = "EXEC" => pc[u] = "task" /\ branch[u] = "idle"
    BY DEF TaskInv, FiberPart, IdleInv
  <2>2. CASE u # s
    BY <1>1, <1>2, <1>6, <1>7, <2>1, <2>2, FiberSets
  <2>3. CASE u = s /\ f = Idle(s)
    <3>1. m_state'[f] \in {"EXEC", "TERM"} /\ branch[s] = "idle"
      BY <1>1, <2>3, HeldType DEF RoundStep
    <3>2. m_state'[f] = "EXEC" => to = "task"
      BY <1>1, <2>3 DEF Fits, SwapPcs, InSwap
    <3> QED BY <1>1, <1>2, <2>3, <3>1, <3>2
  <2>4. CASE u = s /\ f # Idle(s)
    <3>1. branch[s] # "idle" /\ m_state'[Idle(s)] = m_state[Idle(s)]
      BY <1>1, <1>7, <2>4, HeldType, FiberSets
    <3>2. pc[s] \in LoopPcs \ {"prologue"}
      BY DEF InSwap, LoopPcs
    <3> QED BY <2>1, <2>4, <3>1, <3>2
  <2> QED BY <2>2, <2>3, <2>4
<1> QED BY <1>q, <1>l, <1>h, <1>s, <1>u, <1>r, <1>c, <1>k, <1>i DEF FiberPart

LEMMA RoundCbs ==
    ASSUME IInv, TaskInv, NEW s \in Threads, NEW to \in SwapPcs, NEW f,
           pc[s] \in InSwap, f = Held(s), RoundStep(s, to, f)
    PROVE  CbPart'
<1>1. /\ pc'[s] = to /\ to # "gone" /\ pc[s] # "gone" /\ s # Null
      /\ \A u \in Threads : u # s => pc'[u] = pc[u]
  BY FiberAssumption DEF RoundStep, IInv, TypeOK, LoopTypeOK, SwapPcs, InSwap
<1>2. /\ ft' = ft /\ cb_fiber' = cb_fiber /\ m_fibers' = m_fibers
      /\ home' = home /\ submitted' = submitted
  BY DEF RoundStep
<1>3. /\ f \in Fibers /\ f \in TaskFibers \cup {Idle(s)}
      /\ f \in TaskFibers => home[f] = s /\ m_state[f] # "none"
  BY HeldType, HeldExists DEF SwapPcs
<1>4. \A u \in Threads : QueuedCbs(u)' = QueuedCbs(u)
  BY <1>2, QueueSame
<1>5. \A c \in Cbs : Submitted(c)' = Submitted(c)
  BY <1>2 DEF Submitted
<1>6. /\ \A g \in Fibers : g # f => m_state'[g] = m_state[g] /\ m_cb'[g] = m_cb[g]
      /\ m_cb'[f] \in {Null, m_cb[f]}
      /\ ended \subseteq ended' /\ \A c \in ended' : c \in ended \/ c = m_cb[f]
      /\ m_cb'[f] # m_cb[f] => \A c \in Cbs : c = m_cb[f] => c \in ended'
  BY DEF RoundStep
<1>7. TaskFibers \subseteq Fibers /\ CbFibers \subseteq TaskFibers /\ CbFibers \subseteq Fibers
      /\ \A c \in Cbs : CbFiber(c) \in CbFibers /\ c # Null /\ c # "body"
  BY FiberSets, FiberAssumption
<1>8. \A c \in Cbs : c = m_cb[f] =>
         /\ f \in CbFibers /\ Submitted(c)
         /\ \A u \in Threads : c \notin QueuedCbs(u) /\ ft[u].cb # c
  BY <1>3, <1>7 DEF TaskInv, CbPart, BodyInv
<1>o. OwnerInv'
  <2>1. \A u \in Threads, c \in Cbs : (c \in QueuedCbs(u) \/ ft[u].cb = c) => c \notin ended'
    BY <1>6, <1>8 DEF TaskInv, CbPart, OwnerInv
  <2>2. \A c \in Cbs : m_state[CbFiber(c)] = "none" => m_state'[CbFiber(c)] = "none"
    BY <1>3, <1>6, <1>7
  <2>3. \A c \in Cbs : ~Submitted(c) => c \notin ended'
    BY <1>6, <1>8 DEF TaskInv, CbPart, OwnerInv, Submitted
  <2> QED BY <1>2, <1>4, <1>5, <2>1, <2>2, <2>3 DEF TaskInv, CbPart, OwnerInv
<1>b. BodyInv'
  <2>1. /\ \A g \in Fibers \ CbFibers : m_cb'[g] \in {"body", Null}
        /\ \A g \in CbFibers : m_cb'[g] \in Cbs \cup {Null}
    BY <1>6, <1>7 DEF TaskInv, CbPart, BodyInv
  <2>2. \A g \in CbFibers : m_cb'[g] \in {Null, m_cb[g]}
    BY <1>6, <1>7
  <2>3. \A g, h \in CbFibers : m_cb'[g] = m_cb'[h] /\ m_cb'[g] # Null => g = h
    BY <2>2 DEF TaskInv, CbPart, BodyInv
  <2>4. ASSUME NEW g \in CbFibers, NEW c \in Cbs, m_cb'[g] = c
        PROVE  c \in ended' <=> m_state'[g] = "EXCEPT"
    <3>1. m_cb[g] = c /\ (c \in ended <=> m_state[g] = "EXCEPT")
      BY <1>7, <2>2, <2>4 DEF TaskInv, CbPart, BodyInv
    <3>2. CASE g # f
      <4>1. c # m_cb[f]
        BY <1>7, <1>8, <3>1, <3>2 DEF TaskInv, CbPart, BodyInv
      <4> QED BY <1>6, <1>7, <3>1, <3>2, <4>1
    <3>3. CASE g = f
      BY <1>7, <2>4, <3>1, <3>3 DEF RoundStep
    <3> QED BY <3>2, <3>3
  <2>5. ASSUME NEW g \in CbFibers, NEW c \in Cbs, m_cb'[g] = c
        PROVE  Submitted(c) /\ \A u \in Threads : c \notin QueuedCbs(u) /\ ft[u].cb # c
    BY <1>7, <2>2, <2>5 DEF TaskInv, CbPart, BodyInv
  <2>6. ASSUME NEW g \in CbFibers, m_state'[g] = "TERM" PROVE m_cb'[g] = Null
    <3>1. CASE g # f
      BY <1>6, <1>7, <2>6, <3>1 DEF TaskInv, CbPart, BodyInv
    <3>2. CASE g = f
      BY <2>6, <3>2 DEF RoundStep, TaskInv, CbPart, BodyInv
    <3> QED BY <3>1, <3>2
  <2> QED BY <1>2, <1>4, <1>5, <2>1, <2>3, <2>4, <2>5, <2>6 DEF BodyInv
<1>k. KeepInv'
  <2> SUFFICES ASSUME NEW u \in Threads, NEW c \in Cbs, c \in ToSet(submitted[u]),
                      pc'[u] # "gone", c \notin ended'
               PROVE  \/ c \in QueuedCbs(u) \/ ft[u].cb = c
                      \/ \E g \in CbFibers : m_cb'[g] = c
    BY <1>2, <1>4 DEF KeepInv
  <2>1. \/ c \in QueuedCbs(u) \/ ft[u].cb = c
        \/ \E g \in CbFibers : m_cb[g] = c
    BY <1>1, <1>6 DEF TaskInv, CbPart, KeepInv
  <2>2. \A g \in CbFibers : m_cb[g] = c => m_cb'[g] = c
    BY <1>6, <1>7
  <2> QED BY <2>1, <2>2
<1> QED BY <1>o, <1>b, <1>k DEF CbPart

\* The places in a round behind the switch.
LEMMA RoundPcs ==
    {"task", "yielding", "ending", "after", "requeue", "settle", "sethold"} \subseteq SwapPcs \ {"swap"}
BY DEF SwapPcs, InSwap

\* A step of a round preserves the invariant.
LEMMA RoundKeeps ==
    ASSUME IInv, TaskInv, NEW s \in Threads, NEW to \in SwapPcs \ {"swap"}, NEW f,
           pc[s] \in InSwap, f = Held(s), RoundStep(s, to, f), Fits(s, f)'
    PROVE  TaskInv'
BY RoundFibers, RoundCbs DEF TaskInv

\* A switch changes where two contexts resume.
LEMMA SwapContextAt ==
    ASSUME FiberTypeOK, NEW t \in Threads, NEW save \in Fibers, NEW at \in Points,
           NEW load \in Fibers, save # load, SwapContext(t, save, at, load)
    PROVE  /\ m_ctx'[save].at = at /\ m_ctx'[load].at = "running"
           /\ \A g \in Fibers : g # save /\ g # load => m_ctx'[g].at = m_ctx[g].at
BY DEF FiberTypeOK, SwapContext, Contexts

\* The fibers of a thread are told apart.
LEMMA ThreadFibersApart ==
    ASSUME NEW s \in Threads, NEW u \in Threads
    PROVE  /\ Main(s) # Root(u) /\ Main(s) # Idle(u) /\ Root(s) # Idle(u)
           /\ Main(s) \notin TaskFibers /\ Root(s) \notin TaskFibers /\ Idle(s) \notin TaskFibers
           /\ s # u => Main(s) # Main(u) /\ Root(s) # Root(u) /\ Idle(s) # Idle(u)
<1>1. Main(s) # Root(u) /\ Main(s) # Idle(u) /\ Root(s) # Idle(u)
  BY DEF Main, Root, Idle
<1>2. s # u => Main(s) # Main(u) /\ Root(s) # Root(u) /\ Idle(s) # Idle(u)
  BY DEF Main, Root, Idle
<1>3. Main(s) \notin TaskFibers /\ Root(s) \notin TaskFibers /\ Idle(s) \notin TaskFibers
  BY FiberAssumption DEF ThreadFibers
<1> QED BY <1>1, <1>2, <1>3

LEMMA SwapInKeeps == ASSUME IInv, TaskInv, NEW s \in Threads, SwapInTarget(s) PROVE TaskInv'
<1>1. /\ pc[s] = "swap" /\ pc' = [pc EXCEPT ![s] = "task"] /\ SwapIn(s, Target(s))
      /\ UNCHANGED <<m_cb, ft, cb_fiber, branch, m_fibers, home, submitted, ended>>
  BY DEF SwapInTarget, Goto, queueVars, loopVars
<1>2. PICK f : f = Held(s)
  OBVIOUS
<1>3. f = Target(s) /\ f \in Fibers /\ f \in TaskFibers \cup {Idle(s)} /\ pc[s] \in InSwap
  BY <1>1, <1>2, HeldType DEF SwapPcs, InSwap
<1>4. m_state[f] \in {"INIT", "HOLD", "READY"}
  BY <1>1, <1>2 DEF TaskInv, FiberPart, StageInv, Fits, Waiting
<1>5. m_state'[f] = "EXEC" /\ \A g \in Fibers : g # f => m_state'[g] = m_state[g]
  BY <1>1, <1>3 DEF SwapIn, IInv, TypeOK, FiberTypeOK
<1>6. \A g \in Fibers : g # f /\ g # Root(s) => m_ctx'[g].at = m_ctx[g].at
  <2>1. Root(s) # f /\ Root(s) \in Fibers
    BY <1>3, ThreadFibersApart, FiberSets
  <2>2. SwapContext(s, Root(s), "loop", f)
    BY <1>1, <1>3 DEF SwapIn
  <2> QED BY <1>3, <2>1, <2>2, SwapContextAt DEF IInv, TypeOK, Points
<1>7. RoundStep(s, "task", f)
  <2>1. /\ \A g \in TaskFibers : g # f => m_ctx'[g].at = m_ctx[g].at
        /\ \A u \in Threads : Idle(u) # f => m_ctx'[Idle(u)].at = m_ctx[Idle(u)].at
    BY <1>6, ThreadFibersApart, FiberSets
  <2> QED BY <1>1, <1>4, <1>5, <2>1 DEF RoundStep, State
<1>8. Fits(s, f)'
  BY <1>1, <1>5 DEF Fits, IInv, TypeOK, LoopTypeOK
<1> QED BY <1>2, <1>3, <1>7, <1>8, RoundKeeps, RoundPcs

LEMMA LeaveKeeps == ASSUME IInv, TaskInv, NEW s \in Threads, Leave(s) PROVE TaskInv'
<1>1. /\ pc[s] \in {"yielding", "ending"} /\ pc' = [pc EXCEPT ![s] = "after"]
      /\ UNCHANGED <<m_state, m_cb, ft, cb_fiber, branch, m_fibers, home, submitted, ended>>
  BY DEF Leave, Goto, queueVars, loopVars, taskVars
<1>2. PICK f : f = Held(s)
  OBVIOUS
<1>3. /\ f \in Fibers /\ f \in TaskFibers \cup {Idle(s)} /\ pc[s] \in InSwap
      /\ cpu[s] = f /\ t_fiber[s] = f
  BY <1>1, <1>2, HeldType DEF SwapPcs, InSwap
<1>4. /\ pc[s] = "yielding" => m_state[f] \in {"READY", "HOLD"}
      /\ pc[s] = "ending" => m_state[f] \in {"TERM", "EXCEPT"}
  BY <1>1, <1>2 DEF TaskInv, FiberPart, StageInv, Fits
<1>5. /\ pc[s] = "yielding" => m_ctx'[f].at = "yield"
      /\ \A g \in Fibers : g # f /\ g # Root(s) => m_ctx'[g].at = m_ctx[g].at
  <2>1. Root(s) # f /\ Root(s) \in Fibers
    BY <1>3, ThreadFibersApart, FiberSets
  <2>2. CASE pc[s] = "yielding"
    <3>1. SwapContext(s, f, "yield", Root(s))
      BY <1>3, <2>2 DEF Leave, Goto, SwapOut
    <3> QED BY <1>3, <2>1, <3>1, SwapContextAt DEF IInv, TypeOK, Points
  <2>3. CASE pc[s] = "ending"
    <3>1. SwapContext(s, f, "end", Root(s))
      BY <1>3, <2>3 DEF Leave, Goto, SwapOut
    <3> QED BY <1>3, <2>1, <2>3, <3>1, SwapContextAt DEF IInv, TypeOK, Points
  <2> QED BY <1>1, <2>2, <2>3
<1>6. RoundStep(s, "after", f)
  <2>1. /\ \A g \in TaskFibers : g # f => m_ctx'[g].at = m_ctx[g].at
        /\ \A u \in Threads : Idle(u) # f => m_ctx'[Idle(u)].at = m_ctx[Idle(u)].at
    BY <1>5, ThreadFibersApart, FiberSets
  <2>2. f = Idle(s) => m_state[f] \in {"EXEC", "TERM"}
    BY <1>1, <1>4 DEF TaskInv, FiberPart, IdleInv
  <2> QED BY <1>1, <1>4, <1>5, <2>1, <2>2 DEF RoundStep, State
<1>7. Fits(s, f)'
  BY <1>1, <1>4 DEF Fits, IInv, TypeOK, LoopTypeOK
<1> QED BY <1>2, <1>3, <1>6, <1>7, RoundKeeps, RoundPcs

LEMMA AfterKeeps == ASSUME IInv, TaskInv, NEW s \in Threads, After(s) PROVE TaskInv'
<1>1. /\ pc[s] = "after" /\ pc' = [pc EXCEPT ![s] = Verdict(Target(s))]
      /\ UNCHANGED <<m_state, m_cb, m_ctx, ft, cb_fiber, branch, m_fibers, home, submitted, ended>>
  BY DEF After, Goto, fiberVars, queueVars, loopVars, taskVars
<1>2. PICK f : f = Held(s)
  OBVIOUS
<1>3. f = Target(s) /\ f \in Fibers /\ f \in TaskFibers \cup {Idle(s)} /\ pc[s] \in InSwap
  BY <1>1, <1>2, HeldType DEF SwapPcs, InSwap
<1>4. m_state[f] \in {"READY", "HOLD", "TERM", "EXCEPT"}
  BY <1>1, <1>2 DEF TaskInv, FiberPart, StageInv, Fits
<1>5. PICK to \in SwapPcs \ {"swap"} :
          /\ to = Verdict(f)
          /\ \/ to = "requeue" /\ m_state[f] = "READY"
             \/ to = "settle" /\ m_state[f] \in {"TERM", "EXCEPT"}
             \/ to = "sethold" /\ m_state[f] = "HOLD"
  BY <1>4 DEF Verdict, Finished, SwapPcs, InSwap
<1>6. RoundStep(s, to, f)
  <2>1. f = Idle(s) => m_state[f] \in {"EXEC", "TERM"}
    BY <1>4 DEF TaskInv, FiberPart, IdleInv
  <2>2. f \in TaskFibers /\ m_state[f] \in {"HOLD", "READY"} => m_ctx[f].at = "yield"
    <3>1. f \in TaskFibers => \A u \in Threads : Held(u) = f => u = s
      BY <1>2, HeldExists
    <3> QED BY <1>1, <3>1 DEF TaskInv, FiberPart, SavedInv
  <2> QED BY <1>1, <1>3, <1>4, <1>5, <2>1, <2>2 DEF RoundStep, State
<1>7. Fits(s, f)'
  BY <1>1, <1>3, <1>5 DEF Fits, IInv, TypeOK, LoopTypeOK
<1> QED BY <1>2, <1>3, <1>6, <1>7, RoundKeeps

\* A task that yields or ends has its own state changed, and no wake-up is pending
\* unless it holds.
LEMMA TaskKeeps == ASSUME Discipline, IInv, TaskInv, NEW s \in Threads, Task(s) PROVE TaskInv'
<1>1. /\ pc[s] = "task"
      /\ UNCHANGED <<m_ctx, ft, cb_fiber, branch, m_fibers, home, submitted>>
  BY DEF Task, YieldToReady, YeidToHold, FnReturns, FnThrows, Goto, MarkCurrent, CbReturns,
     CbThrows, queueVars, loopVars
<1>2. PICK f : f = Held(s)
  OBVIOUS
<1>3. /\ f \in Fibers /\ f \in TaskFibers \cup {Idle(s)} /\ pc[s] \in InSwap
      /\ cpu[s] = f /\ t_fiber[s] = f
  BY <1>1, <1>2, HeldType DEF SwapPcs, InSwap
<1>4. m_state[f] = "EXEC" /\ Idle(s) \notin TaskFibers
  BY <1>1, <1>2, FiberSets DEF TaskInv, FiberPart, StageInv, Fits
<1>5. MayLeave(f) => f \notin QueuedFibers(s)
  BY DEF Discipline, MayLeave, Queued
<1>6. f = Idle(s) => f \notin QueuedFibers(s)
  <2>1. \A e \in ToSet(m_fibers[s]) : e.fiber \in TaskFibers \cup {Null}
    <3>1. ToSet(m_fibers[s]) \subseteq Entry
      BY DEF IInv, TypeOK, QueueTypeOK, ToSet
    <3> QED BY <3>1 DEF Entry
  <2>2. Idle(s) # Null
    BY FiberSets
  <2> QED BY <1>4, <2>1, <2>2 DEF QueuedFibers
<1>7. CASE YieldToReady(s) \/ YeidToHold(s)
  <2>1. /\ pc' = [pc EXCEPT ![s] = "yielding"] /\ m_cb' = m_cb /\ ended' = ended
        /\ f \in TaskFibers
        /\ \/ m_state' = [m_state EXCEPT ![f] = "READY"] /\ f \notin QueuedFibers(s)
           \/ m_state' = [m_state EXCEPT ![f] = "HOLD"]
    BY <1>3, <1>5, <1>7 DEF YieldToReady, YeidToHold, Goto, Running, MarkCurrent, taskVars
  <2>2. /\ \A g \in Fibers : g # f => m_state'[g] = m_state[g]
        /\ m_state'[f] \in {"READY", "HOLD"}
        /\ f \in QueuedFibers(s) => m_state'[f] = "HOLD"
    BY <1>3, <2>1 DEF IInv, TypeOK, FiberTypeOK
  <2>3. RoundStep(s, "yielding", f)
    BY <1>1, <1>4, <2>1, <2>2 DEF RoundStep, State
  <2>4. Fits(s, f)'
    BY <1>1, <2>1, <2>2 DEF Fits, IInv, TypeOK, LoopTypeOK
  <2> QED BY <1>2, <1>3, <2>3, <2>4, RoundKeeps, RoundPcs
<1>8. CASE FnReturns(s) \/ FnThrows(s)
  <2>1. /\ pc' = [pc EXCEPT ![s] = "ending"] /\ f \notin QueuedFibers(s)
        /\ ended' = ended \cup ({m_cb[f]} \cap Cbs)
        /\ \/ /\ m_state' = [m_state EXCEPT ![f] = "TERM"] /\ m_cb' = [m_cb EXCEPT ![f] = Null]
           \/ /\ m_state' = [m_state EXCEPT ![f] = "EXCEPT"] /\ m_cb' = m_cb /\ f # Idle(s)
    BY <1>3, <1>4, <1>5, <1>6, <1>8 DEF FnReturns, FnThrows, Goto, Running, CbReturns, CbThrows
  <2>2. /\ \A g \in Fibers : g # f => m_state'[g] = m_state[g] /\ m_cb'[g] = m_cb[g]
        /\ m_state'[f] \in {"TERM", "EXCEPT"}
        /\ f = Idle(s) => m_state'[f] = "TERM"
        /\ m_cb'[f] = Null \/ (m_cb'[f] = m_cb[f] /\ m_state'[f] = "EXCEPT")
    BY <1>3, <2>1 DEF IInv, TypeOK, FiberTypeOK
  <2>3. RoundStep(s, "ending", f)
    BY <1>1, <2>1, <2>2 DEF RoundStep, State
  <2>4. Fits(s, f)'
    BY <1>1, <2>1, <2>2 DEF Fits, IInv, TypeOK, LoopTypeOK
  <2> QED BY <1>2, <1>3, <2>3, <2>4, RoundKeeps, RoundPcs
<1> QED BY <1>7, <1>8 DEF Task

-----------------------------------------------------------------------------
(* The end of a round.                                                     *)

\* What every end of a round does: ft is empty, and the fiber out of hand.
LEMMA RoundEnd ==
    ASSUME IInv, TaskInv, NEW s \in Threads, NEW keep \in BOOLEAN,
           pc[s] \in {"requeue", "settle", "sethold"}, pc' = [pc EXCEPT ![s] = "fetch"],
           NextRound(s, keep)
    PROVE  /\ LocalInv' /\ Held(s)' = Null /\ ft[s].cb = Null /\ ft'[s].cb = Null
           /\ pc'[s] = "fetch" /\ Held(s) # Null
           /\ \A u \in Threads : u # s =>
                 /\ Held(u)' = Held(u) /\ pc'[u] = pc[u] /\ ft'[u] = ft[u]
                 /\ cb_fiber'[u] = cb_fiber[u] /\ branch'[u] = branch[u]
           /\ branch[s] = "cb" => cb_fiber'[s] = IF keep THEN cb_fiber[s] ELSE Null
           /\ branch[s] # "cb" => cb_fiber'[s] = cb_fiber[s]
<1>1. /\ pc'[s] = "fetch" /\ \A u \in Threads : u # s => pc'[u] = pc[u]
      /\ ft'[s] = NoEntry /\ \A u \in Threads : u # s => ft'[u] = ft[u]
      /\ \A u \in Threads : u # s => branch'[u] = branch[u] /\ cb_fiber'[u] = cb_fiber[u]
      /\ branch[s] = "cb" => cb_fiber'[s] = IF keep THEN cb_fiber[s] ELSE Null
      /\ branch[s] # "cb" => cb_fiber'[s] = cb_fiber[s]
  BY DEF NextRound, IInv, TypeOK, LoopTypeOK
<1>2. ft'[s].fiber = Null /\ ft'[s].cb = Null
  BY <1>1 DEF NoEntry
<1>3. Held(s)' = Null /\ Held(s) # Null
  BY <1>1, HeldType DEF Held, SwapPcs, InSwap
<1>4. \A u \in Threads : u # s => Held(u)' = Held(u)
  BY <1>1, HeldSame
<1>5. LocalInv'
  BY <1>1, <1>2 DEF LocalInv, TaskInv, FiberPart, SwapPcs, InSwap
<1>6. ft[s].cb = Null
  BY DEF TaskInv, FiberPart, LocalInv, SwapPcs
<1> QED BY <1>1, <1>2, <1>3, <1>4, <1>5, <1>6

\* A place that fits the fiber held goes on fitting when neither changes.
LEMMA FitsSame ==
    ASSUME IInv, TaskInv, NEW u \in Threads, pc'[u] = pc[u], branch'[u] = branch[u],
           Held(u)' = Held(u), Held(u) \in Fibers => m_state'[Held(u)] = m_state[Held(u)]
    PROVE  Fits(u, Held(u))'
<1>1. PICK g : g = Held(u)
  OBVIOUS
<1>2. Fits(u, g)
  BY <1>1 DEF TaskInv, FiberPart, StageInv
<1>3. CASE g \in Fibers
  <2>1. Fits(u, g)'
    BY <1>1, <1>2, <1>3 DEF Fits, Waiting
  <2> QED BY <1>1, <2>1
<1>4. CASE g \notin Fibers
  <2>1. pc[u] \notin SwapPcs /\ (pc[u] = "picked" => g = Null)
    BY <1>1, <1>4, HeldType, FiberSets
  <2>2. Fits(u, g)'
    BY <1>2, <2>1 DEF Fits, SwapPcs, InSwap
  <2> QED BY <1>1, <2>2
<1> QED BY <1>3, <1>4

\* A round that leaves every fiber in the state it is in; f is put in the queue
\* if it is READY.
LEMMA QuietEnd ==
    ASSUME IInv, TaskInv, NEW s \in Threads, NEW keep \in BOOLEAN,
           pc[s] \in {"requeue", "settle", "sethold"}, pc' = [pc EXCEPT ![s] = "fetch"],
           NextRound(s, keep), keep => branch[s] # "cb",
           \A g \in Fibers : m_state'[g] = m_state[g],
           UNCHANGED <<m_cb, m_ctx, home, submitted, ended>>,
           QueueInv',
           \A g \in TaskFibers : g \in QueuedFibers(s)' <=>
               g \in QueuedFibers(s) \/ (pc[s] = "requeue" /\ g = Held(s)),
           \A c \in Cbs : c \in QueuedCbs(s)' <=> c \in QueuedCbs(s),
           \A u \in Threads : u # s => m_fibers'[u] = m_fibers[u]
    PROVE  TaskInv'
<1>1. /\ LocalInv' /\ Held(s)' = Null /\ ft[s].cb = Null /\ ft'[s].cb = Null
      /\ pc'[s] = "fetch" /\ Held(s) # Null
      /\ \A u \in Threads : u # s =>
            /\ Held(u)' = Held(u) /\ pc'[u] = pc[u] /\ ft'[u] = ft[u]
            /\ cb_fiber'[u] = cb_fiber[u] /\ branch'[u] = branch[u]
      /\ branch[s] = "cb" => cb_fiber'[s] = Null
      /\ branch[s] # "cb" => cb_fiber'[s] = cb_fiber[s]
  BY RoundEnd
<1>2. \A u \in Threads : u # s => QueuedFibers(u)' = QueuedFibers(u) /\ QueuedCbs(u)' = QueuedCbs(u)
  BY QueueSame
<1>3. TaskFibers \subseteq Fibers /\ CbFibers \subseteq TaskFibers /\ UserFibers \subseteq TaskFibers
      /\ (\A c \in Cbs : CbFiber(c) \in CbFibers /\ c # Null) /\ Null \notin TaskFibers
  BY FiberSets DEF TaskFibers
<1>4. \A g \in TaskFibers : m_state'[g] = m_state[g]
  BY <1>3
<1>5. PICK f : f = Held(s)
  OBVIOUS
<1>6. /\ f \in TaskFibers => home[f] = s
      /\ pc[s] = "requeue" => m_state[f] = "READY" /\ f \in TaskFibers
      /\ pc[s] # "requeue" => m_state[f] # "READY"
  <2>1. Fits(s, f) /\ f \in TaskFibers \cup {Idle(s)}
    BY <1>5, HeldType DEF TaskInv, FiberPart, StageInv, SwapPcs
  <2>2. m_state[Idle(s)] # "READY"
    BY DEF IInv, IdleNeverReady
  <2> QED BY <1>5, <2>1, <2>2, HeldExists DEF Fits
<1>h. HomeInv'
  <2>1. ASSUME NEW u \in Threads, NEW g \in TaskFibers,
               (g \in QueuedFibers(u) \/ Held(u) = g \/ cb_fiber[u] = g)'
        PROVE  home[g] = u
    <3>1. g \in QueuedFibers(u) \/ Held(u) = g \/ cb_fiber[u] = g
      <4>1. CASE u = s
        BY <1>1, <1>3, <2>1, <4>1
      <4>2. CASE u # s
        BY <1>1, <1>2, <2>1, <4>2
      <4> QED BY <4>1, <4>2
    <3> QED BY <3>1 DEF TaskInv, FiberPart, HomeInv
  <2> QED BY <1>3, <1>4, <2>1 DEF HomeInv, TaskInv, FiberPart
<1>s. StageInv'
  <2>1. Fits(s, Held(s))'
    BY <1>1 DEF Fits
  <2>2. ASSUME NEW u \in Threads, u # s PROVE Fits(u, Held(u))'
    BY <1>1, <2>2, FitsSame
  <2> QED BY <2>1, <2>2 DEF StageInv
<1>u. QueuedInv'
  <2> SUFFICES ASSUME NEW u \in Threads, NEW g \in TaskFibers, g \in QueuedFibers(u)'
               PROVE  /\ Waiting(g) \/ m_state[g] = "EXEC"
                      /\ m_state[g] = "READY" => Held(u)' # g
    BY <1>4 DEF QueuedInv, Waiting
  <2>1. CASE u # s
    BY <1>1, <1>2, <2>1 DEF TaskInv, FiberPart, QueuedInv
  <2>2. CASE u = s /\ g \in QueuedFibers(s)
    BY <1>1, <1>3, <2>2 DEF TaskInv, FiberPart, QueuedInv
  <2>3. CASE u = s /\ pc[s] = "requeue" /\ g = f
    BY <1>1, <1>3, <1>6, <2>3 DEF Waiting
  <2> QED BY <1>5, <2>1, <2>2, <2>3
<1>r. ReadyInv'
  <2> SUFFICES ASSUME NEW g \in TaskFibers, m_state[g] = "READY"
               PROVE  /\ home[g] \in Threads
                      /\ pc'[home[g]] # "gone" => g \in QueuedFibers(home[g])' \/ Held(home[g])' = g
    BY <1>4 DEF ReadyInv
  <2>1. /\ home[g] \in Threads
        /\ pc[home[g]] # "gone" => g \in QueuedFibers(home[g]) \/ Held(home[g]) = g
    BY DEF TaskInv, FiberPart, ReadyInv
  <2>2. CASE home[g] # s
    BY <1>1, <1>2, <2>1, <2>2
  <2>3. CASE home[g] = s
    <3>1. g \in QueuedFibers(s) \/ (g = f /\ pc[s] = "requeue")
      BY <1>5, <1>6, <2>1, <2>3
    <3> QED BY <1>5, <2>3, <3>1
  <2> QED BY <2>2, <2>3
<1>c. SavedInv'
  <2>1. \A u \in Threads : pc[u] = "yielding" => pc'[u] = "yielding" /\ Held(u)' = Held(u)
    BY <1>1
  <2>2. \A g \in TaskFibers : (\E u \in Threads : pc[u] = "yielding" /\ Held(u) = g)
            => \E u \in Threads : pc'[u] = "yielding" /\ Held(u)' = g
    BY <2>1
  <2>3. \A u \in Threads : m_state'[Idle(u)] = m_state[Idle(u)]
    BY FiberSets
  <2> QED BY <1>4, <2>2, <2>3 DEF TaskInv, FiberPart, SavedInv
<1>k. KeptInv'
  <2> SUFFICES ASSUME NEW u \in Threads, cb_fiber'[u] # Null, ~(pc'[u] \in SwapPcs /\ branch'[u] = "cb")
               PROVE  m_state'[cb_fiber'[u]] = "INIT" /\ m_cb'[cb_fiber'[u]] = Null
    BY DEF KeptInv
  <2>1. cb_fiber'[u] = cb_fiber[u] /\ ~(pc[u] \in SwapPcs /\ branch[u] = "cb")
    BY <1>1
  <2>2. m_state[cb_fiber[u]] = "INIT" /\ m_cb[cb_fiber[u]] = Null /\ cb_fiber[u] \in TaskFibers
    BY <1>3, <2>1 DEF TaskInv, FiberPart, KeptInv, IInv, TypeOK, LoopTypeOK
  <2> QED BY <1>4, <2>1, <2>2
<1>i. IdleInv'
  <2>1. \A u \in Threads : m_state'[Idle(u)] = m_state[Idle(u)]
    BY FiberSets
  <2>2. pc[s] \in LoopPcs \ {"prologue"} /\ pc[s] # "task"
    BY DEF LoopPcs
  <2> QED BY <1>1, <2>1, <2>2 DEF TaskInv, FiberPart, IdleInv
<1>o. OwnerInv'
  <2>1. \A u \in Threads, c \in Cbs : /\ c \in QueuedCbs(u)' <=> c \in QueuedCbs(u)
                                      /\ ft'[u].cb = c <=> ft[u].cb = c
    BY <1>1, <1>2, <1>3
  <2>2. \A c \in Cbs : Submitted(c)' = Submitted(c) /\ m_state'[CbFiber(c)] = m_state[CbFiber(c)]
    BY <1>3, <1>4 DEF Submitted
  <2> QED BY <2>1, <2>2 DEF TaskInv, CbPart, OwnerInv
<1>b. BodyInv'
  <2>1. \A u \in Threads, c \in Cbs : /\ c \in QueuedCbs(u)' <=> c \in QueuedCbs(u)
                                      /\ ft'[u].cb = c <=> ft[u].cb = c
    BY <1>1, <1>2, <1>3
  <2>2. \A c \in Cbs : Submitted(c)' = Submitted(c)
    BY DEF Submitted
  <2> QED BY <1>3, <1>4, <2>1, <2>2 DEF TaskInv, CbPart, BodyInv
<1>p. KeepInv'
  <2>1. \A u \in Threads, c \in Cbs : /\ c \in QueuedCbs(u)' <=> c \in QueuedCbs(u)
                                      /\ ft'[u].cb = c <=> ft[u].cb = c
                                      /\ pc'[u] = "gone" <=> pc[u] = "gone"
    BY <1>1, <1>2, <1>3
  <2> QED BY <2>1 DEF TaskInv, CbPart, KeepInv
<1> QED BY <1>1, <1>h, <1>s, <1>u, <1>r, <1>c, <1>k, <1>i, <1>o, <1>b, <1>p
        DEF TaskInv, FiberPart, CbPart

LEMMA RequeueKeeps == ASSUME IInv, TaskInv, NEW s \in Threads, Requeue(s) PROVE TaskInv'
<1>1. /\ pc[s] = "requeue" /\ pc' = [pc EXCEPT ![s] = "fetch"] /\ NextRound(s, FALSE)
      /\ m_fibers' = [m_fibers EXCEPT ![s] = Append(@, FiberEntry(Target(s), AnyThread))]
      /\ UNCHANGED <<m_state, m_cb, m_ctx, home, submitted, ended>>
  BY DEF Requeue, Goto, fiberVars, taskVars
<1>2. PICK f : f = Held(s)
  OBVIOUS
<1>3. f = Target(s) /\ m_state[f] = "READY" /\ f \in TaskFibers
  <2>1. f = Target(s) /\ f \in TaskFibers \cup {Idle(s)} /\ Fits(s, f)
    BY <1>1, <1>2, HeldType DEF SwapPcs, TaskInv, FiberPart, StageInv
  <2> QED BY <1>1, <2>1 DEF Fits, IInv, IdleNeverReady
<1>4. f \notin QueuedFibers(s)
  BY <1>2, <1>3 DEF TaskInv, FiberPart, QueuedInv
<1>5. /\ QueueInv' /\ QueuedFibers(s)' = QueuedFibers(s) \cup {f}
      /\ \A c \in Cbs : c \in QueuedCbs(s)' <=> c \in QueuedCbs(s)
      /\ \A u \in Threads : u # s => m_fibers'[u] = m_fibers[u]
  BY <1>1, <1>3, <1>4, QueueFiber DEF TaskInv, FiberPart
<1> QED BY <1>1, <1>2, <1>5, QuietEnd

LEMMA SetHoldKeeps == ASSUME IInv, TaskInv, NEW s \in Threads, SetHold(s) PROVE TaskInv'
<1>1. /\ pc[s] = "sethold" /\ pc' = [pc EXCEPT ![s] = "fetch"] /\ NextRound(s, FALSE)
      /\ m_state' = [m_state EXCEPT ![Target(s)] = "HOLD"]
      /\ UNCHANGED <<m_fibers, m_cb, m_ctx, home, submitted, ended>>
  BY DEF SetHold, Goto, queueVars, taskVars
<1>2. Held(s) = Target(s) /\ m_state[Held(s)] = "HOLD"
  BY <1>1, HeldType DEF SwapPcs, TaskInv, FiberPart, StageInv, Fits
<1>3. \A g \in Fibers : m_state'[g] = m_state[g]
  BY <1>1, <1>2 DEF IInv, TypeOK, FiberTypeOK
<1>4. \A u \in Threads : /\ QueuedFibers(u)' = QueuedFibers(u) /\ QueuedCbs(u)' = QueuedCbs(u)
                         /\ Orderly(m_fibers[u])' = Orderly(m_fibers[u])
  BY <1>1, QueueSame
<1>5. QueueInv'
  BY <1>4 DEF TaskInv, FiberPart, QueueInv
<1> QED BY <1>1, <1>3, <1>4, <1>5, QuietEnd

\* The fiber of a callback that has ended is made ready for the next callback.
LEMMA SettleKeeps == ASSUME IInv, TaskInv, NEW s \in Threads, Settle(s) PROVE TaskInv'
<1>1. /\ pc[s] = "settle" /\ pc' = [pc EXCEPT ![s] = "fetch"] /\ NextRound(s, TRUE)
      /\ UNCHANGED <<m_fibers, home, submitted, ended>>
  BY DEF Settle, Goto, queueVars, taskVars
<1>2. \A u \in Threads : /\ QueuedFibers(u)' = QueuedFibers(u) /\ QueuedCbs(u)' = QueuedCbs(u)
                         /\ Orderly(m_fibers[u])' = Orderly(m_fibers[u])
  BY <1>1, QueueSame
<1>3. QueueInv'
  BY <1>2 DEF TaskInv, FiberPart, QueueInv
<1>4. CASE branch[s] # "cb"
  <2>1. UNCHANGED <<m_state, m_cb, m_ctx>>
    BY <1>4 DEF Settle, fiberVars
  <2> QED BY <1>1, <1>2, <1>3, <1>4, <2>1, QuietEnd
<1>5. CASE branch[s] = "cb"
  <2>1. PICK f : f = Held(s)
    OBVIOUS
  <2>2. /\ f = cb_fiber[s] /\ f \in CbFibers /\ f \in TaskFibers /\ f \in Fibers
        /\ m_state[f] \in {"TERM", "EXCEPT"} /\ home[f] = s /\ f \notin UserFibers
    <3>1. f = cb_fiber[s] /\ f \in CbFibers /\ Fits(s, f)
      BY <1>1, <1>5, <2>1, HeldType DEF SwapPcs, TaskInv, FiberPart, StageInv
    <3> QED BY <1>1, <2>1, <3>1, HeldExists, FiberSets, FiberAssumption DEF Fits
  <2>3. /\ m_state'[f] = "INIT" /\ m_cb'[f] = Null /\ m_ctx'[f].at = "entry"
        /\ \A g \in Fibers : g # f =>
              m_state'[g] = m_state[g] /\ m_cb'[g] = m_cb[g] /\ m_ctx'[g] = m_ctx[g]
    BY <1>5, <2>2 DEF Settle, ResetFiber, NewFiber, EntryContext, IInv, TypeOK, FiberTypeOK
  <2>4. /\ LocalInv' /\ Held(s)' = Null /\ ft[s].cb = Null /\ ft'[s].cb = Null
        /\ pc'[s] = "fetch" /\ Held(s) # Null
        /\ \A u \in Threads : u # s =>
              /\ Held(u)' = Held(u) /\ pc'[u] = pc[u] /\ ft'[u] = ft[u]
              /\ cb_fiber'[u] = cb_fiber[u] /\ branch'[u] = branch[u]
        /\ cb_fiber'[s] = f
    BY <1>1, <1>5, <2>2, RoundEnd
  <2>5. TaskFibers \subseteq Fibers /\ CbFibers \subseteq TaskFibers /\ UserFibers \subseteq TaskFibers
        /\ (\A c \in Cbs : CbFiber(c) \in CbFibers /\ c # Null) /\ Null \notin TaskFibers
    BY FiberSets DEF TaskFibers
  <2>6. \A u \in Threads : u # s => Held(u) # f /\ cb_fiber[u] # f
    BY <2>1, <2>4, HeldApart
  <2>7. \A u \in Threads : f \notin QueuedFibers(u)
    BY <2>2 DEF TaskInv, FiberPart, QueuedInv, Waiting
  <2>8. \A u \in Threads : Idle(u) \in Fibers /\ Idle(u) # f
    BY <2>2, FiberSets
  <2>h. HomeInv'
    <3>1. ASSUME NEW u \in Threads, NEW g \in TaskFibers,
                 (g \in QueuedFibers(u) \/ Held(u) = g \/ cb_fiber[u] = g)'
          PROVE  home[g] = u
      <4>1. g \in QueuedFibers(u) \/ Held(u) = g \/ cb_fiber[u] = g
        BY <1>2, <2>2, <2>4, <2>5, <3>1
      <4> QED BY <4>1 DEF TaskInv, FiberPart, HomeInv
    <3> QED BY <1>1, <2>3, <2>5, <3>1 DEF HomeInv, TaskInv, FiberPart
  <2>s. StageInv'
    <3>1. Fits(s, Held(s))'
      BY <2>4 DEF Fits
    <3>2. ASSUME NEW u \in Threads, u # s PROVE Fits(u, Held(u))'
      BY <2>3, <2>4, <2>6, <3>2, FitsSame
    <3> QED BY <3>1, <3>2 DEF StageInv
  <2>u. QueuedInv'
    <3> SUFFICES ASSUME NEW u \in Threads, NEW g \in TaskFibers, g \in QueuedFibers(u)
                 PROVE  /\ Waiting(g)' \/ m_state'[g] = "EXEC"
                        /\ m_state'[g] = "READY" => Held(u)' # g
      BY <1>2 DEF QueuedInv
    <3>1. m_state'[g] = m_state[g]
      BY <2>3, <2>5, <2>7
    <3>2. Held(u)' \in {Null, Held(u)} /\ g # Null
      BY <2>4, <2>5
    <3> QED BY <3>1, <3>2 DEF TaskInv, FiberPart, QueuedInv, Waiting
  <2>r. ReadyInv'
    <3> SUFFICES ASSUME NEW g \in TaskFibers, m_state'[g] = "READY"
                 PROVE  /\ home[g] \in Threads
                        /\ pc'[home[g]] # "gone" => g \in QueuedFibers(home[g]) \/ Held(home[g])' = g
      BY <1>1, <1>2 DEF ReadyInv
    <3>1. g # f /\ m_state[g] = "READY"
      BY <2>3, <2>5
    <3>2. /\ home[g] \in Threads
          /\ pc[home[g]] # "gone" => g \in QueuedFibers(home[g]) \/ Held(home[g]) = g
      BY <3>1 DEF TaskInv, FiberPart, ReadyInv
    <3> QED BY <1>1, <2>1, <2>4, <3>1, <3>2
  <2>c. SavedInv'
    <3>1. \A u \in Threads : pc[u] = "yielding" => pc'[u] = "yielding" /\ Held(u)' = Held(u)
      BY <1>1, <2>4
    <3>2. ASSUME NEW g \in TaskFibers
          PROVE  /\ m_state'[g] = "INIT" => m_ctx'[g].at = "entry"
                 /\ m_state'[g] \in {"HOLD", "READY"} =>
                       m_ctx'[g].at = "yield"
                       \/ \E u \in Threads : pc'[u] = "yielding" /\ Held(u)' = g
      <4>1. CASE g = f
        BY <2>3, <4>1
      <4>2. CASE g # f
        <5>1. m_state'[g] = m_state[g] /\ m_ctx'[g] = m_ctx[g]
          BY <2>3, <2>5, <4>2
        <5> QED BY <3>1, <5>1 DEF TaskInv, FiberPart, SavedInv
      <4> QED BY <4>1, <4>2
    <3> QED BY <2>3, <2>8, <3>2 DEF TaskInv, FiberPart, SavedInv
  <2>k. KeptInv'
    <3> SUFFICES ASSUME NEW u \in Threads, cb_fiber'[u] # Null, ~(pc'[u] \in SwapPcs /\ branch'[u] = "cb")
                 PROVE  m_state'[cb_fiber'[u]] = "INIT" /\ m_cb'[cb_fiber'[u]] = Null
      BY DEF KeptInv
    <3>1. CASE u = s
      BY <2>3, <2>4, <3>1
    <3>2. CASE u # s
      <4>1. cb_fiber[u] \in Fibers /\ cb_fiber[u] # f /\ m_state[cb_fiber[u]] = "INIT" /\ m_cb[cb_fiber[u]] = Null
        BY <2>4, <2>5, <2>6, <3>2 DEF TaskInv, FiberPart, KeptInv, IInv, TypeOK, LoopTypeOK
      <4> QED BY <2>3, <2>4, <3>2, <4>1
    <3> QED BY <3>1, <3>2
  <2>i. IdleInv'
    <3>1. \A u \in Threads : m_state'[Idle(u)] = m_state[Idle(u)]
      BY <2>3, <2>8
    <3>2. pc[s] \in LoopPcs \ {"prologue"} /\ pc[s] # "task"
      BY <1>1 DEF LoopPcs
    <3> QED BY <2>4, <3>1, <3>2 DEF TaskInv, FiberPart, IdleInv
  <2>9. \A u \in Threads, c \in Cbs : /\ c \in QueuedCbs(u)' <=> c \in QueuedCbs(u)
                                      /\ ft'[u].cb = c <=> ft[u].cb = c
                                      /\ pc'[u] = "gone" <=> pc[u] = "gone"
    BY <1>1, <1>2, <2>4, <2>5
  <2>o. OwnerInv'
    <3>1. \A c \in Cbs : m_state[CbFiber(c)] = "none" => m_state'[CbFiber(c)] = "none"
      BY <2>2, <2>3, <2>5
    <3>2. \A c \in Cbs : Submitted(c)' = Submitted(c)
      BY <1>1 DEF Submitted
    <3> QED BY <1>1, <2>9, <3>1, <3>2 DEF TaskInv, CbPart, OwnerInv
  <2>b. BodyInv'
    <3>1. /\ \A g \in Fibers \ CbFibers : m_cb'[g] = m_cb[g]
          /\ \A g \in CbFibers : m_cb'[g] # Null => g # f /\ m_cb'[g] = m_cb[g] /\ m_state'[g] = m_state[g]
          /\ \A g \in CbFibers : m_state'[g] = "TERM" => m_state[g] = "TERM" /\ m_cb'[g] = m_cb[g]
      BY <2>2, <2>3, <2>5
    <3>2. \A g \in CbFibers : m_cb'[g] \in {Null, m_cb[g]}
      BY <3>1
    <3>3. \A c \in Cbs : Submitted(c)' = Submitted(c)
      BY <1>1 DEF Submitted
    <3> QED BY <1>1, <2>5, <2>9, <3>1, <3>2, <3>3 DEF TaskInv, CbPart, BodyInv
  <2>p. KeepInv'
    <3>1. \A c \in Cbs, g \in CbFibers : m_cb[g] = c /\ c \notin ended => m_cb'[g] = c
      BY <2>2, <2>3, <2>5 DEF TaskInv, CbPart, BodyInv
    <3> QED BY <1>1, <2>9, <3>1 DEF TaskInv, CbPart, KeepInv
  <2> QED BY <1>3, <2>4, <2>h, <2>s, <2>u, <2>r, <2>c, <2>k, <2>i, <2>o, <2>b, <2>p
          DEF TaskInv, FiberPart, CbPart
<1> QED BY <1>4, <1>5

-----------------------------------------------------------------------------
(* Steps that change no task's state: entries and fibers change hands.     *)

\* What every such step of s leaves alone.
HandsOver(s, to) ==
    /\ pc' = [pc EXCEPT ![s] = to]
    /\ \A u \in Threads : u # s =>
          /\ ft'[u] = ft[u] /\ cb_fiber'[u] = cb_fiber[u] /\ branch'[u] = branch[u]
          /\ m_fibers'[u] = m_fibers[u]
          /\ m_state'[Idle(u)] = m_state[Idle(u)] /\ m_ctx'[Idle(u)].at = m_ctx[Idle(u)].at
    /\ UNCHANGED <<home, submitted, ended>>
    /\ \A g \in TaskFibers :
          m_state'[g] = m_state[g] /\ m_ctx'[g].at = m_ctx[g].at /\ m_cb'[g] = m_cb[g]
    /\ \A g \in Fibers \ CbFibers : m_cb'[g] \in {m_cb[g], "body", Null}
    /\ cb_fiber'[s] \in {cb_fiber[s], Null}

\* Nothing is let go of unless the scheduler is destroyed, nothing taken up twice.
LEMMA HandsOverKeeps ==
    ASSUME IInv, TaskInv, NEW s \in Threads, NEW to \in Pcs, HandsOver(s, to),
           pc[s] \notin SwapPcs, to # "yielding", QueueInv', LocalInv',
           Fits(s, Held(s))', ~(to \in SwapPcs /\ branch'[s] = "cb"),
           \A g \in TaskFibers :
               (g \in QueuedFibers(s) \/ Held(s) = g)' => g \in QueuedFibers(s) \/ Held(s) = g,
           \A g \in TaskFibers :
               (g \in QueuedFibers(s) /\ Held(s) = g)' => g \in QueuedFibers(s) /\ Held(s) = g,
           \A c \in Cbs : (c \in QueuedCbs(s) \/ ft[s].cb = c)' => c \in QueuedCbs(s) \/ ft[s].cb = c,
           \A c \in Cbs : ~(c \in QueuedCbs(s) /\ ft[s].cb = c)',
           to # "gone" =>
               /\ \A g \in TaskFibers : g \in QueuedFibers(s) \/ Held(s) = g
                                            => (g \in QueuedFibers(s) \/ Held(s) = g)'
               /\ \A c \in Cbs : c \in QueuedCbs(s) \/ ft[s].cb = c
                                            => (c \in QueuedCbs(s) \/ ft[s].cb = c)',
           pc[s] # "gone",
           /\ m_state'[Idle(s)] \in {"none", "INIT", "TERM"}
           /\ to \in LoopPcs \ {"prologue"} => m_state'[Idle(s)] # "none"
           /\ m_state'[Idle(s)] = "INIT" => m_ctx'[Idle(s)].at = "entry"
    PROVE  TaskInv'
<1>1. pc'[s] = to /\ \A u \in Threads : u # s => pc'[u] = pc[u]
  BY DEF HandsOver, IInv, TypeOK, LoopTypeOK
<1>2. \A u \in Threads : u # s => Held(u)' = Held(u)
  BY <1>1, HeldSame DEF HandsOver
<1>3. \A u \in Threads : u # s => /\ QueuedFibers(u)' = QueuedFibers(u)
                                  /\ QueuedCbs(u)' = QueuedCbs(u) /\ ft'[u] = ft[u]
  BY QueueSame DEF HandsOver
<1>4. TaskFibers \subseteq Fibers /\ CbFibers \subseteq TaskFibers /\ UserFibers \subseteq TaskFibers
      /\ (\A c \in Cbs : CbFiber(c) \in CbFibers /\ c # Null) /\ Null \notin TaskFibers
  BY FiberSets DEF TaskFibers
<1>5. /\ \A g \in TaskFibers : m_state'[g] = m_state[g] /\ m_ctx'[g].at = m_ctx[g].at /\ m_cb'[g] = m_cb[g]
      /\ home' = home /\ submitted' = submitted /\ ended' = ended
  BY DEF HandsOver
<1>h. HomeInv'
  <2>1. ASSUME NEW u \in Threads, NEW g \in TaskFibers,
               (g \in QueuedFibers(u) \/ Held(u) = g \/ cb_fiber[u] = g)'
        PROVE  g \in QueuedFibers(u) \/ Held(u) = g \/ cb_fiber[u] = g
    <3>1. CASE u = s
      BY <1>4, <2>1, <3>1 DEF HandsOver
    <3>2. CASE u # s
      BY <1>2, <1>3, <2>1, <3>2 DEF HandsOver
    <3> QED BY <3>1, <3>2
  <2> QED BY <1>4, <1>5, <2>1 DEF HomeInv, TaskInv, FiberPart
<1>s. StageInv'
  <2>1. ASSUME NEW u \in Threads, u # s PROVE Fits(u, Held(u))'
    <3>1. Held(u) \in TaskFibers \cup {Idle(u), Null}
      BY HeldType DEF IInv, TypeOK, LoopTypeOK
    <3>2. Held(u) \in Fibers => m_state'[Held(u)] = m_state[Held(u)]
      BY <1>5, <2>1, <3>1, FiberSets DEF HandsOver
    <3> QED BY <1>1, <1>2, <2>1, <3>2, FitsSame DEF HandsOver
  <2> QED BY <2>1 DEF StageInv
<1>u. QueuedInv'
  <2> SUFFICES ASSUME NEW u \in Threads, NEW g \in TaskFibers, g \in QueuedFibers(u)'
               PROVE  /\ Waiting(g) \/ m_state[g] = "EXEC"
                      /\ m_state[g] = "READY" => Held(u)' # g
    BY <1>5 DEF QueuedInv, Waiting
  <2>1. CASE u # s
    BY <1>2, <1>3, <2>1 DEF TaskInv, FiberPart, QueuedInv
  <2>2. CASE u = s
    <3>1. CASE g \in QueuedFibers(s)
      BY <2>2, <3>1 DEF TaskInv, FiberPart, QueuedInv
    <3>2. CASE g \notin QueuedFibers(s)
      <4>1. Held(s) = g
        BY <2>2, <3>2
      <4>2. Waiting(g) \/ m_state[g] = "EXEC"
        <5>1. pc[s] = "picked" /\ Held(s) # Null
          BY <1>4, <4>1 DEF Held
        <5> QED BY <4>1, <5>1 DEF TaskInv, FiberPart, StageInv, Fits
      <4>3. Held(s)' # g
        BY <2>2, <3>2, <4>1
      <4> QED BY <2>2, <4>2, <4>3
    <3> QED BY <3>1, <3>2
  <2> QED BY <2>1, <2>2
<1>r. ReadyInv'
  <2> SUFFICES ASSUME NEW g \in TaskFibers, m_state[g] = "READY"
               PROVE  /\ home[g] \in Threads
                      /\ pc'[home[g]] # "gone" => g \in QueuedFibers(home[g])' \/ Held(home[g])' = g
    BY <1>5 DEF ReadyInv
  <2>1. /\ home[g] \in Threads
        /\ pc[home[g]] # "gone" => g \in QueuedFibers(home[g]) \/ Held(home[g]) = g
    BY DEF TaskInv, FiberPart, ReadyInv
  <2>2. CASE home[g] # s
    BY <1>1, <1>2, <1>3, <1>5, <2>1, <2>2
  <2>3. CASE home[g] = s
    BY <1>1, <1>5, <2>1, <2>3
  <2> QED BY <2>2, <2>3
<1>c. SavedInv'
  <2>1. \A u \in Threads : pc[u] = "yielding" => pc'[u] = "yielding" /\ Held(u)' = Held(u)
    BY <1>1, <1>2 DEF SwapPcs, InSwap
  <2>2. \A g \in TaskFibers : (\E u \in Threads : pc[u] = "yielding" /\ Held(u) = g)
            => \E u \in Threads : pc'[u] = "yielding" /\ Held(u)' = g
    BY <2>1
  <2>3. \A u \in Threads : m_state'[Idle(u)] = "INIT" => m_ctx'[Idle(u)].at = "entry"
    BY DEF TaskInv, FiberPart, SavedInv, HandsOver
  <2> QED BY <1>5, <2>2, <2>3 DEF TaskInv, FiberPart, SavedInv
<1>k. KeptInv'
  <2> SUFFICES ASSUME NEW u \in Threads, cb_fiber'[u] # Null, ~(pc'[u] \in SwapPcs /\ branch'[u] = "cb")
               PROVE  m_state'[cb_fiber'[u]] = "INIT" /\ m_cb'[cb_fiber'[u]] = Null
    BY DEF KeptInv
  <2>1. cb_fiber'[u] = cb_fiber[u] /\ ~(pc[u] \in SwapPcs /\ branch[u] = "cb")
    BY <1>1 DEF HandsOver
  <2>2. m_state[cb_fiber[u]] = "INIT" /\ m_cb[cb_fiber[u]] = Null /\ cb_fiber[u] \in TaskFibers
    BY <1>4, <2>1 DEF TaskInv, FiberPart, KeptInv, IInv, TypeOK, LoopTypeOK
  <2> QED BY <1>5, <2>1, <2>2
<1>i. IdleInv'
  <2> SUFFICES ASSUME NEW u \in Threads
               PROVE  /\ m_state'[Idle(u)] \in {"none", "INIT", "EXEC", "TERM"}
                      /\ pc'[u] \in LoopPcs \ {"prologue"} => m_state'[Idle(u)] # "none"
                      /\ m_state'[Idle(u)] = "EXEC" => pc'[u] = "task" /\ branch'[u] = "idle"
    BY DEF IdleInv
  <2>1. CASE u = s
    BY <1>1, <2>1
  <2>2. CASE u # s
    BY <1>1, <2>2 DEF TaskInv, FiberPart, IdleInv, HandsOver
  <2> QED BY <2>1, <2>2
<1>o. OwnerInv'
  <2>1. \A u \in Threads, c \in Cbs :
           (c \in QueuedCbs(u) \/ ft[u].cb = c)' => c \in QueuedCbs(u) \/ ft[u].cb = c
    BY <1>3
  <2>2. \A u \in Threads, c \in Cbs : c \in QueuedCbs(u)' => ft'[u].cb # c
    BY <1>3 DEF TaskInv, CbPart, OwnerInv
  <2>3. \A c \in Cbs : Submitted(c)' = Submitted(c) /\ m_state'[CbFiber(c)] = m_state[CbFiber(c)]
    BY <1>4, <1>5 DEF Submitted
  <2> QED BY <1>5, <2>1, <2>2, <2>3 DEF TaskInv, CbPart, OwnerInv
<1>b. BodyInv'
  <2>1. \A u \in Threads, c \in Cbs :
           (c \in QueuedCbs(u) \/ ft[u].cb = c)' => c \in QueuedCbs(u) \/ ft[u].cb = c
    BY <1>3
  <2>2. \A g \in Fibers \ CbFibers : m_cb'[g] \in {"body", Null}
    BY DEF TaskInv, CbPart, BodyInv, HandsOver
  <2>3. \A c \in Cbs : Submitted(c)' = Submitted(c)
    BY <1>5 DEF Submitted
  <2> QED BY <1>4, <1>5, <2>1, <2>2, <2>3 DEF TaskInv, CbPart, BodyInv
<1>p. KeepInv'
  <2>1. \A u \in Threads, c \in Cbs : pc'[u] # "gone" /\ (c \in QueuedCbs(u) \/ ft[u].cb = c)
           => (c \in QueuedCbs(u) \/ ft[u].cb = c)'
    BY <1>1, <1>3
  <2>2. \A u \in Threads : pc'[u] # "gone" => pc[u] # "gone"
    BY <1>1
  <2> QED BY <1>4, <1>5, <2>1, <2>2 DEF TaskInv, CbPart, KeepInv
<1> QED BY <1>h, <1>s, <1>u, <1>r, <1>c, <1>k, <1>i, <1>o, <1>b, <1>p
        DEF TaskInv, FiberPart, CbPart

\* The idle fiber while it is not in the loop's hands.
LEMMA IdleRests ==
    ASSUME IInv, TaskInv, NEW s \in Threads, pc[s] # "task"
    PROVE  /\ m_state[Idle(s)] \in {"none", "INIT", "TERM"}
           /\ pc[s] \in LoopPcs \ {"prologue"} => m_state[Idle(s)] # "none"
           /\ m_state[Idle(s)] = "INIT" => m_ctx[Idle(s)].at = "entry"
BY DEF TaskInv, FiberPart, IdleInv, SavedInv

\* The scan: an entry goes from the queue to ft.
LEMMA FetchKeeps == ASSUME IInv, TaskInv, NEW s \in Threads, Fetch(s) PROVE TaskInv'
<1>1. /\ pc[s] = "fetch" /\ pc' = [pc EXCEPT ![s] = "picked"]
      /\ UNCHANGED <<m_state, m_cb, m_ctx, home, submitted, ended, cb_fiber, branch>>
  BY DEF Fetch, Goto, fiberVars, taskVars
<1>2. PICK i \in DOMAIN m_fibers[s] :
          /\ Runnable(s, m_fibers[s][i]) /\ ft' = [ft EXCEPT ![s] = m_fibers[s][i]]
          /\ m_fibers' = [m_fibers EXCEPT ![s] = RemoveAt(@, i)]
  BY DEF Fetch
<1>3. PICK e : e = m_fibers[s][i]
  OBVIOUS
<1>4. /\ QueueInv' /\ e \in Entry /\ (e.fiber = Null <=> e.cb # Null)
      /\ \A f \in TaskFibers : f \in QueuedFibers(s)' <=> f \in QueuedFibers(s) /\ f # e.fiber
      /\ \A c \in Cbs : c \in QueuedCbs(s)' <=> c \in QueuedCbs(s) /\ c # e.cb
      /\ e.fiber \in QueuedFibers(s) /\ e.cb \in QueuedCbs(s)
      /\ \A u \in Threads : u # s => m_fibers'[u] = m_fibers[u]
  <2>1. QueueInv /\ m_fibers' = [m_fibers EXCEPT ![s] = RemoveAt(@, i)]
    BY <1>2 DEF TaskInv, FiberPart
  <2>2. Erased(s, e)
    BY <1>3, <2>1, QueueErase, Zenon
  <2> QED BY <2>2 DEF Erased
<1>5. /\ ft'[s] = e /\ pc'[s] = "picked" /\ \A u \in Threads : u # s => ft'[u] = ft[u] /\ pc'[u] = pc[u]
  BY <1>1, <1>2, <1>3 DEF IInv, TypeOK, LoopTypeOK
<1>6. Held(s) = Null /\ Held(s)' = e.fiber /\ ft[s].cb = Null /\ ft[s].fiber = Null
  BY <1>1, <1>5 DEF Held, SwapPcs, InSwap, TaskInv, FiberPart, LocalInv
<1>7. Null \notin TaskFibers /\ Null \notin Cbs /\ e.fiber \in TaskFibers \cup {Null}
  BY <1>4, FiberSets DEF Entry
<1>8. HandsOver(s, "picked")
  BY <1>1, <1>4, <1>5 DEF HandsOver
<1>9. LocalInv'
  BY <1>1, <1>4, <1>5 DEF TaskInv, FiberPart, LocalInv, SwapPcs, InSwap
<1>10. Fits(s, Held(s))'
  <2>1. e.fiber # Null => Waiting(e.fiber)
    BY <1>2, <1>3, <1>4, <1>7 DEF Runnable, TaskInv, FiberPart, QueuedInv
  <2>2. Fits(s, e.fiber)'
    BY <1>1, <1>5, <2>1 DEF Fits, Waiting
  <2> QED BY <1>6, <2>2
<1>11. /\ m_state'[Idle(s)] \in {"none", "INIT", "TERM"} /\ m_state'[Idle(s)] # "none"
       /\ m_state'[Idle(s)] = "INIT" => m_ctx'[Idle(s)].at = "entry"
  BY <1>1, IdleRests DEF LoopPcs
<1>12. /\ \A g \in TaskFibers :
             (g \in QueuedFibers(s) \/ Held(s) = g)' <=> g \in QueuedFibers(s) \/ Held(s) = g
       /\ \A g \in TaskFibers : ~(g \in QueuedFibers(s) /\ Held(s) = g)'
       /\ \A c \in Cbs : (c \in QueuedCbs(s) \/ ft[s].cb = c)' <=> c \in QueuedCbs(s) \/ ft[s].cb = c
       /\ \A c \in Cbs : ~(c \in QueuedCbs(s) /\ ft[s].cb = c)'
  BY <1>4, <1>5, <1>6, <1>7
<1>13. "picked" \in Pcs /\ "picked" \notin SwapPcs /\ pc[s] \notin SwapPcs
  BY <1>1 DEF Pcs, LoopPcs, SwapPcs, InSwap
<1> QED BY <1>1, <1>4, <1>8, <1>9, <1>10, <1>11, <1>12, <1>13, HandsOverKeeps

\* The fetch that finds nothing, the choice of the idle branch or of a fiber's.
LEMMA ChoiceKeeps ==
    ASSUME IInv, TaskInv, NEW s \in Threads,
           FetchNothing(s) \/ DispatchFiber(s) \/ DispatchIdle(s)
    PROVE  TaskInv'
<1>1. /\ UNCHANGED <<m_state, m_cb, m_ctx, home, submitted, ended, cb_fiber, m_fibers>>
      /\ \/ /\ pc[s] = "fetch" /\ pc' = [pc EXCEPT ![s] = "picked"]
            /\ ft' = [ft EXCEPT ![s] = NoEntry] /\ branch' = branch
         \/ /\ pc[s] = "picked" /\ pc' = [pc EXCEPT ![s] = "swap"] /\ HasFiber(s)
            /\ branch' = [branch EXCEPT ![s] = "fiber"] /\ ft' = ft
         \/ /\ pc[s] = "picked" /\ pc' = [pc EXCEPT ![s] = "swap"] /\ ~HasFiber(s) /\ ~HasCb(s)
            /\ branch' = [branch EXCEPT ![s] = "idle"] /\ ft' = ft /\ m_state[Idle(s)] # "TERM"
  BY DEF FetchNothing, DispatchFiber, DispatchIdle, Goto, fiberVars, queueVars, taskVars
<1>2. PICK to \in {"picked", "swap"} :
          pc' = [pc EXCEPT ![s] = to] /\ (to = "picked" => pc[s] = "fetch")
  BY <1>1
<1>3. pc'[s] = to /\ \A u \in Threads : u # s => ft'[u] = ft[u] /\ pc'[u] = pc[u] /\ branch'[u] = branch[u]
  BY <1>1, <1>2 DEF IInv, TypeOK, LoopTypeOK
<1>4. /\ QueuedFibers(s)' = QueuedFibers(s) /\ QueuedCbs(s)' = QueuedCbs(s)
      /\ \A u \in Threads : Orderly(m_fibers[u])' = Orderly(m_fibers[u])
  BY <1>1, QueueSame
<1>5. Null \notin TaskFibers /\ Null \notin Cbs /\ ft[s].fiber \in TaskFibers \cup {Null}
      /\ pc[s] \in {"fetch", "picked"} /\ pc[s] \in LoopPcs \ {"prologue"}
      /\ to \in Pcs /\ pc[s] \notin SwapPcs
  BY <1>1, FiberSets DEF IInv, TypeOK, LoopTypeOK, Entry, Pcs, LoopPcs, SwapPcs, InSwap
<1>6. /\ pc[s] = "picked" /\ ft[s].fiber # Null => Waiting(ft[s].fiber)
      /\ pc[s] = "fetch" => ft[s].fiber = Null /\ ft[s].cb = Null
      /\ ft[s].fiber = Null \/ ft[s].cb = Null
  BY DEF Held, TaskInv, FiberPart, StageInv, Fits, LocalInv, SwapPcs, InSwap
<1>7. /\ ~HasFiber(s) /\ pc[s] = "picked" => ft[s].fiber = Null
      /\ HasFiber(s) => ft[s].fiber # Null
  BY <1>6 DEF HasFiber, Finished, Waiting
<1>8. /\ ft'[s].fiber = ft[s].fiber /\ ft'[s].cb = ft[s].cb
      /\ to = "swap" => /\ branch'[s] \in {"fiber", "idle"} /\ ft[s].cb = Null
                        /\ branch'[s] = "fiber" => ft[s].fiber # Null
                        /\ branch'[s] = "idle" => ft[s].fiber = Null /\ m_state[Idle(s)] # "TERM"
  <2>1. CASE pc[s] = "fetch"
    BY <1>1, <1>3, <1>6, <2>1 DEF NoEntry, IInv, TypeOK, LoopTypeOK
  <2>2. CASE pc[s] = "picked"
    BY <1>1, <1>2, <1>6, <1>7, <2>2 DEF HasCb, IInv, TypeOK, LoopTypeOK
  <2> QED BY <1>5, <2>1, <2>2
<1>9. /\ Held(s)' = Held(s) \/ (Held(s) = Null /\ Held(s)' = Idle(s))
      /\ to = "swap" /\ branch'[s] = "idle" => Held(s)' = Idle(s)
      /\ to = "swap" /\ branch'[s] = "fiber" => Held(s)' = ft[s].fiber
      /\ to = "picked" => Held(s)' = ft[s].fiber
  <2>1. Held(s) = ft[s].fiber
    BY <1>5, <1>6 DEF Held, SwapPcs, InSwap
  <2>2. /\ to = "swap" /\ branch'[s] = "idle" => Held(s)' = Idle(s)
        /\ to = "swap" /\ branch'[s] = "fiber" => Held(s)' = ft[s].fiber
        /\ to = "picked" => Held(s)' = ft[s].fiber
    BY <1>3, <1>8 DEF Held, Target, SwapPcs, InSwap
  <2> QED BY <1>8, <2>1, <2>2
<1>10. HandsOver(s, to)
  BY <1>1, <1>2, <1>3 DEF HandsOver
<1>11. QueueInv' /\ LocalInv'
  <2>1. QueueInv'
    BY <1>4 DEF TaskInv, FiberPart, QueueInv
  <2>2. LocalInv'
    BY <1>1, <1>3, <1>5, <1>6, <1>8 DEF TaskInv, FiberPart, LocalInv, SwapPcs, InSwap
  <2> QED BY <2>1, <2>2
<1>12. /\ m_state[Idle(s)] \in {"none", "INIT", "TERM"} /\ m_state[Idle(s)] # "none"
       /\ m_state[Idle(s)] = "INIT" => m_ctx[Idle(s)].at = "entry"
  BY <1>5, IdleRests
<1>13. Fits(s, Held(s))'
  <2>1. PICK f : f = Held(s)'
    OBVIOUS
  <2>2. Fits(s, f)'
    <3>1. CASE to = "swap" /\ branch'[s] = "idle"
      BY <1>1, <1>3, <1>8, <1>9, <1>12, <2>1, <3>1 DEF Fits
    <3>2. CASE to = "picked"
      <4>1. ft[s].fiber = Null
        BY <1>2, <1>6, <3>2
      <4> QED BY <1>3, <1>9, <2>1, <3>2, <4>1 DEF Fits
    <3>3. CASE to = "swap" /\ branch'[s] = "fiber"
      <4>1. Waiting(f)
        BY <1>1, <1>3, <1>6, <1>8, <1>9, <2>1, <3>3
      <4> QED BY <1>1, <1>3, <3>3, <4>1 DEF Fits, Waiting
    <3> QED BY <1>8, <3>1, <3>2, <3>3
  <2> QED BY <2>1, <2>2
<1>14. /\ \A g \in TaskFibers : (Held(s) = g)' <=> Held(s) = g
       /\ \A c \in Cbs : ~(c \in QueuedCbs(s) /\ ft[s].cb = c)
  BY <1>5, <1>9, FiberSets DEF TaskInv, CbPart, OwnerInv
<1>15. ~(to \in SwapPcs /\ branch'[s] = "cb")
  BY <1>8 DEF SwapPcs, InSwap
<1>16. to # "yielding" /\ to # "gone" /\ pc[s] # "gone"
  BY <1>5
<1> QED BY <1>1, <1>4, <1>5, <1>8, <1>10, <1>11, <1>12, <1>13, <1>14, <1>15, <1>16, HandsOverKeeps

\* Steps between places where the loop has nothing in its hands.
LEMMA OutsideKeeps ==
    ASSUME IInv, TaskInv, NEW s \in Threads, NEW to \in Pcs, HandsOver(s, to),
           pc[s] \notin SwapPcs, pc[s] # "gone", to \notin {"picked", "gone"} \cup SwapPcs,
           m_fibers' = m_fibers, Held(s) = Null, ft[s].cb = Null,
           ft'[s].fiber = Null, ft'[s].cb = Null, to # "fetch" => cb_fiber'[s] = Null,
           /\ m_state'[Idle(s)] \in {"none", "INIT", "TERM"}
           /\ to \in LoopPcs \ {"prologue"} => m_state'[Idle(s)] # "none"
           /\ m_state'[Idle(s)] = "INIT" => m_ctx'[Idle(s)].at = "entry"
    PROVE  TaskInv'
<1>1. pc'[s] = to /\ \A u \in Threads : u # s => pc'[u] = pc[u]
  BY DEF HandsOver, IInv, TypeOK, LoopTypeOK
<1>2. Held(s)' = Null
  BY <1>1 DEF Held
<1>3. /\ QueuedFibers(s)' = QueuedFibers(s) /\ QueuedCbs(s)' = QueuedCbs(s)
      /\ \A u \in Threads : Orderly(m_fibers[u])' = Orderly(m_fibers[u])
  BY QueueSame
<1>4. QueueInv'
  BY <1>3 DEF TaskInv, FiberPart, QueueInv
<1>5. LocalInv'
  BY <1>1 DEF TaskInv, FiberPart, LocalInv, HandsOver
<1>6. Fits(s, Held(s))'
  BY <1>1, <1>2 DEF Fits, SwapPcs, InSwap
<1>7. Null \notin TaskFibers /\ Null \notin Cbs
  BY FiberSets
<1>8. to # "yielding" /\ ~(to \in SwapPcs /\ branch'[s] = "cb") /\ to # "gone"
  BY DEF SwapPcs, InSwap
<1>9. /\ \A g \in TaskFibers : (g \in QueuedFibers(s) \/ Held(s) = g)' <=> g \in QueuedFibers(s) \/ Held(s) = g
      /\ \A g \in TaskFibers : ~(g \in QueuedFibers(s) /\ Held(s) = g)'
      /\ \A c \in Cbs : (c \in QueuedCbs(s) \/ ft[s].cb = c)' <=> c \in QueuedCbs(s) \/ ft[s].cb = c
      /\ \A c \in Cbs : ~(c \in QueuedCbs(s) /\ ft[s].cb = c)'
  BY <1>2, <1>3, <1>7
<1> QED BY <1>4, <1>5, <1>6, <1>8, <1>9, HandsOverKeeps

\* run's locals outside the loop.
LEMMA EmptyHands ==
    ASSUME IInv, TaskInv, NEW s \in Threads, pc[s] \notin {"fetch", "picked"} \cup SwapPcs
    PROVE  Held(s) = Null /\ ft[s].fiber = Null /\ ft[s].cb = Null /\ cb_fiber[s] = Null
BY DEF Held, TaskInv, FiberPart, LocalInv

\* A state, callback or context of a fiber that is no task's and no idle fiber.
LEMMA OtherFibers ==
    ASSUME NEW s \in Threads
    PROVE  /\ Main(s) \in Fibers \ TaskFibers /\ Root(s) \in Fibers \ TaskFibers
           /\ Idle(s) \in Fibers \ TaskFibers /\ CbFibers \subseteq TaskFibers
           /\ TaskFibers \subseteq Fibers
           /\ \A u \in Threads : Main(s) # Idle(u) /\ Root(s) # Idle(u) /\ Idle(u) \in Fibers
           /\ \A u \in Threads : u # s => Idle(s) # Idle(u)
BY FiberSets, ThreadFibersApart

LEMMA ConstructKeeps ==
    ASSUME IInv, TaskInv, NEW s \in Threads, NEW threads, NEW use_caller, Construct(s, threads, use_caller)
    PROVE  TaskInv'
<1>1. /\ pc[s] = "absent" /\ pc' = [pc EXCEPT ![s] = "out"]
      /\ UNCHANGED <<m_cb, m_ctx, m_fibers, home, submitted, ended, ft, cb_fiber, branch>>
      /\ \/ m_state' = [m_state EXCEPT ![Main(s)] = "EXEC", ![Root(s)] = "INIT"]
         \/ m_state' = m_state
  BY DEF Construct, Goto, queueVars, loopVars, taskVars
<1>2. \A g \in Fibers : g # Main(s) /\ g # Root(s) => m_state'[g] = m_state[g]
  BY <1>1 DEF IInv, TypeOK, FiberTypeOK
<1>3. HandsOver(s, "out")
  BY <1>1, <1>2, OtherFibers DEF HandsOver
<1>4. pc[s] \notin SwapPcs /\ pc[s] \notin {"fetch", "picked"} \cup SwapPcs
      /\ "out" \in Pcs /\ "out" \notin {"picked", "gone"} \cup SwapPcs /\ "out" \notin LoopPcs
  BY <1>1 DEF SwapPcs, InSwap, Pcs, LoopPcs
<1>5. Held(s) = Null /\ ft[s].fiber = Null /\ ft[s].cb = Null /\ cb_fiber[s] = Null
  BY <1>4, EmptyHands
<1>6. /\ m_state'[Idle(s)] \in {"none", "INIT", "TERM"}
      /\ m_state'[Idle(s)] = "INIT" => m_ctx'[Idle(s)].at = "entry"
  BY <1>1, <1>2, IdleRests, OtherFibers
<1> QED BY <1>1, <1>3, <1>4, <1>5, <1>6, OutsideKeeps

LEMMA StartKeeps == ASSUME IInv, TaskInv, NEW s \in Threads, Start(s) PROVE TaskInv'
<1>1. /\ pc[s] = "out" /\ pc' = [pc EXCEPT ![s] = "prologue"]
      /\ UNCHANGED <<m_cb, m_fibers, home, submitted, ended, ft, cb_fiber, branch>>
      /\ m_state' = [m_state EXCEPT ![Root(s)] = "EXEC"]
      /\ SwapContext(s, Main(s), "start", Root(s))
  BY DEF Start, BeginStart, Goto, Call, queueVars, loopVars, taskVars
<1>2. \A g \in Fibers : g # Root(s) => m_state'[g] = m_state[g]
  BY <1>1 DEF IInv, TypeOK, FiberTypeOK
<1>3. \A g \in Fibers : g # Main(s) /\ g # Root(s) => m_ctx'[g].at = m_ctx[g].at
  BY <1>1, SwapContextAt, OtherFibers, ThreadFibersApart DEF IInv, TypeOK, Points
<1>4. HandsOver(s, "prologue")
  BY <1>1, <1>2, <1>3, OtherFibers DEF HandsOver
<1>5. pc[s] \notin SwapPcs /\ pc[s] \notin {"fetch", "picked"} \cup SwapPcs
      /\ "prologue" \in Pcs /\ "prologue" \notin {"picked", "gone"} \cup SwapPcs
  BY <1>1 DEF SwapPcs, InSwap, Pcs, LoopPcs
<1>6. Held(s) = Null /\ ft[s].fiber = Null /\ ft[s].cb = Null /\ cb_fiber[s] = Null
  BY <1>5, EmptyHands
<1>7. /\ m_state'[Idle(s)] \in {"none", "INIT", "TERM"}
      /\ m_state'[Idle(s)] = "INIT" => m_ctx'[Idle(s)].at = "entry"
  BY <1>1, <1>2, <1>3, IdleRests, OtherFibers
<1> QED BY <1>1, <1>4, <1>5, <1>6, <1>7, OutsideKeeps

LEMMA PrologueKeeps == ASSUME IInv, TaskInv, NEW s \in Threads, Prologue(s) PROVE TaskInv'
<1>1. /\ pc[s] = "prologue" /\ pc' = [pc EXCEPT ![s] = "fetch"] /\ NewFiber(Idle(s), "body")
      /\ UNCHANGED <<m_fibers, home, submitted, ended, ft, cb_fiber, branch>>
  BY DEF Prologue, Goto, queueVars, loopVars, taskVars
<1>2. /\ m_state'[Idle(s)] = "INIT" /\ m_cb'[Idle(s)] = "body" /\ m_ctx'[Idle(s)].at = "entry"
      /\ \A g \in Fibers : g # Idle(s) =>
            m_state'[g] = m_state[g] /\ m_cb'[g] = m_cb[g] /\ m_ctx'[g] = m_ctx[g]
  BY <1>1, OtherFibers DEF NewFiber, EntryContext, IInv, TypeOK, FiberTypeOK
<1>3. HandsOver(s, "fetch")
  BY <1>1, <1>2, OtherFibers DEF HandsOver
<1>4. pc[s] \notin SwapPcs /\ pc[s] \notin {"fetch", "picked"} \cup SwapPcs
      /\ "fetch" \in Pcs /\ "fetch" \notin {"picked", "gone"} \cup SwapPcs
  BY <1>1 DEF SwapPcs, InSwap, Pcs, LoopPcs
<1>5. Held(s) = Null /\ ft[s].fiber = Null /\ ft[s].cb = Null /\ cb_fiber[s] = Null
  BY <1>4, EmptyHands
<1> QED BY <1>1, <1>2, <1>3, <1>4, <1>5, OutsideKeeps

LEMMA BreakKeeps == ASSUME IInv, TaskInv, NEW s \in Threads, Break(s) PROVE TaskInv'
<1>1. /\ pc[s] = "picked" /\ pc' = [pc EXCEPT ![s] = "back"] /\ CbReturns(s)
      /\ ~HasFiber(s) /\ ~HasCb(s)
      /\ ft' = [ft EXCEPT ![s] = NoEntry] /\ cb_fiber' = [cb_fiber EXCEPT ![s] = Null]
      /\ branch' = [branch EXCEPT ![s] = "none"]
      /\ UNCHANGED <<m_fibers, home, submitted, ended>>
  BY DEF Break, Goto, queueVars, taskVars
<1>2. /\ m_ctx' = m_ctx /\ m_cb'[Root(s)] = Null
      /\ \A g \in Fibers : g # Root(s) => m_state'[g] = m_state[g] /\ m_cb'[g] = m_cb[g]
  <2>1. cpu[s] = Root(s)
    BY <1>1 DEF IInv, OnItsStack, StackOf
  <2> QED BY <1>1, <2>1, OtherFibers DEF CbReturns, IInv, TypeOK, FiberTypeOK
<1>3. /\ ft'[s] = NoEntry /\ cb_fiber'[s] = Null
      /\ \A u \in Threads : u # s =>
            ft'[u] = ft[u] /\ cb_fiber'[u] = cb_fiber[u] /\ branch'[u] = branch[u]
  BY <1>1 DEF IInv, TypeOK, LoopTypeOK
<1>4. HandsOver(s, "back")
  BY <1>1, <1>2, <1>3, OtherFibers DEF HandsOver
<1>5. pc[s] \notin SwapPcs /\ "back" \in Pcs /\ "back" \notin {"picked", "gone"} \cup SwapPcs
      /\ pc[s] \in LoopPcs \ {"prologue"} /\ "back" # "fetch"
  BY <1>1 DEF SwapPcs, InSwap, Pcs, LoopPcs
<1>6. Held(s) = Null /\ ft[s].cb = Null
  <2>1. Held(s) = ft[s].fiber /\ (Held(s) # Null => Waiting(Held(s)))
    BY <1>1, HeldType DEF TaskInv, FiberPart, StageInv, Fits
  <2>2. Held(s) = Null
    BY <1>1, <2>1 DEF HasFiber, Finished, Waiting
  <2> QED BY <1>1, <2>2 DEF HasCb
<1>7. /\ m_state'[Idle(s)] \in {"none", "INIT", "TERM"} /\ m_state'[Idle(s)] # "none"
      /\ m_state'[Idle(s)] = "INIT" => m_ctx'[Idle(s)].at = "entry"
  BY <1>1, <1>2, <1>5, IdleRests, OtherFibers
<1>8. ft'[s].fiber = Null /\ ft'[s].cb = Null
  BY <1>3 DEF NoEntry
<1> QED BY <1>1, <1>3, <1>4, <1>5, <1>6, <1>7, <1>8, OutsideKeeps

LEMMA BackKeeps == ASSUME IInv, TaskInv, NEW s \in Threads, BackToStart(s) PROVE TaskInv'
<1>1. /\ pc[s] = "back" /\ pc' = [pc EXCEPT ![s] = "out"]
      /\ UNCHANGED <<m_state, m_cb, m_fibers, home, submitted, ended, ft, cb_fiber, branch>>
      /\ SwapContext(s, cpu[s], "end", Main(s))
  BY DEF BackToStart, Goto, Back, queueVars, loopVars, taskVars
<1>2. \A g \in Fibers : g # Main(s) /\ g # Root(s) => m_ctx'[g].at = m_ctx[g].at
  <2>1. cpu[s] = Root(s)
    BY <1>1 DEF IInv, OnItsStack, StackOf
  <2> QED BY <1>1, <2>1, SwapContextAt, OtherFibers, ThreadFibersApart DEF IInv, TypeOK, Points
<1>3. HandsOver(s, "out")
  BY <1>1, <1>2, OtherFibers DEF HandsOver
<1>4. pc[s] \notin SwapPcs /\ pc[s] \notin {"fetch", "picked"} \cup SwapPcs
      /\ "out" \in Pcs /\ "out" \notin {"picked", "gone"} \cup SwapPcs /\ "out" \notin LoopPcs
  BY <1>1 DEF SwapPcs, InSwap, Pcs, LoopPcs
<1>5. Held(s) = Null /\ ft[s].fiber = Null /\ ft[s].cb = Null /\ cb_fiber[s] = Null
  BY <1>4, EmptyHands
<1>6. /\ m_state'[Idle(s)] \in {"none", "INIT", "TERM"}
      /\ m_state'[Idle(s)] = "INIT" => m_ctx'[Idle(s)].at = "entry"
  BY <1>1, <1>2, IdleRests, OtherFibers
<1> QED BY <1>1, <1>3, <1>4, <1>5, <1>6, OutsideKeeps

\* The queue of a scheduler that is destroyed is lost, and nothing else.
LEMMA DestroyKeeps == ASSUME IInv, TaskInv, NEW s \in Threads, Destroy(s) PROVE TaskInv'
<1>1. /\ pc[s] = "out" /\ pc' = [pc EXCEPT ![s] = "gone"]
      /\ UNCHANGED <<m_state, m_cb, m_ctx, home, submitted, ended, ft, cb_fiber, branch>>
      /\ m_fibers' = [m_fibers EXCEPT ![s] = <<>>]
  BY DEF Destroy, Goto, fiberVars, loopVars, taskVars
<1>2. /\ m_fibers'[s] = <<>> /\ \A u \in Threads : u # s => m_fibers'[u] = m_fibers[u]
      /\ pc'[s] = "gone" /\ \A u \in Threads : u # s => pc'[u] = pc[u]
  BY <1>1 DEF IInv, TypeOK, QueueTypeOK, LoopTypeOK
<1>3. QueuedFibers(s)' = {} /\ QueuedCbs(s)' = {}
  BY <1>2 DEF QueuedFibers, QueuedCbs, ToSet
<1>4. QueueInv'
  <2>1. Orderly(<<>>)
    BY DEF Orderly
  <2> QED BY <1>2, <2>1 DEF TaskInv, FiberPart, QueueInv
<1>5. HandsOver(s, "gone")
  BY <1>1, <1>2 DEF HandsOver
<1>6. pc[s] \notin {"fetch", "picked"} \cup SwapPcs /\ "gone" \in Pcs
      /\ "gone" \notin {"picked"} \cup SwapPcs /\ "gone" \notin LoopPcs
  BY <1>1 DEF SwapPcs, InSwap, Pcs, LoopPcs
<1>7. Held(s) = Null /\ ft[s].fiber = Null /\ ft[s].cb = Null /\ cb_fiber[s] = Null
  BY <1>6, EmptyHands
<1>8. Held(s)' = Null
  BY <1>2, <1>6 DEF Held
<1>9. LocalInv'
  BY <1>1, <1>2, <1>7 DEF TaskInv, FiberPart, LocalInv
<1>10. Fits(s, Held(s))'
  BY <1>2, <1>8 DEF Fits
<1>11. /\ m_state'[Idle(s)] \in {"none", "INIT", "TERM"}
       /\ m_state'[Idle(s)] = "INIT" => m_ctx'[Idle(s)].at = "entry"
  BY <1>1, IdleRests
<1>12. Null \notin TaskFibers /\ Null \notin Cbs
  BY FiberSets
<1>13. /\ \A g \in TaskFibers : ~(g \in QueuedFibers(s) \/ Held(s) = g)'
       /\ \A c \in Cbs : ~(c \in QueuedCbs(s) \/ ft[s].cb = c)'
  BY <1>1, <1>3, <1>7, <1>8, <1>12
<1> QED BY <1>1, <1>4, <1>5, <1>6, <1>9, <1>10, <1>11, <1>13, HandsOverKeeps

-----------------------------------------------------------------------------
(* The callers of scheduler(), and the choice of a callback.               *)

\* Nothing the invariant speaks of changes.
LEMMA StutterKeeps ==
    ASSUME TaskInv, UNCHANGED <<m_state, m_cb, m_ctx, pc, m_fibers, home, submitted, ended,
                                ft, cb_fiber, branch>>
    PROVE  TaskInv'
<1>1. /\ \A u : Held(u)' = Held(u) /\ QueuedFibers(u)' = QueuedFibers(u) /\ QueuedCbs(u)' = QueuedCbs(u)
      /\ \A u : Orderly(m_fibers[u])' = Orderly(m_fibers[u])
  BY HeldSame, QueueSame
<1>2. (\A f : Waiting(f)' = Waiting(f)) /\ (\A c : Submitted(c)' = Submitted(c))
  BY DEF Waiting, Submitted
<1>3. \A u : Fits(u, Held(u))' = Fits(u, Held(u))
  BY <1>1, <1>2 DEF Fits
<1>4. QueueInv' /\ LocalInv' /\ StageInv' /\ KeptInv' /\ IdleInv'
  BY <1>1, <1>3 DEF TaskInv, FiberPart, QueueInv, LocalInv, StageInv, KeptInv, IdleInv
<1>5. HomeInv' /\ QueuedInv'
  BY <1>1, <1>2 DEF TaskInv, FiberPart, HomeInv, QueuedInv
<1>6. ReadyInv' /\ SavedInv'
  BY <1>1 DEF TaskInv, FiberPart, ReadyInv, SavedInv
<1>7. OwnerInv' /\ BodyInv' /\ KeepInv'
  BY <1>1, <1>2 DEF TaskInv, CbPart, OwnerInv, BodyInv, KeepInv
<1> QED BY <1>4, <1>5, <1>6, <1>7 DEF TaskInv, FiberPart, CbPart

\* A wake-up within the protocol.
LEMMA ScheduleFiberKeeps ==
    ASSUME Discipline, IInv, TaskInv, NEW s \in Threads, NEW f \in TaskFibers, NEW thr \in Pins,
           ScheduleFiber(s, f, thr)
    PROVE  TaskInv'
<1>1. /\ UNCHANGED <<m_state, m_cb, m_ctx, pc, submitted, ended, ft, cb_fiber, branch>>
      /\ m_fibers' = [m_fibers EXCEPT ![s] = Append(@, FiberEntry(f, thr))]
      /\ home' = [home EXCEPT ![f] = s]
      /\ MayWake(s, f)
  BY DEF ScheduleFiber, fiberVars, loopVars, taskVars
<1>2. /\ \A u \in Threads : f \notin QueuedFibers(u)
      /\ m_state[f] \in {"HOLD", "EXEC"} \/ (m_state[f] = "INIT" /\ f \in UserFibers)
      /\ home[f] \in {Null, s} \/ AtRest(home[f], f)
  BY <1>1 DEF MayWake, Discipline, Queued
<1>3. /\ QueueInv' /\ QueuedFibers(s)' = QueuedFibers(s) \cup {f}
      /\ \A c \in Cbs : c \in QueuedCbs(s)' <=> c \in QueuedCbs(s)
      /\ \A u \in Threads : u # s => m_fibers'[u] = m_fibers[u]
  BY <1>1, <1>2, QueueFiber DEF TaskInv, FiberPart
<1>4. \A u \in Threads : u # s => QueuedFibers(u)' = QueuedFibers(u) /\ QueuedCbs(u)' = QueuedCbs(u)
  BY <1>3, QueueSame
<1>5. \A u \in Threads : Held(u)' = Held(u)
  BY <1>1, HeldSame
<1>6. home'[f] = s /\ \A g \in TaskFibers : g # f => home'[g] = home[g]
  BY <1>1 DEF IInv, TypeOK, QueueTypeOK
<1>7. ASSUME NEW u \in Threads, u # s PROVE Held(u) # f /\ cb_fiber[u] # f
  <2>1. u # Null /\ f # Null
    BY FiberSets, FiberAssumption
  <2>2. home[f] # u => Held(u) # f /\ cb_fiber[u] # f
    BY DEF TaskInv, FiberPart, HomeInv
  <2>3. CASE home[f] = u /\ pc[u] \in {"out", "gone"}
    BY <2>1, <2>3, EmptyHands DEF SwapPcs, InSwap
  <2>4. CASE home[f] = u /\ Running(u, cpu[u]) /\ cpu[u] # f
    <3>1. /\ pc[u] \in SwapPcs /\ Held(u) = cpu[u] /\ Held(u) \in TaskFibers
          /\ branch[u] = "cb" => cb_fiber[u] = Held(u)
      BY <2>4, HeldType DEF Running, SwapPcs, InSwap
    <3>2. branch[u] # "cb" /\ cb_fiber[u] # Null
             => m_state[cb_fiber[u]] = "INIT" /\ cb_fiber[u] \in CbFibers
      BY <3>1 DEF TaskInv, FiberPart, KeptInv, IInv, TypeOK, LoopTypeOK
    <3>3. f \notin UserFibers => m_state[f] # "INIT"
      BY <1>2
    <3> QED BY <2>1, <2>4, <3>1, <3>2, <3>3, FiberAssumption
  <2>5. home[f] = u => pc[u] \in {"out", "gone"} \/ (Running(u, cpu[u]) /\ cpu[u] # f)
    BY <1>2, <1>7, <2>1 DEF AtRest, Running
  <2> QED BY <2>2, <2>3, <2>4, <2>5
<1>8. /\ \A g : Waiting(g)' = Waiting(g)
      /\ \A c : Submitted(c)' = Submitted(c)
      /\ \A u : Fits(u, Held(u))' = Fits(u, Held(u))
  <2>1. (\A g : Waiting(g)' = Waiting(g)) /\ (\A c : Submitted(c)' = Submitted(c))
    BY <1>1 DEF Waiting, Submitted
  <2>2. \A u : Held(u)' = Held(u)
    BY <1>1, HeldSame
  <2>3. \A u : Fits(u, Held(u))' = Fits(u, Held(u))
    BY <1>1, <2>1, <2>2 DEF Fits
  <2> QED BY <2>1, <2>3
<1>9. CbFibers \subseteq TaskFibers /\ UserFibers \subseteq TaskFibers
  BY DEF TaskFibers
<1>l. LocalInv' /\ StageInv' /\ KeptInv' /\ IdleInv' /\ SavedInv'
  BY <1>1, <1>5, <1>8 DEF TaskInv, FiberPart, LocalInv, StageInv, KeptInv, IdleInv, SavedInv
<1>h. HomeInv'
  <2>1. ASSUME NEW u \in Threads, NEW g \in TaskFibers,
               (g \in QueuedFibers(u) \/ Held(u) = g \/ cb_fiber[u] = g)'
        PROVE  home'[g] = u
    <3>1. CASE u = s /\ g = f
      BY <1>6, <3>1
    <3>2. CASE g # f
      <4>1. g \in QueuedFibers(u) \/ Held(u) = g \/ cb_fiber[u] = g
        BY <1>1, <1>3, <1>4, <1>5, <2>1, <3>2
      <4> QED BY <1>6, <3>2, <4>1 DEF TaskInv, FiberPart, HomeInv
    <3>3. u = s \/ g # f
      BY <1>1, <1>2, <1>4, <1>5, <1>7, <2>1
    <3> QED BY <3>1, <3>2, <3>3
  <2>2. \A g \in CbFibers : m_state'[g] = "none" => home'[g] = Null /\ m_cb'[g] = Null
    BY <1>1, <1>2, <1>6, <1>9 DEF TaskInv, FiberPart, HomeInv
  <2>3. \A g \in UserFibers : m_state'[g] # "none"
    BY <1>1 DEF TaskInv, FiberPart, HomeInv
  <2> QED BY <2>1, <2>2, <2>3 DEF HomeInv
<1>u. QueuedInv'
  <2> SUFFICES ASSUME NEW u \in Threads, NEW g \in TaskFibers, g \in QueuedFibers(u)'
               PROVE  /\ Waiting(g) \/ m_state[g] = "EXEC"
                      /\ m_state[g] = "READY" => Held(u) # g
    BY <1>1, <1>5, <1>8 DEF QueuedInv
  <2>1. CASE g = f
    BY <1>2, <2>1 DEF Waiting
  <2>2. CASE g # f
    BY <1>3, <1>4, <2>2 DEF TaskInv, FiberPart, QueuedInv
  <2> QED BY <2>1, <2>2
<1>r. ReadyInv'
  <2> SUFFICES ASSUME NEW g \in TaskFibers, m_state[g] = "READY"
               PROVE  /\ home'[g] \in Threads
                      /\ pc[home'[g]] # "gone" => g \in QueuedFibers(home[g])' \/ Held(home[g])' = g
    BY <1>1 DEF ReadyInv
  <2>1. g # f /\ home'[g] = home[g]
    BY <1>2, <1>6
  <2>2. PICK u \in Threads : u = home[g]
    BY DEF TaskInv, FiberPart, ReadyInv
  <2>3. pc[u] # "gone" => g \in QueuedFibers(u) \/ Held(u) = g
    BY <2>2 DEF TaskInv, FiberPart, ReadyInv
  <2>4. pc[u] # "gone" => g \in QueuedFibers(u)' \/ Held(u)' = g
    BY <1>3, <1>4, <1>5, <2>3
  <2>5. u = home'[g]
    BY <2>1, <2>2
  <2> QED BY <2>4, <2>5
<1>o. OwnerInv'
  <2>1. \A u \in Threads, c \in Cbs : c \in QueuedCbs(u)' <=> c \in QueuedCbs(u)
    BY <1>3, <1>4
  <2> QED BY <1>1, <1>8, <2>1 DEF TaskInv, CbPart, OwnerInv
<1>b. BodyInv'
  <2>1. \A u \in Threads, c \in Cbs : c \in QueuedCbs(u)' <=> c \in QueuedCbs(u)
    BY <1>3, <1>4
  <2> QED BY <1>1, <1>8, <2>1 DEF TaskInv, CbPart, BodyInv
<1>p. KeepInv'
  <2>1. \A u \in Threads, c \in Cbs : c \in QueuedCbs(u)' <=> c \in QueuedCbs(u)
    BY <1>3, <1>4
  <2> QED BY <1>1, <2>1 DEF TaskInv, CbPart, KeepInv
<1> QED BY <1>3, <1>l, <1>h, <1>u, <1>r, <1>o, <1>b, <1>p DEF TaskInv, FiberPart, CbPart

\* A callback is handed over once.
LEMMA ScheduleCbKeeps ==
    ASSUME IInv, TaskInv, NEW s \in Threads, NEW c \in Cbs, NEW thr \in Pins,
           ScheduleCb(s, c, thr)
    PROVE  TaskInv'
<1>1. /\ UNCHANGED <<m_state, m_cb, m_ctx, pc, home, ended, ft, cb_fiber, branch>>
      /\ m_fibers' = [m_fibers EXCEPT ![s] = Append(@, CbEntry(c, thr))]
      /\ submitted' = [submitted EXCEPT ![s] = Append(@, c)]
      /\ ~Submitted(c) /\ pc[s] # "gone"
  BY DEF ScheduleCb, Alive, fiberVars, loopVars, taskVars
<1>2. /\ \A u \in Threads : c \notin ToSet(submitted[u])
      /\ \A u \in Threads : c \notin QueuedCbs(u) /\ ft[u].cb # c
      /\ c \notin ended /\ m_state[CbFiber(c)] = "none"
  BY <1>1 DEF Submitted, TaskInv, CbPart, OwnerInv
<1>3. /\ QueueInv' /\ \A f \in TaskFibers : f \in QueuedFibers(s)' <=> f \in QueuedFibers(s)
      /\ \A d \in Cbs : d \in QueuedCbs(s)' <=> d \in QueuedCbs(s) \/ d = c
      /\ \A u \in Threads : u # s => m_fibers'[u] = m_fibers[u]
  BY <1>1, <1>2, QueueCb DEF TaskInv, FiberPart
<1>4. /\ \A u \in Threads, f \in TaskFibers : f \in QueuedFibers(u)' <=> f \in QueuedFibers(u)
      /\ \A u \in Threads, d \in Cbs : d \in QueuedCbs(u)' <=> d \in QueuedCbs(u) \/ (u = s /\ d = c)
  BY <1>3, QueueSame
<1>5. \A u \in Threads, d \in Cbs :
         d \in ToSet(submitted'[u]) <=> d \in ToSet(submitted[u]) \/ (u = s /\ d = c)
  <2>1. submitted \in [Threads -> Seq(Cbs)]
    BY DEF IInv, TypeOK, QueueTypeOK
  <2>2. submitted'[s] = Append(submitted[s], c) /\ \A u \in Threads : u # s => submitted'[u] = submitted[u]
    BY <1>1, <2>1
  <2>3. ToSet(submitted'[s]) = ToSet(submitted[s]) \cup {c}
    BY <2>1, <2>2, ToSetAppend
  <2> QED BY <2>2, <2>3
<1>6. /\ \A u : Held(u)' = Held(u)
      /\ \A g : Waiting(g)' = Waiting(g)
      /\ \A u : Fits(u, Held(u))' = Fits(u, Held(u))
  <2>1. (\A u : Held(u)' = Held(u)) /\ (\A g : Waiting(g)' = Waiting(g))
    BY <1>1, HeldSame DEF Waiting
  <2> QED BY <1>1, <2>1 DEF Fits
<1>7. \A d \in Cbs : Submitted(d)' <=> Submitted(d) \/ d = c
  BY <1>5 DEF Submitted
<1>l. LocalInv' /\ StageInv' /\ KeptInv' /\ IdleInv' /\ SavedInv'
  BY <1>1, <1>6 DEF TaskInv, FiberPart, LocalInv, StageInv, KeptInv, IdleInv, SavedInv
<1>h. HomeInv' /\ QueuedInv'
  BY <1>1, <1>4, <1>6 DEF TaskInv, FiberPart, HomeInv, QueuedInv
<1>r. ReadyInv'
  BY <1>1, <1>4, <1>6 DEF TaskInv, FiberPart, ReadyInv
<1>o. OwnerInv'
  <2>1. \A u, t \in Threads : \A d \in Cbs :
           d \in ToSet(submitted'[u]) /\ d \in ToSet(submitted'[t]) => u = t
    BY <1>2, <1>5 DEF TaskInv, CbPart, OwnerInv
  <2>2. ASSUME NEW u \in Threads, NEW d \in Cbs
        PROVE  /\ d \in QueuedCbs(u)' \/ ft[u].cb = d =>
                     d \in ToSet(submitted'[u]) /\ d \notin ended /\ m_state[CbFiber(d)] = "none"
               /\ d \in QueuedCbs(u)' => ft[u].cb # d
    BY <1>2, <1>4, <1>5 DEF TaskInv, CbPart, OwnerInv
  <2>3. \A d \in Cbs : ~Submitted(d)' => d \notin ended /\ m_state[CbFiber(d)] = "none"
    BY <1>7 DEF TaskInv, CbPart, OwnerInv
  <2> QED BY <1>1, <2>1, <2>2, <2>3 DEF OwnerInv
<1>b. BodyInv'
  <2>1. ASSUME NEW g \in CbFibers, NEW d \in Cbs, m_cb[g] = d
        PROVE  /\ Submitted(d)'
               /\ \A u \in Threads : d \notin QueuedCbs(u)' /\ ft[u].cb # d
               /\ d \in ended <=> m_state[g] = "EXCEPT"
    <3>1. /\ Submitted(d) /\ \A u \in Threads : d \notin QueuedCbs(u) /\ ft[u].cb # d
          /\ d \in ended <=> m_state[g] = "EXCEPT"
      BY <2>1 DEF TaskInv, CbPart, BodyInv
    <3>2. d # c
      BY <1>1, <3>1
    <3> QED BY <1>4, <1>7, <3>1, <3>2
  <2>2. /\ \A g \in Fibers \ CbFibers : m_cb'[g] \in {"body", Null}
        /\ \A g \in CbFibers : m_cb'[g] \in Cbs \cup {Null}
        /\ \A g, h \in CbFibers : m_cb'[g] = m_cb'[h] /\ m_cb'[g] # Null => g = h
        /\ \A g \in CbFibers : m_state'[g] = "TERM" => m_cb'[g] = Null
    BY <1>1 DEF TaskInv, CbPart, BodyInv
  <2> QED BY <1>1, <2>1, <2>2 DEF BodyInv
<1>p. KeepInv'
  BY <1>1, <1>4, <1>5 DEF TaskInv, CbPart, KeepInv
<1> QED BY <1>3, <1>l, <1>h, <1>r, <1>o, <1>b, <1>p DEF TaskInv, FiberPart, CbPart

\* The callback branch: the callback moves from ft to the fiber kept for it, or to a
\* new one.
LEMMA DispatchCbKeeps == ASSUME IInv, TaskInv, NEW s \in Threads, DispatchCb(s) PROVE TaskInv'
<1>1. /\ pc[s] = "picked" /\ pc' = [pc EXCEPT ![s] = "swap"] /\ HasCb(s)
      /\ ft' = [ft EXCEPT ![s] = NoEntry] /\ branch' = [branch EXCEPT ![s] = "cb"]
      /\ UNCHANGED <<m_fibers, submitted, ended>>
      /\ \/ /\ cb_fiber[s] # Null /\ NewFiber(cb_fiber[s], ft[s].cb)
            /\ cb_fiber' = cb_fiber /\ home' = home
         \/ /\ cb_fiber[s] = Null /\ NewFiber(CbFiber(ft[s].cb), ft[s].cb)
            /\ cb_fiber' = [cb_fiber EXCEPT ![s] = CbFiber(ft[s].cb)]
            /\ home' = [home EXCEPT ![CbFiber(ft[s].cb)] = s]
  BY DEF DispatchCb, ResetFiber, Goto, taskVars
<1>2. PICK c \in Cbs : c = ft[s].cb
  BY <1>1 DEF HasCb, IInv, TypeOK, LoopTypeOK, Entry
<1>3. ft[s].fiber = Null /\ Held(s) = Null
  <2>1. c # Null
    BY FiberSets
  <2> QED BY <1>1, <1>2, <2>1, HeldType DEF TaskInv, FiberPart, LocalInv
<1>4. /\ CbFiber(c) \in CbFibers /\ CbFibers \subseteq TaskFibers /\ TaskFibers \subseteq Fibers
      /\ UserFibers \subseteq TaskFibers
      /\ (\A g \in CbFibers : g \notin UserFibers) /\ Null \notin TaskFibers /\ Null \notin Cbs
      /\ (\A u \in Threads : Idle(u) \in Fibers /\ Idle(u) \notin TaskFibers /\ u # Null)
  BY FiberSets, FiberAssumption DEF TaskFibers
<1>5. /\ c \in ToSet(submitted[s]) /\ c \notin ended /\ m_state[CbFiber(c)] = "none"
      /\ c \notin QueuedCbs(s)
  BY <1>2 DEF TaskInv, CbPart, OwnerInv
<1>6. PICK f \in CbFibers :
         /\ cb_fiber'[s] = f /\ NewFiber(f, c) /\ m_cb[f] = Null
         /\ home'[f] = s /\ \A g \in TaskFibers : g # f => home'[g] = home[g]
         /\ \A u \in Threads : u # s => cb_fiber'[u] = cb_fiber[u]
         /\ \/ m_state[f] = "INIT" /\ home[f] = s /\ cb_fiber[s] = f
            \/ m_state[f] = "none" /\ home[f] = Null /\ f = CbFiber(c)
  <2>1. CASE cb_fiber[s] # Null
    <3>1. cb_fiber[s] \in CbFibers /\ cb_fiber[s] \in TaskFibers
      BY <1>4, <2>1 DEF IInv, TypeOK, LoopTypeOK
    <3>2. home[cb_fiber[s]] = s
      BY <3>1 DEF TaskInv, FiberPart, HomeInv
    <3>3. m_state[cb_fiber[s]] = "INIT" /\ m_cb[cb_fiber[s]] = Null
      BY <1>1, <2>1 DEF TaskInv, FiberPart, KeptInv, SwapPcs, InSwap
    <3>4. NewFiber(cb_fiber[s], c) /\ cb_fiber' = cb_fiber /\ home' = home
      BY <1>1, <1>2, <2>1
    <3> QED BY <3>1, <3>2, <3>3, <3>4
  <2>2. CASE cb_fiber[s] = Null
    <3>1. /\ NewFiber(CbFiber(c), c) /\ cb_fiber' = [cb_fiber EXCEPT ![s] = CbFiber(c)]
          /\ home' = [home EXCEPT ![CbFiber(c)] = s]
      BY <1>1, <1>2, <2>2
    <3>2. home[CbFiber(c)] = Null /\ m_cb[CbFiber(c)] = Null
      BY <1>4, <1>5 DEF TaskInv, FiberPart, HomeInv
    <3>3. /\ cb_fiber'[s] = CbFiber(c) /\ \A u \in Threads : u # s => cb_fiber'[u] = cb_fiber[u]
      BY <3>1 DEF IInv, TypeOK, LoopTypeOK
    <3>4. home'[CbFiber(c)] = s /\ \A g \in TaskFibers : g # CbFiber(c) => home'[g] = home[g]
      BY <1>4, <3>1 DEF IInv, TypeOK, QueueTypeOK
    <3> QED BY <1>4, <1>5, <3>1, <3>2, <3>3, <3>4
  <2> QED BY <2>1, <2>2
<1>7. /\ m_state'[f] = "INIT" /\ m_cb'[f] = c /\ m_ctx'[f].at = "entry"
      /\ \A g \in Fibers : g # f =>
            m_state'[g] = m_state[g] /\ m_cb'[g] = m_cb[g] /\ m_ctx'[g] = m_ctx[g]
  BY <1>4, <1>6 DEF NewFiber, EntryContext, IInv, TypeOK, FiberTypeOK
<1>8. /\ pc'[s] = "swap" /\ ft'[s].fiber = Null /\ ft'[s].cb = Null /\ branch'[s] = "cb"
      /\ \A u \in Threads : u # s =>
            pc'[u] = pc[u] /\ ft'[u] = ft[u] /\ branch'[u] = branch[u] /\ cb_fiber'[u] = cb_fiber[u]
  BY <1>1, <1>6 DEF NoEntry, IInv, TypeOK, LoopTypeOK
<1>9. Held(s)' = f /\ \A u \in Threads : u # s => Held(u)' = Held(u)
  <2>1. Held(s)' = f
    BY <1>6, <1>8 DEF Held, Target, SwapPcs, InSwap
  <2> QED BY <1>8, <2>1, HeldSame
<1>10. \A u \in Threads : /\ QueuedFibers(u)' = QueuedFibers(u) /\ QueuedCbs(u)' = QueuedCbs(u)
                          /\ Orderly(m_fibers[u])' = Orderly(m_fibers[u])
  BY <1>1, QueueSame
<1>11. ASSUME NEW u \in Threads
       PROVE  f \notin QueuedFibers(u) /\ (u # s => Held(u) # f /\ cb_fiber[u] # f)
  <2>1. f \notin QueuedFibers(u)
    BY <1>4, <1>6 DEF TaskInv, FiberPart, QueuedInv, Waiting
  <2>2. u # s => home[f] # u
    BY <1>4, <1>6
  <2> QED BY <1>4, <2>1, <2>2 DEF TaskInv, FiberPart, HomeInv
<1>12. \A g \in CbFibers : m_cb[g] # c
  <2> SUFFICES ASSUME NEW g \in CbFibers, m_cb[g] = c PROVE FALSE
    OBVIOUS
  <2>1. ft[s].cb # c
    BY DEF TaskInv, CbPart, BodyInv
  <2> QED BY <1>2, <2>1
<1>q. QueueInv'
  BY <1>10 DEF TaskInv, FiberPart, QueueInv
<1>l. LocalInv'
  BY <1>8 DEF TaskInv, FiberPart, LocalInv, SwapPcs, InSwap
<1>h. HomeInv'
  <2>1. ASSUME NEW u \in Threads, NEW g \in TaskFibers,
               (g \in QueuedFibers(u) \/ Held(u) = g \/ cb_fiber[u] = g)'
        PROVE  home'[g] = u
    <3>1. CASE g = f
      BY <1>6, <1>8, <1>9, <1>10, <1>11, <2>1, <3>1
    <3>2. CASE g # f
      <4>1. g \in QueuedFibers(u) \/ Held(u) = g \/ cb_fiber[u] = g
        BY <1>6, <1>8, <1>9, <1>10, <2>1, <3>2
      <4> QED BY <1>6, <3>2, <4>1 DEF TaskInv, FiberPart, HomeInv
    <3> QED BY <3>1, <3>2
  <2>2. \A g \in CbFibers : m_state'[g] = "none" => home'[g] = Null /\ m_cb'[g] = Null
    BY <1>4, <1>6, <1>7 DEF TaskInv, FiberPart, HomeInv
  <2>3. \A g \in UserFibers : m_state'[g] # "none"
    BY <1>4, <1>7 DEF TaskInv, FiberPart, HomeInv
  <2> QED BY <2>1, <2>2, <2>3 DEF HomeInv
<1>s. StageInv'
  <2>1. ASSUME NEW u \in Threads, u # s PROVE Fits(u, Held(u))'
    <3>1. Held(u) # f /\ Held(u)' = Held(u)
      BY <1>9, <1>11, <2>1
    <3>2. Held(u) \in Fibers => m_state'[Held(u)] = m_state[Held(u)]
      BY <1>7, <3>1
    <3> QED BY <1>8, <2>1, <3>1, <3>2, FitsSame
  <2>2. Fits(s, Held(s))'
    <3>1. Fits(s, f)'
      BY <1>7, <1>8 DEF Fits
    <3> QED BY <1>9, <3>1
  <2> QED BY <2>1, <2>2 DEF StageInv
<1>u. QueuedInv'
  <2> SUFFICES ASSUME NEW u \in Threads, NEW g \in TaskFibers, g \in QueuedFibers(u)
               PROVE  /\ Waiting(g)' \/ m_state'[g] = "EXEC"
                      /\ m_state'[g] = "READY" => Held(u)' # g
    BY <1>10 DEF QueuedInv
  <2>1. g # f /\ m_state'[g] = m_state[g]
    BY <1>4, <1>7, <1>11
  <2>2. (Waiting(g) \/ m_state[g] = "EXEC") /\ (m_state[g] = "READY" => Held(u) # g)
    BY DEF TaskInv, FiberPart, QueuedInv
  <2>3. m_state[g] = "READY" => Held(u)' # g
    BY <1>9, <2>1, <2>2
  <2> QED BY <2>1, <2>2, <2>3 DEF Waiting
<1>r. ReadyInv'
  <2> SUFFICES ASSUME NEW g \in TaskFibers, m_state'[g] = "READY"
               PROVE  /\ home'[g] \in Threads
                      /\ pc'[home'[g]] # "gone" => g \in QueuedFibers(home[g])' \/ Held(home[g])' = g
    BY DEF ReadyInv
  <2>1. g # f /\ home'[g] = home[g] /\ m_state[g] = "READY"
    BY <1>4, <1>6, <1>7
  <2>2. PICK u \in Threads : u = home[g]
    BY <2>1 DEF TaskInv, FiberPart, ReadyInv
  <2>3. pc[u] # "gone" => g \in QueuedFibers(u) \/ Held(u) = g
    BY <2>1, <2>2 DEF TaskInv, FiberPart, ReadyInv
  <2>4. pc'[u] # "gone" => g \in QueuedFibers(u)' \/ Held(u)' = g
    <3>1. CASE u = s
      BY <1>1, <1>3, <1>4, <1>10, <2>3, <3>1
    <3>2. CASE u # s
      BY <1>8, <1>9, <1>10, <2>3, <3>2
    <3> QED BY <3>1, <3>2
  <2>5. u = home'[g]
    BY <2>1, <2>2
  <2> QED BY <2>4, <2>5
<1>c. SavedInv'
  <2>1. \A u \in Threads : pc[u] = "yielding" => pc'[u] = "yielding" /\ Held(u)' = Held(u)
    BY <1>1, <1>8, <1>9
  <2>2. \A g \in TaskFibers : (\E u \in Threads : pc[u] = "yielding" /\ Held(u) = g)
            => \E u \in Threads : pc'[u] = "yielding" /\ Held(u)' = g
    BY <2>1
  <2>3. \A u \in Threads : m_state'[Idle(u)] = "INIT" => m_ctx'[Idle(u)].at = "entry"
    BY <1>4, <1>7 DEF TaskInv, FiberPart, SavedInv
  <2>4. ASSUME NEW g \in TaskFibers, g # f
        PROVE  /\ m_state'[g] = "INIT" => m_ctx'[g].at = "entry"
               /\ m_state'[g] \in {"HOLD", "READY"} =>
                     m_ctx'[g].at = "yield" \/ \E u \in Threads : pc'[u] = "yielding" /\ Held(u)' = g
    BY <1>4, <1>7, <2>2, <2>4 DEF TaskInv, FiberPart, SavedInv
  <2> QED BY <1>7, <2>3, <2>4 DEF SavedInv
<1>k. KeptInv'
  <2> SUFFICES ASSUME NEW u \in Threads, cb_fiber'[u] # Null, ~(pc'[u] \in SwapPcs /\ branch'[u] = "cb")
               PROVE  m_state'[cb_fiber'[u]] = "INIT" /\ m_cb'[cb_fiber'[u]] = Null
    BY DEF KeptInv
  <2>1. u # s
    BY <1>8 DEF SwapPcs, InSwap
  <2>2. cb_fiber'[u] = cb_fiber[u] /\ cb_fiber[u] # f /\ cb_fiber[u] \in Fibers
    BY <1>4, <1>8, <1>11, <2>1 DEF IInv, TypeOK, LoopTypeOK
  <2>3. m_state[cb_fiber[u]] = "INIT" /\ m_cb[cb_fiber[u]] = Null
    BY <1>8, <2>1, <2>2 DEF TaskInv, FiberPart, KeptInv
  <2> QED BY <1>7, <2>2, <2>3
<1>i. IdleInv'
  <2>1. \A u \in Threads : m_state'[Idle(u)] = m_state[Idle(u)]
    BY <1>4, <1>7
  <2>2. pc[s] \in LoopPcs \ {"prologue"} /\ pc[s] # "task"
    BY <1>1 DEF LoopPcs
  <2> QED BY <1>8, <2>1, <2>2 DEF TaskInv, FiberPart, IdleInv
<1>13. \A u \in Threads, d \in Cbs : ft'[u].cb = d => ft[u].cb = d /\ d # c /\ u # s
  <2> SUFFICES ASSUME NEW u \in Threads, NEW d \in Cbs, ft'[u].cb = d
               PROVE  ft[u].cb = d /\ d # c /\ u # s
    OBVIOUS
  <2>1. u # s /\ ft[u].cb = d
    BY <1>4, <1>8
  <2> QED BY <1>5, <2>1 DEF TaskInv, CbPart, OwnerInv
<1>14. \A u \in Threads : c \notin QueuedCbs(u)
  BY <1>5 DEF TaskInv, CbPart, OwnerInv
<1>15. \A d \in Cbs : d # c /\ m_state[CbFiber(d)] = "none" => m_state'[CbFiber(d)] = "none"
  <2> SUFFICES ASSUME NEW d \in Cbs, d # c, m_state[CbFiber(d)] = "none"
               PROVE  m_state'[CbFiber(d)] = "none"
    OBVIOUS
  <2>1. CbFiber(d) # CbFiber(c) /\ CbFiber(d) \in Fibers
    BY FiberSets DEF CbFiber
  <2> QED BY <1>6, <1>7, <2>1
<1>o. OwnerInv'
  <2>1. ASSUME NEW u \in Threads, NEW d \in Cbs, d \in QueuedCbs(u) \/ ft'[u].cb = d
        PROVE  /\ d \in ToSet(submitted[u]) /\ d \notin ended /\ m_state'[CbFiber(d)] = "none"
               /\ d \in QueuedCbs(u) => ft'[u].cb # d
    BY <1>13, <1>14, <1>15, <2>1 DEF TaskInv, CbPart, OwnerInv
  <2>2. ASSUME NEW d \in Cbs, ~Submitted(d)' PROVE d \notin ended /\ m_state'[CbFiber(d)] = "none"
    <3>1. ~Submitted(d) /\ d # c
      BY <1>1, <1>5, <2>2 DEF Submitted
    <3> QED BY <1>15, <3>1 DEF TaskInv, CbPart, OwnerInv
  <2> QED BY <1>1, <1>10, <2>1, <2>2 DEF TaskInv, CbPart, OwnerInv
<1>b. BodyInv'
  <2>1. ASSUME NEW g \in CbFibers, NEW d \in Cbs, m_cb'[g] = d
        PROVE  /\ Submitted(d)
               /\ \A u \in Threads : d \notin QueuedCbs(u)' /\ ft'[u].cb # d
               /\ d \in ended' <=> m_state'[g] = "EXCEPT"
    <3>1. CASE g = f
      <4>1. d = c
        BY <1>7, <2>1, <3>1
      <4>2. \A u \in Threads : c \notin QueuedCbs(u)' /\ ft'[u].cb # c
        BY <1>10, <1>13, <1>14
      <4>3. Submitted(c) /\ c \notin ended
        BY <1>5 DEF Submitted
      <4> QED BY <1>1, <1>7, <3>1, <4>1, <4>2, <4>3
    <3>2. CASE g # f
      <4>1. m_cb[g] = d /\ m_state'[g] = m_state[g]
        BY <1>4, <1>7, <2>1, <3>2
      <4>2. /\ Submitted(d) /\ \A u \in Threads : d \notin QueuedCbs(u) /\ ft[u].cb # d
            /\ d \in ended <=> m_state[g] = "EXCEPT"
        BY <4>1 DEF TaskInv, CbPart, BodyInv
      <4>3. \A u \in Threads : d \notin QueuedCbs(u)' /\ ft'[u].cb # d
        BY <1>10, <1>13, <4>2
      <4> QED BY <1>1, <4>1, <4>2, <4>3
    <3> QED BY <3>1, <3>2
  <2>2. /\ \A g \in Fibers \ CbFibers : m_cb'[g] \in {"body", Null}
        /\ \A g \in CbFibers : m_cb'[g] \in Cbs \cup {Null}
    BY <1>4, <1>7 DEF TaskInv, CbPart, BodyInv
  <2>3. \A g, h \in CbFibers : m_cb'[g] = m_cb'[h] /\ m_cb'[g] # Null => g = h
    <3>1. \A g \in CbFibers : g # f => m_cb'[g] = m_cb[g] /\ m_cb[g] # m_cb'[f]
      BY <1>4, <1>7, <1>12
    <3> QED BY <3>1 DEF TaskInv, CbPart, BodyInv
  <2>4. \A g \in CbFibers : m_state'[g] = "TERM" => m_cb'[g] = Null
    BY <1>4, <1>7 DEF TaskInv, CbPart, BodyInv
  <2>5. \A d \in Cbs : Submitted(d)' = Submitted(d)
    BY <1>1 DEF Submitted
  <2> QED BY <2>1, <2>2, <2>3, <2>4, <2>5 DEF BodyInv
<1>p. KeepInv'
  <2> SUFFICES ASSUME NEW u \in Threads, NEW d \in Cbs,
                      d \in ToSet(submitted[u]), pc'[u] # "gone", d \notin ended
               PROVE  \/ d \in QueuedCbs(u) \/ ft'[u].cb = d
                      \/ \E g \in CbFibers : m_cb'[g] = d
    BY <1>1, <1>10 DEF KeepInv
  <2>1. \/ d \in QueuedCbs(u) \/ ft[u].cb = d
        \/ \E g \in CbFibers : m_cb[g] = d
    BY <1>1, <1>8 DEF TaskInv, CbPart, KeepInv
  <2>2. ft[u].cb = d => ft'[u].cb = d \/ m_cb'[f] = d
    BY <1>2, <1>7, <1>8
  <2>3. \A g \in CbFibers : m_cb[g] = d => m_cb'[g] = d
    BY <1>4, <1>6, <1>7
  <2> QED BY <2>1, <2>2, <2>3
<1> QED BY <1>q, <1>l, <1>h, <1>s, <1>u, <1>r, <1>c, <1>k, <1>i, <1>o, <1>b, <1>p
        DEF TaskInv, FiberPart, CbPart

-----------------------------------------------------------------------------
(* The invariant holds.                                                    *)

LEMMA InitTaskInv == Init => TaskInv
<1> SUFFICES ASSUME Init PROVE TaskInv
  OBVIOUS
<1>1. \A s \in Threads :
         /\ pc[s] = "absent" /\ m_fibers[s] = <<>> /\ ft[s] = NoEntry /\ cb_fiber[s] = Null
         /\ submitted[s] = <<>>
  BY DEF Init
<1>2. ToSet(<<>>) = {} /\ Orderly(<<>>)
  BY DEF ToSet, Orderly
<1>3. \A s \in Threads : QueuedFibers(s) = {} /\ QueuedCbs(s) = {} /\ Held(s) = Null
                         /\ ft[s].fiber = Null /\ ft[s].cb = Null
  <2>1. \A s \in Threads : QueuedFibers(s) = {} /\ QueuedCbs(s) = {}
    BY <1>1, <1>2 DEF QueuedFibers, QueuedCbs
  <2>2. \A s \in Threads : Held(s) = Null
    BY <1>1 DEF Held, SwapPcs, InSwap
  <2>3. \A s \in Threads : ft[s].fiber = Null /\ ft[s].cb = Null
    <3>1. NoEntry.fiber = Null /\ NoEntry.cb = Null
      BY DEF NoEntry
    <3> QED BY <1>1, <3>1
  <2> QED BY <2>1, <2>2, <2>3
<1>4. /\ \A f \in Fibers : m_state[f] = (IF f \in UserFibers THEN "INIT" ELSE "none")
                           /\ m_cb[f] = (IF f \in CbFibers THEN Null ELSE "body")
                           /\ m_ctx[f].at = "entry"
      /\ \A f \in TaskFibers : home[f] = Null
      /\ ended = {}
  BY DEF Init, FiberInit, EntryContext
<1>5. /\ TaskFibers \subseteq Fibers /\ CbFibers \subseteq TaskFibers /\ UserFibers \subseteq TaskFibers
      /\ Null \notin TaskFibers /\ Null \notin Cbs
      /\ (\A g \in CbFibers : g \notin UserFibers) /\ (\A c \in Cbs : CbFiber(c) \in CbFibers)
      /\ (\A u \in Threads : Idle(u) \in Fibers /\ Idle(u) \notin UserFibers)
  BY FiberSets, FiberAssumption DEF TaskFibers
<1>6. QueueInv /\ LocalInv /\ KeptInv
  BY <1>1, <1>2, <1>3 DEF QueueInv, LocalInv, KeptInv, SwapPcs, InSwap
<1>7. HomeInv /\ QueuedInv
  BY <1>1, <1>3, <1>4, <1>5 DEF HomeInv, QueuedInv
<1>8. StageInv
  BY <1>1 DEF StageInv, Fits
<1>9. ReadyInv /\ SavedInv
  BY <1>4, <1>5 DEF ReadyInv, SavedInv
<1>10. IdleInv
  BY <1>1, <1>4, <1>5 DEF IdleInv, LoopPcs
<1>11. OwnerInv
  BY <1>1, <1>2, <1>3, <1>4, <1>5 DEF OwnerInv
<1>12. BodyInv /\ KeepInv
  BY <1>1, <1>2, <1>4, <1>5 DEF BodyInv, KeepInv
<1> QED BY <1>6, <1>7, <1>8, <1>9, <1>10, <1>11, <1>12 DEF TaskInv, FiberPart, CbPart

LEMMA NextTaskInv == ASSUME Discipline, IInv, TaskInv, [Next]_vars PROVE TaskInv'
<1>1. ASSUME NEW s \in Threads, Life(s) PROVE TaskInv'
  <2>1. CASE \E cfg \in Configs : Construct(s, cfg[1], cfg[2])
    BY <2>1, ConstructKeeps
  <2>2. CASE \/ StartAgain(s) \/ StartWorkers(s) \/ Restart(s) \/ DestroyAborts(s)
             \/ \E t \in Threads : Stop(s, t)
    BY <2>2, StutterKeeps
       DEF StartAgain, StartWorkers, Restart, DestroyAborts, BeginStart, Stop,
           fiberVars, queueVars, loopVars, taskVars
  <2> QED BY <1>1, <2>1, <2>2, StartKeeps, DestroyKeeps DEF Life
<1>2. ASSUME NEW s \in Threads, Callers(s) PROVE TaskInv'
  BY <1>2, ScheduleFiberKeeps, ScheduleCbKeeps DEF Callers
<1>3. ASSUME NEW s \in Threads, Loop(s) PROVE TaskInv'
  <2>1. CASE ResetAborts(s) \/ SwapInAborts(s)
    BY <2>1, StutterKeeps
       DEF ResetAborts, SwapInAborts, fiberVars, queueVars, loopVars, taskVars
  <2>2. CASE FetchNothing(s) \/ DispatchFiber(s) \/ DispatchIdle(s)
    BY <2>2, ChoiceKeeps
  <2> QED BY <1>3, <2>1, <2>2, PrologueKeeps, FetchKeeps, DispatchCbKeeps, BreakKeeps, BackKeeps,
             SwapInKeeps, LeaveKeeps, AfterKeeps, RequeueKeeps, SettleKeeps, SetHoldKeeps DEF Loop
<1>4. CASE UNCHANGED vars
  BY <1>4, StutterKeeps DEF vars, schedVars, fiberVars, queueVars, loopVars, taskVars
<1> QED BY <1>1, <1>2, <1>3, <1>4, TaskKeeps DEF Next, Terminated

\* The invariant holds whenever callers keep to the protocol.
LEMMA TaskInductive == ASSUME Discipline PROVE Spec => [](IInv /\ TaskInv)
<1>1. Init => IInv /\ TaskInv
  BY InitIInv, InitTaskInv
<1>2. IInv /\ TaskInv /\ [Next]_vars => IInv' /\ TaskInv'
  BY NextIInv, NextTaskInv
<1> QED BY <1>1, <1>2, PTL DEF Spec

\* stopping() answers yes only when no task is inside swap_in, whatever callers do.
THEOREM StoppingSafe == Spec => []StoppingMeansNobodyRuns
<1>1. IInv => StoppingMeansNobodyRuns
  <2> SUFFICES ASSUME IInv, NEW s \in Threads, m_active[s] = 0, pc[s] \in {"task", "yielding", "ending"}
               PROVE  cpu[s] = Idle(s)
    BY DEF StoppingMeansNobodyRuns, Stopping
  <2>1. branch[s] = "idle"
    BY DEF IInv, LoopShape, InSwap
  <2> QED BY <2>1 DEF IInv, OnItsStack, StackOf, Target
<1> QED BY <1>1, Inductive, PTL

\* A fiber that executes is marked EXEC, and no two threads execute on one stack.
THEOREM ExecutingMarked == ASSUME Discipline PROVE Spec => []ExecutingIsExec
<1>1. ASSUME IInv, TaskInv PROVE ExecutingIsExec
  <2>1. ASSUME NEW s \in Threads, pc[s] = "task" PROVE m_state[cpu[s]] = "EXEC"
    BY <1>1, <2>1, HeldType DEF TaskInv, FiberPart, StageInv, Fits
  <2>2. ASSUME NEW s \in Threads, NEW t \in Threads, s # t PROVE cpu[s] # cpu[t]
    <3>1. ASSUME NEW u \in Threads
          PROVE  cpu[u] \in {Main(u), Root(u)} \/ (cpu[u] = Held(u) /\ Held(u) \in TaskFibers \cup {Idle(u)})
      <4>1. CASE pc[u] \in {"task", "yielding", "ending"}
        BY <1>1, <4>1, HeldType DEF SwapPcs, InSwap
      <4>2. CASE pc[u] \notin {"task", "yielding", "ending"}
        BY <1>1, <4>2 DEF IInv, OnItsStack, StackOf
      <4> QED BY <4>1, <4>2
    <3>2. {Main(s), Root(s), Idle(s)} \cap {Main(t), Root(t), Idle(t)} = {}
      BY <2>2 DEF Main, Root, Idle
    <3>4. /\ \A f \in {Main(s), Root(s), Idle(s), Main(t), Root(t), Idle(t)} : f \notin TaskFibers
          /\ Null \notin TaskFibers /\ Null # Idle(s) /\ Null # Idle(t)
      BY OtherFibers, FiberSets
    <3>3. Held(s) # Null => Held(s) # Held(t)
      BY <1>1, <2>2, HeldApart
    <3> QED BY <3>1, <3>2, <3>3, <3>4
  <2> QED BY <2>1, <2>2 DEF ExecutingIsExec
<1> QED BY <1>1, TaskInductive, PTL

\* The fiber kept for the next callback is reset, empty and in no queue.
THEOREM KeptFiberFree == ASSUME Discipline PROVE Spec => []CbFiberIsFree
<1>1. ASSUME IInv, TaskInv PROVE CbFiberIsFree
  <2> SUFFICES ASSUME NEW s \in Threads, pc[s] \in {"fetch", "picked"}, cb_fiber[s] # Null
               PROVE  /\ m_state[cb_fiber[s]] = "INIT" /\ m_cb[cb_fiber[s]] = Null
                      /\ ~Queued(cb_fiber[s])
    BY DEF CbFiberIsFree
  <2>1. m_state[cb_fiber[s]] = "INIT" /\ m_cb[cb_fiber[s]] = Null
    BY <1>1 DEF TaskInv, FiberPart, KeptInv, SwapPcs, InSwap
  <2>2. cb_fiber[s] \in TaskFibers /\ cb_fiber[s] \notin UserFibers
    BY <1>1, FiberSets, FiberAssumption DEF IInv, TypeOK, LoopTypeOK
  <2> QED BY <1>1, <2>1, <2>2 DEF TaskInv, FiberPart, QueuedInv, Waiting, Queued
<1> QED BY <1>1, TaskInductive, PTL

\* The positions of the queues.
LEMMA SlotsAre ==
    /\ \A p : p \in Slots <=> \E s \in Threads : \E i \in DOMAIN m_fibers[s] : p = <<s, i>>
    /\ \A s, i : EntryAt(<<s, i>>) = m_fibers[s][i]
<1>1. ASSUME NEW p PROVE p \in Slots <=> \E s \in Threads : \E i \in DOMAIN m_fibers[s] : p = <<s, i>>
  BY DEF Slots
<1> QED BY <1>1 DEF EntryAt

\* A fiber is READY in one place: one entry of one queue, or the hands of one loop.
THEOREM ReadyOnce == ASSUME Discipline PROVE Spec => []ReadyExactlyOnce
<1>1. ASSUME IInv, TaskInv PROVE ReadyExactlyOnce
  <2> SUFFICES ASSUME NEW f \in TaskFibers, m_state[f] = "READY", home[f] # Null => pc[home[f]] # "gone"
               PROVE  Cardinality(Entries(f)) + Cardinality(Carried(f)) = 1
    BY DEF ReadyExactlyOnce
  <2>1. PICK u \in Threads : /\ u = home[f] /\ u # Null
                             /\ f \in QueuedFibers(u) \/ Held(u) = f
    BY <1>1, FiberAssumption DEF TaskInv, FiberPart, ReadyInv
  <2>2. \A s \in Threads : f \in QueuedFibers(s) \/ Held(s) = f => s = u
    BY <1>1, <2>1 DEF TaskInv, FiberPart, HomeInv
  <2>3. ~(f \in QueuedFibers(u) /\ Held(u) = f)
    BY <1>1 DEF TaskInv, FiberPart, QueuedInv
  <2>4. f # Null
    BY FiberSets
  <2>5. \A s \in Threads : s \in Carried(f) <=> Held(s) = f
    <3> SUFFICES ASSUME NEW s \in Threads PROVE s \in Carried(f) <=> Held(s) = f
      OBVIOUS
    <3>1. ASSUME s \in Carried(f) PROVE Held(s) = f
      <4>1. CASE pc[s] = "picked" /\ ft[s].fiber = f
        BY <4>1 DEF Held
      <4>2. CASE pc[s] = "swap" /\ ft[s].fiber = f
        <5>1. branch[s] = "fiber"
          BY <1>1, <2>4, <4>2 DEF TaskInv, FiberPart, LocalInv, SwapPcs, InSwap
        <5> QED BY <4>2, <5>1 DEF Held, Target, SwapPcs, InSwap
      <4>3. CASE pc[s] \in {"yielding", "after", "requeue"} /\ Target(s) = f
        BY <4>3 DEF Held, SwapPcs, InSwap
      <4> QED BY <3>1, <4>1, <4>2, <4>3 DEF Carried
    <3>2. ASSUME Held(s) = f PROVE s \in Carried(f)
      <4>1. Fits(s, f)
        BY <1>1, <3>2 DEF TaskInv, FiberPart, StageInv
      <4>2. CASE pc[s] = "picked"
        BY <3>2, <4>2 DEF Held, Carried
      <4>3. CASE pc[s] \in SwapPcs
        <5>1. pc[s] \in {"swap", "yielding", "after", "requeue"}
          BY <4>1, <4>3 DEF Fits, SwapPcs, InSwap
        <5>2. pc[s] = "swap" => branch[s] = "fiber"
          BY <4>1 DEF Fits
        <5>3. Target(s) = f /\ (branch[s] = "fiber" => ft[s].fiber = f)
          BY <1>1, <3>2, <4>3, HeldType
        <5> QED BY <5>1, <5>2, <5>3 DEF Carried
      <4> QED BY <2>4, <3>2, <4>2, <4>3 DEF Held
    <3> QED BY <3>1, <3>2
  <2>6. \A x : x \in Carried(f) => x \in Threads
    BY DEF Carried
  <2>7. \A s \in Threads : f \in QueuedFibers(s) <=> \E i \in DOMAIN m_fibers[s] : m_fibers[s][i].fiber = f
    BY DEF QueuedFibers, ToSet
  <2>8. \A p : p \in Entries(f) <=>
            \E s \in Threads : \E i \in DOMAIN m_fibers[s] : p = <<s, i>> /\ m_fibers[s][i].fiber = f
    BY SlotsAre DEF Entries
  <2>9. CASE f \in QueuedFibers(u)
    <3>1. Carried(f) = {}
      BY <2>2, <2>3, <2>5, <2>6, <2>9
    <3>2. PICK i \in DOMAIN m_fibers[u] : m_fibers[u][i].fiber = f
      BY <2>7, <2>9
    <3>3. \A j \in DOMAIN m_fibers[u] : m_fibers[u][j].fiber = f => j = i
      BY <1>1, <2>4, <3>2 DEF TaskInv, FiberPart, QueueInv, Orderly
    <3>4. Entries(f) = {<<u, i>>}
      BY <2>2, <2>7, <2>8, <3>2, <3>3
    <3>5. Cardinality(Carried(f)) = 0 /\ Cardinality(Entries(f)) = 1
      BY <3>1, <3>4, FS_Singleton, FS_EmptySet, Zenon
    <3> QED BY <3>5
  <2>10. CASE Held(u) = f
    <3>1. Carried(f) = {u}
      BY <2>2, <2>5, <2>6, <2>10
    <3>2. Entries(f) = {}
      BY <2>2, <2>3, <2>7, <2>8, <2>10
    <3>3. Cardinality(Carried(f)) = 1 /\ Cardinality(Entries(f)) = 0
      BY <3>1, <3>2, FS_Singleton, FS_EmptySet, Zenon
    <3> QED BY <3>3
  <2> QED BY <2>1, <2>9, <2>10
<1> QED BY <1>1, TaskInductive, PTL

\* A callback is in one place from the call of scheduler() to its end, and in none
\* after: neither lost nor run twice.
THEOREM CallbacksConserved == ASSUME Discipline PROVE Spec => []CallbackConserved
<1>1. ASSUME IInv, TaskInv PROVE CallbackConserved
  <2> SUFFICES ASSUME NEW s \in Threads, NEW c \in ToSet(submitted[s]), pc[s] # "gone"
               PROVE  Cardinality(Places(c)) = IF c \in ended THEN 0 ELSE 1
    BY DEF CallbackConserved
  <2>1. c \in Cbs /\ c # Null
    <3>1. submitted[s] \in Seq(Cbs)
      BY <1>1 DEF IInv, TypeOK, QueueTypeOK
    <3>2. c \in Cbs
      BY <3>1 DEF ToSet
    <3> QED BY <3>2, FiberSets
  <2>2. \A t \in Threads : c \in QueuedCbs(t) \/ ft[t].cb = c => t = s /\ c \notin ended
    BY <1>1, <2>1 DEF TaskInv, CbPart, OwnerInv
  <2>3. c \in QueuedCbs(s) => ft[s].cb # c
    BY <1>1, <2>1 DEF TaskInv, CbPart, OwnerInv
  <2>4. \A g \in CbFibers : m_cb[g] = c =>
           /\ c \notin QueuedCbs(s) /\ ft[s].cb # c /\ (c \in ended <=> m_state[g] = "EXCEPT")
           /\ \A h \in CbFibers : m_cb[h] = c => g = h
    <3> SUFFICES ASSUME NEW g \in CbFibers, m_cb[g] = c
                 PROVE  /\ c \notin QueuedCbs(s) /\ ft[s].cb # c /\ (c \in ended <=> m_state[g] = "EXCEPT")
                        /\ \A h \in CbFibers : m_cb[h] = c => g = h
      OBVIOUS
    <3>1. /\ \A t \in Threads : c \notin QueuedCbs(t) /\ ft[t].cb # c
          /\ c \in ended <=> m_state[g] = "EXCEPT"
      BY <1>1, <2>1 DEF TaskInv, CbPart, BodyInv
    <3>2. \A h \in CbFibers : m_cb[h] = c => g = h
      BY <1>1, <2>1 DEF TaskInv, CbPart, BodyInv
    <3> QED BY <3>1, <3>2
  <2>5. \A t \in Threads : c \in QueuedCbs(t) <=> \E i \in DOMAIN m_fibers[t] : m_fibers[t][i].cb = c
    BY DEF QueuedCbs, ToSet
  <2>6. \A p : p \in Places(c) <=>
           \/ \E t \in Threads : \E i \in DOMAIN m_fibers[t] : p = <<t, i>> /\ m_fibers[t][i].cb = c
           \/ p \in Threads /\ ft[p].cb = c
           \/ p \in CbFibers /\ m_cb[p] = c /\ m_state[p] # "EXCEPT"
    BY SlotsAre DEF Places
  <2>7. CASE c \in ended
    <3>1. Places(c) = {}
      BY <2>2, <2>4, <2>5, <2>6, <2>7
    <3> QED BY <2>7, <3>1, FS_EmptySet
  <2>8. CASE c \notin ended
    <3>1. c \in QueuedCbs(s) \/ ft[s].cb = c \/ \E g \in CbFibers : m_cb[g] = c
      BY <1>1, <2>1, <2>8 DEF TaskInv, CbPart, KeepInv
    <3>2. \E x : Places(c) = {x}
      <4>1. CASE c \in QueuedCbs(s)
        <5>1. PICK i \in DOMAIN m_fibers[s] : m_fibers[s][i].cb = c
          BY <2>5, <4>1
        <5>2. \A j \in DOMAIN m_fibers[s] : m_fibers[s][j].cb = c => j = i
          BY <1>1, <2>1, <5>1 DEF TaskInv, FiberPart, QueueInv, Orderly
        <5>3. Places(c) = {<<s, i>>}
          BY <2>2, <2>3, <2>4, <2>5, <2>6, <4>1, <5>1, <5>2
        <5> QED BY <5>3
      <4>2. CASE ft[s].cb = c
        <5>1. Places(c) = {s}
          BY <2>2, <2>3, <2>4, <2>5, <2>6, <4>2
        <5> QED BY <5>1
      <4>3. ASSUME NEW g \in CbFibers, m_cb[g] = c PROVE Places(c) = {g}
        BY <2>2, <2>4, <2>5, <2>6, <2>8, <4>3
      <4> QED BY <3>1, <4>1, <4>2, <4>3
    <3> QED BY <2>8, <3>2, FS_Singleton
  <2> QED BY <2>7, <2>8
<1> QED BY <1>1, TaskInductive, PTL

-----------------------------------------------------------------------------
(* What a step of one thread leaves alone.                                 *)

\* Fiber g is not changed by a step of s, as far as it can tell.
Untouched(s, g) ==
    /\ m_state'[g] = m_state[g] /\ m_cb'[g] = m_cb[g]
    /\ g # Held(s) => m_ctx'[g].at = m_ctx[g].at

\* A step of s changes the state of its own fibers, of the one it takes up for a
\* callback, and of the one it holds when it enters it, runs it or sets it to HOLD.
LEMMA StepTouches ==
    ASSUME IInv, TaskInv, NEW s \in Threads, Life(s) \/ Callers(s) \/ Loop(s) \/ Task(s),
           NEW g \in Fibers, g \notin {Main(s), Root(s), Idle(s), cb_fiber'[s]},
           g = Held(s) => pc[s] \notin {"swap", "task", "sethold"}
    PROVE  Untouched(s, g)
<1>1. Main(s) \in Fibers /\ Root(s) \in Fibers /\ Idle(s) \in Fibers
  BY FiberSets
<1>2. ASSUME m_state' = m_state, m_cb' = m_cb, m_ctx' = m_ctx PROVE Untouched(s, g)
  BY <1>2 DEF Untouched
<1>3. CASE Life(s)
  <2>1. CASE \E cfg \in Configs : Construct(s, cfg[1], cfg[2])
    BY <1>1, <2>1 DEF Construct, Untouched, IInv, TypeOK, FiberTypeOK
  <2>2. CASE Start(s)
    <3>1. /\ m_cb' = m_cb /\ m_state' = [m_state EXCEPT ![Root(s)] = "EXEC"]
          /\ SwapContext(s, Main(s), "start", Root(s))
      BY <2>2 DEF Start, Call
    <3>2. m_ctx'[g].at = m_ctx[g].at
      BY <1>1, <3>1, SwapContextAt, ThreadFibersApart DEF IInv, TypeOK, Points
    <3> QED BY <1>1, <3>1, <3>2 DEF Untouched, IInv, TypeOK, FiberTypeOK
  <2>3. CASE \/ StartAgain(s) \/ StartWorkers(s) \/ Restart(s) \/ Destroy(s) \/ DestroyAborts(s)
             \/ \E t \in Threads : Stop(s, t)
    BY <1>2, <2>3 DEF StartAgain, StartWorkers, Restart, Destroy, DestroyAborts, Stop, fiberVars
  <2> QED BY <1>3, <2>1, <2>2, <2>3 DEF Life
<1>4. CASE Callers(s)
  BY <1>2, <1>4 DEF Callers, ScheduleFiber, ScheduleCb, fiberVars
<1>5. CASE Loop(s)
  <2>1. CASE Fetch(s) \/ FetchNothing(s) \/ DispatchFiber(s) \/ DispatchIdle(s) \/ After(s) \/ Requeue(s)
    BY <1>2, <2>1 DEF Fetch, FetchNothing, DispatchFiber, DispatchIdle, After, Requeue, fiberVars
  <2>2. CASE ResetAborts(s) \/ SwapInAborts(s)
    BY <1>2, <2>2 DEF ResetAborts, SwapInAborts, fiberVars
  <2>3. CASE Prologue(s)
    BY <1>1, <2>3 DEF Prologue, NewFiber, Untouched, IInv, TypeOK, FiberTypeOK
  <2>4. CASE DispatchCb(s)
    <3>1. PICK f, c : NewFiber(f, c) /\ cb_fiber'[s] = f
      <4>1. CASE cb_fiber[s] # Null
        BY <2>4, <4>1 DEF DispatchCb, ResetFiber
      <4>2. CASE cb_fiber[s] = Null
        <5>1. /\ NewFiber(CbFiber(ft[s].cb), ft[s].cb)
              /\ cb_fiber' = [cb_fiber EXCEPT ![s] = CbFiber(ft[s].cb)]
          BY <2>4, <4>2 DEF DispatchCb
        <5> QED BY <5>1 DEF IInv, TypeOK, LoopTypeOK
      <4> QED BY <4>1, <4>2
    <3> QED BY <3>1 DEF NewFiber, Untouched, IInv, TypeOK, FiberTypeOK
  <2>5. CASE Break(s)
    <3>1. cpu[s] = Root(s)
      BY <2>5 DEF Break, Goto, IInv, OnItsStack, StackOf
    <3> QED BY <2>5, <3>1 DEF Break, CbReturns, Untouched, IInv, TypeOK, FiberTypeOK
  <2>6. CASE BackToStart(s)
    <3>1. cpu[s] = Root(s)
      BY <2>6 DEF BackToStart, Goto, IInv, OnItsStack, StackOf
    <3>2. m_ctx'[g].at = m_ctx[g].at
      BY <1>1, <2>6, <3>1, SwapContextAt, ThreadFibersApart DEF BackToStart, Back, IInv, TypeOK, Points
    <3> QED BY <2>6, <3>2 DEF BackToStart, Untouched
  <2>7. CASE SwapInTarget(s)
    <3>1. pc[s] = "swap" /\ SwapIn(s, Target(s)) /\ m_cb' = m_cb
      BY <2>7 DEF SwapInTarget, Goto
    <3>2. Held(s) = Target(s) /\ Target(s) \in Fibers /\ Target(s) \in TaskFibers \cup {Idle(s)}
      BY <3>1, HeldType DEF SwapPcs, InSwap
    <3>3. g # Target(s)
      BY <3>1, <3>2
    <3>4. m_ctx'[g].at = m_ctx[g].at
      BY <1>1, <3>1, <3>2, <3>3, SwapContextAt, ThreadFibersApart, OtherFibers
         DEF SwapIn, IInv, TypeOK, Points
    <3> QED BY <3>1, <3>3, <3>4 DEF SwapIn, Untouched, IInv, TypeOK, FiberTypeOK
  <2>8. CASE Leave(s)
    <3>1. pc[s] \in {"yielding", "ending"} /\ m_state' = m_state /\ m_cb' = m_cb
      BY <2>8 DEF Leave, Goto
    <3>2. /\ Held(s) \in Fibers /\ Held(s) \in TaskFibers \cup {Idle(s)}
          /\ cpu[s] = Held(s) /\ t_fiber[s] = Held(s)
      BY <3>1, HeldType DEF SwapPcs, InSwap
    <3>3. PICK at \in Points : SwapContext(s, Held(s), at, Root(s))
      BY <2>8, <3>2 DEF Leave, SwapOut, Points
    <3>4. g # Held(s) => m_ctx'[g].at = m_ctx[g].at
      BY <1>1, <3>2, <3>3, SwapContextAt, ThreadFibersApart, OtherFibers DEF IInv, TypeOK
    <3> QED BY <3>1, <3>4 DEF Untouched
  <2>9. CASE Settle(s)
    BY <2>9 DEF Settle, NextRound, ResetFiber, NewFiber, Untouched, fiberVars, IInv, TypeOK, FiberTypeOK
  <2>10. CASE SetHold(s)
    <3>1. pc[s] = "sethold" /\ m_cb' = m_cb /\ m_ctx' = m_ctx
          /\ m_state' = [m_state EXCEPT ![Target(s)] = "HOLD"]
      BY <2>10 DEF SetHold, Goto
    <3>2. Held(s) = Target(s)
      BY <3>1, HeldType DEF SwapPcs, InSwap
    <3> QED BY <3>1, <3>2 DEF Untouched, IInv, TypeOK, FiberTypeOK
  <2> QED BY <1>5, <2>1, <2>2, <2>3, <2>4, <2>5, <2>6, <2>7, <2>8, <2>9, <2>10 DEF Loop
<1>6. CASE Task(s)
  <2>1. pc[s] = "task"
    BY <1>6 DEF Task, YieldToReady, YeidToHold, FnReturns, FnThrows, Goto
  <2>2. cpu[s] = Held(s) /\ t_fiber[s] = Held(s) /\ g # Held(s)
    BY <2>1, HeldType
  <2>3. /\ m_state'[g] = m_state[g] /\ m_cb'[g] = m_cb[g] /\ m_ctx' = m_ctx
    BY <1>6, <2>2 DEF Task, YieldToReady, YeidToHold, FnReturns, FnThrows, MarkCurrent, CbReturns,
       CbThrows, IInv, TypeOK, FiberTypeOK
  <2> QED BY <2>3 DEF Untouched
<1> QED BY <1>3, <1>4, <1>5, <1>6

\* No step takes back the end of a fiber the program built.
THEOREM EndsAreFinal == ASSUME Discipline PROVE Spec => EndIsFinal
<1>1. ASSUME IInv, TaskInv, [Next]_vars
      PROVE  [\A f \in UserFibers : Finished(f) => m_state'[f] = m_state[f]]_vars
  <2> SUFFICES ASSUME Next, NEW f \in UserFibers, Finished(f) PROVE m_state'[f] = m_state[f]
    BY <1>1
  <2>1. CASE Terminated
    BY <2>1 DEF Terminated, vars, fiberVars
  <2>2. ASSUME NEW s \in Threads, Life(s) \/ Callers(s) \/ Loop(s) \/ Task(s)
        PROVE  m_state'[f] = m_state[f]
    <3>1. f \in Fibers /\ f \notin CbFibers \cup {Null} /\ f \in TaskFibers
      BY FiberSets, FiberAssumption DEF TaskFibers
    <3>2. f \notin {Main(s), Root(s), Idle(s)}
      BY <3>1, OtherFibers
    <3>3. IInv'
      BY <1>1, NextIInv
    <3>4. cb_fiber'[s] # f
      BY <3>1, <3>3 DEF IInv, TypeOK, LoopTypeOK
    <3>5. f = Held(s) => pc[s] \notin {"swap", "task", "sethold"}
      <4> SUFFICES ASSUME f = Held(s) PROVE pc[s] \notin {"swap", "task", "sethold"}
        OBVIOUS
      <4>1. Fits(s, f) /\ m_state[f] \in {"TERM", "EXCEPT"}
        BY <1>1 DEF TaskInv, FiberPart, StageInv, Finished
      <4> QED BY <4>1 DEF Fits, Waiting
    <3>6. Untouched(s, f)
      BY <1>1, <2>2, <3>1, <3>2, <3>4, <3>5, StepTouches
    <3> QED BY <3>6 DEF Untouched
  <2> QED BY <2>1, <2>2 DEF Next
<1> QED BY <1>1, TaskInductive, PTL DEF Spec, EndIsFinal

-----------------------------------------------------------------------------
(* start() and the assertions.                                             *)

\* Before the first start() the root fiber is fresh and the scheduler stopped;
\* afterwards only stop() stops it, and once start() has returned the root fiber has
\* ended.
Started(s) ==
    /\ starts[s] = 0 => /\ m_ctx[Root(s)].at = "entry" /\ pc[s] \notin LoopPcs /\ m_stoping[s]
                        /\ m_state[Root(s)] \in {"none", "INIT"} /\ m_state[Idle(s)] = "none"
    /\ starts[s] # 0 => /\ m_ctx[Root(s)].at # "entry" /\ (m_stoping[s] => m_auto_stop[s])
                        /\ pc[s] # "absent"
                        /\ pc[s] \in {"back", "out"} => m_state[Root(s)] = "TERM"
FirstStart == \A s \in Threads : Started(s)

\* Until the process dies; how it dies is the property itself.
StartInv == AbortsExplained /\ (Up => FirstStart)

\* A step of s leaves the scheduler of u alone, its queue apart from this s included.
OtherScheduler(u) ==
    /\ pc'[u] = pc[u] /\ starts'[u] = starts[u] /\ m_stoping'[u] = m_stoping[u]
    /\ m_auto_stop'[u] = m_auto_stop[u] /\ early'[u] = early[u] /\ began'[u] = began[u]
    /\ m_fibers'[u] = m_fibers[u]
    /\ ft'[u] = ft[u] /\ cb_fiber'[u] = cb_fiber[u] /\ branch'[u] = branch[u]

LEMMA StepFrame ==
    ASSUME IInv, NEW s \in Threads, Life(s) \/ Callers(s) \/ Loop(s) \/ Task(s),
           NEW u \in Threads, u # s
    PROVE  OtherScheduler(u)
<1> USE DEF IInv, TypeOK, QueueTypeOK, FlagTypeOK, LoopTypeOK, TaskTypeOK
<1>1. CASE Life(s)
  <2>1. CASE \E cfg \in Configs : Construct(s, cfg[1], cfg[2])
    BY <2>1 DEF Construct, Goto, OtherScheduler, queueVars, loopVars, taskVars
  <2>2. CASE StartAgain(s) \/ \E t \in Threads : Stop(s, t)
    BY <2>2 DEF StartAgain, Stop, OtherScheduler, queueVars, loopVars, taskVars
  <2>3. CASE Start(s) \/ StartWorkers(s) \/ Restart(s)
    BY <2>3 DEF Start, StartWorkers, Restart, BeginStart, Goto, OtherScheduler, queueVars, loopVars, taskVars
  <2>4. CASE Destroy(s)
    BY <2>4 DEF Destroy, Goto, OtherScheduler, flagVars, loopVars, taskVars
  <2>5. CASE DestroyAborts(s)
    BY <2>5 DEF DestroyAborts, OtherScheduler, queueVars, flagVars, loopVars, taskVars
  <2> QED BY <1>1, <2>1, <2>2, <2>3, <2>4, <2>5 DEF Life
<1>2. CASE Callers(s)
  BY <1>2 DEF Callers, ScheduleFiber, ScheduleCb, OtherScheduler, flagVars, loopVars, taskVars
<1>3. CASE Loop(s)
  <2>1. CASE Prologue(s) \/ DispatchFiber(s) \/ DispatchIdle(s) \/ FetchNothing(s) \/ BackToStart(s)
    BY <2>1 DEF Prologue, DispatchFiber, DispatchIdle, FetchNothing, BackToStart, Goto, OtherScheduler,
       queueVars, flagVars, loopVars, taskVars
  <2>2. CASE Fetch(s) \/ Break(s) \/ DispatchCb(s)
    BY <2>2 DEF Fetch, Break, DispatchCb, Goto, OtherScheduler, queueVars, flagVars, taskVars
  <2>3. CASE ResetAborts(s) \/ SwapInAborts(s)
    BY <2>3 DEF ResetAborts, SwapInAborts, OtherScheduler, queueVars, flagVars, loopVars, taskVars
  <2>4. CASE SwapInTarget(s) \/ Leave(s) \/ After(s)
    BY <2>4 DEF SwapInTarget, Leave, After, Goto, OtherScheduler, queueVars, flagVars, loopVars, taskVars
  <2>5. CASE Requeue(s) \/ Settle(s) \/ SetHold(s)
    <3>1. /\ UNCHANGED <<starts, m_stoping, m_auto_stop, early, began>>
          /\ pc' = [pc EXCEPT ![s] = "fetch"] /\ \E keep : NextRound(s, keep)
          /\ \/ m_fibers' = m_fibers
             \/ m_fibers' = [m_fibers EXCEPT ![s] = Append(@, FiberEntry(Target(s), AnyThread))]
      BY <2>5 DEF Requeue, Settle, SetHold, Goto, queueVars, flagVars, taskVars
    <3>2. m_fibers'[u] = m_fibers[u]
      BY <3>1
    <3>3. ft'[u] = ft[u] /\ branch'[u] = branch[u] /\ cb_fiber'[u] = cb_fiber[u]
      BY <3>1 DEF NextRound
    <3> QED BY <3>1, <3>2, <3>3 DEF OtherScheduler
  <2> QED BY <1>3, <2>1, <2>2, <2>3, <2>4, <2>5 DEF Loop
<1>4. CASE Task(s)
  BY <1>4 DEF Task, YieldToReady, YeidToHold, FnReturns, FnThrows, Goto, OtherScheduler,
     queueVars, flagVars, loopVars, taskVars
<1> QED BY <1>1, <1>2, <1>3, <1>4

\* Nor does it touch the fibers of u, or the one u has just given a callback.
LEMMA StepOthers ==
    ASSUME IInv, TaskInv, IInv', TaskInv', NEW s \in Threads,
           Life(s) \/ Callers(s) \/ Loop(s) \/ Task(s), NEW u \in Threads, u # s
    PROVE  /\ m_state'[Root(u)] = m_state[Root(u)] /\ m_ctx'[Root(u)].at = m_ctx[Root(u)].at
           /\ m_state'[Idle(u)] = m_state[Idle(u)]
           /\ pc[u] = "swap" /\ branch[u] = "cb" => m_cb'[cb_fiber[u]] = m_cb[cb_fiber[u]]
<1>1. Held(s) \in TaskFibers \cup {Idle(s), Null} /\ cb_fiber'[s] \in TaskFibers \cup {Null}
  BY HeldType, FiberSets DEF IInv, TypeOK, LoopTypeOK
<1>2. /\ Root(u) \notin {Main(s), Root(s), Idle(s)} /\ Idle(u) \notin {Main(s), Root(s), Idle(s)}
      /\ Root(u) \in Fibers /\ Idle(u) \in Fibers
  BY ThreadFibersApart, OtherFibers
<1>3. Root(u) \notin TaskFibers \cup {Null} /\ Idle(u) \notin TaskFibers \cup {Null}
  BY OtherFibers, FiberSets
<1>4. Untouched(s, Root(u)) /\ Untouched(s, Idle(u)) /\ Root(u) # Held(s) /\ Idle(u) # Held(s)
  <2>1. Root(u) # Held(s) /\ Idle(u) # Held(s) /\ Root(u) # cb_fiber'[s] /\ Idle(u) # cb_fiber'[s]
    BY <1>1, <1>2, <1>3
  <2>2. Untouched(s, Root(u))
    BY <1>2, <2>1, StepTouches
  <2>3. Untouched(s, Idle(u))
    BY <1>2, <2>1, StepTouches
  <2> QED BY <2>1, <2>2, <2>3
<1>5. ASSUME pc[u] = "swap", branch[u] = "cb" PROVE m_cb'[cb_fiber[u]] = m_cb[cb_fiber[u]]
  <2>1. PICK f : f = cb_fiber[u]
    OBVIOUS
  <2>2. f \in CbFibers /\ f \in TaskFibers /\ f \in Fibers /\ Held(u) = f /\ f # Null
    BY <1>5, <2>1, HeldType, FiberSets DEF SwapPcs, InSwap
  <2>3. f # Held(s)
    BY <2>2, HeldApart
  <2>4. cb_fiber'[u] = f
    BY <2>1, StepFrame DEF OtherScheduler
  <2>5. cb_fiber'[s] # f
    <3>1. home'[f] = u
      BY <2>2, <2>4 DEF TaskInv, FiberPart, HomeInv
    <3>2. cb_fiber'[s] = f => home'[f] = s
      BY <2>2 DEF TaskInv, FiberPart, HomeInv
    <3> QED BY <3>1, <3>2
  <2>6. f \notin {Main(s), Root(s), Idle(s)}
    BY <2>2, OtherFibers
  <2>7. Untouched(s, f)
    BY <2>2, <2>3, <2>5, <2>6, StepTouches
  <2> QED BY <2>1, <2>7 DEF Untouched
<1> QED BY <1>4, <1>5 DEF Untouched

\* The process is alive when it takes a step.
LEMMA StepUp ==
    ASSUME NEW s \in Threads, Life(s) \/ Callers(s) \/ Loop(s) \/ Task(s) PROVE Up
<1>1. CASE Life(s)
  BY <1>1 DEF Life, Construct, StartAgain, Start, StartWorkers, Restart, Stop, Destroy, DestroyAborts,
     Goto, Die
<1>2. CASE Callers(s) \/ Task(s)
  BY <1>2 DEF Callers, ScheduleFiber, ScheduleCb, Task, YieldToReady, YeidToHold, FnReturns, FnThrows, Goto
<1>3. CASE Loop(s)
  BY <1>3 DEF Loop, Prologue, Fetch, FetchNothing, DispatchFiber, DispatchCb, ResetAborts, DispatchIdle,
     Break, BackToStart, SwapInTarget, SwapInAborts, Leave, After, Requeue, Settle, SetHold, Goto, Die
<1> QED BY <1>1, <1>2, <1>3

\* The loop does not touch start's flags, and does not make the root fiber fresh.
LEMMA LoopFrame ==
    ASSUME IInv, TaskInv, NEW s \in Threads, Loop(s) \/ Task(s)
    PROVE  /\ pc[s] \in LoopPcs
           /\ UNCHANGED <<starts, m_stoping, m_auto_stop, m_thread_count, early>>
           /\ m_ctx[Root(s)].at # "entry" => m_ctx'[Root(s)].at # "entry"
<1>1. pc[s] \in LoopPcs
  BY DEF Loop, Prologue, Fetch, FetchNothing, DispatchFiber, DispatchCb, ResetAborts, ResetDue, DispatchIdle,
     Break, BackToStart, SwapInTarget, SwapInAborts, Leave, After, Requeue, Settle, SetHold, Goto, LoopPcs,
     Task, YieldToReady, YeidToHold, FnReturns, FnThrows
<1>2. UNCHANGED flagVars
  BY DEF Loop, Prologue, Fetch, FetchNothing, DispatchFiber, DispatchCb, ResetAborts, DispatchIdle,
     Break, BackToStart, SwapInTarget, SwapInAborts, Leave, After, Requeue, Settle, SetHold,
     Task, YieldToReady, YeidToHold, FnReturns, FnThrows
<1>3. ASSUME m_ctx[Root(s)].at # "entry" PROVE m_ctx'[Root(s)].at # "entry"
  <2>1. /\ Root(s) \in Fibers /\ Main(s) \in Fibers /\ Root(s) \notin TaskFibers
        /\ Root(s) # Idle(s) /\ Root(s) # Main(s)
    BY OtherFibers, ThreadFibersApart
  <2>2. ASSUME NEW f, NEW c, f # Root(s), NewFiber(f, c) PROVE m_ctx'[Root(s)] = m_ctx[Root(s)]
    BY <2>1, <2>2 DEF NewFiber, IInv, TypeOK, FiberTypeOK
  <2>3. CASE SwapInTarget(s)
    <3>1. Target(s) \in Fibers /\ Target(s) \in TaskFibers \cup {Idle(s)}
      BY <2>3, TargetType DEF SwapInTarget, Goto, InSwap
    <3>2. SwapContext(s, Root(s), "loop", Target(s)) /\ Target(s) # Root(s)
      BY <2>1, <2>3, <3>1 DEF SwapInTarget, SwapIn
    <3>3. m_ctx'[Root(s)].at = "loop"
      BY <2>1, <3>1, <3>2, SwapContextAt DEF IInv, TypeOK, Points
    <3> QED BY <3>3
  <2>4. CASE Leave(s)
    <3>1. pc[s] \in {"yielding", "ending"}
      BY <2>4 DEF Leave, Goto
    <3>2. /\ Held(s) \in Fibers /\ Held(s) # Root(s)
          /\ cpu[s] = Held(s) /\ t_fiber[s] = Held(s)
      BY <2>1, <3>1, HeldType DEF SwapPcs, InSwap
    <3>3. PICK at \in Points : SwapContext(s, Held(s), at, Root(s))
      BY <2>4, <3>2 DEF Leave, SwapOut, Points
    <3>4. m_ctx'[Root(s)].at = "running"
      BY <2>1, <3>2, <3>3, SwapContextAt DEF IInv, TypeOK
    <3> QED BY <3>4
  <2>5. CASE BackToStart(s)
    <3>1. cpu[s] = Root(s)
      BY <2>5 DEF BackToStart, Goto, IInv, OnItsStack, StackOf
    <3>2. m_ctx'[Root(s)].at = "end"
      BY <2>1, <2>5, <3>1, SwapContextAt DEF BackToStart, Back, IInv, TypeOK, Points
    <3> QED BY <3>2
  <2>6. CASE Prologue(s)
    BY <1>3, <2>1, <2>2, <2>6 DEF Prologue
  <2>7. CASE DispatchCb(s) \/ Settle(s)
    <3>1. m_ctx' = m_ctx \/ \E f \in CbFibers : \E c : NewFiber(f, c)
      <4>1. CASE DispatchCb(s)
        <5>1. ft[s].cb \in Cbs /\ cb_fiber[s] \in CbFibers \cup {Null}
          BY <4>1 DEF DispatchCb, HasCb, IInv, TypeOK, LoopTypeOK, Entry
        <5>2. CbFiber(ft[s].cb) \in CbFibers
          BY <5>1, FiberSets
        <5> QED BY <4>1, <5>1, <5>2 DEF DispatchCb, ResetFiber
      <4>2. CASE Settle(s)
        <5>1. branch[s] = "cb" => cb_fiber[s] \in CbFibers
          BY <4>2 DEF Settle, Goto, IInv, TypeOK, LoopTypeOK, LoopShape
        <5> QED BY <4>2, <5>1 DEF Settle, ResetFiber, fiberVars
      <4> QED BY <2>7, <4>1, <4>2
    <3>2. \A f \in CbFibers : f # Root(s)
      BY <2>1, FiberSets
    <3> QED BY <1>3, <2>2, <3>1, <3>2
  <2>8. CASE \/ Fetch(s) \/ FetchNothing(s) \/ DispatchFiber(s) \/ ResetAborts(s) \/ DispatchIdle(s)
             \/ Break(s) \/ SwapInAborts(s) \/ After(s) \/ Requeue(s) \/ SetHold(s) \/ Task(s)
    <3>1. m_ctx' = m_ctx
      BY <2>8 DEF Fetch, FetchNothing, DispatchFiber, ResetAborts, DispatchIdle, Break, SwapInAborts, After,
         Requeue, SetHold, Task, YieldToReady, YeidToHold, FnReturns, FnThrows, CbReturns, CbThrows,
         MarkCurrent, fiberVars
    <3> QED BY <1>3, <3>1
  <2> QED BY <2>3, <2>4, <2>5, <2>6, <2>7, <2>8 DEF Loop
<1> QED BY <1>1, <1>2, <1>3 DEF flagVars

\* The loop is left by its last step alone, and that one ends the root fiber.
LEMMA RootEnds ==
    ASSUME IInv, NEW s \in Threads, Loop(s) \/ Task(s)
    PROVE  /\ pc'[s] \in LoopPcs \cup {"out"}
           /\ pc'[s] \in {"back", "out"} =>
                  m_state'[Root(s)] = "TERM" \/ (pc[s] = "back" /\ m_state' = m_state)
<1> USE DEF IInv, TypeOK, LoopTypeOK, LoopPcs
<1>1. CASE Prologue(s) \/ Fetch(s) \/ FetchNothing(s) \/ DispatchFiber(s) \/ DispatchCb(s) \/ DispatchIdle(s)
  BY <1>1 DEF Prologue, Fetch, FetchNothing, DispatchFiber, DispatchCb, DispatchIdle, Goto
<1>2. CASE SwapInTarget(s) \/ Leave(s) \/ After(s)
  BY <1>2 DEF SwapInTarget, Leave, After, Verdict, Goto
<1>3. CASE Requeue(s) \/ Settle(s) \/ SetHold(s)
  BY <1>3 DEF Requeue, Settle, SetHold, Goto
<1>4. CASE ResetAborts(s) \/ SwapInAborts(s)
  BY <1>4 DEF ResetAborts, SwapInAborts, ResetDue
<1>5. CASE Break(s)
  <2>1. cpu[s] = Root(s) /\ Root(s) \in Fibers
    BY <1>5, FiberSets DEF Break, Goto, OnItsStack, StackOf
  <2> QED BY <1>5, <2>1 DEF Break, CbReturns, Goto, FiberTypeOK
<1>6. CASE BackToStart(s)
  BY <1>6 DEF BackToStart, Goto
<1>7. CASE Task(s)
  BY <1>7 DEF Task, YieldToReady, YeidToHold, FnReturns, FnThrows, Goto
<1> QED BY <1>1, <1>2, <1>3, <1>4, <1>5, <1>6, <1>7 DEF Loop

\* Every step that the process survives keeps what start() relies on.
LEMMA FirstStartKeeps ==
    ASSUME IInv, TaskInv, IInv', TaskInv', FirstStart, NEW s \in Threads,
           Life(s) \/ Callers(s) \/ Loop(s) \/ Task(s), Up'
    PROVE  FirstStart'
<1>1. ASSUME NEW u \in Threads, u # s PROVE Started(u)'
  <2>1. /\ OtherScheduler(u) /\ m_state'[Root(u)] = m_state[Root(u)]
        /\ m_ctx'[Root(u)].at = m_ctx[Root(u)].at /\ m_state'[Idle(u)] = m_state[Idle(u)]
    BY <1>1, StepFrame, StepOthers
  <2>2. Started(u)
    BY DEF FirstStart
  <2> QED BY <2>1, <2>2 DEF Started, OtherScheduler
<1>2. Started(s)'
  <2>1. Started(s) /\ Root(s) # Idle(s) /\ Root(s) \in Fibers /\ Idle(s) \in Fibers /\ Main(s) # Idle(s)
        /\ Root(s) # Main(s) /\ Main(s) \in Fibers
    BY OtherFibers, ThreadFibersApart DEF FirstStart
  <2>2. CASE Loop(s) \/ Task(s)
    <3>1. pc[s] \in LoopPcs /\ starts' = starts /\ m_stoping' = m_stoping /\ m_auto_stop' = m_auto_stop
          /\ (m_ctx[Root(s)].at # "entry" => m_ctx'[Root(s)].at # "entry")
      BY <2>2, LoopFrame
    <3>2. /\ pc'[s] \in LoopPcs \cup {"out"}
          /\ pc'[s] \in {"back", "out"} =>
                 m_state'[Root(s)] = "TERM" \/ (pc[s] = "back" /\ m_state' = m_state)
      BY <2>2, RootEnds
    <3> QED BY <2>1, <3>1, <3>2 DEF Started, LoopPcs
  <2>3. CASE Callers(s)
    <3>1. UNCHANGED <<m_ctx, m_state, pc, starts, m_stoping, m_auto_stop>>
      BY <2>3 DEF Callers, ScheduleFiber, ScheduleCb, fiberVars, flagVars
    <3> QED BY <2>1, <3>1 DEF Started
  <2>4. CASE Life(s)
    <3>1. CASE \E cfg \in Configs : Construct(s, cfg[1], cfg[2])
      <4>1. /\ UNCHANGED <<m_ctx, starts, m_stoping, m_auto_stop>> /\ pc[s] = "absent" /\ pc'[s] = "out"
            /\ m_state'[Idle(s)] = m_state[Idle(s)] /\ m_state'[Root(s)] \in {m_state[Root(s)], "INIT"}
        BY <2>1, <3>1 DEF Construct, Goto, IInv, TypeOK, FiberTypeOK, LoopTypeOK
      <4> QED BY <2>1, <4>1 DEF Started, LoopPcs
    <3>2. CASE StartAgain(s)
      <4>1. /\ UNCHANGED <<m_ctx, m_state, pc, m_stoping, m_auto_stop>>
            /\ ~m_stoping[s] /\ starts'[s] = starts[s] + 1
        BY <3>2 DEF StartAgain, fiberVars, IInv, TypeOK, FlagTypeOK
      <4>2. starts[s] # 0 /\ starts'[s] # 0
        BY <2>1, <4>1 DEF Started, IInv, TypeOK, FlagTypeOK
      <4> QED BY <2>1, <4>1, <4>2 DEF Started
    <3>3. CASE Start(s)
      <4>1. /\ SwapContext(s, Main(s), "start", Root(s)) /\ starts'[s] = starts[s] + 1 /\ m_stoping'[s] = FALSE
        BY <3>3 DEF Start, BeginStart, Call, IInv, TypeOK, FlagTypeOK
      <4>2. starts'[s] # 0
        BY <4>1 DEF IInv, TypeOK, FlagTypeOK
      <4>3. m_ctx'[Root(s)].at = "running"
        BY <2>1, <4>1, SwapContextAt DEF IInv, TypeOK, Points
      <4>4. pc'[s] = "prologue"
        BY <3>3 DEF Start, Goto, IInv, TypeOK, LoopTypeOK
      <4> QED BY <4>1, <4>2, <4>3, <4>4 DEF Started
    <3>4. CASE StartWorkers(s) \/ Restart(s) \/ DestroyAborts(s)
      BY <3>4 DEF StartWorkers, Restart, DestroyAborts, Die, Up
    <3>5. CASE \E t \in Threads : Stop(s, t)
      <4>1. UNCHANGED <<m_ctx, m_state, pc, starts>> /\ m_stoping'[s] = TRUE /\ m_auto_stop'[s] = TRUE
        BY <3>5 DEF Stop, fiberVars, IInv, TypeOK, FlagTypeOK
      <4> QED BY <2>1, <4>1 DEF Started
    <3>6. CASE Destroy(s)
      <4>1. UNCHANGED <<m_ctx, m_state, starts, m_stoping, m_auto_stop>> /\ pc'[s] = "gone"
        BY <3>6 DEF Destroy, Goto, fiberVars, flagVars, IInv, TypeOK, LoopTypeOK
      <4> QED BY <2>1, <4>1 DEF Started, LoopPcs
    <3> QED BY <2>4, <3>1, <3>2, <3>3, <3>4, <3>5, <3>6 DEF Life
  <2> QED BY <2>2, <2>3, <2>4
<1> QED BY <1>1, <1>2 DEF FirstStart

\* The assertion of Fiber::reset holds wherever the loop calls it.
LEMMA ResetHolds == ASSUME IInv, TaskInv, NEW s \in Threads PROVE ~ResetAborts(s)
<1> SUFFICES ASSUME ResetAborts(s) PROVE FALSE
  OBVIOUS
<1>1. ResetDue(s) /\ cb_fiber[s] # Null /\ m_state[cb_fiber[s]] \notin {"TERM", "EXCEPT", "INIT"}
  BY DEF ResetAborts, Resettable
<1>2. CASE pc[s] = "picked"
  BY <1>1, <1>2 DEF TaskInv, FiberPart, KeptInv, SwapPcs, InSwap
<1>3. CASE pc[s] = "settle" /\ branch[s] = "cb"
  <2>1. Held(s) = cb_fiber[s]
    BY <1>3, HeldType DEF SwapPcs
  <2> QED BY <1>1, <1>3, <2>1 DEF TaskInv, FiberPart, StageInv, Fits
<1> QED BY <1>1, <1>2, <1>3 DEF ResetDue

\* A fiber about to be switched to does not execute and has a saved context.
LEMMA SwapInHolds == ASSUME IInv, TaskInv, NEW s \in Threads PROVE ~SwapInAborts(s)
<1> SUFFICES ASSUME SwapInAborts(s) PROVE FALSE
  OBVIOUS
<1>1. pc[s] = "swap" /\ (m_state[Target(s)] = "EXEC" \/ m_ctx[Target(s)].at \in {"end", "running"})
  BY DEF SwapInAborts
<1>2. PICK f : f = Held(s) /\ f = Target(s) /\ f \in TaskFibers \cup {Idle(s)} /\ f # Null
  BY <1>1, HeldType DEF SwapPcs, InSwap
<1>3. m_state[f] \in {"HOLD", "READY", "INIT"}
  BY <1>1, <1>2 DEF TaskInv, FiberPart, StageInv, Fits, Waiting
<1>4. CASE f \in TaskFibers
  <2>1. m_state[f] = "INIT" => m_ctx[f].at = "entry"
    BY <1>4 DEF TaskInv, FiberPart, SavedInv
  <2>2. m_state[f] \in {"HOLD", "READY"} =>
           m_ctx[f].at = "yield" \/ \E u \in Threads : pc[u] = "yielding" /\ Held(u) = f
    BY <1>4 DEF TaskInv, FiberPart, SavedInv
  <2>3. ~\E u \in Threads : pc[u] = "yielding" /\ Held(u) = f
    BY <1>1, <1>2, HeldApart
  <2> QED BY <1>1, <1>2, <1>3, <2>1, <2>2, <2>3
<1>5. CASE f = Idle(s)
  BY <1>1, <1>2, <1>3, <1>5 DEF TaskInv, FiberPart, SavedInv, IdleInv
<1> QED BY <1>2, <1>4, <1>5

\* The process is alive, or dead of one of the two calls of start() or of a
\* destruction without stop().
LEMMA AbortsKeep ==
    ASSUME IInv, TaskInv, FirstStart, NEW s \in Threads,
           Life(s) \/ Callers(s) \/ Loop(s) \/ Task(s)
    PROVE  AbortsExplained'
<1>1. Up
  BY StepUp
<1>2. CASE crash' = crash
  BY <1>1, <1>2 DEF AbortsExplained, Up
<1>3. CASE StartWorkers(s)
  <2>1. m_thread_count' = m_thread_count /\ starts'[s] = starts[s] + 1 /\ crash' = "vector"
        /\ m_thread_count[s] > 0
    BY <1>3 DEF StartWorkers, BeginStart, Die, IInv, TypeOK, FlagTypeOK
  <2>2. starts'[s] > 0
    BY <2>1 DEF IInv, TypeOK, FlagTypeOK
  <2> QED BY <2>1, <2>2 DEF AbortsExplained
<1>4. CASE Restart(s)
  <2>1. /\ m_auto_stop' = m_auto_stop /\ starts'[s] = starts[s] + 1 /\ crash' = "never_reach"
        /\ pc' = pc /\ pc[s] = "out" /\ m_ctx[Root(s)].at = "end" /\ m_stoping[s]
    BY <1>4 DEF Restart, BeginStart, Die, IInv, TypeOK, FlagTypeOK
  <2>2. starts[s] # 0 /\ m_auto_stop[s]
    BY <2>1 DEF FirstStart, Started
  <2>3. starts'[s] > 1
    BY <2>1, <2>2 DEF IInv, TypeOK, FlagTypeOK
  <2> QED BY <2>1, <2>2, <2>3 DEF AbortsExplained
<1>8. CASE DestroyAborts(s)
  <2>1. pc[s] = "out" /\ ~m_stoping[s] /\ crash' = "not_stopped"
        /\ UNCHANGED <<pc, m_stoping, m_state>>
    BY <1>8 DEF DestroyAborts, Die, fiberVars, flagVars
  <2>2. m_state[Root(s)] = "TERM"
    BY <2>1 DEF FirstStart, Started
  <2> QED BY <2>1, <2>2 DEF AbortsExplained
<1>5. CASE Life(s)
  <2>1. CASE \/ \E cfg \in Configs : Construct(s, cfg[1], cfg[2])
             \/ StartAgain(s) \/ Start(s) \/ Destroy(s) \/ \E t \in Threads : Stop(s, t)
    BY <1>2, <2>1 DEF Construct, StartAgain, Start, Stop, Destroy
  <2> QED BY <1>3, <1>4, <1>5, <1>8, <2>1 DEF Life
<1>6. CASE Callers(s) \/ Task(s)
  BY <1>2, <1>6 DEF Callers, ScheduleFiber, ScheduleCb, Task, YieldToReady, YeidToHold, FnReturns, FnThrows
<1>7. CASE Loop(s)
  <2>1. ~ResetAborts(s) /\ ~SwapInAborts(s)
    BY ResetHolds, SwapInHolds
  <2> QED BY <1>2, <1>7, <2>1 DEF Loop, Prologue, Fetch, FetchNothing, DispatchFiber, DispatchCb, DispatchIdle,
     Break, BackToStart, SwapInTarget, Leave, After, Requeue, Settle, SetHold
<1> QED BY <1>5, <1>6, <1>7

LEMMA StartInductive == ASSUME Discipline PROVE Spec => []StartInv
<1>1. Init => StartInv
  <2> SUFFICES ASSUME Init PROVE StartInv
    OBVIOUS
  <2>1. crash = "none" /\ \A s \in Threads : starts[s] = 0 /\ pc[s] = "absent" /\ m_stoping[s]
    BY DEF Init
  <2>2. \A s \in Threads : Root(s) \in Fibers /\ Root(s) \notin UserFibers
                           /\ Idle(s) \in Fibers /\ Idle(s) \notin UserFibers
    BY OtherFibers DEF TaskFibers
  <2>3. \A s \in Threads : m_ctx[Root(s)].at = "entry" /\ m_state[Root(s)] = "none" /\ m_state[Idle(s)] = "none"
    BY <2>2 DEF Init, FiberInit, EntryContext
  <2> QED BY <2>1, <2>3 DEF StartInv, AbortsExplained, FirstStart, Started, LoopPcs
<1>2. ASSUME IInv, TaskInv, IInv', TaskInv', StartInv, [Next]_vars PROVE StartInv'
  <2>1. CASE UNCHANGED vars
    BY <1>2, <2>1 DEF StartInv, AbortsExplained, FirstStart, Started, Up,
       vars, schedVars, fiberVars, flagVars
  <2>2. ASSUME NEW s \in Threads, Life(s) \/ Callers(s) \/ Loop(s) \/ Task(s) PROVE StartInv'
    BY <1>2, <2>2, StepUp, AbortsKeep, FirstStartKeeps DEF StartInv
  <2> QED BY <1>2, <2>1, <2>2 DEF Next, Terminated
<1> QED BY <1>1, <1>2, TaskInductive, PTL DEF Spec

\* No assertion on a fiber's state fails and no context that is not a saved one is
\* loaded.  The process dies of three calls only: start() with worker threads to make
\* (scheduler.cc:56), start() after stop() (fiber.cc:225), and the destruction of a
\* scheduler whose start() has returned and that was not stopped (scheduler.cc:33).
THEOREM AssertionsHold == ASSUME Discipline PROVE Spec => []AbortsExplained
<1>1. StartInv => AbortsExplained
  BY DEF StartInv
<1> QED BY <1>1, StartInductive, PTL

-----------------------------------------------------------------------------
(* What start() drains.                                                    *)

Drained(s) == early[s] \subseteq ToSet(began[s])

\* Callback c is on its way to its first swap_in.
Pending(s, c) ==
    \/ c \in QueuedFor(s) \/ ft[s].cb = c
    \/ pc[s] = "swap" /\ branch[s] = "cb" /\ m_cb[cb_fiber[s]] = c

\* The loop found nothing to run, or has acted on it.
FoundNothing(s) ==
    \/ pc[s] = "picked" /\ ft[s].fiber = Null /\ ft[s].cb = Null
    \/ pc[s] \in SwapPcs /\ branch[s] = "idle"
    \/ m_state[Idle(s)] \in {"EXEC", "TERM"}
    \/ m_state[Root(s)] = "TERM"

\* No early callback is forgotten, and none is left when nothing is found.
Draining(s) ==
    /\ pc[s] \in LoopPcs \ {"back"} =>
           \A c \in early[s] : c \in ToSet(began[s]) \/ Pending(s, c)
    /\ FoundNothing(s) => Drained(s)
DrainInv == Up => \A s \in Threads : Draining(s)

\* What a step has to show.
LEMMA DrainStep ==
    ASSUME NEW s \in Threads, Draining(s), early'[s] = early[s],
           ToSet(began[s]) \subseteq ToSet(began'[s]),
           pc'[s] \in LoopPcs \ {"back"} =>
               /\ pc[s] \in LoopPcs \ {"back"}
               /\ \A c \in early[s] : Pending(s, c) => Pending(s, c)' \/ c \in ToSet(began'[s]),
           FoundNothing(s)' => FoundNothing(s) \/ Drained(s)
    PROVE  Draining(s)'
<1>1. Drained(s) => Drained(s)'
  BY DEF Drained
<1>2. FoundNothing(s)' => Drained(s)'
  BY <1>1 DEF Draining
<1>3. ASSUME pc'[s] \in LoopPcs \ {"back"}, NEW c \in early'[s]
      PROVE  c \in ToSet(began'[s]) \/ Pending(s, c)'
  BY <1>3 DEF Draining
<1> QED BY <1>2, <1>3 DEF Draining

\* A scheduler that has drained stays drained.
LEMMA DrainedStays ==
    ASSUME NEW s \in Threads, Drained(s), early'[s] = early[s],
           ToSet(began[s]) \subseteq ToSet(began'[s])
    PROVE  Draining(s)'
BY DEF Draining, Drained

\* A scheduler whose thread takes no step.
LEMMA DrainOther ==
    ASSUME IInv, TaskInv, IInv', TaskInv', NEW s \in Threads,
           Life(s) \/ Callers(s) \/ Loop(s) \/ Task(s), NEW u \in Threads, u # s, Draining(u)
    PROVE  Draining(u)'
<1>1. /\ OtherScheduler(u) /\ m_state'[Root(u)] = m_state[Root(u)] /\ m_state'[Idle(u)] = m_state[Idle(u)]
      /\ pc[u] = "swap" /\ branch[u] = "cb" => m_cb'[cb_fiber[u]] = m_cb[cb_fiber[u]]
  BY StepFrame, StepOthers
<1>2. QueuedFor(u)' = QueuedFor(u)
  BY <1>1, QueueSame DEF OtherScheduler
<1>3. \A c \in early[u] : Pending(u, c) => Pending(u, c)'
  BY <1>1, <1>2 DEF Pending, OtherScheduler
<1>4. FoundNothing(u)' => FoundNothing(u)
  BY <1>1 DEF FoundNothing, OtherScheduler
<1> QED BY <1>1, <1>3, <1>4, DrainStep DEF OtherScheduler

\* Construction, start(), stop() and destruction.
LEMMA DrainLife ==
    ASSUME IInv, TaskInv, FirstStart, NEW s \in Threads, Life(s), Up', Draining(s)
    PROVE  Draining(s)'
<1>1. Root(s) # Idle(s) /\ Root(s) \in Fibers /\ Idle(s) \in Fibers /\ Main(s) # Idle(s) /\ Main(s) # Root(s)
  BY OtherFibers, ThreadFibersApart
<1>2. CASE \E cfg \in Configs : Construct(s, cfg[1], cfg[2])
  <2>1. /\ early' = early /\ began' = began /\ pc'[s] = "out"
        /\ m_state'[Idle(s)] = m_state[Idle(s)] /\ m_state'[Root(s)] \in {m_state[Root(s)], "INIT"}
    BY <1>1, <1>2 DEF Construct, Goto, taskVars, IInv, TypeOK, FiberTypeOK, LoopTypeOK
  <2>2. FoundNothing(s)' => FoundNothing(s)
    BY <2>1 DEF FoundNothing, SwapPcs, InSwap
  <2> QED BY <2>1, <2>2, DrainStep DEF LoopPcs
<1>3. CASE StartAgain(s) \/ \E t \in Threads : Stop(s, t)
  <2>1. UNCHANGED <<m_state, m_cb, pc, m_fibers, ft, cb_fiber, branch, early, began>>
    BY <1>3 DEF StartAgain, Stop, fiberVars, queueVars, loopVars, taskVars
  <2>2. QueuedFor(s)' = QueuedFor(s)
    BY <2>1, QueueSame
  <2>3. FoundNothing(s)' => FoundNothing(s)
    BY <2>1 DEF FoundNothing
  <2>4. \A c : Pending(s, c) => Pending(s, c)'
    BY <2>1, <2>2 DEF Pending
  <2> QED BY <2>1, <2>3, <2>4, DrainStep
<1>4. CASE Start(s)
  <2>1. /\ m_fibers' = m_fibers /\ early'[s] = QueuedFor(s) /\ pc'[s] = "prologue"
        /\ m_state'[Root(s)] = "EXEC" /\ m_state'[Idle(s)] = m_state[Idle(s)]
        /\ m_ctx[Root(s)].at = "entry"
    BY <1>1, <1>4 DEF Start, BeginStart, Goto, Call, queueVars, IInv, TypeOK, FlagTypeOK, FiberTypeOK, LoopTypeOK
  <2>2. m_state[Idle(s)] = "none"
    BY <2>1 DEF FirstStart, Started
  <2>3. QueuedFor(s)' = QueuedFor(s)
    BY <2>1, QueueSame
  <2>4. ~FoundNothing(s)'
    BY <2>1, <2>2 DEF FoundNothing, SwapPcs, InSwap
  <2>5. \A c \in early'[s] : Pending(s, c)'
    BY <2>1, <2>3 DEF Pending
  <2> QED BY <2>4, <2>5 DEF Draining
<1>5. CASE StartWorkers(s) \/ Restart(s) \/ DestroyAborts(s)
  BY <1>5 DEF StartWorkers, Restart, DestroyAborts, Die, Up
<1>6. CASE Destroy(s)
  <2>1. UNCHANGED <<m_state, early, began>> /\ pc'[s] = "gone"
    BY <1>6 DEF Destroy, Goto, fiberVars, flagVars, taskVars, IInv, TypeOK, LoopTypeOK
  <2>2. FoundNothing(s)' => FoundNothing(s)
    BY <2>1 DEF FoundNothing, SwapPcs, InSwap
  <2> QED BY <2>1, <2>2, DrainStep DEF LoopPcs
<1> QED BY <1>2, <1>3, <1>4, <1>5, <1>6 DEF Life

\* push_back takes nothing out of the queue.
LEMMA QueuedForGrows ==
    ASSUME IInv, NEW s \in Threads, NEW e \in Entry, m_fibers' = [m_fibers EXCEPT ![s] = Append(@, e)]
    PROVE  QueuedFor(s) \subseteq QueuedFor(s)'
<1>1. m_fibers[s] \in Seq(Entry) /\ m_fibers'[s] = Append(m_fibers[s], e)
  BY DEF IInv, TypeOK, QueueTypeOK
<1>2. ToSet(m_fibers'[s]) = ToSet(m_fibers[s]) \cup {e}
  BY <1>1, ToSetAppend
<1> QED BY <1>2 DEF QueuedFor

LEMMA DrainCallers ==
    ASSUME IInv, TaskInv, NEW s \in Threads, Callers(s), Draining(s)
    PROVE  Draining(s)'
<1>1. UNCHANGED <<m_state, m_cb, pc, ft, cb_fiber, branch, early, began>>
  BY DEF Callers, ScheduleFiber, ScheduleCb, fiberVars, flagVars, loopVars, taskVars
<1>2. PICK e \in Entry : m_fibers' = [m_fibers EXCEPT ![s] = Append(@, e)]
  BY Entries0 DEF Callers, ScheduleFiber, ScheduleCb
<1>3. QueuedFor(s) \subseteq QueuedFor(s)'
  BY <1>2, QueuedForGrows
<1>4. \A c : Pending(s, c) => Pending(s, c)'
  BY <1>1, <1>3 DEF Pending
<1>5. FoundNothing(s)' => FoundNothing(s)
  BY <1>1 DEF FoundNothing
<1> QED BY <1>1, <1>4, <1>5, DrainStep

\* The loop up to the choice of a branch: what leaves the queue is in ft, and what
\* leaves ft is on the fiber about to be entered.
LEMMA DrainChoice ==
    ASSUME IInv, TaskInv, NEW s \in Threads, Draining(s),
           \/ Prologue(s) \/ Fetch(s) \/ FetchNothing(s)
           \/ DispatchFiber(s) \/ DispatchCb(s) \/ DispatchIdle(s)
    PROVE  Draining(s)'
<1>1. /\ Root(s) # Idle(s) /\ Root(s) \in Fibers /\ Idle(s) \in Fibers
      /\ Root(s) \notin TaskFibers /\ Idle(s) \notin TaskFibers /\ CbFibers \subseteq TaskFibers
  BY OtherFibers, ThreadFibersApart
<1>2. early' = early /\ began' = began
  BY DEF Prologue, Fetch, FetchNothing, DispatchFiber, DispatchCb, DispatchIdle, flagVars, taskVars
<1>3. CASE Prologue(s)
  <2>1. /\ UNCHANGED <<m_fibers, ft>> /\ pc[s] = "prologue" /\ pc'[s] = "fetch"
        /\ m_state'[Idle(s)] = "INIT" /\ m_state'[Root(s)] = m_state[Root(s)]
    BY <1>1, <1>3 DEF Prologue, Goto, NewFiber, queueVars, loopVars, IInv, TypeOK, FiberTypeOK, LoopTypeOK
  <2>2. QueuedFor(s)' = QueuedFor(s)
    BY <2>1, QueueSame
  <2>3. \A c : Pending(s, c) => Pending(s, c)'
    BY <2>1, <2>2 DEF Pending
  <2>4. FoundNothing(s)' => FoundNothing(s)
    BY <2>1 DEF FoundNothing, SwapPcs, InSwap
  <2> QED BY <1>2, <2>1, <2>3, <2>4, DrainStep DEF LoopPcs
<1>4. CASE Fetch(s)
  <2>1. /\ m_state' = m_state /\ pc[s] = "fetch" /\ pc'[s] = "picked"
    BY <1>4 DEF Fetch, Goto, fiberVars, IInv, TypeOK, LoopTypeOK
  <2>2. PICK i \in DOMAIN m_fibers[s] : /\ ft' = [ft EXCEPT ![s] = m_fibers[s][i]]
                                        /\ m_fibers' = [m_fibers EXCEPT ![s] = RemoveAt(@, i)]
    BY <1>4 DEF Fetch
  <2>3. PICK e : e = m_fibers[s][i]
    OBVIOUS
  <2>4. Erased(s, e) /\ ft'[s] = e
    BY <2>2, <2>3, QueueErase DEF TaskInv, FiberPart, IInv, TypeOK, LoopTypeOK
  <2>5. ft[s].cb = Null
    BY <2>1 DEF TaskInv, FiberPart, LocalInv, SwapPcs, InSwap
  <2>6. Null \notin early[s]
    BY FiberSets DEF IInv, TypeOK, FlagTypeOK
  <2>7. \A c \in early[s] : Pending(s, c) => Pending(s, c)'
    BY <2>1, <2>4, <2>5, <2>6 DEF Pending, Erased
  <2>8. FoundNothing(s)' => FoundNothing(s)
    BY <2>1, <2>4 DEF FoundNothing, Erased, SwapPcs, InSwap
  <2> QED BY <1>2, <2>1, <2>7, <2>8, DrainStep DEF LoopPcs
<1>5. CASE FetchNothing(s)
  <2>1. pc[s] = "fetch" /\ \A i \in DOMAIN m_fibers[s] : ~Runnable(s, m_fibers[s][i])
    BY <1>5 DEF FetchNothing, Goto
  <2>2. \A e \in ToSet(m_fibers[s]) : e.cb # Null => e.fiber = Null
    BY DEF TaskInv, FiberPart, QueueInv, Orderly, ToSet
  <2>3. \A e \in ToSet(m_fibers[s]) : ~Runnable(s, e)
    BY <2>1 DEF ToSet
  <2>4. QueuedFor(s) = {}
    BY <2>2, <2>3 DEF QueuedFor, Runnable
  <2>5. ft[s].cb = Null /\ Null \notin early[s]
    BY <2>1, FiberSets DEF TaskInv, FiberPart, LocalInv, SwapPcs, InSwap, IInv, TypeOK, FlagTypeOK
  <2>6. Drained(s)
    BY <2>1, <2>4, <2>5 DEF Draining, Drained, Pending, LoopPcs
  <2> QED BY <1>2, <2>6, DrainedStays
<1>6. CASE DispatchFiber(s)
  <2>1. /\ UNCHANGED <<m_state, m_fibers, ft>> /\ pc[s] = "picked" /\ pc'[s] = "swap" /\ branch'[s] = "fiber"
    BY <1>6 DEF DispatchFiber, Goto, fiberVars, queueVars, IInv, TypeOK, LoopTypeOK
  <2>2. QueuedFor(s)' = QueuedFor(s)
    BY <2>1, QueueSame
  <2>3. \A c : Pending(s, c) => Pending(s, c)'
    BY <2>1, <2>2 DEF Pending
  <2>4. FoundNothing(s)' => FoundNothing(s)
    BY <2>1 DEF FoundNothing
  <2> QED BY <1>2, <2>1, <2>3, <2>4, DrainStep DEF LoopPcs
<1>7. CASE DispatchCb(s)
  <2>1. /\ m_fibers' = m_fibers /\ pc[s] = "picked" /\ pc'[s] = "swap" /\ branch'[s] = "cb" /\ HasCb(s)
    BY <1>7 DEF DispatchCb, Goto, IInv, TypeOK, LoopTypeOK
  <2>2. ft[s].cb \in Cbs
    BY <2>1 DEF HasCb, IInv, TypeOK, LoopTypeOK, Entry
  <2>3. PICK f \in CbFibers : NewFiber(f, ft[s].cb) /\ cb_fiber'[s] = f
    <3>1. CASE cb_fiber[s] # Null
      BY <1>7, <3>1 DEF DispatchCb, ResetFiber, IInv, TypeOK, LoopTypeOK
    <3>2. CASE cb_fiber[s] = Null
      <4>1. /\ NewFiber(CbFiber(ft[s].cb), ft[s].cb)
            /\ cb_fiber' = [cb_fiber EXCEPT ![s] = CbFiber(ft[s].cb)]
        BY <1>7, <3>2 DEF DispatchCb
      <4>2. CbFiber(ft[s].cb) \in CbFibers
        BY <2>2, FiberSets
      <4> QED BY <4>1, <4>2 DEF IInv, TypeOK, LoopTypeOK
    <3> QED BY <3>1, <3>2
  <2>4. /\ f \in Fibers /\ m_cb'[f] = ft[s].cb
        /\ m_state'[Idle(s)] = m_state[Idle(s)] /\ m_state'[Root(s)] = m_state[Root(s)]
    BY <1>1, <2>3, FiberSets DEF NewFiber, IInv, TypeOK, FiberTypeOK
  <2>5. QueuedFor(s)' = QueuedFor(s)
    BY <2>1, QueueSame
  <2>6. \A c : Pending(s, c) => Pending(s, c)'
    BY <2>1, <2>3, <2>4, <2>5 DEF Pending
  <2>7. FoundNothing(s)' => FoundNothing(s)
    BY <2>1, <2>4 DEF FoundNothing
  <2> QED BY <1>2, <2>1, <2>6, <2>7, DrainStep DEF LoopPcs
<1>8. CASE DispatchIdle(s)
  <2>1. pc[s] = "picked" /\ ~HasFiber(s) /\ ~HasCb(s)
    BY <1>8 DEF DispatchIdle, Goto
  <2>2. Held(s) = ft[s].fiber /\ (Held(s) # Null => Waiting(Held(s)))
    BY <2>1, HeldType DEF TaskInv, FiberPart, StageInv, Fits
  <2>3. ft[s].fiber = Null /\ ft[s].cb = Null
    BY <2>1, <2>2 DEF HasFiber, HasCb, Finished, Waiting
  <2>4. Drained(s)
    BY <2>1, <2>3 DEF Draining, FoundNothing
  <2> QED BY <1>2, <2>4, DrainedStays
<1> QED BY <1>3, <1>4, <1>5, <1>6, <1>7, <1>8

\* The callback about to be entered begins.
LEMMA DrainSwapIn ==
    ASSUME IInv, TaskInv, NEW s \in Threads, Draining(s), SwapInTarget(s)
    PROVE  Draining(s)'
<1>1. /\ pc[s] = "swap" /\ pc'[s] = "task" /\ SwapIn(s, Target(s)) /\ m_cb' = m_cb
      /\ UNCHANGED <<m_fibers, ft, cb_fiber, branch, early>>
      /\ began' = IF m_ctx[Target(s)].at = "entry" /\ m_cb[Target(s)] \in Cbs
                  THEN [began EXCEPT ![s] = Append(@, m_cb[Target(s)])] ELSE began
  BY DEF SwapInTarget, Goto, queueVars, flagVars, loopVars, IInv, TypeOK, LoopTypeOK
<1>2. PICK f : f = Target(s) /\ f = Held(s) /\ f \in TaskFibers \cup {Idle(s)}
               /\ (branch[s] = "idle" <=> f = Idle(s)) /\ (branch[s] = "cb" => f = cb_fiber[s] /\ f \in CbFibers)
  BY <1>1, HeldType DEF SwapPcs, InSwap
<1>3. began[s] \in Seq(Cbs) /\ began \in [Threads -> Seq(Cbs)]
  BY DEF IInv, TypeOK, TaskTypeOK
<1>4. /\ ToSet(began[s]) \subseteq ToSet(began'[s])
      /\ m_ctx[f].at = "entry" /\ m_cb[f] \in Cbs => m_cb[f] \in ToSet(began'[s])
  <2>1. CASE m_ctx[f].at = "entry" /\ m_cb[f] \in Cbs
    <3>1. began'[s] = Append(began[s], m_cb[f])
      BY <1>1, <1>2, <1>3, <2>1
    <3>2. ToSet(began'[s]) = ToSet(began[s]) \cup {m_cb[f]}
      BY <1>3, <2>1, <3>1, ToSetAppend
    <3> QED BY <3>2
  <2>2. CASE ~(m_ctx[f].at = "entry" /\ m_cb[f] \in Cbs)
    BY <1>1, <1>2, <2>2
  <2> QED BY <2>1, <2>2
<1>5. CASE branch[s] = "idle"
  <2>1. Drained(s)
    BY <1>1, <1>5 DEF Draining, FoundNothing, SwapPcs, InSwap
  <2> QED BY <1>1, <1>4, <2>1, DrainedStays
<1>6. CASE branch[s] # "idle"
  <2>1. f \in TaskFibers /\ f # Idle(s) /\ f # Root(s) /\ Idle(s) \in Fibers /\ Root(s) \in Fibers
    BY <1>2, <1>6, OtherFibers
  <2>2. m_state'[Idle(s)] = m_state[Idle(s)] /\ m_state'[Root(s)] = m_state[Root(s)]
    BY <1>1, <1>2, <2>1 DEF SwapIn, IInv, TypeOK, FiberTypeOK
  <2>3. FoundNothing(s)' => FoundNothing(s)
    BY <1>1, <1>6, <2>2 DEF FoundNothing
  <2>4. QueuedFor(s)' = QueuedFor(s)
    BY <1>1, QueueSame
  <2>5. ASSUME branch[s] = "cb" PROVE m_ctx[f].at = "entry"
    <3>1. m_state[f] = "INIT"
      BY <1>1, <1>2, <2>5 DEF TaskInv, FiberPart, StageInv, Fits
    <3> QED BY <2>1, <3>1 DEF TaskInv, FiberPart, SavedInv
  <2>6. \A c \in early[s] : c \in Cbs
    BY DEF IInv, TypeOK, FlagTypeOK
  <2>7. \A c \in early[s] : Pending(s, c) => Pending(s, c)' \/ c \in ToSet(began'[s])
    <3> SUFFICES ASSUME NEW c \in early[s], Pending(s, c) PROVE Pending(s, c)' \/ c \in ToSet(began'[s])
      OBVIOUS
    <3>1. CASE c \in QueuedFor(s) \/ ft[s].cb = c
      BY <1>1, <2>4, <3>1 DEF Pending
    <3>2. CASE branch[s] = "cb" /\ m_cb[cb_fiber[s]] = c
      BY <1>2, <1>4, <2>5, <2>6, <3>2
    <3> QED BY <3>1, <3>2 DEF Pending
  <2> QED BY <1>1, <1>4, <2>3, <2>7, DrainStep DEF LoopPcs
<1> QED BY <1>5, <1>6

\* From there to the end of the round nothing is pending outside the queue.
LEMMA DrainRound ==
    ASSUME IInv, TaskInv, NEW s \in Threads, Draining(s),
           pc[s] \in {"task", "yielding", "ending", "after", "requeue", "settle", "sethold"},
           early' = early, began' = began, pc'[s] \in LoopPcs,
           QueuedFor(s) \subseteq QueuedFor(s)',
           pc'[s] # "picked", pc'[s] \in SwapPcs => branch'[s] = branch[s],
           branch[s] # "idle" =>
               m_state'[Idle(s)] = m_state[Idle(s)] /\ m_state'[Root(s)] = m_state[Root(s)]
    PROVE  Draining(s)'
<1>1. CASE branch[s] = "idle"
  <2>1. Drained(s)
    BY <1>1 DEF Draining, FoundNothing, SwapPcs, InSwap
  <2> QED BY <2>1, DrainedStays
<1>2. CASE branch[s] # "idle"
  <2>1. pc[s] \in SwapPcs /\ pc[s] # "swap" /\ pc[s] \in LoopPcs \ {"back"}
    BY DEF SwapPcs, InSwap, LoopPcs
  <2>2. ft[s].cb = Null /\ Null \notin early[s]
    BY <2>1, FiberSets DEF TaskInv, FiberPart, LocalInv, IInv, TypeOK, FlagTypeOK
  <2>3. \A c \in early[s] : Pending(s, c) => Pending(s, c)'
    BY <2>1, <2>2 DEF Pending
  <2>4. FoundNothing(s)' => FoundNothing(s)
    BY <1>2 DEF FoundNothing
  <2> QED BY <2>1, <2>3, <2>4, DrainStep
<1> QED BY <1>1, <1>2

LEMMA DrainLoop ==
    ASSUME IInv, TaskInv, NEW s \in Threads, Loop(s) \/ Task(s), Up', Draining(s)
    PROVE  Draining(s)'
<1>1. /\ Root(s) # Idle(s) /\ Root(s) \in Fibers /\ Idle(s) \in Fibers
      /\ Root(s) \notin TaskFibers /\ Idle(s) \notin TaskFibers /\ CbFibers \subseteq TaskFibers
  BY OtherFibers, ThreadFibersApart
<1>2. ASSUME m_fibers' = m_fibers PROVE QueuedFor(s)' = QueuedFor(s)
  BY <1>2, QueueSame
<1>3. CASE Break(s)
  <2>1. /\ early' = early /\ began' = began /\ m_state[Idle(s)] = "TERM"
    BY <1>3 DEF Break, flagVars, taskVars
  <2>2. Drained(s)
    BY <2>1 DEF Draining, FoundNothing
  <2> QED BY <2>1, <2>2, DrainedStays
<1>4. CASE BackToStart(s)
  <2>1. /\ early' = early /\ began' = began /\ m_state' = m_state /\ pc'[s] = "out"
    BY <1>4 DEF BackToStart, Goto, flagVars, taskVars, IInv, TypeOK, LoopTypeOK
  <2>2. FoundNothing(s)' => FoundNothing(s)
    BY <2>1 DEF FoundNothing, SwapPcs, InSwap
  <2> QED BY <2>1, <2>2, DrainStep DEF LoopPcs
<1>5. CASE Leave(s) \/ After(s)
  <2>1. /\ early' = early /\ began' = began /\ m_state' = m_state /\ branch' = branch /\ m_fibers' = m_fibers
        /\ pc[s] \in {"yielding", "ending", "after"}
        /\ pc'[s] \in {"after", "requeue", "settle", "sethold"}
    BY <1>5 DEF Leave, After, Verdict, Goto, fiberVars, queueVars, flagVars, loopVars, taskVars,
       IInv, TypeOK, LoopTypeOK
  <2> QED BY <1>2, <2>1, DrainRound DEF LoopPcs
<1>6. CASE Requeue(s)
  <2>1. /\ early' = early /\ began' = began /\ m_state' = m_state
        /\ pc[s] = "requeue" /\ pc'[s] = "fetch"
        /\ m_fibers' = [m_fibers EXCEPT ![s] = Append(@, FiberEntry(Target(s), AnyThread))]
    BY <1>6 DEF Requeue, Goto, fiberVars, flagVars, taskVars, IInv, TypeOK, LoopTypeOK
  <2>2. Target(s) \in TaskFibers
    BY <2>1, TargetType DEF IInv, IdleNeverReady
  <2>3. FiberEntry(Target(s), AnyThread) \in Entry
    BY <2>2, Entries0
  <2>4. QueuedFor(s) \subseteq QueuedFor(s)'
    BY <2>1, <2>3, QueuedForGrows
  <2> QED BY <2>1, <2>4, DrainRound DEF LoopPcs, SwapPcs, InSwap
<1>7. CASE Settle(s)
  <2>1. /\ early' = early /\ began' = began /\ m_fibers' = m_fibers
        /\ pc[s] = "settle" /\ pc'[s] = "fetch"
    BY <1>7 DEF Settle, Goto, queueVars, flagVars, taskVars, IInv, TypeOK, LoopTypeOK
  <2>2. m_state'[Idle(s)] = m_state[Idle(s)] /\ m_state'[Root(s)] = m_state[Root(s)]
    <3>1. CASE branch[s] = "cb"
      <4>1. cb_fiber[s] \in CbFibers /\ m_state' = [m_state EXCEPT ![cb_fiber[s]] = "INIT"]
        BY <1>7, <2>1, <3>1 DEF Settle, ResetFiber, NewFiber, IInv, TypeOK, LoopTypeOK, LoopShape
      <4> QED BY <1>1, <4>1 DEF IInv, TypeOK, FiberTypeOK
    <3>2. CASE branch[s] # "cb"
      BY <1>7, <3>2 DEF Settle, fiberVars
    <3> QED BY <3>1, <3>2
  <2> QED BY <1>2, <2>1, <2>2, DrainRound DEF LoopPcs, SwapPcs, InSwap
<1>8. CASE SetHold(s)
  <2>1. /\ early' = early /\ began' = began /\ m_fibers' = m_fibers
        /\ pc[s] = "sethold" /\ pc'[s] = "fetch" /\ m_state' = [m_state EXCEPT ![Target(s)] = "HOLD"]
    BY <1>8 DEF SetHold, Goto, queueVars, flagVars, taskVars, IInv, TypeOK, LoopTypeOK
  <2>2. branch[s] # "idle" => Target(s) \in TaskFibers
    BY <2>1, TargetType
  <2>3. branch[s] # "idle" =>
            m_state'[Idle(s)] = m_state[Idle(s)] /\ m_state'[Root(s)] = m_state[Root(s)]
    BY <1>1, <2>1, <2>2 DEF IInv, TypeOK, FiberTypeOK
  <2> QED BY <1>2, <2>1, <2>3, DrainRound DEF LoopPcs, SwapPcs, InSwap
<1>9. CASE Task(s)
  <2>1. /\ early' = early /\ began' = began /\ branch' = branch /\ m_fibers' = m_fibers
        /\ pc[s] = "task" /\ pc'[s] \in {"yielding", "ending"}
    BY <1>9 DEF Task, YieldToReady, YeidToHold, FnReturns, FnThrows, Goto, queueVars, flagVars, loopVars,
       taskVars, IInv, TypeOK, LoopTypeOK
  <2>2. cpu[s] = Held(s) /\ t_fiber[s] = Held(s) /\ Held(s) \in TaskFibers \cup {Idle(s)}
        /\ (branch[s] = "idle" <=> Held(s) = Idle(s))
    BY <2>1, HeldType DEF SwapPcs, InSwap
  <2>3. branch[s] # "idle" =>
            m_state'[Idle(s)] = m_state[Idle(s)] /\ m_state'[Root(s)] = m_state[Root(s)]
    BY <1>1, <1>9, <2>2 DEF Task, YieldToReady, YeidToHold, FnReturns, FnThrows, MarkCurrent, CbReturns,
       CbThrows, IInv, TypeOK, FiberTypeOK
  <2> QED BY <1>2, <2>1, <2>3, DrainRound DEF LoopPcs
<1>10. CASE ResetAborts(s) \/ SwapInAborts(s)
  BY <1>10, ResetHolds, SwapInHolds
<1> QED BY <1>3, <1>4, <1>5, <1>6, <1>7, <1>8, <1>9, <1>10, DrainChoice, DrainSwapIn DEF Loop

LEMMA DrainInductive == ASSUME Discipline PROVE Spec => []DrainInv
<1>1. Init => DrainInv
  <2> SUFFICES ASSUME Init, NEW s \in Threads PROVE Draining(s)
    BY DEF DrainInv
  <2>1. pc[s] = "absent"
    BY DEF Init
  <2>2. Root(s) \in Fibers /\ Root(s) \notin UserFibers /\ Idle(s) \in Fibers /\ Idle(s) \notin UserFibers
    BY OtherFibers DEF TaskFibers
  <2>3. m_state[Root(s)] = "none" /\ m_state[Idle(s)] = "none"
    BY <2>2 DEF Init, FiberInit
  <2> QED BY <2>1, <2>3 DEF Draining, FoundNothing, LoopPcs, SwapPcs, InSwap
<1>2. ASSUME IInv, TaskInv, IInv', TaskInv', StartInv, DrainInv, [Next]_vars PROVE DrainInv'
  <2>1. CASE UNCHANGED vars
    <3>1. UNCHANGED <<m_state, m_cb, crash, pc, m_fibers, ft, cb_fiber, branch, early, began>>
      BY <2>1 DEF vars, schedVars, fiberVars, queueVars, flagVars, loopVars, taskVars
    <3>2. ASSUME NEW s \in Threads, Draining(s) PROVE Draining(s)'
      <4>1. QueuedFor(s)' = QueuedFor(s)
        BY <3>1, QueueSame
      <4>2. (FoundNothing(s)' => FoundNothing(s)) /\ \A c : Pending(s, c) => Pending(s, c)'
        BY <3>1, <4>1 DEF FoundNothing, Pending
      <4> QED BY <3>1, <3>2, <4>2, DrainStep
    <3> QED BY <1>2, <3>1, <3>2 DEF DrainInv, Up
  <2>2. ASSUME NEW s \in Threads, Life(s) \/ Callers(s) \/ Loop(s) \/ Task(s), Up', NEW u \in Threads
        PROVE  Draining(u)'
    <3>1. Draining(u) /\ FirstStart
      BY <1>2, <2>2, StepUp DEF DrainInv, StartInv
    <3>2. CASE u # s
      BY <1>2, <2>2, <3>1, <3>2, DrainOther
    <3>3. CASE u = s
      BY <1>2, <2>2, <3>1, <3>3, DrainLife, DrainCallers, DrainLoop
    <3> QED BY <3>2, <3>3
  <2> QED BY <1>2, <2>1, <2>2 DEF Next, Terminated, DrainInv
<1> QED BY <1>1, <1>2, TaskInductive, StartInductive, PTL DEF Spec

\* When start() has run its loop, it has entered every callback that was queued for
\* its thread when it began.
THEOREM StartHasDrained == ASSUME Discipline PROVE Spec => []StartDrains
<1>1. DrainInv => StartDrains
  BY DEF DrainInv, Draining, FoundNothing, Drained, StartDrains
<1> QED BY <1>1, DrainInductive, PTL
=============================================================================
