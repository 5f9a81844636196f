# Cpp_wb_server in TLA+

Specifications, model-checking runs and proofs for the library in
`src/wb_server`: stackful fibers, a fiber scheduler, configuration variables
with change listeners, and a logging system that configures itself through
them. `PROJECT.json` has the map from each definition to its source lines, the
runs, the hazards, the findings and the theorems.

## Inventory

| component | state | operations | modelled in |
|---|---|---|---|
| Fiber (`fiber.h`, `fiber.cc`) | `m_state`, `m_cb`, `m_ctx`; per thread `t_fiber`, `t_thread_fiber` | construct, `reset`, `call`/`back`, `swap_in`/`swap_out`, `YieldToReady`, `YeidToHold`, `MainFunc`, `CallMainFunc` | `Fiber` |
| Scheduler (`scheduler.h`, `scheduler.cc`) | `m_fibers` (queue), `m_stoping`, `m_auto_stop`, thread counters, `m_root_fiber`; locals of `run`: `ft`, `cb_fiber`, `idle_fiber` | construct, `start`, `stop`, `scheduler()`, `run`, destroy | `Scheduler`; what callers rely on in `CallbackPool` |
| ConfigVar, Config (`config.h`, `config.cc`) | `m_val`, `m_cbs`, `m_mutex` (RWMutex), `s_fun_id`; the registry and its lock | `set_value`, `from_string`, `load_from_yaml`, `lookup`, `Visit`, `add_listener`, `del_lietener`, `clear_listener` | `Config` |
| LexicalCast (`config.h`, `log.cc`) | the values a document gives the variables | the casts to and from YAML, `list_all_menmber`, `load_from_yaml` | `LexicalCast` |
| Logger, LoggerManager, LogDefine, LogIniter (`log.h`, `log.cc`) | level, pattern, appenders and spinlock of each logger; the manager's lock; the parameter `logs` | `log`, `set_formatter`, `add_appender`, `del_appender`, `clear_appender`, `get_logger`, `to_yaml_string`, the change listener | `Log` |
| FileLogAppender | stream, `m_last_time`, spinlock | `log`, `reopen` | `FileAppender` |
| LogFormatter | the items of a pattern, `m_error` | `init` | `Formatter` |
| Thread, Semaphore (`thread.cc`, `mutex.cc`) | `m_thread`, `m_id`, `m_cb`, `m_name`, the semaphore; per thread `t_thread`, `t_thread_name` | construct, `run`, `SetName`, `join`, destroy | `Thread` |
| Mutex, RWMutex, Spinlock (`mutex.h`) | pthread locks | lock, unlock | in the modules of those who hold them |
| Singleton, NonCopyable, util, macro | none that changes | thread ids, backtraces, assertions | not modelled, except that a failed assertion ends the process |

How they interact. A program constructs a `Scheduler` on a thread (which makes
that thread's main fiber and the scheduler's root fiber), hands it fibers and
callbacks from any thread through `scheduler()`, and calls `start()`, which
runs `Scheduler::run` on the root fiber. The loop switches to fibers
(`swap_in`), they switch back (`swap_out`) when they yield or end. The state
word of a fiber is read and written by the loop, by the fiber, and by any other
loop that has the fiber in its queue, without a lock. `Config` and `Log` meet in
the listener of `logs`: `set_value` runs it under the variable's read lock, and
it takes the loggers' spinlocks while other threads log. What it builds are
appenders with patterns (`FileAppender`, `Formatter`) out of definitions that came
through a cast (`LexicalCast`).

What is hard. Context switches between two halves of a state change; a fiber
that can be in a queue, in a loop's hands and on a stack; the reuse of one fiber
for callback after callback; two separate locks in `set_value`; a counter shared
by objects with a lock each; nested spinlocks; a listener that rebuilds objects
in use; a thread that outlives its object; a stream that fails; a parser with
two indices. `PROJECT.json` lists these under `hazards`, with the line where each
bites and the property that watches it.

What makes each part correct: a fiber executes on its own stack, and on one
thread; a fiber that is ready runs again, once; a callback handed over is run
once, in order; start() returns and leaves nothing behind; no value of a
variable goes unannounced; a listener key is the key of one listener; loggers
follow their definitions; lines stay whole and go to the file of their second; a
pattern is taken apart without loss; a value survives its own text; a thread is
given back once and does not use an object that is gone; no call waits for ever.

## Modules

**Fiber** has the objects and the operations, as actions of a thread `t`. The
code never looks into a saved `ucontext_t`, so a context is `[stack, at]`: the
stack it resumes, and the place on it. `cpu[t]` is the stack a thread executes
on, which the code cannot see; `t_fiber[t]` is what `Fiber::GetThis()` answers.
Loading a context sets `cpu` to the *context's* stack, whatever fiber object it
is stored in, so that the agreement of the two is a theorem and not a
definition. A context that is not a saved one (a stack in use) is not loaded:
what happens then is undefined, and the action that would load it ends the run
with `crash = "corrupt"`.

**Scheduler** extends it with the program. Thread `s` has one scheduler, `s`;
`pc[s]` is the place in `Scheduler::run`:

| pc | code | actions |
|---|---|---|
| `absent`, `out`, `gone` | outside start() | `Construct`, `StartAgain`, `Start`, `StartWorkers`, `Restart`, `Stop`, `Destroy`, `DestroyAborts` |
| `prologue`, `fetch` | run:99-131 | `Prologue`, `Fetch`, `FetchNothing` |
| `picked` | run:135-182, choice of the branch | `DispatchFiber`, `DispatchCb`, `ResetAborts`, `DispatchIdle`, `Break` |
| `swap` | swap_in | `SwapInTarget`, `SwapInAborts` |
| `task` | the fiber's own code | `YieldToReady`, `YeidToHold`, `FnReturns`, `FnThrows` |
| `yielding`, `ending` | between marking the state and swapcontext | `Leave` |
| `after`, `requeue`, `settle`, `sethold` | run:140-187 | `After`, `Requeue`, `Settle`, `SetHold` |
| `back` | the end of CallMainFunc | `BackToStart` |

`ScheduleFiber` and `ScheduleCb` are the callers of `scheduler()`, at any moment
of this. Everything under `m_mutex` is one action.

**CallbackPool** is the abstract specification of `scheduler(cb, thread)`: a line of
callbacks per scheduler, one in hand, a set of running ones; no fibers, no loop. A
line is the set of those who wait and who of them is ahead of whom.
**SchedulerPool** has the refinement mapping, without a history variable: the line is
what the queue holds of callbacks, whatever fibers stand in between; the one in hand
sits in `ft` or in `cb_fiber`; the running ones are in the fibers whose state says that
they have been entered and not ended. `ImplementsPool` says every
step of the scheduler is a step of the pool or none.

**Config** has set_value's steps (`SetBegin`, `Notify` per listener,
`ListenerThrows`, `Notified`, `Write`) and add_listener's (`AddListener`,
`StoreCounter`, `Insert`, `ReturnKey`), because `s_fun_id` is read three times and
guarded by none of the locks held. A call of `set_value` or `from_string` is a
document of one item, `load_from_yaml` one of several, with a lookup under the
registry's lock for each (`FindVar`). `Visit` iterates under that lock, one action per
variable; `LookupMismatch` is the lookup of a name under another type, which reads
the variable under the registry's write lock. The registry's lock is `Registry` in
`Locks`, beside the variables' own.

**Log** has the loggers, `log()` with its two unlocked looks at the level and its
nested locking, to_yaml_string of the manager, which takes each logger's lock under its
own, and the listener of `logs` step by step, between the read lock and the write of
`set_value`, its own line on the root logger (`LogChange`) first. `Mine` is an appender of the program: the lists hold the pointer, `mine` is the
object, so that it can be in two loggers, be deleted and come back; `UserAdds` and
`UserAdded` are the two halves of add_appender. A logger that `get_logger` has not made yet is the logger it would make.

**FileAppender** has `log()` of an appender that two loggers share (each logger lets one
call through at a time): the comparison with `m_last_time` and the store to it are
actions of their own, outside the lock, and a line is written item by item under it.
The stream is the file it has open and whether it has failed; `Reopened` is what
close() and open() do to it. `Tick`, `Rotate`, an open() that is refused and
`WriteFails` are the environment.

**Formatter** has an action for each way through the two loops of `init()`, over
patterns of character classes, then `Build`, which makes the items. `Tokens` is the
grammar it is compared with: the token at a place (`TokenAt`), the place behind it
(`After`), and a recursive function over the places, without the inner loop and without
the text that init() holds back.

**LexicalCast** has the casts as operators and a document listed and loaded node by node:
`calls` are the calls of `list_all_menmber` to come, the recursion written as the
list of what it has left to do. The two loops of the cast of logger definitions are recursive functions over the
rounds. yaml-cpp and boost::lexical_cast are external: `Load` and `Emit` are what matters of
them, that a null is written `~`, that an empty scalar gets quotation marks, and that
a sequence or map is spelled out; `BadSubscript` and the sequence that is cast to a map are
where they throw besides. `NodeAssumption` says which documents are meant: keys
are not empty, the fields of a logger or an appender are scalars, and a list is not given as a map,
for whose size() yaml-cpp's operator[] would make up elements. The texts of integers are a constant, `Ints`,
two of them for TLC; the others throw.

**Thread** has the constructor in two steps around the semaphore, `run()` in four
(`Enter`, `SwapCb`, `Notify`, the callback), join() in two, `SetName` and the
destructor, as actions of any actor: the main thread, or the callback of an object,
which may use other objects and its own. `WaitInterrupted` is the wait that a
signal cuts short, `CreateFails` the pthread that cannot be made, `Crash` the end the
process may come to once memory that is gone has been used. `uaf` and `misused` record what the code cannot
see.

**MCScheduler**, **MCConfig**, **MCLog**, **MCFileAppender**, **MCFormatter**, **MCLexicalCast** and
**MCThread** instantiate them. The theorems are in **SchedulerProofs** (types and stacks,
whatever callers do, and what a task may rely on), **SchedulerPoolProofs** (the
refinement of CallbackPool), **ConfigProofs**, **LogProofs**, **FileAppenderProofs**,
**ThreadProofs**, **FormatterProofs** and **LexicalCastProofs**. A definition named `Bug...` is a plausible slip in the definition
after it; no specification uses it.

## Runs

| run | question | bounds |
|---|---|---|
| `core` | Is anything a task is owed lost, doubled or run in the wrong state, from construction through restarts to destruction, and does the scheduler implement `CallbackPool`? Does start() return, and run what was scheduled before it? | one thread with a scheduler, 1 fiber, 2 callbacks, pins to nobody and to a thread without a loop, three constructor configurations, 2 wake-ups, 1 yield, 2 starts, under fairness |
| `two` | Do two schedulers ever execute one stack, mark a fiber they do not execute, take back an end or fail an assertion? | two threads with a scheduler each, 1 fiber that moves between them, 1 callback, 2 wake-ups, 1 yield, 1 start each |
| `anything` | Is the invariant of the proofs an invariant, with callers that schedule any fiber anywhere? | two schedulers, 1 callback, 2 wake-ups |
| `config` | Is every value announced, every key right, the registry stable under an iteration, every call ended? | 2 threads, 2 names, 3 values, documents of one and three items, 2 documents, 2 listeners, 1 visit or wrong lookup; one name is assigned by both threads, the other twice by one thread while only the other thread subscribes to it |
| `keys` | a disagreement | 2 threads |
| `log` | Do loggers follow their definitions while other threads log, set patterns, move an appender and print the loggers? | 2 threads, one of which assigns, 2 loggers (one the root), 4 sets of definitions, 3 assignments, 2 other calls, among them those on an appender of the program |
| `appenders` | a disagreement | the same |
| `threads` | Does a constructor hand over a thread that runs, does anyone use an object that is gone, is each pthread given back once, do constructor and join() return? | 3 objects, the main thread; one object is named, two actors rename themselves |
| `file` | Do lines stay whole and go to the right file, and are they lost only for a reason? | 2 loggers on one appender, lines of 2 items, 3 calls, 3 seconds, 2 files |
| `reopen` | a disagreement | the same |
| `patterns` | Does init() do for every pattern what the grammar says? | all patterns of up to 6 characters: a letter that names an item, one that does not, a blank, `%` and the braces |
| `lexical` | Do values come back from their text, do documents mean one thing? | two documents in a row out of some hundreds, five variables |

Why the bounds are enough to see the interesting cases. Two callbacks are the
least with which `cb_fiber` is reused, order means something and one may hold
while the other runs; one fiber with two wake-ups and a yield can be queued
while it executes, be requeued, or hold and be woken again; a pin to
another thread gives an entry that is passed over; two starts give the restart.
Two listeners' keys of one type are the least that collide. In `log`, one
definition changes in nothing but its appenders, one carries a pattern that does
not parse, and both loggers come and go. Three threads are the fewest that can
join each other in a circle pthread_join does not find. Three seconds let a slow
caller store an earlier one over a later one, and the next caller compare with it.
Six characters hold an item with braces behind text and before another item
(` %m{}%`), an unclosed brace with something after it, and every `%%` at an edge.
Two documents let the second meet values of the first, and definitions compare
equal that are not. Coverage of these runs shows every action taken;
`ResetAborts` and `SwapInAborts` only in `anything`, whose callers break the
wake-up protocol.

Callers. The library states no rule for who may schedule a fiber. With
`StaleWakes = FALSE` callers keep the customary one: they wake a fiber that is
unfinished and not already queued, and a fiber with a wake-up pending answers it
by holding. `HandOff = FALSE` lets a fiber go to another scheduler only by code of the thread it
was at last (`home`), which is not inside a switch of that fiber while it calls
(`AtRest`); with `TRUE` any thread may give it away at any time. `core` and `two`
assume both; `anything`, `TypeCorrect`, `StacksCorrect` and `StoppingSafe` assume
neither; the other theorems of SchedulerProofs and that of SchedulerPoolProofs name the two as `Discipline`, because the
properties fail without them (see Findings). In
Thread nobody uses an object before its constructor has returned or after its
destructor has begun, and no two call its join() or destructor at a time; that is
what C++ asks of any object.

Fairness. `FairSpec` of Scheduler: each thread inside start() goes on, and each
fiber's code comes to its next yield or end (`WF` of `Loop(s)` and of `Task(s)`); the
operating system runs every thread and tasks do not loop for ever. Nothing is
assumed of callers. In Config, Log and FileAppender a call under way goes on, `WF` of its
steps; calls are finitely many, so nobody waits for a lock that others keep
passing on, which the spinlocks and the reader-writer locks of the code would not
exclude. In Thread, `WF` of `Run(t)`, `Wait(a)` and `Joined(a)`: the kernel runs every
thread that can run, and callbacks end; that a callback joins, constructs or
destroys anything is not assumed. In Formatter the calling thread runs.

## Findings

Each is a run that TLC finds violated by what the code does.

- `keys` (`KeysAreUnique`): the static key counter of add_listener
  (config.h:340-344) is shared by variables with a lock each.
- `appenders` (`AppendersFollowConfig`): `appenders == appenders` (log.cc:584)
  compares a member with itself; a change of the appenders alone is dropped.
- `reopen` (`ReopenAnswers`): log.h:369-370 says that reopen() answers whether the
  file was opened. After a failed write it does not close the stream (log.cc:391), open()
  fails on the file that is open, the stream stays broken, and the answer, is_open(), is
  true (log.cc:395).

More disagreements show in the passing runs, as an exception a property has to make
or as what it says:

- With worker threads to make, start() assigns through `m_threads[i]` of a vector that it
  asserts to be empty (scheduler.cc:54-56): a scheduler with more threads than the caller
  cannot be started. `AbortsExplained` allows it, `core` reaches it.
- start(), stop(), start() aborts at the assertion "never reach" (fiber.cc:225),
  because call() (scheduler.cc:63) resumes the root fiber behind its last switch:
  `AbortsExplained` allows it, `core` reaches it.
- ~Scheduler asserts m_stoping (scheduler.cc:33): a scheduler that was started and is
  destroyed without a stop() ends the process (`DestroyAborts`). `AbortsExplained`
  allows it, `core` and `two` reach it.
- With `StaleWakes = TRUE`, an entry of a fiber that has finished meanwhile is taken for
  an empty queue (scheduler.cc:135, 149, 171), and `StartDrains` fails.
- With `HandOff = TRUE`, a fiber that holds may be given to another scheduler between the
  loop's look at its state and the write of HOLD (scheduler.cc:144-146): it is marked
  HOLD while the other thread executes it, and `ExecutingIsExec` fails.
- Between the erase from the queue and the increment of the active count, and between the
  decrement and the requeue, stopping() answers true although a task is in the
  loop's hands (scheduler.cc:128-162): `StoppingMeansNobodyRuns` speaks of the task that
  executes only. `CallbackConserved` says that no callback gets lost in between.
- Two threads that assign a variable are announced in one order and written in the
  other (config.h:324-336): `ListenersKnowValue` is stated for variables one thread
  assigns. A listener inserted between the two locks of set_value never hears of the
  value: the exception `late`.
- With two threads that assign `logs`, the listener runs twice at once and
  `WholeDefinition` fails.
- A wait of Thread's constructor that a signal interrupts counts as a post
  (mutex.cc:18): the exception `interrupted` in `Handshake` and `FreedUnused`. A detached
  thread that calls SetName writes through a pointer to its destroyed object
  (thread.cc:27): the exception `detached`.
- An appender that comes from another logger keeps the pattern it inherited there, and a
  pattern set while add_appender is between its two looks at the appender is
  overwritten (log.cc:245-247): the two exceptions in `InheritedFormatter`.
- Text right before an item with braces comes out behind the item, because
  log.cc:492 tests for an empty text: the exception in `InOrder`.

## Proofs

What every proof has in common: an inductive invariant whose conjuncts are named parts,
a lemma for each group of actions with a step for each action, and theorems that
follow from the invariant. No bound of a run is in a hypothesis: the theorems are for
every value of the constants that satisfies the assumptions, which TLC evaluates.

**SchedulerProofs**, first for callers that keep no protocol.

- `TypeCorrect`: `Spec => []TypeOK`. That `m_active` and `m_idle` stay natural numbers
  is the part that is not bookkeeping: a decrement always has its increment.
- `StacksCorrect`: `Spec => []OnItsStack`: each thread executes on the stack its place
  in the loop calls for, and `Fiber::GetThis()` answers that fiber, as long as no
  assertion fails.

Neither is inductive. A switch lands on the stack of the context it loads, so one must
know whose stack each saved context resumes (`OwnContexts`); the fiber a
branch switches to exists only if `ft`, `cb_fiber` and `branch` fit the place in the loop
(`LoopShape`, which also has the values of the two counters); and the idle
fiber must never be taken for READY, or run would put a fiber of its own in the
queue (`IdleNeverReady`). `IInv` is the conjunction; `Inductive` is `Spec => []IInv`.
`SwapContextLoads` is what a switch does. Assumptions: `FiberAssumption` (the names
of the fibers do not clash) and `SchedulerAssumption` (the kinds of the constants).

In its second part, on top of that: the safety properties of `core` and `two`, for any number of
schedulers, fibers, callbacks, wake-ups, yields and starts. `StoppingSafe` follows
from `IInv`. The others assume `Discipline`, which is `~StaleWakes /\ ~HandOff`:
`ExecutingMarked`, `KeptFiberFree`, `ReadyOnce`, `CallbacksConserved`, `EndsAreFinal`,
`AssertionsHold`, `StartHasDrained`. Their invariant, `TaskInv`, follows a fiber and a
callback around the loop.

- Each queue holds a fiber or a callback once (`QueueInv`), and run's locals are
  empty where the loop does not use them (`LocalInv`), so that "in the queue" and
  "in the loop's hands" (`Held`) exclude one another and nothing is left over from the
  round before.
- A fiber is queued or held at its home only, the scheduler it was last given to
  (`HomeInv`); without that two loops could have it in their hands. It may move when
  its thread is at rest.
- Its state fits the place of the loop that holds it (`StageInv`), what is queued can be
  switched to (`QueuedInv`), what is READY is queued or held (`ReadyInv`), and its
  context is a saved one, unless it executes or is on its way out (`SavedInv`): the
  moment between marking the state and swapcontext is the one in which the three could
  disagree.
- The fiber kept for the next callback is reset and empty (`KeptInv`), and the idle
  fiber is entered once (`IdleInv`).
- A callback belongs to one scheduler and has not begun while it is queued (`OwnerInv`);
  on a fiber it is nowhere else, and has ended only if it threw (`BodyInv`); one that has
  not ended is somewhere (`KeepInv`).

Of the actions, those that go round the loop without a change of queue or hands
(`RoundFibers`, `RoundCbs`), those that end a round (`QuietEnd`), those that move a
task from the queue into the loop's hands (`HandsOverKeeps`) and those outside the loop
(`OutsideKeeps`) share a lemma each. `StepTouches` and `StepFrame` say what a step of one
thread may change of another's fibers and scheduler. `AssertionsHold`: no assertion about a
fiber's state fails, and the process dies of three calls only, a start() with worker
threads, a second start(), and the destruction of a started scheduler that was not
stopped. It needs more facts about the root fiber: its context is fresh until
the first start() and never after (`FirstStart`), and a scheduler that was started is outside
start() only when its root fiber has ended (`Started`, `RootEnds`). `StartHasDrained`
needs that no early callback is forgotten before it has begun, and that a loop that has found nothing, or has acted on it, has none left
(`Draining`): this is where a pin to another thread, or a fiber that is being
executed, could make the scan of the queue skip what it must not skip.

**SchedulerPoolProofs** has `PoolImplemented`: under `Discipline`, `Spec => ImplementsPool`,
from `IInv` and `TaskInv`. `LineAppend` and `LineErase` say what push_back and erase do
to a line: an entry with a fiber does not show in it, a callback goes behind all
others, and what is left keeps its order. `HandIs` says which callback is in hand. A step of
one scheduler changes the line and the hand of no other (`PoolFrame`), by `StepFrame`. Then
each action is matched: ScheduleCb is Submit, a Fetch that picks a callback is Take, a
switch to a fiber that is INIT is Begin, a return or throw of a callback is End,
~Scheduler is Discard, and all the others change nothing of the pool. The
invariants do their work in Fetch, where what the scan has stepped over must be
no callback the thread may run (`Orderly`); in SwapInTarget, where an entered fiber
must not have begun and a resumed one must have (`StageInv`); in the reuse of `cb_fiber`
(`KeptInv`, `OwnerInv`); and at the end of a callback, which must run on one fiber only
(`BodyInv`).

**ConfigProofs**, for any threads, names, values, documents and listeners. `BaseInv`: the
holders of each lock are the threads between its lock and unlock, and a writer excludes
the readers (`LockInv`); jobs and locals fit the place in the call (`JobInv`, `LocInv`);
the key counter stays in its range (`CountInv`). From it the two action properties,
`NoChangeWhileNotifyingHolds` and `RegistryStableHolds`. `HistInv` is about what listeners
were told: those the loop of set_value has passed know the new value (`TellInv`),
those that are live know the present one (`ToldInv`), and with one thread that
assigns the variable the last one told is known at every place of the call (`KnowInv`):
hence `AnnouncedHolds` and `ListenersKnowValueHolds`. `KeysAreUniqueHolds` assumes
`OneOfAType`, one variable per type, so that the lock of the one variable guards
`s_fun_id`; the run `keys` shows that it is false with two. `ConfigAssumption` has that
the threads are finitely many, for `ListenersKnowValue` counts those that assign a
variable.

**LogProofs**. `BaseInv`: types, and the listener's plan fits its place (`PlanInv`).
`InheritedFormatterHolds` needs `MineInv` with it: until the program's appender is added
nobody else gives it a pattern, and then one logger at most holds it.
`LoggersFollowConfigHolds` assumes `OneSetter`, as the property says nothing for two, and
follows from `FollowInv`: at each place of the listener, the loggers it has dealt with
follow the new definitions, those it does not reach follow them already, and nothing
is left to deal with when the value is written. `WholeDefinitionHolds`, under the same
assumption, needs in addition how far the list of the logger being rebuilt is (`WholeInv`):
before clear_appender the listener has every appender of the definition left to make, and
after it the list is that of the first `k` of them (`Partly`), while the program's own
appender may come and go anywhere in it and set_formatter may change patterns
(`AppendMine`, `RemoveMine`, `RepatternDefined`, lemmas about the lists).

**FileAppenderProofs**, for any callers, files, items and seconds. `FileInv`: the holder of
the lock is the one that writes (`LockInv`); a call under way has its line (`CallInv`);
a stream with a file that has failed was broken by a write (`StreamInv`); once a caller has compared its second with `m_last_time`, or opened the file again, a
good stream is on a file that still had its name at that second, and so it is for
`m_last_time` itself (`FreshInv`); and `PartsInv`, that the parts of a line stand together, that only the last
line of the file the holder writes to may be unfinished, and which part comes next.
`LinesFreshHolds`, `WholeLinesHolds` and `LossExplainedHolds` follow.

**ThreadProofs** proves `Handshake`, `FreedUnused` and `GivenBackOnce` for any set of objects and
names. `ThreadInv` is inductive: besides the types, an actor is in one constructor
or join() at most and shares its object with no other (`OpInv`); a constructor that is
over and was not interrupted means that run() has posted (`RunInv`); what run() has
written by then (`MemberInv`); and who has given the pthread back (`HandleInv`, with
the part that matters for memory: joined means over). Assumption:
`ThreadAssumption` (the names do not clash), and `CallerAssumption` (the kinds of the
other two constants).

**FormatterProofs**, for every pattern of any length. `IndexInv` is inductive as
it stands: the type of the items and texts is in it because the indices of the
inner loop are those of texts it cuts out. `ErrorsFound`, `NothingLost` and `InOrder`,
which compare what init() has made with the tokens of the pattern, follow from
`ParseInv`:

- the inner loop has gone over letters and closing braces only, or has found the end of
  the name and gone over no closing brace (`Scanned`), so that where it stops it has
  cut out the token of the item (`ItemIs`), with the two places `FirstIn` looks for;
- the outer loop has a sequence of tokens behind it which, with those from `i` on,
  are the tokens of the pattern (`Behind`); it has found what is wrong with them
  (`Faults`), kept their characters and their items (`Kept`) and, as long as no text
  stood before braces, their order (`Ordered`), where `Out` counts the text in hand as
  written; and what is in hand is text, so that an item which overtakes it leaves the
  order of each of the two as it was (`HeldBack`).

These speak of sequences of any length. The library's induction theorems take a
predicate, which the provers cannot instantiate; `NaturalsIn` is induction for a set,
from the well-foundedness of the naturals, and a lemma by induction names
the set of the numbers it holds for. By it the recursive function inside FlattenSeq
exists and is the only one (`FlattensExists`, `FlattensUnique`), whence `Spelled` and
`OfType` of two sequences put together are those of the parts put together; and so does
the function of the tokens, built from the end of the pattern (`TokensExist`), for each token
ends behind its first character (`AfterType`).

**LexicalCastProofs**, for any documents, of any depth, any texts and integers.
`RoundTrip` is a matter of the casts. For each type a lemma says that a value comes back from
its text (`IntTrip`, `WrittenTrip`, `SetTrip`, `MapTrip`, `LogsTrip`; `Trip` has them together) and
another what a text is read as (`CastType`). What is not obvious in them:

- a vector of strings comes back only if its elements were written by yaml-cpp (`Written`):
  `""` as a default becomes `"~"` the first time, and stays that (`Relist`, `TripOfVector`);
- the order of a set is that of its numbers, and exists (`AscendingExists`, by induction on the
  size); that of a map or of definitions is any that has each element once (`Lists`,
  `AllThere`), and the value does not depend on it;
- insert() in a loop that skips entries makes the set of the first entry of each name
  (`LogDefinesIs`, by induction on the rounds, after `LoopExists` has shown that the
  loop's values exist), and what is written for a definition has each field once
  (`FourKeys`, `DefineKeys`), so that the definition read from it is the same (`DefineTrip`).

`LexInv` is inductive: the values are of their types (`ValueInv`); the loop of
load_from_yaml begins when everything is listed (`ListInv`); the nodes in a listed map are listed
or will be (`Closed`); and a variable that one node of the list was for
equals what that node converts to, once the loop has passed it (`Settled`). `NestedAgree` follows
from the last two: the pair of the map that `insert()` kept is in the list under the
name of the inner variable, and is the one node there is for it. `FirstDefinition` follows from
`Settled` and `LogDefinesIs`. Assumptions: `NodeAssumption` (above), `StringAssumption` (the
texts of integers are none of those YAML gives a meaning), `ThrowsAssumption` (an
exception is no value) and `DefaultAssumption` (the variables begin with values of their types).

Only model-checked: liveness (`StartReturns`, `EarlyBegins`, `CallsEnd`, `CallsReturn`,
`InitReturns`), because fairness and ENABLED are out of the prover's reach. Every invariant
and action property of a run that passes has its theorem.

## Not modelled

- A task of a scheduler that calls that scheduler's start(): call() would switch
  away from a fiber that nothing records.
- A stop() from a thread that is not the scheduler's own, when it fails its
  assertion; `scheduler(begin, end)`, which calls `scheduler_nolock` with one argument
  and does not compile when used; a subclass that overrides idle(), stopping() or
  tickel(); worker threads, which start() cannot make, so that Thread and
  Scheduler are not composed.
- Stack sizes, fiber ids; swap_in() called outside run(); a second scheduler made on a
  thread whose first is gone (its `t_fiber` still points at the dead root fiber).
- In Config: get_value, to_string and get_listener, which change nothing; listeners and
  visitors that call back into the registry or their own variable.
- In Log: set_level and clear_appender called by the program, which would override
  the configuration by intention; appender levels (the configuration never sets
  one); null patterns.
- In FileAppender: the buffer of the stream; a write is in the file when it succeeds.
- In Formatter: what each item prints. In LexicalCast: YAML itself, floating-point
  numbers; a list given as a map, keys that are empty, fields of a logger that are no
  scalars (see `NodeAssumption`).
- CASLock and the null mutexes, which nothing uses; Singleton; util's backtraces.

## Plan

1. (done) Fiber, Scheduler with their runs; IInv and its theorems.
2. (done) Config, Log with their runs; the registry's lock, Visit and lookups under
   another type; the manager's lock, and an appender the program shares.
3. (done) FileAppender, Thread, Formatter, LexicalCast; CallbackPool and its refinement.
4. (done) Proofs of Thread's three invariants and of Formatter's indices.
5. (done) Proofs of the safety and action properties of FileAppender, Config, Log and
   Scheduler.
6. (done) The step simulation of the pool.
7. (done) Proofs of what Formatter makes of its patterns and of LexicalCast.
8. The level of appenders in Log.
