------------------------------- MODULE Thread -------------------------------
(***************************************************************************)
(* Thread of wb_server/thread.cc and the Semaphore of wb_server/mutex.cc   *)
(* it starts with: the constructor creates a pthread and waits until that  *)
(* thread has taken the callback out of the object; join() and the         *)
(* destructor give the pthread back.                                       *)
(*                                                                         *)
(* The actors are the main thread and the threads of the objects: each may *)
(* construct, join and destroy objects inside its callback, its own object *)
(* included.  What the code leaves to its callers is kept: nobody uses an  *)
(* object before its constructor has returned or after its destructor has  *)
(* begun, and no two call join() or the destructor of one at a time.       *)
(***************************************************************************)
EXTENDS Naturals, FiniteSets

CONSTANTS
    Threads,        \* the Thread objects, and the pthreads they create
    Main, Null,
    Names,          \* the names that are not empty
    EmptyName,
    Unknow,         \* the name "UNKNOW"
    Given,          \* Given[t]: the names its constructor may be called with
    Renamers        \* the actors whose code calls SetName

Actors == Threads \cup {Main}

ASSUME ThreadAssumption ==
    /\ Main \notin Threads /\ Null \notin Threads
    /\ EmptyName \notin Names /\ Unknow \in Names

ASSUME CallerAssumption ==
    /\ Given \in [Threads -> SUBSET (Names \cup {EmptyName})]
    /\ Renamers \subseteq Actors

VARIABLES
    obj,            \* the memory of an object
    m_id, m_thread, m_cb, m_name, m_semaphore,
    t_thread, t_thread_name,    \* thread_local of an actor
    handle,         \* the pthread of an object, as the library knows it
    pc,             \* where an actor is
    op,             \* the object whose constructor or join() it is in
    up,             \* the process runs
    interrupted,    \* objects whose constructor was interrupted in sem_wait()
    uaf,            \* actors that used the memory of a destroyed object
    misused         \* objects whose pthread was given back twice

members == <<m_id, m_thread, m_cb, m_name, m_semaphore>>
locals == <<t_thread, t_thread_name>>
control == <<pc, op, up>>
history == <<interrupted, uaf, misused>>
vars == <<obj, members, locals, handle, control, history>>

TypeOK ==
    /\ obj \in [Threads -> {"none", "alive", "freed"}]
    /\ m_id \in [Threads -> Threads \cup {Null}]
    /\ m_thread \in [Threads -> BOOLEAN]
    /\ m_cb \in [Threads -> BOOLEAN]
    /\ m_name \in [Threads -> Names]
    /\ m_semaphore \in [Threads -> 0..1]
    /\ t_thread \in [Actors -> Threads \cup {Null}]
    /\ t_thread_name \in [Actors -> Names]
    /\ handle \in [Threads -> {"none", "joinable", "joined", "detached"}]
    /\ pc \in [Actors -> {"none", "enter", "swap", "notify", "cb", "wait", "join", "over"}]
    /\ op \in [Actors -> Threads \cup {Null}]
    /\ up \in BOOLEAN
    /\ interrupted \subseteq Threads
    /\ uaf \subseteq Actors
    /\ misused \subseteq Threads

Init ==
    /\ obj = [t \in Threads |-> "none"]
    /\ m_id = [t \in Threads |-> Null]
    /\ m_thread = [t \in Threads |-> FALSE]
    /\ m_cb = [t \in Threads |-> FALSE]
    /\ m_name = [t \in Threads |-> Unknow]
    /\ m_semaphore = [t \in Threads |-> 0]
    /\ t_thread = [a \in Actors |-> Null]
    /\ t_thread_name = [a \in Actors |-> Unknow]
    /\ handle = [t \in Threads |-> "none"]
    /\ pc = [a \in Actors |-> IF a = Main THEN "cb" ELSE "none"]
    /\ op = [a \in Actors |-> Null]
    /\ up = TRUE
    /\ interrupted = {} /\ uaf = {} /\ misused = {}

-----------------------------------------------------------------------------

At(a, p) == up /\ pc[a] = p
Goto(a, p) == pc' = [pc EXCEPT ![a] = p]

\* a reads or writes members of t.
Touch(a, t) == uaf' = IF obj[t] = "freed" THEN uaf \cup {a} ELSE uaf

\* t may be joined or destroyed: its constructor is over, and nobody is in join().
Idle(t) ==
    /\ obj[t] = "alive"
    /\ \A a \in Actors : op[a] # t

-----------------------------------------------------------------------------
(* The constructor.                                                        *)

Construct(a, t, name) ==
    /\ At(a, "cb") /\ obj[t] = "none"
    /\ obj' = [obj EXCEPT ![t] = "alive"]
    /\ m_cb' = [m_cb EXCEPT ![t] = TRUE]
    /\ m_name' = [m_name EXCEPT ![t] = IF name = EmptyName THEN Unknow ELSE name]
    /\ m_thread' = [m_thread EXCEPT ![t] = TRUE]
    /\ handle' = [handle EXCEPT ![t] = "joinable"]
    /\ pc' = [pc EXCEPT ![a] = "wait", ![t] = "enter"]
    /\ op' = [op EXCEPT ![a] = t]
    /\ UNCHANGED <<m_id, m_semaphore, locals, up, history>>

\* pthread_create() fails: the constructor throws, there is no object, and the
\* callback goes on behind a handler.
CreateFails(a, t) ==
    /\ At(a, "cb") /\ obj[t] = "none"
    /\ UNCHANGED vars

\* Semaphore::wait() returns because it was notified ...
Wait(a) ==
    /\ At(a, "wait")
    /\ m_semaphore[op[a]] > 0
    /\ m_semaphore' = [m_semaphore EXCEPT ![op[a]] = @ - 1]
    /\ Goto(a, "cb")
    /\ op' = [op EXCEPT ![a] = Null]
    /\ UNCHANGED <<obj, m_id, m_thread, m_cb, m_name, locals, handle, up, history>>

\* ... or because a signal handler ran: the error of sem_wait() is not looked at.
WaitInterrupted(a) ==
    /\ At(a, "wait")
    /\ interrupted' = interrupted \cup {op[a]}
    /\ Goto(a, "cb")
    /\ op' = [op EXCEPT ![a] = Null]
    /\ UNCHANGED <<obj, members, locals, handle, up, uaf, misused>>

-----------------------------------------------------------------------------
(* run(), on the new thread.                                               *)

\* Mutant: the constructor is let go at once.
BugEnterNotifies(t) ==
    /\ At(t, "enter")
    /\ Touch(t, t)
    /\ t_thread' = [t_thread EXCEPT ![t] = t]
    /\ t_thread_name' = [t_thread_name EXCEPT ![t] = m_name[t]]
    /\ m_id' = [m_id EXCEPT ![t] = t]
    /\ m_semaphore' = [m_semaphore EXCEPT ![t] = 1]
    /\ Goto(t, "swap")
    /\ UNCHANGED <<obj, m_thread, m_cb, m_name, handle, op, up, interrupted, misused>>

Enter(t) ==
    /\ At(t, "enter")
    /\ Touch(t, t)
    /\ t_thread' = [t_thread EXCEPT ![t] = t]
    /\ t_thread_name' = [t_thread_name EXCEPT ![t] = m_name[t]]
    /\ m_id' = [m_id EXCEPT ![t] = t]
    /\ Goto(t, "swap")
    /\ UNCHANGED <<obj, m_thread, m_cb, m_name, m_semaphore, handle, op, up,
                   interrupted, misused>>

SwapCb(t) ==
    /\ At(t, "swap")
    /\ Touch(t, t)
    /\ m_cb' = [m_cb EXCEPT ![t] = FALSE]
    /\ Goto(t, "notify")
    /\ UNCHANGED <<obj, m_id, m_thread, m_name, m_semaphore, locals, handle, op, up,
                   interrupted, misused>>

\* Mutant: the notification is forgotten.
BugNotifyNobody(t) ==
    /\ At(t, "notify")
    /\ Touch(t, t)
    /\ Goto(t, "cb")
    /\ UNCHANGED <<obj, members, locals, handle, op, up, interrupted, misused>>

Notify(t) ==
    /\ At(t, "notify")
    /\ Touch(t, t)
    /\ m_semaphore' = [m_semaphore EXCEPT ![t] = 1]
    /\ Goto(t, "cb")
    /\ UNCHANGED <<obj, m_id, m_thread, m_cb, m_name, locals, handle, op, up,
                   interrupted, misused>>

\* The callback returns, and with it run(): the thread_locals are gone.
CbReturns(t) ==
    /\ At(t, "cb")
    /\ Goto(t, "over")
    /\ t_thread' = [t_thread EXCEPT ![t] = Null]
    /\ t_thread_name' = [t_thread_name EXCEPT ![t] = Unknow]
    /\ UNCHANGED <<obj, members, handle, op, up, history>>

\* An exception leaves the callback and run(): std::terminate().
CbThrows(t) ==
    /\ At(t, "cb")
    /\ up' = FALSE
    /\ UNCHANGED <<obj, members, locals, handle, pc, op, history>>

\* The use of a destroyed object may also end the process.
Crash ==
    /\ up /\ uaf # {}
    /\ up' = FALSE
    /\ UNCHANGED <<obj, members, locals, handle, pc, op, history>>

-----------------------------------------------------------------------------
(* What a callback calls.                                                  *)

\* Mutant: the name of the object is not changed.
BugSetNameLocal(a, name) ==
    /\ At(a, "cb") /\ a \in Renamers
    /\ t_thread_name' = [t_thread_name EXCEPT ![a] = name]
    /\ UNCHANGED <<obj, members, t_thread, handle, control, history>>

SetName(a, name) ==
    /\ At(a, "cb") /\ a \in Renamers
    /\ IF t_thread[a] # Null
       THEN /\ Touch(a, t_thread[a])
            /\ m_name' = [m_name EXCEPT ![t_thread[a]] = name]
       ELSE UNCHANGED <<uaf, m_name>>
    /\ t_thread_name' = [t_thread_name EXCEPT ![a] = name]
    /\ UNCHANGED <<obj, m_id, m_thread, m_cb, m_semaphore, t_thread, handle, control,
                   interrupted, misused>>

\* join() of a thread that was joined before.
JoinNothing(a, t) ==
    /\ At(a, "cb") /\ Idle(t) /\ ~m_thread[t]
    /\ UNCHANGED vars

\* pthread_join() finds that a would wait for itself.
Deadly(a, t) == t = a \/ (t \in Actors /\ op[t] = a /\ pc[t] = "join")

\* join() throws, and the callback goes on behind a handler; m_thread is kept.
JoinFails(a, t) ==
    /\ At(a, "cb") /\ Idle(t) /\ m_thread[t]
    /\ Deadly(a, t)
    /\ UNCHANGED vars

Join(a, t) ==
    /\ At(a, "cb") /\ Idle(t) /\ m_thread[t]
    /\ ~Deadly(a, t)
    /\ Goto(a, "join")
    /\ op' = [op EXCEPT ![a] = t]
    /\ UNCHANGED <<obj, members, locals, handle, up, history>>

\* pthread_join() and pthread_detach() are for a pthread that had neither.
GiveBack(t, how) ==
    /\ handle' = [handle EXCEPT ![t] = how]
    /\ misused' = IF handle[t] = "joinable" THEN misused ELSE misused \cup {t}

\* Mutant: the handle is kept.
BugJoinedKeeps(a) ==
    /\ At(a, "join")
    /\ pc[op[a]] = "over"
    /\ GiveBack(op[a], "joined")
    /\ Goto(a, "cb")
    /\ op' = [op EXCEPT ![a] = Null]
    /\ UNCHANGED <<obj, members, locals, up, interrupted, uaf>>

Joined(a) ==
    /\ At(a, "join")
    /\ pc[op[a]] = "over"
    /\ GiveBack(op[a], "joined")
    /\ m_thread' = [m_thread EXCEPT ![op[a]] = FALSE]
    /\ Goto(a, "cb")
    /\ op' = [op EXCEPT ![a] = Null]
    /\ UNCHANGED <<obj, m_id, m_cb, m_name, m_semaphore, locals, up, interrupted, uaf>>

\* ~Thread().
Destroy(a, t) ==
    /\ At(a, "cb") /\ Idle(t)
    /\ obj' = [obj EXCEPT ![t] = "freed"]
    /\ IF m_thread[t] THEN GiveBack(t, "detached") ELSE UNCHANGED <<handle, misused>>
    /\ UNCHANGED <<members, locals, control, interrupted, uaf>>

-----------------------------------------------------------------------------

\* The process is over, or the main thread may end it.
Terminated == (~up \/ pc[Main] = "cb") /\ UNCHANGED vars

Run(t) == Enter(t) \/ SwapCb(t) \/ Notify(t) \/ CbReturns(t)

Next ==
    \/ \E t \in Threads : Run(t) \/ CbThrows(t)
    \/ \E a \in Actors :
          \/ Wait(a) \/ WaitInterrupted(a) \/ Joined(a)
          \/ \E name \in Names : SetName(a, name)
          \/ \E t \in Threads :
                \/ \E name \in Given[t] : Construct(a, t, name)
                \/ CreateFails(a, t)
                \/ JoinNothing(a, t) \/ JoinFails(a, t) \/ Join(a, t)
                \/ Destroy(a, t)
    \/ Crash
    \/ Terminated

Spec == Init /\ [][Next]_vars

\* The kernel runs every thread that can run, and callbacks come to an end.
FairSpec ==
    /\ Spec
    /\ \A t \in Threads : WF_vars(Run(t))
    /\ \A a \in Actors : WF_vars(Wait(a)) /\ WF_vars(Joined(a))

-----------------------------------------------------------------------------
(* Properties.                                                             *)

Constructed(t) == \A a \in Actors : ~(pc[a] = "wait" /\ op[a] = t)

\* Once the constructor has returned, and no signal cut its wait short, the new
\* thread has taken the callback and set its id, and the object and the thread
\* agree on the name for as long as both exist (thread.cc:42, 54-69, mutex.cc:17).
Handshake ==
    \A t \in Threads :
        obj[t] = "alive" /\ t \notin interrupted /\ Constructed(t) =>
            /\ m_id[t] = t /\ ~m_cb[t]
            /\ pc[t] # "over" => t_thread[t] = t /\ t_thread_name[t] = m_name[t]

\* join() before the destructor is enough: an object's thread uses memory that is
\* gone only if it was never joined.  And run() up to the callback never does,
\* unless the wait of the constructor was interrupted (thread.cc:25-30, 42, 54-69).
FreedUnused ==
    \A t \in Threads :
        /\ t \in uaf => handle[t] = "detached"
        /\ pc[t] \in {"enter", "swap", "notify"} /\ obj[t] = "freed" => t \in interrupted

\* A pthread is given back at most once, by join() or by the destructor, and it has
\* been when the object is gone; the member m_thread says which of the two is still
\* to come (thread.cc:44-53, 70-89).
GivenBackOnce ==
    /\ misused = {}
    /\ \A t \in Threads :
          /\ obj[t] = "alive" => (m_thread[t] <=> handle[t] = "joinable")
          /\ obj[t] = "freed" => handle[t] \in {"joined", "detached"}

\* Threads that wait for each other in a circle, as pthread_join() only finds out
\* for one or two of them.
Circle == \E S \in SUBSET Threads \ {{}} : \A t \in S : pc[t] = "join" /\ op[t] \in S

\* The constructor and join() return, however callbacks construct and join each
\* other, while the process runs and no three threads join each other in a circle
\* (thread.cc:42, 76).
CallsReturn ==
    \A a \in Actors : pc[a] \in {"wait", "join"} ~> (pc[a] = "cb" \/ ~up \/ Circle)
=============================================================================
