---------------------------- MODULE ThreadProofs ----------------------------
(***************************************************************************)
(* Thread keeps its handshake, its memory and its pthreads in order, for   *)
(* any number of objects and names.                                        *)
(***************************************************************************)
EXTENDS Thread, TLAPS

\* run() has let the constructor go.
Notified(t) == pc[t] \in {"cb", "wait", "join", "over"}

\* An actor is in at most one constructor or join(), of an object that exists, and
\* no other actor is in one of the same object.
OpInv ==
    /\ \A a \in Actors : op[a] # Null <=> pc[a] \in {"wait", "join"}
    /\ \A a \in Actors : op[a] # Null => obj[op[a]] = "alive"
    /\ \A a, b \in Actors : op[a] # Null /\ op[a] = op[b] => a = b
    /\ \A a \in Actors : pc[a] = "wait" => op[a] \notin interrupted
    /\ \A a \in Actors : pc[a] = "join" => m_thread[op[a]]

\* How far run() has come.
RunInv ==
    /\ \A t \in Threads : obj[t] = "none" <=> pc[t] = "none"
    /\ \A t \in Threads : m_semaphore[t] = 1 => Notified(t)
    /\ \A t \in Threads : obj[t] # "none" /\ t \notin interrupted /\ Constructed(t) => Notified(t)
    /\ \A t \in Threads : obj[t] = "none" => t \notin interrupted

\* What run() has done to the object and to its thread by then.
MemberInv ==
    /\ \A a \in Actors : t_thread[a] \in {Null, a}
    /\ \A t \in Threads : pc[t] \in {"swap", "notify"} \/ Notified(t) => m_id[t] = t
    /\ \A t \in Threads : pc[t] = "notify" \/ Notified(t) => ~m_cb[t]
    /\ \A t \in Threads :
          pc[t] \in {"swap", "notify", "cb", "wait", "join"} =>
              t_thread[t] = t /\ t_thread_name[t] = m_name[t]

\* Who has given the pthread back.
HandleInv ==
    /\ misused = {}
    /\ \A t \in Threads : obj[t] = "none" => handle[t] = "none"
    /\ \A t \in Threads : obj[t] = "alive" => (m_thread[t] <=> handle[t] = "joinable")
    /\ \A t \in Threads : obj[t] = "alive" => handle[t] \in {"joinable", "joined"}
    /\ \A t \in Threads : obj[t] = "freed" => handle[t] \in {"joined", "detached"}
    /\ \A t \in Threads : handle[t] = "joined" => pc[t] = "over"
    /\ \A t \in Threads : t \in uaf => handle[t] = "detached"

ThreadInv == TypeOK /\ OpInv /\ RunInv /\ MemberInv /\ HandleInv

-----------------------------------------------------------------------------

LEMMA InitInv == Init => ThreadInv
BY ThreadAssumption
   DEF Init, ThreadInv, TypeOK, OpInv, RunInv, MemberInv, HandleInv, Actors, Notified, Constructed

\* Steps that leave every variable alone.
LEMMA StutterInv == ThreadInv /\ UNCHANGED vars => ThreadInv'
BY DEF ThreadInv, TypeOK, OpInv, RunInv, MemberInv, HandleInv, Notified, Constructed,
       vars, members, locals, control, history

\* The steps of an actor in its constructor.
LEMMA ConstructInv ==
    ASSUME ThreadInv, NEW a \in Actors, NEW t \in Threads, NEW name \in Names \cup {EmptyName},
           Construct(a, t, name)
    PROVE  ThreadInv'
<1> USE ThreadAssumption DEF ThreadInv, Construct, At, locals, history, Actors
<1>1. TypeOK'
  BY DEF TypeOK
<1>2. OpInv'
  BY DEF TypeOK, OpInv, RunInv
<1>3. RunInv'
  <2>1. \A x \in Threads \ {t} : Notified(x) => Notified(x)'
    BY DEF TypeOK, Notified
  <2>2. \A x \in Threads \ {t} : Constructed(x)' => Constructed(x)
    BY DEF TypeOK, RunInv, Constructed
  <2>3. ~Constructed(t)' /\ m_semaphore[t] = 0 /\ t \notin interrupted
    BY DEF TypeOK, RunInv, Notified, Constructed
  <2>4. \A x \in Threads \ {t} : pc'[x] = "none" <=> pc[x] = "none"
    BY DEF TypeOK
  <2>5. pc'[t] = "enter" /\ obj'[t] = "alive"
    BY DEF TypeOK
  <2>6. \A x \in Threads \ {t} : obj'[x] = obj[x]
    BY DEF TypeOK
  <2>7. UNCHANGED <<m_semaphore, interrupted>>
    OBVIOUS
  <2> HIDE DEF Construct
  <2> QED BY <2>1, <2>2, <2>3, <2>4, <2>5, <2>6, <2>7 DEF RunInv
<1>4. MemberInv'
  BY DEF TypeOK, RunInv, MemberInv, Notified
<1>5. HandleInv'
  BY DEF TypeOK, RunInv, HandleInv
<1> QED BY <1>1, <1>2, <1>3, <1>4, <1>5

\* sem_wait() has been posted.
LEMMA WaitInv ==
    ASSUME ThreadInv, NEW a \in Actors, Wait(a)
    PROVE  ThreadInv'
<1> USE ThreadAssumption DEF ThreadInv, Wait, At, Goto, locals, history, Actors
<1>0. op[a] \in Threads /\ m_semaphore[op[a]] = 1
  BY DEF TypeOK, OpInv
<1>1. TypeOK'
  BY <1>0 DEF TypeOK
<1>2. OpInv'
  BY <1>0 DEF TypeOK, OpInv
<1>3. RunInv'
  <2>1. Notified(op[a])
    BY <1>0 DEF RunInv
  <2>2. \A t \in Threads : m_semaphore'[t] = 1 => m_semaphore[t] = 1
    BY <1>0 DEF TypeOK
  <2>3. \A t \in Threads : Notified(t) => Notified(t)'
    BY DEF TypeOK, Notified
  <2>4. \A t \in Threads : Constructed(t)' => Constructed(t) \/ t = op[a]
    BY DEF TypeOK, Constructed
  <2>5. \A t \in Threads : pc'[t] = "none" <=> pc[t] = "none"
    BY DEF TypeOK
  <2> QED BY <2>1, <2>2, <2>3, <2>4, <2>5 DEF RunInv
<1>4. MemberInv'
  BY DEF TypeOK, MemberInv, Notified
<1>5. HandleInv'
  BY DEF TypeOK, OpInv, HandleInv
<1> QED BY <1>1, <1>2, <1>3, <1>4, <1>5

\* sem_wait() was interrupted.
LEMMA WaitInterruptedInv ==
    ASSUME ThreadInv, NEW a \in Actors, WaitInterrupted(a)
    PROVE  ThreadInv'
<1> USE ThreadAssumption DEF ThreadInv, WaitInterrupted, At, Goto, locals, members, Actors
<1>0. op[a] \in Threads
  BY DEF TypeOK, OpInv
<1>1. TypeOK'
  BY <1>0 DEF TypeOK
<1>2. OpInv'
  BY <1>0 DEF TypeOK, OpInv
<1>3. RunInv'
  <2>1. \A t \in Threads : Notified(t) => Notified(t)'
    BY DEF TypeOK, Notified
  <2>2. \A t \in Threads : Constructed(t)' => Constructed(t) \/ t = op[a]
    BY DEF TypeOK, Constructed
  <2>3. \A t \in Threads : pc'[t] = "none" <=> pc[t] = "none"
    BY DEF TypeOK
  <2>4. obj[op[a]] # "none"
    BY <1>0 DEF TypeOK, OpInv
  <2> QED BY <2>1, <2>2, <2>3, <2>4 DEF RunInv
<1>4. MemberInv'
  BY DEF TypeOK, MemberInv, Notified
<1>5. HandleInv'
  BY DEF TypeOK, OpInv, HandleInv
<1> QED BY <1>1, <1>2, <1>3, <1>4, <1>5

\* The steps of run().
LEMMA RunStepInv ==
    ASSUME ThreadInv, NEW t \in Threads, Run(t)
    PROVE  ThreadInv'
<1> USE ThreadAssumption DEF ThreadInv, Run, Enter, SwapCb, Notify, CbReturns, Touch, At, Goto,
                             locals, members, history, Actors
<1>1. TypeOK'
  <2>1. CASE Enter(t)
    BY <2>1 DEF TypeOK
  <2>2. CASE SwapCb(t)
    BY <2>2 DEF TypeOK
  <2>3. CASE Notify(t)
    BY <2>3 DEF TypeOK
  <2>4. CASE CbReturns(t)
    BY <2>4 DEF TypeOK
  <2> QED BY <2>1, <2>2, <2>3, <2>4 DEF Run
<1>2. OpInv'
  BY DEF TypeOK, OpInv
<1>3. RunInv'
  BY DEF TypeOK, OpInv, RunInv, Notified, Constructed
<1>4. MemberInv'
  BY DEF TypeOK, OpInv, MemberInv, Notified
<1>5. HandleInv'
  BY DEF TypeOK, HandleInv
<1> QED BY <1>1, <1>2, <1>3, <1>4, <1>5

\* What ends the process leaves the objects as they are.
LEMMA EndInv ==
    ASSUME ThreadInv, up' = FALSE, UNCHANGED <<obj, members, locals, handle, pc, op, history>>
    PROVE  ThreadInv'
<1> USE DEF ThreadInv, members, locals, history
<1>1. TypeOK'
  BY DEF TypeOK
<1>2. OpInv'
  BY DEF OpInv
<1>3. RunInv'
  BY DEF RunInv, Notified, Constructed
<1>4. MemberInv'
  BY DEF MemberInv, Notified
<1>5. HandleInv'
  BY DEF HandleInv
<1> QED BY <1>1, <1>2, <1>3, <1>4, <1>5

\* What a callback calls.
LEMMA SetNameInv ==
    ASSUME ThreadInv, NEW a \in Actors, NEW name \in Names, SetName(a, name)
    PROVE  ThreadInv'
<1> USE ThreadAssumption DEF ThreadInv, SetName, Touch, At, control, Actors
<1>1. TypeOK'
  BY DEF TypeOK, MemberInv
<1>2. OpInv'
  BY DEF TypeOK, OpInv
<1>3. RunInv'
  BY DEF TypeOK, RunInv, Notified, Constructed
<1>4. MemberInv'
  BY DEF TypeOK, MemberInv, Notified
<1>5. HandleInv'
  BY DEF TypeOK, HandleInv, MemberInv
<1> QED BY <1>1, <1>2, <1>3, <1>4, <1>5

LEMMA JoinInv ==
    ASSUME ThreadInv, NEW a \in Actors, NEW t \in Threads, Join(a, t)
    PROVE  ThreadInv'
<1> USE ThreadAssumption DEF ThreadInv, Join, Idle, At, Goto, members, locals, history, Actors
<1>1. TypeOK'
  BY DEF TypeOK
<1>2. OpInv'
  BY DEF TypeOK, OpInv
<1>3. RunInv'
  BY DEF TypeOK, OpInv, RunInv, Notified, Constructed
<1>4. MemberInv'
  BY DEF TypeOK, MemberInv, Notified
<1>5. HandleInv'
  BY DEF TypeOK, HandleInv
<1> QED BY <1>1, <1>2, <1>3, <1>4, <1>5

LEMMA JoinedInv ==
    ASSUME ThreadInv, NEW a \in Actors, Joined(a)
    PROVE  ThreadInv'
<1> USE ThreadAssumption DEF ThreadInv, Joined, GiveBack, At, Goto, locals, Actors
<1>0. op[a] \in Threads /\ obj[op[a]] = "alive" /\ m_thread[op[a]]
  BY DEF TypeOK, OpInv
<1>1. TypeOK'
  BY <1>0 DEF TypeOK, HandleInv
<1>2. OpInv'
  BY <1>0 DEF TypeOK, OpInv
<1>3. RunInv'
  BY <1>0 DEF TypeOK, OpInv, RunInv, Notified, Constructed
<1>4. MemberInv'
  BY <1>0 DEF TypeOK, MemberInv, Notified
<1>5. HandleInv'
  BY <1>0 DEF TypeOK, HandleInv
<1> QED BY <1>1, <1>2, <1>3, <1>4, <1>5

LEMMA DestroyInv ==
    ASSUME ThreadInv, NEW a \in Actors, NEW t \in Threads, Destroy(a, t)
    PROVE  ThreadInv'
<1> USE ThreadAssumption DEF ThreadInv, Destroy, GiveBack, Idle, At, members, locals, control, Actors
<1>1. TypeOK'
  BY DEF TypeOK, HandleInv
<1>2. OpInv'
  BY DEF TypeOK, OpInv
<1>3. RunInv'
  BY DEF TypeOK, OpInv, RunInv, Notified, Constructed
<1>4. MemberInv'
  BY DEF TypeOK, MemberInv, Notified
<1>5. HandleInv'
  BY DEF TypeOK, HandleInv
<1> QED BY <1>1, <1>2, <1>3, <1>4, <1>5

-----------------------------------------------------------------------------

LEMMA NextInv == ThreadInv /\ [Next]_vars => ThreadInv'
<1> SUFFICES ASSUME ThreadInv, [Next]_vars PROVE ThreadInv'
  OBVIOUS
<1>1. CASE UNCHANGED vars
  BY <1>1, StutterInv
<1>2. ASSUME NEW t \in Threads, Run(t) \/ CbThrows(t) PROVE ThreadInv'
  BY <1>2, RunStepInv, EndInv DEF CbThrows
<1>3. ASSUME NEW a \in Actors, Wait(a) \/ WaitInterrupted(a) \/ Joined(a) PROVE ThreadInv'
  BY <1>3, WaitInv, WaitInterruptedInv, JoinedInv
<1>4. ASSUME NEW a \in Actors, NEW name \in Names, SetName(a, name) PROVE ThreadInv'
  BY <1>4, SetNameInv
<1>5. ASSUME NEW a \in Actors, NEW t \in Threads, NEW name \in Given[t], Construct(a, t, name)
      PROVE  ThreadInv'
  <2>1. name \in Names \cup {EmptyName}
    BY CallerAssumption
  <2> QED BY <1>5, <2>1, ConstructInv
<1>6. ASSUME NEW a \in Actors, NEW t \in Threads,
             CreateFails(a, t) \/ JoinNothing(a, t) \/ JoinFails(a, t)
      PROVE  ThreadInv'
  BY <1>6, StutterInv DEF CreateFails, JoinNothing, JoinFails
<1>7. ASSUME NEW a \in Actors, NEW t \in Threads, Join(a, t) \/ Destroy(a, t)
      PROVE  ThreadInv'
  BY <1>7, JoinInv, DestroyInv
<1>8. CASE Crash
  BY <1>8, EndInv DEF Crash
<1> QED BY <1>1, <1>2, <1>3, <1>4, <1>5, <1>6, <1>7, <1>8 DEF Next, Terminated

\* ThreadInv is an invariant: for any set of objects and of names.
LEMMA InvHolds == Spec => []ThreadInv
BY InitInv, NextInv, PTL DEF Spec

\* A constructor whose wait was not interrupted returns to a thread that has its
\* id, its name and its callback (thread.cc:42, 54-69).
THEOREM HandshakeHolds == Spec => []Handshake
<1>1. ThreadInv => Handshake
  BY DEF ThreadInv, Handshake, TypeOK, RunInv, MemberInv, Notified
<1> QED BY <1>1, InvHolds, PTL

\* A thread that was joined never uses the memory of its object afterwards, and
\* run() never does before its callback unless the wait was interrupted
\* (thread.cc:25-30, 42, 54-69).
THEOREM FreedUnusedHolds == Spec => []FreedUnused
<1>1. ThreadInv => FreedUnused
  BY ThreadAssumption DEF ThreadInv, FreedUnused, TypeOK, OpInv, RunInv, HandleInv, Notified, Constructed, Actors
<1> QED BY <1>1, InvHolds, PTL

\* Each pthread is given back once, by join() or by the destructor
\* (thread.cc:44-53, 70-89).
THEOREM GivenBackOnceHolds == Spec => []GivenBackOnce
<1>1. ThreadInv => GivenBackOnce
  BY DEF ThreadInv, GivenBackOnce, HandleInv
<1> QED BY <1>1, InvHolds, PTL
=============================================================================
