------------------------ MODULE SchedulerPoolProofs ------------------------
(***************************************************************************)
(* Scheduler implements CallbackPool, for any threads, fibers, callbacks   *)
(* and bounds, when callers keep to the wake-up protocol: initial states   *)
(* map to initial states, and each step to a step of the pool or to none.  *)
(***************************************************************************)
EXTENDS SchedulerPool, SchedulerProofs

-----------------------------------------------------------------------------
(* The line in a queue.                                                    *)

Place(e) == [cb |-> e.cb, thread |-> e.thread]

\* Who is in a line, and who is ahead of whom.
LEMMA LineIs ==
    ASSUME NEW q \in Seq(Entry)
    PROVE  /\ \A w : w \in LineOf(q) <=> \E i \in DOMAIN q : q[i].cb # Null /\ w = Place(q[i])
           /\ \A c, d : <<c, d>> \in AheadIn(q) <=>
                  c \in Cbs /\ d \in Cbs /\ \E i, j \in DOMAIN q : i < j /\ q[i].cb = c /\ q[j].cb = d
           /\ AheadIn(q) \subseteq Cbs \X Cbs
<1>1. ASSUME NEW w PROVE w \in LineOf(q) <=> \E i \in DOMAIN q : q[i].cb # Null /\ w = Place(q[i])
  BY DEF LineOf, Place, ToSet
<1>2. ASSUME NEW c, NEW d
      PROVE  <<c, d>> \in AheadIn(q) <=>
                  c \in Cbs /\ d \in Cbs /\ \E i, j \in DOMAIN q : i < j /\ q[i].cb = c /\ q[j].cb = d
  BY DEF AheadIn
<1>3. AheadIn(q) \subseteq Cbs \X Cbs
  BY DEF AheadIn
<1> QED BY <1>1, <1>2, <1>3

\* Sets of pairs of callbacks are equal when they have the same pairs.
LEMMA SamePairs ==
    ASSUME NEW A, NEW B, A \subseteq Cbs \X Cbs, B \subseteq Cbs \X Cbs,
           \A c, d \in Cbs : <<c, d>> \in A <=> <<c, d>> \in B
    PROVE  A = B
OBVIOUS

\* push_back: a fiber does not show in the line, a callback is behind all others.
LEMMA LineAppend ==
    ASSUME NEW q \in Seq(Entry), NEW e \in Entry
    PROVE  /\ e.cb = Null => LineOf(Append(q, e)) = LineOf(q) /\ AheadIn(Append(q, e)) = AheadIn(q)
           /\ e.cb # Null =>
                 /\ LineOf(Append(q, e)) = LineOf(q) \cup {Place(e)}
                 /\ AheadIn(Append(q, e)) = AheadIn(q) \cup ({w.cb : w \in LineOf(q)} \X {e.cb})
<1>1. PICK r \in Seq(Entry) : r = Append(q, e)
  BY AppendProperties
<1>n. \A c \in Cbs : c # Null
  BY FiberSets
<1>2. /\ Len(q) \in Nat /\ DOMAIN q = 1..Len(q) /\ DOMAIN r = 1..(Len(q) + 1)
      /\ r[Len(q) + 1] = e /\ \A j \in DOMAIN q : r[j] = q[j]
  BY <1>1
<1>3. /\ \A j \in DOMAIN r : j \in DOMAIN q \/ j = Len(q) + 1
      /\ \A j \in DOMAIN q : j \in DOMAIN r /\ j < Len(q) + 1 /\ j \in Int
      /\ Len(q) + 1 \in DOMAIN r
  BY <1>2
<1>4. \A w : w \in LineOf(r) <=> w \in LineOf(q) \/ (e.cb # Null /\ w = Place(e))
  BY <1>2, <1>3, LineIs
<1>5. {w.cb : w \in LineOf(q)} = {c \in Cbs : \E i \in DOMAIN q : q[i].cb = c}
  <2>1. ASSUME NEW c \in {w.cb : w \in LineOf(q)} PROVE c \in Cbs /\ \E i \in DOMAIN q : q[i].cb = c
    <3>1. PICK w \in LineOf(q) : c = w.cb
      BY <2>1
    <3>2. PICK i \in DOMAIN q : q[i].cb # Null /\ w = Place(q[i])
      BY LineIs
    <3>3. q[i] \in Entry /\ c = q[i].cb
      BY <3>1, <3>2 DEF Place
    <3> QED BY <3>2, <3>3 DEF Entry
  <2>2. ASSUME NEW c \in Cbs, NEW i \in DOMAIN q, q[i].cb = c PROVE c \in {w.cb : w \in LineOf(q)}
    <3>1. Place(q[i]) \in LineOf(q) /\ Place(q[i]).cb = c
      BY <2>2, LineIs, FiberSets DEF Place
    <3> QED BY <3>1
  <2> QED BY <2>1, <2>2
<1>6. \A c, d \in Cbs : <<c, d>> \in AheadIn(r) <=>
          <<c, d>> \in AheadIn(q) \/ (d = e.cb /\ \E i \in DOMAIN q : q[i].cb = c)
  <2> TAKE c, d \in Cbs
  <2>1. ASSUME <<c, d>> \in AheadIn(r)
        PROVE  <<c, d>> \in AheadIn(q) \/ (d = e.cb /\ \E i \in DOMAIN q : q[i].cb = c)
    <3>1. PICK i, j \in DOMAIN r : i < j /\ r[i].cb = c /\ r[j].cb = d
      BY <2>1, LineIs
    <3>2. i \in DOMAIN q
      BY <1>2, <3>1
    <3> QED BY <1>2, <1>3, <3>1, <3>2, LineIs
  <2>2. ASSUME <<c, d>> \in AheadIn(q) \/ (d = e.cb /\ \E i \in DOMAIN q : q[i].cb = c)
        PROVE  <<c, d>> \in AheadIn(r)
    <3>1. CASE <<c, d>> \in AheadIn(q)
      <4>1. PICK i, j \in DOMAIN q : i < j /\ q[i].cb = c /\ q[j].cb = d
        BY <3>1, LineIs
      <4> QED BY <1>2, <1>3, <4>1, LineIs
    <3>2. CASE d = e.cb /\ \E i \in DOMAIN q : q[i].cb = c
      <4>1. PICK i \in DOMAIN q : q[i].cb = c
        BY <3>2
      <4>2. i \in DOMAIN r /\ i < Len(q) + 1 /\ r[i].cb = c /\ r[Len(q) + 1].cb = d
        BY <1>2, <1>3, <3>2, <4>1
      <4> QED BY <1>3, <4>2, LineIs
    <3> QED BY <2>2, <3>1, <3>2
  <2> QED BY <2>1, <2>2
<1>7. CASE e.cb = Null
  <2>1. LineOf(r) = LineOf(q)
    BY <1>4, <1>7
  <2>2. AheadIn(r) = AheadIn(q)
    <3>1. \A c, d \in Cbs : <<c, d>> \in AheadIn(r) <=> <<c, d>> \in AheadIn(q)
      BY <1>6, <1>7, <1>n
    <3> QED BY <3>1, SamePairs, LineIs
  <2> QED BY <1>1, <1>7, <2>1, <2>2
<1>8. CASE e.cb # Null
  <2>1. LineOf(r) = LineOf(q) \cup {Place(e)}
    BY <1>4, <1>8
  <2>2. e.cb \in Cbs
    BY <1>8 DEF Entry
  <2>3. PICK B : B = AheadIn(q) \cup ({w.cb : w \in LineOf(q)} \X {e.cb})
    OBVIOUS
  <2>4. B \subseteq Cbs \X Cbs
    BY <1>5, <2>2, <2>3, LineIs
  <2>5. \A c, d \in Cbs : <<c, d>> \in AheadIn(r) <=> <<c, d>> \in B
    BY <1>5, <1>6, <2>3
  <2>6. AheadIn(r) = B
    BY <2>4, <2>5, SamePairs, LineIs
  <2> QED BY <1>1, <1>8, <2>1, <2>3, <2>6
<1> QED BY <1>7, <1>8

\* erase: what is left of the line is in the order it was.
LEMMA LineErase ==
    ASSUME NEW q \in Seq(Entry), NEW i \in DOMAIN q, Orderly(q)
    PROVE  /\ q[i].cb = Null =>
                 LineOf(RemoveAt(q, i)) = LineOf(q) /\ AheadIn(RemoveAt(q, i)) = AheadIn(q)
           /\ q[i].cb # Null =>
                 /\ LineOf(RemoveAt(q, i)) = LineOf(q) \ {Place(q[i])}
                 /\ AheadIn(RemoveAt(q, i)) =
                        {p \in AheadIn(q) : p[1] # q[i].cb /\ p[2] # q[i].cb}
<1>1. i \in 1..Len(q) /\ Len(q) \in Nat /\ DOMAIN q = 1..Len(q)
  OBVIOUS
<1>2. PICK r \in Seq(Entry) : r = RemoveAt(q, i)
  BY RemoveAtType
<1>3. /\ DOMAIN r = 1..(Len(q) - 1)
      /\ \A j \in 1..(Len(q) - 1) : r[j] = IF j < i THEN q[j] ELSE q[j + 1]
  BY <1>2, RemoveAtElem
<1>4. \A j, k \in DOMAIN r : j < k =>
          \E m, n \in DOMAIN q : m < n /\ m # i /\ n # i /\ r[j] = q[m] /\ r[k] = q[n]
  <2> TAKE j, k \in DOMAIN r
  <2> HAVE j < k
  <2>1. PICK m \in DOMAIN q : m # i /\ r[j] = q[m] /\ m = IF j < i THEN j ELSE j + 1
    BY <1>1, <1>3
  <2>2. PICK n \in DOMAIN q : n # i /\ r[k] = q[n] /\ n = IF k < i THEN k ELSE k + 1
    BY <1>1, <1>3
  <2>3. m < n
    BY <1>1, <1>3, <2>1, <2>2
  <2> QED BY <2>1, <2>2, <2>3
<1>5. \A m, n \in DOMAIN q : m < n /\ m # i /\ n # i =>
          \E j, k \in DOMAIN r : j < k /\ r[j] = q[m] /\ r[k] = q[n]
  <2> TAKE m, n \in DOMAIN q
  <2> HAVE m < n /\ m # i /\ n # i
  <2>1. ASSUME NEW x \in DOMAIN q, x # i
        PROVE  \E j \in DOMAIN r : r[j] = q[x] /\ j = IF x < i THEN x ELSE x - 1
    <3>1. CASE x < i
      BY <1>1, <1>3, <3>1
    <3>2. CASE ~(x < i)
      <4>1. x - 1 \in 1..(Len(q) - 1) /\ ~(x - 1 < i) /\ (x - 1) + 1 = x
        BY <1>1, <2>1, <3>2
      <4> QED BY <1>3, <3>2, <4>1
    <3> QED BY <3>1, <3>2
  <2>2. PICK j \in DOMAIN r : r[j] = q[m] /\ j = IF m < i THEN m ELSE m - 1
    BY <2>1
  <2>3. PICK k \in DOMAIN r : r[k] = q[n] /\ k = IF n < i THEN n ELSE n - 1
    BY <2>1
  <2>4. j < k
    BY <1>1, <2>2, <2>3
  <2> QED BY <2>2, <2>3, <2>4
<1>6. ToSet(r) = ToSet(q) \ {q[i]}
  BY <1>2, OrderlyRemove
<1>7. \A x \in ToSet(q) : x # q[i] /\ x.cb # Null => x.cb # q[i].cb
  BY DEF Orderly, ToSet
<1>8. \A m \in DOMAIN q : q[m].cb # Null => (m # i <=> q[m].cb # q[i].cb)
  BY DEF Orderly
<1>9. \A w : w \in LineOf(r) <=> w \in LineOf(q) /\ ~(q[i].cb # Null /\ w = Place(q[i]))
  <2>1. \A w : w \in LineOf(r) <=> \E x \in ToSet(r) : x.cb # Null /\ w = Place(x)
    BY DEF LineOf, Place
  <2>2. \A w : w \in LineOf(q) <=> \E x \in ToSet(q) : x.cb # Null /\ w = Place(x)
    BY DEF LineOf, Place
  <2>3. \A x, y : Place(x) = Place(y) => x.cb = y.cb
    BY DEF Place
  <2> QED BY <1>6, <1>7, <2>1, <2>2, <2>3
<1>10. \A c, d \in Cbs : <<c, d>> \in AheadIn(r) <=>
           <<c, d>> \in AheadIn(q) /\ c # q[i].cb /\ d # q[i].cb
  <2> TAKE c, d \in Cbs
  <2>1. c # Null /\ d # Null
    BY FiberSets
  <2>2. ASSUME <<c, d>> \in AheadIn(r)
        PROVE  <<c, d>> \in AheadIn(q) /\ c # q[i].cb /\ d # q[i].cb
    <3>1. PICK j, k \in DOMAIN r : j < k /\ r[j].cb = c /\ r[k].cb = d
      BY <2>2, LineIs
    <3>2. PICK m, n \in DOMAIN q : m < n /\ m # i /\ n # i /\ r[j] = q[m] /\ r[k] = q[n]
      BY <1>4, <3>1
    <3> QED BY <1>8, <2>1, <3>1, <3>2, LineIs
  <2>3. ASSUME <<c, d>> \in AheadIn(q), c # q[i].cb, d # q[i].cb
        PROVE  <<c, d>> \in AheadIn(r)
    <3>1. PICK m, n \in DOMAIN q : m < n /\ q[m].cb = c /\ q[n].cb = d
      BY <2>3, LineIs
    <3>2. m # i /\ n # i
      BY <2>3, <3>1
    <3>3. PICK j, k \in DOMAIN r : j < k /\ r[j] = q[m] /\ r[k] = q[n]
      BY <1>5, <3>1, <3>2
    <3> QED BY <3>1, <3>3, LineIs
  <2> QED BY <2>2, <2>3
<1>11. CASE q[i].cb = Null
  <2>1. LineOf(r) = LineOf(q)
    BY <1>9, <1>11
  <2>2. AheadIn(r) = AheadIn(q)
    <3>1. \A c \in Cbs : c # q[i].cb
      BY <1>11, FiberSets
    <3>2. \A c, d \in Cbs : <<c, d>> \in AheadIn(r) <=> <<c, d>> \in AheadIn(q)
      BY <1>10, <3>1
    <3> QED BY <3>2, SamePairs, LineIs
  <2> QED BY <1>2, <1>11, <2>1, <2>2
<1>12. CASE q[i].cb # Null
  <2>1. LineOf(r) = LineOf(q) \ {Place(q[i])}
    BY <1>9, <1>12
  <2>2. PICK B : B = {p \in AheadIn(q) : p[1] # q[i].cb /\ p[2] # q[i].cb}
    OBVIOUS
  <2>3. B \subseteq Cbs \X Cbs
    BY <2>2, LineIs
  <2>4. \A c, d \in Cbs : <<c, d>> \in AheadIn(r) <=> <<c, d>> \in B
    BY <1>10, <2>2
  <2>5. AheadIn(r) = B
    BY <2>3, <2>4, SamePairs, LineIs
  <2> QED BY <1>2, <1>12, <2>1, <2>2, <2>5
<1> QED BY <1>11, <1>12

-----------------------------------------------------------------------------
(* What a step of one scheduler leaves of the pool.                        *)

\* The callback in hand: a fiber and a callback are never in ft together.
LEMMA HandIs ==
    ASSUME TaskInv, NEW s \in Threads
    PROVE  HandOf(s) = IF pc[s] = "picked" THEN ft[s].cb
                       ELSE IF pc[s] = "swap" /\ branch[s] = "cb" THEN m_cb[cb_fiber[s]] ELSE Null
<1>1. ft[s].fiber = Null \/ ft[s].cb = Null
  BY DEF TaskInv, FiberPart, LocalInv
<1>2. CASE pc[s] = "picked"
  BY <1>1, <1>2 DEF HandOf, HasCb, HasFiber
<1>3. CASE pc[s] # "picked"
  BY <1>3 DEF HandOf
<1> QED BY <1>2, <1>3

\* The same of the state after a step.
LEMMA HandBecomes ==
    ASSUME TaskInv', NEW s \in Threads
    PROVE  HandOf(s)' = IF pc'[s] = "picked" THEN ft'[s].cb
                        ELSE IF pc'[s] = "swap" /\ branch'[s] = "cb" THEN m_cb'[cb_fiber'[s]] ELSE Null
<1>1. ft'[s].fiber = Null \/ ft'[s].cb = Null
  BY DEF TaskInv, FiberPart, LocalInv
<1>2. CASE pc'[s] = "picked"
  BY <1>1, <1>2 DEF HandOf, HasCb, HasFiber
<1>3. CASE pc'[s] # "picked"
  BY <1>3 DEF HandOf
<1> QED BY <1>2, <1>3

\* A step of s, between states of the invariant.
Step(s) ==
    /\ IInv /\ TaskInv /\ IInv' /\ TaskInv'
    /\ Life(s) \/ Callers(s) \/ Loop(s) \/ Task(s)

\* A step of s changes the line, and the hand, of s only.
LEMMA PoolFrame ==
    ASSUME NEW s \in Threads, Step(s)
    PROVE  /\ PoolWaiting' = [PoolWaiting EXCEPT ![s] = LineOf(m_fibers'[s])]
           /\ PoolAhead' = [PoolAhead EXCEPT ![s] = AheadIn(m_fibers'[s])]
           /\ PoolHand' = [PoolHand EXCEPT ![s] = HandOf(s)']
<1>1. ASSUME NEW u \in Threads, u # s PROVE m_fibers'[u] = m_fibers[u] /\ HandOf(u)' = HandOf(u)
  <2>1. OtherScheduler(u)
    BY <1>1, StepFrame DEF Step
  <2>2. pc[u] = "swap" /\ branch[u] = "cb" => m_cb'[cb_fiber[u]] = m_cb[cb_fiber[u]]
    BY <1>1, StepOthers DEF Step
  <2>3. HandOf(u) = IF pc[u] = "picked" THEN ft[u].cb
                    ELSE IF pc[u] = "swap" /\ branch[u] = "cb" THEN m_cb[cb_fiber[u]] ELSE Null
    BY HandIs DEF Step
  <2>4. HandOf(u)' = IF pc'[u] = "picked" THEN ft'[u].cb
                     ELSE IF pc'[u] = "swap" /\ branch'[u] = "cb" THEN m_cb'[cb_fiber'[u]] ELSE Null
    BY HandBecomes DEF Step
  <2> QED BY <2>1, <2>2, <2>3, <2>4 DEF OtherScheduler
<1>2. PoolWaiting' = [PoolWaiting EXCEPT ![s] = LineOf(m_fibers'[s])]
  BY <1>1 DEF PoolWaiting, LineOf
<1>3. PoolAhead' = [PoolAhead EXCEPT ![s] = AheadIn(m_fibers'[s])]
  <2>1. \A u \in Threads : PoolAhead'[u] = AheadIn(m_fibers'[u])
    <3> TAKE u \in Threads
    <3>1. PoolAhead'[u] = AheadIn(m_fibers[u])'
      BY DEF PoolAhead
    <3> QED BY <3>1 DEF AheadIn
  <2>2. PoolAhead' = [u \in Threads |-> PoolAhead'[u]]
    BY DEF PoolAhead
  <2>3. \A u \in Threads : PoolAhead[u] = AheadIn(m_fibers[u])
    BY DEF PoolAhead
  <2>4. PoolAhead = [u \in Threads |-> PoolAhead[u]]
    BY DEF PoolAhead
  <2>5. \A u \in Threads : u # s => PoolAhead'[u] = PoolAhead[u]
    BY <1>1, <2>1, <2>3
  <2>6. PICK A, B, C : A = PoolAhead' /\ B = PoolAhead /\ C = AheadIn(m_fibers'[s])
    OBVIOUS
  <2>7. A = [B EXCEPT ![s] = C]
    BY <2>1, <2>2, <2>4, <2>5, <2>6
  <2> QED BY <2>6, <2>7
<1>4. PoolHand' = [PoolHand EXCEPT ![s] = HandOf(s)']
  BY <1>1 DEF PoolHand
<1> QED BY <1>2, <1>3, <1>4

\* Where no callback begins or ends.
LEMMA RunningSame ==
    ASSUME \A f \in CbFibers : /\ Begun(f)' <=> Begun(f)
                               /\ Begun(f) => m_cb'[f] = m_cb[f]
    PROVE  PoolRunning' = PoolRunning
BY DEF PoolRunning

\* A step of s that the pool does not see.
LEMMA QuietStep ==
    ASSUME NEW s \in Threads, Step(s), HandOf(s)' = HandOf(s), PoolRunning' = PoolRunning,
           LineOf(m_fibers'[s]) = LineOf(m_fibers[s]), AheadIn(m_fibers'[s]) = AheadIn(m_fibers[s])
    PROVE  UNCHANGED Pool!vars
<1>1. PoolWaiting' = PoolWaiting
  BY PoolFrame DEF PoolWaiting
<1>2. PoolAhead' = PoolAhead
  BY PoolFrame DEF PoolAhead
<1>3. PoolHand' = PoolHand
  BY PoolFrame DEF PoolHand
<1> QED BY <1>1, <1>2, <1>3 DEF Pool!vars

\* The thread's own fibers run no callback.
LEMMA OwnFibers ==
    ASSUME IInv, NEW s \in Threads, m_cb' = m_cb \/ \E b : m_cb' = [m_cb EXCEPT ![Root(s)] = b]
                                                     \/ m_cb' = [m_cb EXCEPT ![Idle(s)] = b],
           \A f \in Fibers : f \notin {Main(s), Root(s), Idle(s)} => m_state'[f] = m_state[f]
    PROVE  PoolRunning' = PoolRunning
<1>1. \A f \in CbFibers : f \in Fibers /\ f \notin {Main(s), Root(s), Idle(s)}
  BY OtherFibers
<1>2. \A f \in CbFibers : m_state'[f] = m_state[f] /\ m_cb'[f] = m_cb[f]
  BY <1>1 DEF IInv, TypeOK, FiberTypeOK
<1> QED BY <1>2, RunningSame DEF Begun

-----------------------------------------------------------------------------
(* Steps outside the loop.                                                 *)

LEMMA LifePool ==
    ASSUME NEW s \in Threads, Step(s), Life(s)
    PROVE  Pool!Next \/ UNCHANGED Pool!vars
<1>1. CASE Destroy(s)
  <2>1. /\ pc[s] = "out" /\ pc'[s] = "gone" /\ m_fibers'[s] = <<>>
        /\ m_state' = m_state /\ m_cb' = m_cb
    BY <1>1 DEF Destroy, Goto, fiberVars, Step, IInv, TypeOK, QueueTypeOK, LoopTypeOK
  <2>2. HandOf(s) = Null /\ HandOf(s)' = Null
    BY <2>1 DEF HandOf
  <2>3. LineOf(<<>>) = {} /\ AheadIn(<<>>) = {}
    BY DEF LineOf, AheadIn, ToSet
  <2>4. PoolRunning' = PoolRunning
    BY <2>1, RunningSame DEF Begun
  <2>5. PoolHand' = PoolHand /\ PoolHand[s] = Null
    BY <2>2, PoolFrame DEF PoolHand
  <2>6. Pool!Discard(s)
    BY <2>1, <2>3, <2>4, <2>5, PoolFrame DEF Pool!Discard
  <2> QED BY <2>6 DEF Pool!Next
<1>2. CASE ~Destroy(s)
  <2>1. /\ pc[s] \in {"absent", "out"} \/ pc' = pc
        /\ pc'[s] \in {"out", "prologue"} \/ pc' = pc
        /\ m_fibers' = m_fibers /\ m_cb' = m_cb /\ ft' = ft /\ cb_fiber' = cb_fiber /\ branch' = branch
        /\ \/ m_state' = m_state
           \/ m_state' = [m_state EXCEPT ![Main(s)] = "EXEC", ![Root(s)] = "INIT"]
           \/ m_state' = [m_state EXCEPT ![Root(s)] = "EXEC"]
    <3>1. CASE \E cfg \in Configs : Construct(s, cfg[1], cfg[2])
      BY <3>1 DEF Construct, Goto, queueVars, loopVars, Step, IInv, TypeOK, LoopTypeOK
    <3>2. CASE Start(s)
      BY <3>2 DEF Start, Goto, BeginStart, Call, queueVars, loopVars, Step, IInv, TypeOK, LoopTypeOK
    <3>3. CASE \/ StartAgain(s) \/ StartWorkers(s) \/ Restart(s) \/ DestroyAborts(s)
               \/ \E t \in Threads : Stop(s, t)
      BY <3>3 DEF StartAgain, StartWorkers, Restart, DestroyAborts, BeginStart, Stop,
         fiberVars, queueVars, loopVars
    <3> QED BY <1>2, <3>1, <3>2, <3>3 DEF Life
  <2>2. HandOf(s)' = HandOf(s)
    <3>1. CASE pc' = pc
      BY <2>1, <3>1, HandIs, HandBecomes DEF Step
    <3>2. CASE pc' # pc
      BY <2>1, <3>2 DEF HandOf
    <3> QED BY <3>1, <3>2
  <2>3. \A f \in Fibers : f \notin {Main(s), Root(s), Idle(s)} => m_state'[f] = m_state[f]
    BY <2>1 DEF Step, IInv, TypeOK, FiberTypeOK
  <2>4. PoolRunning' = PoolRunning
    BY <2>1, <2>3, OwnFibers DEF Step
  <2> QED BY <2>1, <2>2, <2>4, QuietStep
<1> QED BY <1>1, <1>2

\* scheduler(): a fiber does not show in the pool, a callback is a Submit.
LEMMA CallersPool ==
    ASSUME NEW s \in Threads, Step(s), Callers(s)
    PROVE  Pool!Next \/ UNCHANGED Pool!vars
<1>0. m_fibers \in [Threads -> Seq(Entry)]
  BY DEF Step, IInv, TypeOK, QueueTypeOK
<1>1. UNCHANGED <<m_state, m_cb, pc, ft, cb_fiber, branch>>
  BY DEF Callers, ScheduleFiber, ScheduleCb, fiberVars, loopVars
<1>2. PoolRunning' = PoolRunning
  BY <1>1, RunningSame DEF Begun
<1>3. HandOf(s)' = HandOf(s)
  BY <1>1, HandIs, HandBecomes DEF Step
<1>4. ASSUME NEW thr \in Pins, NEW f \in TaskFibers, ScheduleFiber(s, f, thr)
      PROVE  UNCHANGED Pool!vars
  <2>1. PICK e \in Entry : e = FiberEntry(f, thr)
    BY Entries0
  <2>2. e.cb = Null /\ m_fibers'[s] = Append(m_fibers[s], e)
    BY <1>0, <1>4, <2>1 DEF ScheduleFiber, FiberEntry
  <2>3. LineOf(m_fibers'[s]) = LineOf(m_fibers[s]) /\ AheadIn(m_fibers'[s]) = AheadIn(m_fibers[s])
    BY <1>0, <2>2, LineAppend
  <2> QED BY <1>2, <1>3, <2>3, QuietStep
<1>5. ASSUME NEW thr \in Pins, NEW c \in Cbs, ScheduleCb(s, c, thr) PROVE Pool!Submit(s, c, thr)
  <2>1. PICK e \in Entry : e = CbEntry(c, thr)
    BY Entries0
  <2>2. /\ e.cb = c /\ e.thread = thr /\ c # Null /\ Place(e) = [cb |-> c, thread |-> thr]
        /\ m_fibers'[s] = Append(m_fibers[s], e) /\ ~Submitted(c)
    BY <1>0, <1>5, <2>1, FiberSets DEF ScheduleCb, CbEntry, Place
  <2>3. /\ LineOf(m_fibers'[s]) = LineOf(m_fibers[s]) \cup {[cb |-> c, thread |-> thr]}
        /\ AheadIn(m_fibers'[s]) = AheadIn(m_fibers[s]) \cup ({w.cb : w \in LineOf(m_fibers[s])} \X {c})
    BY <1>0, <2>2, LineAppend
  <2>4. \A x \in Threads : c \notin QueuedCbs(x) /\ ft[x].cb # c
    BY <2>2 DEF Step, TaskInv, CbPart, OwnerInv, Submitted
  <2>5. \A f \in CbFibers : m_cb[f] # c
    BY <2>2 DEF Step, TaskInv, CbPart, BodyInv, Submitted
  <2>6. c \notin PoolRunning
    BY <2>5 DEF PoolRunning
  <2>7. ASSUME NEW x \in Threads PROVE c \notin Pool!Waiting(x) /\ PoolHand[x] # c
    <3>1. c \notin Pool!Waiting(x)
      BY <2>4 DEF Pool!Waiting, PoolWaiting, LineOf, QueuedCbs
    <3>2. pc[x] = "swap" /\ branch[x] = "cb" => cb_fiber[x] \in CbFibers
      BY HeldType DEF Step, SwapPcs, InSwap
    <3>3. HandOf(x) # c
      BY <2>2, <2>4, <2>5, <3>2, HandIs DEF Step
    <3> QED BY <3>1, <3>3 DEF PoolHand
  <2>8. PoolHand' = PoolHand
    BY <1>3, PoolFrame DEF PoolHand
  <2>9. PoolWaiting' = [PoolWaiting EXCEPT ![s] = @ \cup {[cb |-> c, thread |-> thr]}]
    BY <2>3, PoolFrame DEF PoolWaiting
  <2>10. PoolAhead' = [PoolAhead EXCEPT ![s] = @ \cup (Pool!Waiting(s) \X {c})]
    BY <2>3, PoolFrame DEF PoolAhead, PoolWaiting, Pool!Waiting
  <2> QED BY <1>2, <2>6, <2>7, <2>8, <2>9, <2>10 DEF Pool!Submit
<1> QED BY <1>4, <1>5 DEF Callers, Pool!Next

-----------------------------------------------------------------------------
(* Steps of the loop.                                                      *)

\* A step of s after which the same fibers are in the same states.
LEMMA QuietRound ==
    ASSUME NEW s \in Threads, Step(s), m_fibers' = m_fibers, m_state' = m_state, m_cb' = m_cb,
           HandOf(s)' = HandOf(s)
    PROVE  UNCHANGED Pool!vars
<1>1. PoolRunning' = PoolRunning
  BY RunningSame DEF Begun
<1> QED BY <1>1, QuietStep

\* The scan of the queue: what it steps over is for other threads, or a fiber.
LEMMA FetchPool ==
    ASSUME NEW s \in Threads, Step(s), Fetch(s)
    PROVE  Pool!Take(s) \/ UNCHANGED Pool!vars
<1>1. PICK q \in Seq(Entry) : q = m_fibers[s]
  BY DEF Step, IInv, TypeOK, QueueTypeOK
<1>2. PICK i \in DOMAIN q :
          /\ Runnable(s, q[i])
          /\ \A j \in 1..(i - 1) : ~Runnable(s, q[j])
          /\ ft' = [ft EXCEPT ![s] = q[i]]
          /\ m_fibers' = [m_fibers EXCEPT ![s] = RemoveAt(@, i)]
  BY <1>1 DEF Fetch
<1>3. /\ pc[s] = "fetch" /\ pc'[s] = "picked" /\ m_state' = m_state /\ m_cb' = m_cb
      /\ m_fibers'[s] = RemoveAt(q, i) /\ ft'[s] = q[i]
  BY <1>1, <1>2 DEF Fetch, Goto, fiberVars, Step, IInv, TypeOK, LoopTypeOK, QueueTypeOK
<1>4. Orderly(q)
  BY <1>1 DEF Step, TaskInv, FiberPart, QueueInv
<1>5. HandOf(s) = Null /\ HandOf(s)' = q[i].cb
  BY <1>3, HandBecomes DEF HandOf, Step
<1>6. PoolRunning' = PoolRunning
  BY <1>3, RunningSame DEF Begun
<1>7. CASE q[i].cb = Null
  <2>1. LineOf(m_fibers'[s]) = LineOf(q) /\ AheadIn(m_fibers'[s]) = AheadIn(q)
    BY <1>3, <1>4, <1>7, LineErase
  <2> QED BY <1>1, <1>5, <1>6, <1>7, <2>1, QuietStep
<1>8. CASE q[i].cb # Null
  <2>1. PICK w : w = Place(q[i])
    OBVIOUS
  <2>2. w \in LineOf(q) /\ w.cb = q[i].cb /\ w.thread = q[i].thread
    BY <1>8, <2>1, LineIs DEF Place
  <2>3. Pool!MayRun(s, w)
    BY <1>2, <2>2 DEF Pool!MayRun, Runnable
  <2>4. ASSUME NEW d \in LineOf(q), <<d.cb, w.cb>> \in AheadIn(q) PROVE ~Pool!MayRun(s, d)
    <3>1. PICK j, k \in DOMAIN q : j < k /\ q[j].cb = d.cb /\ q[k].cb = w.cb
      BY <2>4, LineIs
    <3>2. PICK m \in DOMAIN q : q[m].cb # Null /\ d = Place(q[m])
      BY LineIs
    <3>3. d.cb = q[m].cb /\ d.thread = q[m].thread
      BY <3>2 DEF Place
    <3>4. k = i /\ m = j
      BY <1>4, <1>8, <2>2, <3>1, <3>2, <3>3 DEF Orderly
    <3>5. j \in 1..(i - 1)
      BY <3>1, <3>4
    <3>6. ~Runnable(s, q[j]) /\ q[j].fiber = Null
      BY <1>2, <1>4, <3>2, <3>4, <3>5 DEF Orderly
    <3> QED BY <3>3, <3>4, <3>6 DEF Runnable, Pool!MayRun
  <2>5. PoolHand' = [PoolHand EXCEPT ![s] = w.cb] /\ PoolHand[s] = Null
    BY <1>5, <2>2, PoolFrame DEF PoolHand
  <2>6. /\ LineOf(m_fibers'[s]) = LineOf(q) \ {w}
         /\ AheadIn(m_fibers'[s]) = {p \in AheadIn(q) : p[1] # w.cb /\ p[2] # w.cb}
    BY <1>3, <1>4, <1>8, <2>1, <2>2, LineErase
  <2>7. PoolWaiting[s] = LineOf(q) /\ PoolWaiting' = [PoolWaiting EXCEPT ![s] = @ \ {w}]
    BY <1>1, <2>6, PoolFrame DEF PoolWaiting
  <2>8. /\ PoolAhead[s] = AheadIn(q)
        /\ PoolAhead' = [PoolAhead EXCEPT ![s] = {p \in @ : p[1] # w.cb /\ p[2] # w.cb}]
    <3>1. PoolAhead[s] = AheadIn(q)
      BY <1>1 DEF PoolAhead
    <3>2. PoolAhead' = [PoolAhead EXCEPT ![s] = AheadIn(m_fibers'[s])]
      BY PoolFrame
    <3>3. PICK A, B, C : A = PoolAhead' /\ B = PoolAhead /\ C = AheadIn(q)
      OBVIOUS
    <3>4. A = [B EXCEPT ![s] = {p \in C : p[1] # w.cb /\ p[2] # w.cb}] /\ B[s] = C
      BY <2>6, <3>1, <3>2, <3>3
    <3>5. A = [B EXCEPT ![s] = {p \in @ : p[1] # w.cb /\ p[2] # w.cb}]
      BY <3>4
    <3> QED BY <3>1, <3>3, <3>5
  <2> QED BY <1>6, <2>2, <2>3, <2>4, <2>5, <2>7, <2>8 DEF Pool!Take
<1> QED BY <1>7, <1>8

\* The callback stays in hand, in the fiber that will run it.
LEMMA DispatchCbPool ==
    ASSUME NEW s \in Threads, Step(s), DispatchCb(s)
    PROVE  UNCHANGED Pool!vars
<1>1. /\ pc[s] = "picked" /\ HasCb(s) /\ m_fibers' = m_fibers
      /\ pc'[s] = "swap" /\ branch'[s] = "cb" /\ ft[s].cb \in Cbs
  BY DEF DispatchCb, Goto, HasCb, Step, IInv, TypeOK, LoopTypeOK, Entry
<1>2. PICK f \in CbFibers : /\ NewFiber(f, ft[s].cb) /\ cb_fiber'[s] = f
                            /\ m_state[f] \in {"none", "INIT"}
  <2>1. CASE cb_fiber[s] # Null
    <3>1. cb_fiber[s] \in CbFibers /\ NewFiber(cb_fiber[s], ft[s].cb) /\ cb_fiber'[s] = cb_fiber[s]
      BY <2>1 DEF DispatchCb, ResetFiber, Step, IInv, TypeOK, LoopTypeOK
    <3>2. m_state[cb_fiber[s]] = "INIT"
      BY <1>1, <2>1 DEF Step, TaskInv, FiberPart, KeptInv, SwapPcs, InSwap
    <3> QED BY <3>1, <3>2
  <2>2. CASE cb_fiber[s] = Null
    <3>1. /\ NewFiber(CbFiber(ft[s].cb), ft[s].cb)
          /\ cb_fiber' = [cb_fiber EXCEPT ![s] = CbFiber(ft[s].cb)]
      BY <2>2 DEF DispatchCb
    <3>2. CbFiber(ft[s].cb) \in CbFibers /\ cb_fiber'[s] = CbFiber(ft[s].cb)
      BY <1>1, <3>1, FiberSets DEF Step, IInv, TypeOK, LoopTypeOK
    <3>3. m_state[CbFiber(ft[s].cb)] = "none"
      BY <1>1 DEF Step, TaskInv, CbPart, OwnerInv
    <3> QED BY <3>1, <3>2, <3>3
  <2> QED BY <2>1, <2>2
<1>3. CbFibers \subseteq Fibers
  BY FiberSets
<1>4. /\ m_state'[f] = "INIT" /\ m_cb'[f] = ft[s].cb
      /\ \A g \in Fibers : g # f => m_state'[g] = m_state[g] /\ m_cb'[g] = m_cb[g]
  BY <1>2, <1>3 DEF NewFiber, Step, IInv, TypeOK, FiberTypeOK
<1>5. HandOf(s)' = HandOf(s)
  BY <1>1, <1>2, <1>4, HandIs, HandBecomes DEF Step
<1>6. PoolRunning' = PoolRunning
  BY <1>2, <1>3, <1>4, RunningSame DEF Begun
<1> QED BY <1>1, <1>5, <1>6, QuietStep

\* A switch begins the callback of a fiber that is INIT, and goes on with a fiber
\* that had begun.
LEMMA SwapInPool ==
    ASSUME NEW s \in Threads, Step(s), SwapInTarget(s)
    PROVE  Pool!Begin(s) \/ UNCHANGED Pool!vars
<1>1. /\ pc[s] = "swap" /\ pc'[s] = "task" /\ m_cb' = m_cb /\ m_fibers' = m_fibers
      /\ m_state' = [m_state EXCEPT ![Target(s)] = "EXEC"]
  BY DEF SwapInTarget, SwapIn, Goto, queueVars, Step, IInv, TypeOK, LoopTypeOK
<1>2. PICK f : /\ f = Held(s) /\ f = Target(s) /\ f \in TaskFibers \cup {Idle(s)} /\ f \in Fibers
               /\ branch[s] = "cb" => f = cb_fiber[s] /\ f \in CbFibers
               /\ branch[s] = "idle" <=> f = Idle(s)
               /\ branch[s] \in {"fiber", "cb", "idle"}
  BY <1>1, HeldType DEF SwapPcs, InSwap, Step
<1>3. /\ m_state'[f] = "EXEC"
      /\ \A g \in CbFibers : g \in Fibers /\ (g # f => m_state'[g] = m_state[g])
  BY <1>1, <1>2, FiberSets DEF Step, IInv, TypeOK, FiberTypeOK
<1>4. HandOf(s)' = Null /\ HandOf(s) = IF branch[s] = "cb" THEN m_cb[f] ELSE Null
  BY <1>1, <1>2, HandIs, HandBecomes DEF Step
<1>5. ASSUME PoolRunning' = PoolRunning, HandOf(s) = Null PROVE UNCHANGED Pool!vars
  BY <1>1, <1>4, <1>5, QuietStep
<1>6. CASE branch[s] = "cb"
  <2>1. f \in CbFibers /\ m_state[f] = "INIT"
    BY <1>1, <1>2, <1>6 DEF Step, TaskInv, FiberPart, StageInv, Fits
  <2>2. m_cb[f] \in Cbs \cup {Null} /\ Null \notin Cbs
    BY <2>1, FiberSets DEF Step, TaskInv, CbPart, BodyInv
  <2>3. \A c \in Cbs : c \in PoolRunning' <=> c \in PoolRunning \/ c = m_cb[f]
    <3> TAKE c \in Cbs
    <3>1. c \in PoolRunning' <=> \E g \in CbFibers : m_cb[g] = c /\ Begun(g)'
      BY <1>1 DEF PoolRunning
    <3>2. c \in PoolRunning <=> \E g \in CbFibers : m_cb[g] = c /\ Begun(g)
      BY DEF PoolRunning
    <3> QED BY <1>3, <2>1, <3>1, <3>2 DEF Begun
  <2>4. PoolRunning \subseteq Cbs /\ PoolRunning' \subseteq Cbs
    BY DEF PoolRunning
  <2>5. CASE m_cb[f] = Null
    <3>1. PoolRunning' = PoolRunning
      BY <2>2, <2>3, <2>4, <2>5
    <3> QED BY <1>4, <1>5, <2>5, <3>1
  <2>6. CASE m_cb[f] # Null
    <3>1. PoolRunning' = PoolRunning \cup {m_cb[f]}
      BY <2>2, <2>3, <2>4, <2>6
    <3>2. PoolHand[s] = m_cb[f] /\ PoolHand' = [PoolHand EXCEPT ![s] = Null]
      BY <1>4, <1>6, PoolFrame DEF PoolHand
    <3>3. PoolWaiting' = PoolWaiting
      BY <1>1 DEF PoolWaiting
    <3>4. PoolAhead' = PoolAhead
      BY <1>1 DEF PoolAhead, AheadIn
    <3> QED BY <2>6, <3>1, <3>2, <3>3, <3>4 DEF Pool!Begin
  <2> QED BY <2>5, <2>6
<1>7. CASE branch[s] # "cb"
  <2>1. f \in CbFibers => m_state[f] \in {"HOLD", "READY"}
    <3> HAVE f \in CbFibers
    <3>1. f \notin UserFibers /\ f # Idle(s)
      BY FiberAssumption, OtherFibers
    <3>2. Waiting(f)
      BY <1>1, <1>2, <1>7, <3>1 DEF Step, TaskInv, FiberPart, StageInv, Fits
    <3> QED BY <3>1, <3>2 DEF Waiting
  <2>2. PoolRunning' = PoolRunning
    BY <1>1, <1>3, <2>1, RunningSame DEF Begun
  <2> QED BY <1>4, <1>5, <1>7, <2>2
<1> QED BY <1>6, <1>7

\* What becomes of the fiber that left shows in its state, which is as it was, or
\* back to INIT when its callback has ended.
LEMMA EndPool ==
    ASSUME NEW s \in Threads, Step(s), Requeue(s) \/ Settle(s) \/ SetHold(s)
    PROVE  UNCHANGED Pool!vars
<1>1. /\ pc[s] \in {"requeue", "settle", "sethold"} /\ pc'[s] = "fetch"
      /\ HandOf(s) = Null /\ HandOf(s)' = Null
  BY DEF Requeue, Settle, SetHold, Goto, HandOf, Step, IInv, TypeOK, LoopTypeOK
<1>2. /\ Held(s) = Target(s) /\ Target(s) \in Fibers /\ CbFibers \subseteq Fibers
      /\ branch[s] = "cb" => Held(s) = cb_fiber[s]
  BY <1>1, HeldType, FiberSets DEF SwapPcs, Step
<1>3. CASE Requeue(s)
  <2>1. /\ pc[s] = "requeue" /\ m_state' = m_state /\ m_cb' = m_cb
        /\ m_fibers' = [m_fibers EXCEPT ![s] = Append(@, FiberEntry(Target(s), AnyThread))]
    BY <1>3 DEF Requeue, Goto, fiberVars
  <2>2. Target(s) \in TaskFibers
    BY <2>1, TargetType DEF Step, IInv, IdleNeverReady
  <2>3. PICK q \in Seq(Entry) : q = m_fibers[s]
    BY DEF Step, IInv, TypeOK, QueueTypeOK
  <2>4. PICK e \in Entry : e = FiberEntry(Target(s), AnyThread)
    BY <2>2, Entries0
  <2>5. e.cb = Null /\ m_fibers'[s] = Append(q, e)
    BY <2>1, <2>3, <2>4 DEF FiberEntry, Step, IInv, TypeOK, QueueTypeOK
  <2>6. LineOf(m_fibers'[s]) = LineOf(q) /\ AheadIn(m_fibers'[s]) = AheadIn(q)
    BY <2>5, LineAppend
  <2>7. PoolRunning' = PoolRunning
    BY <2>1, RunningSame DEF Begun
  <2> QED BY <1>1, <2>3, <2>6, <2>7, QuietStep
<1>4. CASE Settle(s)
  <2>1. pc[s] = "settle" /\ m_fibers' = m_fibers
    BY <1>4 DEF Settle, Goto, queueVars
  <2>2. m_state[Held(s)] \in {"TERM", "EXCEPT"}
    BY <2>1 DEF Step, TaskInv, FiberPart, StageInv, Fits
  <2>3. \A g \in CbFibers : \/ m_state'[g] = m_state[g] /\ m_cb'[g] = m_cb[g]
                            \/ ~Begun(g) /\ m_state'[g] = "INIT"
    <3>1. CASE branch[s] = "cb"
      <4>1. NewFiber(Held(s), Null)
        BY <1>2, <1>4, <3>1 DEF Settle, ResetFiber
      <4> QED BY <1>2, <2>2, <4>1 DEF NewFiber, Begun, Step, IInv, TypeOK, FiberTypeOK
    <3>2. CASE branch[s] # "cb"
      BY <1>4, <3>2 DEF Settle, fiberVars
    <3> QED BY <3>1, <3>2
  <2>4. PoolRunning' = PoolRunning
    BY <2>3, RunningSame DEF Begun
  <2> QED BY <1>1, <2>1, <2>4, QuietStep
<1>5. CASE SetHold(s)
  <2>1. /\ pc[s] = "sethold" /\ m_fibers' = m_fibers /\ m_cb' = m_cb
        /\ m_state' = [m_state EXCEPT ![Target(s)] = "HOLD"]
    BY <1>5 DEF SetHold, Goto, queueVars
  <2>2. m_state[Target(s)] = "HOLD"
    BY <1>2, <2>1 DEF Step, TaskInv, FiberPart, StageInv, Fits
  <2>3. m_state' = m_state
    BY <1>2, <2>1, <2>2 DEF Step, IInv, TypeOK, FiberTypeOK
  <2> QED BY <1>1, <2>1, <2>3, QuietRound
<1> QED BY <1>3, <1>4, <1>5

LEMMA LoopPool ==
    ASSUME NEW s \in Threads, Step(s), Loop(s)
    PROVE  Pool!Next \/ UNCHANGED Pool!vars
<1>1. CASE Prologue(s) \/ Break(s)
  <2>1. /\ pc[s] \in {"prologue", "picked"} /\ pc'[s] \in {"fetch", "back"} /\ m_fibers' = m_fibers
        /\ HandOf(s) = Null /\ HandOf(s)' = Null
    BY <1>1 DEF Prologue, Break, Goto, queueVars, HandOf, Step, IInv, TypeOK, LoopTypeOK
  <2>2. CASE Prologue(s)
    <3>1. /\ m_cb' = [m_cb EXCEPT ![Idle(s)] = "body"]
          /\ m_state' = [m_state EXCEPT ![Idle(s)] = "INIT"]
      BY <2>2 DEF Prologue, NewFiber
    <3>2. PoolRunning' = PoolRunning
      BY <3>1, OwnFibers DEF Step, IInv, TypeOK, FiberTypeOK
    <3> QED BY <2>1, <3>2, QuietStep
  <2>3. CASE Break(s)
    <3>1. cpu[s] = Root(s)
      BY <2>3 DEF Break, Goto, Step, IInv, OnItsStack, StackOf
    <3>2. /\ m_cb' = [m_cb EXCEPT ![Root(s)] = Null]
          /\ m_state' = [m_state EXCEPT ![Root(s)] = "TERM"]
      BY <2>3, <3>1 DEF Break, CbReturns
    <3>3. PoolRunning' = PoolRunning
      BY <3>2, OwnFibers DEF Step, IInv, TypeOK, FiberTypeOK
    <3> QED BY <2>1, <3>3, QuietStep
  <2> QED BY <1>1, <2>2, <2>3
<1>2. CASE BackToStart(s) \/ Leave(s) \/ After(s)
  <2>1. /\ m_fibers' = m_fibers /\ m_state' = m_state /\ m_cb' = m_cb
        /\ pc[s] \notin {"picked", "swap"} /\ pc'[s] \notin {"picked", "swap"}
    BY <1>2 DEF BackToStart, Leave, After, Verdict, Goto, fiberVars, queueVars, Step, IInv, TypeOK, LoopTypeOK
  <2> QED BY <2>1, HandIs, HandBecomes, QuietRound DEF Step
<1>3. CASE FetchNothing(s)
  <2>1. /\ m_fibers' = m_fibers /\ m_state' = m_state /\ m_cb' = m_cb
        /\ pc[s] = "fetch" /\ pc'[s] = "picked" /\ ft'[s].cb = Null
    BY <1>3 DEF FetchNothing, NoEntry, Goto, fiberVars, queueVars, Step, IInv, TypeOK, LoopTypeOK
  <2> QED BY <2>1, HandIs, HandBecomes, QuietRound DEF Step
<1>4. CASE DispatchFiber(s) \/ DispatchIdle(s)
  <2>1. /\ m_fibers' = m_fibers /\ m_state' = m_state /\ m_cb' = m_cb
        /\ pc[s] = "picked" /\ ~HasCb(s) /\ pc'[s] = "swap" /\ branch'[s] # "cb"
    BY <1>4 DEF DispatchFiber, DispatchIdle, HasCb, Goto, fiberVars, queueVars, Step, IInv, TypeOK, LoopTypeOK
  <2> QED BY <2>1, HandBecomes, QuietRound DEF Step, HandOf
<1>5. CASE Requeue(s) \/ Settle(s) \/ SetHold(s)
  BY <1>5, EndPool
<1>6. CASE ResetAborts(s) \/ SwapInAborts(s)
  BY <1>6, ResetHolds, SwapInHolds DEF Step
<1> QED BY <1>1, <1>2, <1>3, <1>4, <1>5, <1>6, FetchPool, DispatchCbPool, SwapInPool DEF Loop, Pool!Next

-----------------------------------------------------------------------------
(* Steps of the code on a fiber, and the whole.                            *)

\* A yield marks a callback that goes on, a return or a throw ends it.
LEMMA TaskPool ==
    ASSUME NEW s \in Threads, Step(s), Task(s)
    PROVE  Pool!Next \/ UNCHANGED Pool!vars
<1>1. /\ pc[s] = "task" /\ pc'[s] \in {"yielding", "ending"} /\ m_fibers' = m_fibers
      /\ HandOf(s) = Null /\ HandOf(s)' = Null
  BY DEF Task, YieldToReady, YeidToHold, FnReturns, FnThrows, Goto, queueVars, HandOf, Step, IInv, TypeOK, LoopTypeOK
<1>2. PICK f \in Fibers : f = Held(s) /\ f = cpu[s] /\ f = t_fiber[s] /\ m_state[f] = "EXEC"
  BY <1>1, HeldType DEF SwapPcs, InSwap, Step, TaskInv, FiberPart, StageInv, Fits
<1>3. CbFibers \subseteq Fibers
  BY FiberSets
<1>4. /\ \A g \in Fibers : g # f => m_state'[g] = m_state[g] /\ m_cb'[g] = m_cb[g]
      /\ \/ m_state'[f] \in {"READY", "HOLD"} /\ m_cb'[f] = m_cb[f]
         \/ m_state'[f] \in {"TERM", "EXCEPT"}
  BY <1>2 DEF Task, YieldToReady, YeidToHold, FnReturns, FnThrows, MarkCurrent, CbReturns, CbThrows,
     Step, IInv, TypeOK, FiberTypeOK
<1>5. CASE m_state'[f] \in {"READY", "HOLD"} \/ f \notin CbFibers \/ m_cb[f] = Null
  <2>1. \A c \in Cbs : c # Null
    BY FiberSets
  <2>2. \A c \in Cbs : \A g \in CbFibers : (m_cb[g] = c /\ Begun(g))' <=> m_cb[g] = c /\ Begun(g)
    BY <1>2, <1>3, <1>4, <1>5, <2>1 DEF Begun
  <2>3. PoolRunning' = PoolRunning
    BY <2>2 DEF PoolRunning
  <2> QED BY <1>1, <2>3, QuietStep
<1>6. CASE m_state'[f] \in {"TERM", "EXCEPT"} /\ f \in CbFibers /\ m_cb[f] # Null
  <2>1. PICK c \in Cbs : c = m_cb[f]
    BY <1>6 DEF Step, TaskInv, CbPart, BodyInv
  <2>2. \A g \in CbFibers : m_cb[g] = c => g = f
    BY <1>6, <2>1 DEF Step, TaskInv, CbPart, BodyInv
  <2>3. c \in PoolRunning
    BY <1>2, <1>6, <2>1 DEF PoolRunning, Begun
  <2>4. \A d \in Cbs : d \in PoolRunning' <=> d \in PoolRunning /\ d # c
    <3> TAKE d \in Cbs
    <3>1. d \in PoolRunning' <=> \E g \in CbFibers : m_cb'[g] = d /\ Begun(g)'
      BY DEF PoolRunning
    <3>2. d \in PoolRunning <=> \E g \in CbFibers : m_cb[g] = d /\ Begun(g)
      BY DEF PoolRunning
    <3>3. ~Begun(f)'
      BY <1>6 DEF Begun
    <3>4. \A g \in CbFibers : g # f => m_cb'[g] = m_cb[g] /\ (Begun(g)' <=> Begun(g))
      BY <1>3, <1>4 DEF Begun
    <3> QED BY <2>1, <2>2, <3>1, <3>2, <3>3, <3>4
  <2>5. PoolRunning' = PoolRunning \ {c}
    BY <2>4 DEF PoolRunning
  <2>6. PoolHand' = PoolHand
    BY <1>1, PoolFrame DEF PoolHand
  <2>7. PoolWaiting' = PoolWaiting
    BY <1>1 DEF PoolWaiting
  <2>8. PoolAhead' = PoolAhead
    BY <1>1 DEF PoolAhead, AheadIn
  <2>9. Pool!End(c)
    BY <2>3, <2>5, <2>6, <2>7, <2>8 DEF Pool!End
  <2> QED BY <2>9 DEF Pool!Next
<1> QED BY <1>4, <1>5, <1>6

\* Nothing has been scheduled, no callback's fiber exists.
LEMMA PoolInit == Init => Pool!Init
<1> SUFFICES ASSUME Init PROVE Pool!Init
  OBVIOUS
<1>1. LineOf(<<>>) = {} /\ AheadIn(<<>>) = {}
  BY DEF LineOf, AheadIn, ToSet
<1>2. PoolWaiting = [s \in Threads |-> {}]
  BY <1>1 DEF Init, PoolWaiting
<1>3. PoolAhead = [s \in Threads |-> {}]
  <2>1. \A s \in Threads : AheadIn(m_fibers[s]) = {}
    BY <1>1 DEF Init
  <2> QED BY <2>1 DEF PoolAhead
<1>4. PoolHand = [s \in Threads |-> Null]
  BY DEF Init, PoolHand, HandOf
<1>5. PoolRunning = {}
  <2>1. \A f \in CbFibers : f \in Fibers /\ f \notin UserFibers
    BY FiberSets, FiberAssumption
  <2>2. \A f \in CbFibers : m_state[f] = "none"
    BY <2>1 DEF Init, FiberInit
  <2> QED BY <2>2 DEF PoolRunning, Begun
<1> QED BY <1>2, <1>3, <1>4, <1>5 DEF Pool!Init

\* The scheduler is a pool of callbacks: each begins once, behind those ahead of it
\* in line that its thread may run, and ends once, whatever fibers share the queue.
THEOREM PoolImplemented == ASSUME Discipline PROVE Spec => ImplementsPool
<1>1. ASSUME IInv, TaskInv, IInv', TaskInv', [Next]_vars PROVE [Pool!Next]_Pool!vars
  <2>1. CASE UNCHANGED vars
    <3>1. UNCHANGED <<m_state, m_cb, pc, m_fibers, ft, cb_fiber, branch>>
      BY <2>1 DEF vars, schedVars, fiberVars, queueVars, loopVars
    <3>2. PoolWaiting' = PoolWaiting
      BY <3>1 DEF PoolWaiting
    <3>3. PoolAhead' = PoolAhead
      BY <3>1 DEF PoolAhead, AheadIn
    <3>4. PoolHand' = PoolHand
      BY <3>1 DEF PoolHand, HandOf, HasCb, HasFiber, Finished
    <3>5. PoolRunning' = PoolRunning
      BY <3>1, RunningSame DEF Begun
    <3> QED BY <3>2, <3>3, <3>4, <3>5 DEF Pool!vars
  <2>2. ASSUME NEW s \in Threads, Life(s) \/ Callers(s) \/ Loop(s) \/ Task(s)
        PROVE  Pool!Next \/ UNCHANGED Pool!vars
    <3>1. Step(s)
      BY <1>1, <2>2 DEF Step
    <3> QED BY <2>2, <3>1, LifePool, CallersPool, LoopPool, TaskPool
  <2> QED BY <1>1, <2>1, <2>2 DEF Next, Terminated
<1> QED BY <1>1, PoolInit, TaskInductive, PTL DEF Spec, ImplementsPool, Pool!Spec
=============================================================================
