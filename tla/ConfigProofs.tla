---------------------------- MODULE ConfigProofs ----------------------------
(***************************************************************************)
(* What the configuration variables and their listeners keep, for any      *)
(* number of threads, names, documents and listeners.                      *)
(*                                                                         *)
(* BaseInv is about locks and locals, and gives the two action properties. *)
(* HistInv is about what the listeners were told, and UniqueInv about the  *)
(* keys, where no two variables are of one type.                           *)
(***************************************************************************)
EXTENDS Config, FiniteSetTheorems, TLAPS

USE DEF setVars, addVars, varVars, visitVars, locks, history

\* What set_value of thread t assigns, and to which variable.
Target(t) == Head(job[t]).name
NewVal(t) == Head(job[t]).val

\* Where set_value has begun to notify.
Setting(t) == pc[t] \in {"notify", "write"}

\* A thread holds a lock exactly where the code is between lock and unlock, and a
\* writer excludes the readers.
RegistryLockInv ==
    \A t \in Threads : /\ t \in readers[Registry] <=> pc[t] = "visit"
                       /\ writer[Registry] = t <=> pc[t] = "mismatch"

NameLockInv ==
    \A t \in Threads, n \in Names :
        /\ t \in readers[n] <=> pc[t] = "notify" /\ Target(t) = n
        /\ writer[n] = t <=> pc[t] \in {"inc", "insert", "return"} /\ loc[t].name = n

ExclusionInv == \A l \in Locks : writer[l] # Null => readers[l] = {}

LockInv == RegistryLockInv /\ NameLockInv /\ ExclusionInv

\* What is left of a document is for this thread to assign; what is being assigned
\* has been converted.
JobInv ==
    /\ \A t \in Threads : pc[t] \in {"found", "notify", "write"} => job[t] # <<>>
    /\ \A t \in Threads : Setting(t) => NewVal(t) \in Values
    /\ \A t \in Threads : \A i \in DOMAIN job[t] : t \in Writers[job[t][i].name]

\* The locals of add_listener and of lookup; the loop of set_value starts before the
\* first key.
LocInv ==
    /\ \A t \in Threads : pc[t] \in {"inc", "insert", "return", "mismatch"} =>
          loc[t].name \in Names /\ datas[loc[t].name] # Null
    /\ \A t \in Threads : pc[t] \in {"inc", "insert", "return"} => loc[t].cb \in Listeners
    /\ \A t \in Threads : pc[t] \in {"idle", "found", "write", "visit"} => loc[t].key = 0

\* The counter stays within the calls of add_listener, and no listener has key 0.
CountInv ==
    /\ \A T \in Types : s_fun_id[T] <= adds
    /\ \A t \in Threads : pc[t] = "inc" => loc[t].key < adds
    /\ \A t \in Threads : pc[t] \in {"insert", "return"} => s_fun_id[datas[loc[t].name]] > 0
    /\ \A n \in Names : m_cbs[n][0] = Null

BaseInv == TypeOK /\ LockInv /\ JobInv /\ LocInv /\ CountInv

\* The listeners the properties are about.
Live(n, k) == m_cbs[n][k] # Null /\ <<n, k>> \notin late

Knows(n, k, v) == \E i \in DOMAIN told[n][k] : told[n][k][i] = v
Latest(n, k) == told[n][k][Len(told[n][k])]

\* The new value has been announced to the listeners that the loop has passed, and
\* before it is written to all.
TellInv ==
    \A t \in Threads : \A k \in Keys : Live(Target(t), k) =>
        /\ pc[t] = "notify" /\ k <= loc[t].key => Knows(Target(t), k, NewVal(t))
        /\ pc[t] = "write" => Knows(Target(t), k, NewVal(t))

ToldInv == \A n \in Names : \A k \in Keys : Live(n, k) => Knows(n, k, m_val[n])

\* If w alone assigns n: what a listener of n was told last, before, while and after
\* w goes through the listeners.
KnowInv ==
    \A n \in Names : \A w \in Threads : Writers[n] = {w} => \A k \in Keys : Live(n, k) =>
        IF Setting(w) /\ Target(w) = n /\ (pc[w] = "write" \/ k <= loc[w].key)
        THEN Latest(n, k) = NewVal(w)
        ELSE threw[n] \/ Latest(n, k) = m_val[n]

HistInv == TellInv /\ ToldInv /\ KnowInv

\* No two variables of one type.
OneOfAType == \A v, w \in Wanted : v[2] = w[2] => v[1] = w[1]

\* The handles of a variable have different keys, up to the counter of its type, and
\* a key that is being drawn is above them.
UniqueInv ==
    /\ \A n \in Names : datas[n] # Null => <<n, datas[n]>> \in Wanted
    /\ \A h \in handles : datas[h.name] # Null /\ h.key <= s_fun_id[datas[h.name]]
    /\ \A g, h \in handles : g.name = h.name /\ g.key = h.key => g = h
    /\ \A t \in Threads : pc[t] = "inc" => loc[t].key = s_fun_id[datas[loc[t].name]]
    /\ \A t \in Threads : pc[t] \in {"insert", "return"} =>
          \A h \in handles : h.name = loc[t].name => h.key < s_fun_id[datas[h.name]]
    /\ \A t \in Threads : pc[t] = "return" =>
          m_cbs[loc[t].name][s_fun_id[datas[loc[t].name]]] = loc[t].cb
    /\ KeysAreUnique

-----------------------------------------------------------------------------
\* The item a thread assigns next, and what is left after it.
LEMMA HeadItem ==
    ASSUME TypeOK, JobInv, NEW t \in Threads, job[t] # <<>>
    PROVE  /\ Target(t) \in Names /\ NewVal(t) \in Values \cup {Bad} /\ t \in Writers[Target(t)]
           /\ Tail(job[t]) \in Seq(Item)
           /\ \A i \in DOMAIN Tail(job[t]) : t \in Writers[Tail(job[t])[i].name]
<1>1. job[t] \in Seq(Item)
  BY DEF TypeOK
<1>2. job[t][1] = Head(job[t]) /\ 1 \in DOMAIN job[t] /\ Head(job[t]) \in Item
  BY <1>1
<1>3. Target(t) \in Names /\ NewVal(t) \in Values \cup {Bad}
  BY <1>2 DEF Target, NewVal, Item
<1>4. t \in Writers[Target(t)]
  BY <1>2 DEF Target, JobInv
<1>5. /\ Tail(job[t]) \in Seq(Item)
      /\ \A i \in DOMAIN Tail(job[t]) : i + 1 \in DOMAIN job[t] /\ Tail(job[t])[i] = job[t][i + 1]
  BY <1>1
<1>6. \A i \in DOMAIN Tail(job[t]) : t \in Writers[Tail(job[t])[i].name]
  BY <1>5 DEF JobInv
<1> QED BY <1>3, <1>4, <1>5, <1>6

\* A thread that is done with an item.
LEMMA ItemDone ==
    ASSUME TypeOK, JobInv, NEW t \in Threads, job[t] # <<>>, NextItem(t),
           pc' = [pc EXCEPT ![t] = "idle"]
    PROVE  job' \in [Threads -> Seq(Item)] /\ JobInv'
<1>1. /\ job' \in [Threads -> Seq(Item)] /\ job'[t] = Tail(job[t])
      /\ \A u \in Threads : u # t => job'[u] = job[u]
  BY HeadItem DEF NextItem, TypeOK
<1>2. pc'[t] = "idle" /\ \A u \in Threads : u # t => pc'[u] = pc[u]
  BY DEF TypeOK
<1>3. \A u \in Threads : pc'[u] \in {"found", "notify", "write"} => job'[u] # <<>>
  BY <1>1, <1>2 DEF JobInv
<1>4. \A u \in Threads : Setting(u)' => NewVal(u)' \in Values
  BY <1>1, <1>2 DEF JobInv, Setting, NewVal
<1>5. \A u \in Threads : \A i \in DOMAIN job'[u] : u \in Writers[job'[u][i].name]
  <2>1. \A i \in DOMAIN job'[t] : t \in Writers[job'[t][i].name]
    BY <1>1, HeadItem
  <2>2. ASSUME NEW u \in Threads, u # t PROVE \A i \in DOMAIN job'[u] : u \in Writers[job'[u][i].name]
    BY <1>1, <2>2 DEF JobInv
  <2> QED BY <2>1, <2>2
<1> QED BY <1>1, <1>3, <1>4, <1>5 DEF JobInv

\* Where jobs stay, and nobody comes to where an item is needed.
LEMMA JobsKept ==
    ASSUME JobInv, UNCHANGED job,
           \A u \in Threads : pc'[u] \in {"found", "notify", "write"} => pc'[u] = pc[u]
    PROVE  JobInv'
BY DEF JobInv, Setting, NewVal

\* Where the locks of the variables stay, and nobody comes to or leaves a place where
\* one is held; and the same for the registry.
LEMMA NameLocksKept ==
    ASSUME NameLockInv, \A n \in Names : readers'[n] = readers[n] /\ writer'[n] = writer[n],
           NEW t \in Threads,
           \A u \in Threads : u # t => pc'[u] = pc[u] /\ job'[u] = job[u] /\ loc'[u] = loc[u],
           pc[t] \notin {"notify", "inc", "insert", "return"},
           pc'[t] \notin {"notify", "inc", "insert", "return"}
    PROVE  NameLockInv'
<1>1. ASSUME NEW u \in Threads, NEW n \in Names, u # t
      PROVE  /\ u \in readers'[n] <=> pc'[u] = "notify" /\ Target(u)' = n
             /\ writer'[n] = u <=> pc'[u] \in {"inc", "insert", "return"} /\ loc'[u].name = n
  BY <1>1 DEF NameLockInv, Target
<1>2. \A n \in Names : t \notin readers'[n] /\ writer'[n] # t
  BY DEF NameLockInv
<1> QED BY <1>1, <1>2 DEF NameLockInv

LEMMA RegistryLockKept ==
    ASSUME RegistryLockInv, readers'[Registry] = readers[Registry], writer'[Registry] = writer[Registry],
           NEW t \in Threads, \A u \in Threads : u # t => pc'[u] = pc[u],
           pc[t] \notin {"visit", "mismatch"}, pc'[t] \notin {"visit", "mismatch"}
    PROVE  RegistryLockInv'
BY DEF RegistryLockInv

\* The locals stay within their type.
LEMMA LocalsUpdate ==
    /\ NoLocals \in Locals /\ NoLocals.key = 0
    /\ \A r \in Locals : \A n \in Names : [r EXCEPT !.name = n] \in Locals
    /\ \A r \in Locals : \A k \in Keys : [r EXCEPT !.key = k] \in Locals
BY ConfigAssumption DEF NoLocals, Locals, Keys

-----------------------------------------------------------------------------
(* The registry.                                                           *)

LEMMA LookupBase ==
    ASSUME BaseInv, NEW t \in Threads, NEW n \in Names, NEW T \in Types, Lookup(t, n, T)
    PROVE  BaseInv'
<1> USE ConfigAssumption DEF BaseInv, Lookup
<1>1. TypeOK'
  <2>1. datas' \in [Names -> Types \cup {Null}]
    BY DEF TypeOK
  <2> QED BY <2>1 DEF TypeOK
<1>2. LockInv'
  BY DEF LockInv, RegistryLockInv, NameLockInv, ExclusionInv, Target
<1>3. JobInv'
  BY DEF JobInv, Setting, NewVal
<1>4. \A m \in Names : datas[m] # Null => datas'[m] = datas[m]
  BY DEF TypeOK
<1>5. LocInv'
  BY <1>4 DEF LocInv
<1>6. CountInv'
  BY <1>4 DEF CountInv, LocInv
<1> QED BY <1>1, <1>2, <1>3, <1>5, <1>6

LEMMA MismatchBase ==
    ASSUME BaseInv, NEW t \in Threads,
           \/ \E n \in Names, T \in Types : LookupMismatch(t, n, T)
           \/ MismatchLogged(t)
    PROVE  BaseInv'
<1> USE ConfigAssumption DEF BaseInv, Goto
<1>1. ASSUME NEW n \in Names, NEW T \in Types, LookupMismatch(t, n, T) PROVE BaseInv'
  <2> USE <1>1 DEF LookupMismatch
  <2>1. TypeOK'
    <3>1. pc' \in [Threads -> Pcs]
      BY DEF TypeOK, Pcs
    <3>2. writer' \in [Locks -> Threads \cup {Null}]
      BY DEF TypeOK, Locks
    <3>3. loc' \in [Threads -> Locals]
      <4>1. loc[t] \in Locals
        BY DEF TypeOK
      <4>2. [loc[t] EXCEPT !.name = n] \in Locals
        BY <4>1, LocalsUpdate
      <4> QED BY <4>2 DEF TypeOK
    <3>4. visits' \in 0..MaxVisits
      BY DEF TypeOK
    <3> QED BY <3>1, <3>2, <3>3, <3>4 DEF TypeOK
  <2>2. LockInv'
    <3>1. /\ \A u \in Threads : u # t => pc'[u] = pc[u] /\ job'[u] = job[u] /\ loc'[u] = loc[u]
          /\ pc[t] = "idle" /\ pc'[t] = "mismatch"
          /\ \A n1 \in Names : readers'[n1] = readers[n1] /\ writer'[n1] = writer[n1]
      BY DEF TypeOK, Locks
    <3>2. NameLockInv'
      BY <3>1, NameLocksKept DEF LockInv
    <3>3. RegistryLockInv'
      BY <3>1 DEF LockInv, RegistryLockInv, TypeOK, Locks, CanWrite
    <3>4. ExclusionInv'
      BY DEF LockInv, ExclusionInv, TypeOK, Locks, CanWrite
    <3> QED BY <3>2, <3>3, <3>4 DEF LockInv
  <2>3. JobInv'
    BY JobsKept DEF TypeOK
  <2>4. LocInv'
    BY DEF TypeOK, LocInv
  <2>5. CountInv'
    BY DEF TypeOK, CountInv
  <2> QED BY <2>1, <2>2, <2>3, <2>4, <2>5
<1>2. CASE MismatchLogged(t)
  <2> USE <1>2 DEF MismatchLogged, DropLocals
  <2>1. TypeOK'
    <3>1. pc' \in [Threads -> Pcs]
      BY DEF TypeOK, Pcs
    <3>2. writer' \in [Locks -> Threads \cup {Null}]
      BY DEF TypeOK, Locks
    <3>3. loc' \in [Threads -> Locals]
      BY LocalsUpdate DEF TypeOK
    <3> QED BY <3>1, <3>2, <3>3 DEF TypeOK
  <2>2. LockInv'
    <3>1. /\ \A u \in Threads : u # t => pc'[u] = pc[u] /\ job'[u] = job[u] /\ loc'[u] = loc[u]
          /\ pc[t] = "mismatch" /\ pc'[t] = "idle"
          /\ \A n \in Names : readers'[n] = readers[n] /\ writer'[n] = writer[n]
      BY DEF TypeOK, Locks
    <3>2. NameLockInv'
      BY <3>1, NameLocksKept DEF LockInv
    <3>3. RegistryLockInv'
      BY <3>1 DEF LockInv, RegistryLockInv, TypeOK, Locks
    <3>4. ExclusionInv'
      BY DEF LockInv, ExclusionInv, TypeOK, Locks
    <3> QED BY <3>2, <3>3, <3>4 DEF LockInv
  <2>3. JobInv'
    BY JobsKept DEF TypeOK
  <2>4. LocInv'
    BY DEF TypeOK, LocInv, NoLocals
  <2>5. CountInv'
    BY DEF TypeOK, CountInv
  <2> QED BY <2>1, <2>2, <2>3, <2>4, <2>5
<1> QED BY <1>1, <1>2

LEMMA VisitBase ==
    ASSUME BaseInv, NEW t \in Threads, Visit(t) \/ Visited(t) \/ \E n \in Names : VisitOne(t, n)
    PROVE  BaseInv'
<1> USE ConfigAssumption DEF BaseInv, Goto
<1>1. CASE Visit(t)
  <2> USE <1>1 DEF Visit
  <2>1. TypeOK'
    <3>1. pc' \in [Threads -> Pcs]
      BY DEF TypeOK, Pcs
    <3>2. readers' \in [Locks -> SUBSET Threads]
      BY DEF TypeOK, Locks
    <3>3. visits' \in 0..MaxVisits
      BY DEF TypeOK
    <3> QED BY <3>1, <3>2, <3>3 DEF TypeOK
  <2>2. LockInv'
    <3>1. /\ \A u \in Threads : u # t => pc'[u] = pc[u] /\ job'[u] = job[u] /\ loc'[u] = loc[u]
          /\ pc[t] = "idle" /\ pc'[t] = "visit"
          /\ \A n \in Names : readers'[n] = readers[n] /\ writer'[n] = writer[n]
      BY DEF TypeOK, Locks
    <3>2. NameLockInv'
      BY <3>1, NameLocksKept DEF LockInv
    <3>3. RegistryLockInv'
      BY <3>1 DEF LockInv, RegistryLockInv, TypeOK, Locks
    <3>4. ExclusionInv'
      BY DEF LockInv, ExclusionInv, TypeOK, Locks, CanRead
    <3> QED BY <3>2, <3>3, <3>4 DEF LockInv
  <2>3. JobInv'
    BY JobsKept DEF TypeOK
  <2>4. LocInv'
    BY DEF TypeOK, LocInv
  <2>5. CountInv'
    BY DEF TypeOK, CountInv
  <2> QED BY <2>1, <2>2, <2>3, <2>4, <2>5
<1>2. CASE Visited(t)
  <2> USE <1>2 DEF Visited
  <2>1. TypeOK'
    <3>1. pc' \in [Threads -> Pcs]
      BY DEF TypeOK, Pcs
    <3>2. readers' \in [Locks -> SUBSET Threads]
      BY DEF TypeOK, Locks
    <3>3. seen' \in [Threads -> SUBSET Names]
      BY DEF TypeOK
    <3> QED BY <3>1, <3>2, <3>3 DEF TypeOK
  <2>2. LockInv'
    <3>1. /\ \A u \in Threads : u # t => pc'[u] = pc[u] /\ job'[u] = job[u] /\ loc'[u] = loc[u]
          /\ pc[t] = "visit" /\ pc'[t] = "idle"
          /\ \A n \in Names : readers'[n] = readers[n] /\ writer'[n] = writer[n]
      BY DEF TypeOK, Locks
    <3>2. NameLockInv'
      BY <3>1, NameLocksKept DEF LockInv
    <3>3. RegistryLockInv'
      BY <3>1 DEF LockInv, RegistryLockInv, TypeOK, Locks
    <3>4. ExclusionInv'
      BY DEF LockInv, ExclusionInv, TypeOK, Locks
    <3> QED BY <3>2, <3>3, <3>4 DEF LockInv
  <2>3. JobInv'
    BY JobsKept DEF TypeOK
  <2>4. LocInv'
    BY DEF TypeOK, LocInv
  <2>5. CountInv'
    BY DEF TypeOK, CountInv
  <2> QED BY <2>1, <2>2, <2>3, <2>4, <2>5
<1>3. ASSUME NEW n \in Names, VisitOne(t, n) PROVE BaseInv'
  <2> USE <1>3 DEF VisitOne
  <2>1. TypeOK'
    <3>1. seen' \in [Threads -> SUBSET Names]
      BY DEF TypeOK
    <3> QED BY <3>1 DEF TypeOK
  <2>2. LockInv'
    BY DEF LockInv, RegistryLockInv, NameLockInv, ExclusionInv, Target
  <2>3. JobInv'
    BY JobsKept
  <2>4. LocInv' /\ CountInv'
    BY DEF LocInv, CountInv
  <2> QED BY <2>1, <2>2, <2>3, <2>4
<1> QED BY <1>1, <1>2, <1>3

-----------------------------------------------------------------------------
(* Assignment.                                                             *)

LEMMA AssignBase ==
    ASSUME BaseInv, NEW t \in Threads, NEW d \in Documents, Assign(t, d)
    PROVE  BaseInv'
<1> USE ConfigAssumption DEF BaseInv, Assign, Idle
<1>1. d \in Seq(Item) /\ job' \in [Threads -> Seq(Item)] /\ job'[t] = d
      /\ \A u \in Threads : u # t => job'[u] = job[u]
  BY DEF TypeOK
<1>2. TypeOK'
  <2>1. jobs' \in 0..MaxJobs
    BY DEF TypeOK
  <2> QED BY <1>1, <2>1 DEF TypeOK
<1>3. LockInv'
  <2>1. NameLockInv'
    BY <1>1, NameLocksKept DEF LockInv
  <2> QED BY <2>1 DEF LockInv, RegistryLockInv, ExclusionInv
<1>4. JobInv'
  BY <1>1 DEF JobInv, Setting, NewVal
<1>5. LocInv' /\ CountInv'
  BY DEF LocInv, CountInv
<1> QED BY <1>2, <1>3, <1>4, <1>5

\* An item that is skipped, not converted or not new; no lock is kept.
LEMMA ItemBase ==
    ASSUME BaseInv, NEW t \in Threads, SkipItem(t) \/ FromStrThrows(t) \/ SetSame(t)
    PROVE  BaseInv'
<1> USE DEF BaseInv
<1>1. /\ pc[t] \in {"idle", "found"} /\ job[t] # <<>> /\ NextItem(t)
      /\ pc' = [pc EXCEPT ![t] = "idle"]
      /\ UNCHANGED <<jobs, addVars, varVars, visitVars, locks, history>>
  BY DEF SkipItem, FromStrThrows, SetSame, Goto, JobInv, TypeOK
<1>2. pc' \in [Threads -> Pcs] /\ pc'[t] = "idle" /\ \A u \in Threads : u # t => pc'[u] = pc[u]
  BY <1>1 DEF TypeOK, Pcs
<1>3. job' \in [Threads -> Seq(Item)] /\ JobInv'
  BY <1>1, ItemDone
<1>4. TypeOK'
  BY <1>1, <1>2, <1>3 DEF TypeOK
<1>5. LockInv'
  <2>1. \A u \in Threads : u # t => job'[u] = job[u]
    BY <1>1 DEF NextItem, TypeOK
  <2>2. NameLockInv'
    BY <1>1, <1>2, <2>1, NameLocksKept DEF LockInv
  <2>3. RegistryLockInv'
    BY <1>1, <1>2, RegistryLockKept DEF LockInv
  <2> QED BY <1>1, <2>2, <2>3 DEF LockInv, ExclusionInv
<1>6. LocInv'
  BY <1>1, <1>2 DEF LocInv
<1>7. CountInv'
  BY <1>1, <1>2 DEF CountInv
<1> QED BY <1>3, <1>4, <1>5, <1>6, <1>7

LEMMA FindVarBase == ASSUME BaseInv, NEW t \in Threads, FindVar(t) PROVE BaseInv'
<1> USE DEF BaseInv, FindVar
<1>1. pc' \in [Threads -> Pcs] /\ pc'[t] = "found" /\ \A u \in Threads : u # t => pc'[u] = pc[u]
  BY DEF TypeOK, Pcs, Goto
<1>2. TypeOK'
  BY <1>1 DEF TypeOK
<1>3. LockInv'
  <2>1. pc[t] = "idle"
    BY DEF Goto
  <2>2. NameLockInv'
    BY <1>1, <2>1, NameLocksKept DEF LockInv
  <2>3. RegistryLockInv'
    BY <1>1, <2>1, RegistryLockKept DEF LockInv
  <2> QED BY <2>2, <2>3 DEF LockInv, ExclusionInv
<1>4. JobInv'
  BY <1>1 DEF JobInv, Setting, NewVal
<1>5. LocInv'
  BY <1>1 DEF LocInv, Goto
<1>6. CountInv'
  BY <1>1 DEF CountInv
<1> QED BY <1>2, <1>3, <1>4, <1>5, <1>6

\* set_value takes the read lock ...
LEMMA SetBeginBase == ASSUME BaseInv, NEW t \in Threads, SetBegin(t) PROVE BaseInv'
<1> USE DEF BaseInv
<1>1. /\ pc[t] = "found" /\ pc'[t] = "notify" /\ pc' \in [Threads -> Pcs]
      /\ \A u \in Threads : u # t => pc'[u] = pc[u]
  BY DEF SetBegin, Goto, TypeOK, Pcs
<1>2. /\ job[t] # <<>> /\ Target(t) \in Names /\ NewVal(t) \in Values \cup {Bad}
      /\ NewVal(t) # Bad /\ writer[Target(t)] = Null
      /\ UNCHANGED <<setVars, addVars, varVars, visitVars, writer, history>>
  BY <1>1, HeadItem DEF SetBegin, CanRead, JobInv, Target, NewVal
<1>3. readers' = [readers EXCEPT ![Target(t)] = @ \cup {t}]
  BY DEF SetBegin, Target
<1>4. TypeOK'
  <2>1. readers' \in [Locks -> SUBSET Threads]
    BY <1>2, <1>3 DEF TypeOK, Locks
  <2> QED BY <1>1, <1>2, <2>1 DEF TypeOK
<1>5. LockInv'
  <2>1. /\ readers'[Target(t)] = readers[Target(t)] \cup {t}
        /\ \A l \in Locks : l # Target(t) => readers'[l] = readers[l]
    BY <1>2, <1>3 DEF TypeOK, Locks
  <2>2. RegistryLockInv'
    BY <1>1, <1>2, <2>1, RegistryLockKept, ConfigAssumption DEF LockInv, Locks
  <2>3. NameLockInv'
    BY <1>1, <1>2, <2>1 DEF LockInv, NameLockInv, Target, Locks
  <2>4. ExclusionInv'
    BY <1>2, <2>1 DEF LockInv, ExclusionInv
  <2> QED BY <2>2, <2>3, <2>4 DEF LockInv
<1>6. JobInv'
  BY <1>1, <1>2 DEF JobInv, Setting, NewVal
<1>7. LocInv'
  BY <1>1, <1>2 DEF LocInv
<1>8. CountInv'
  BY <1>1, <1>2 DEF CountInv
<1> QED BY <1>4, <1>5, <1>6, <1>7, <1>8

\* ... goes through the listeners ...
LEMMA NotifyBase == ASSUME BaseInv, NEW t \in Threads, Notify(t) PROVE BaseInv'
<1> USE DEF BaseInv
<1>1. PICK k \in Pending(t) :
        /\ loc' = [loc EXCEPT ![t].key = k]
        /\ told' = [told EXCEPT ![Target(t)][k] = Append(@, NewVal(t))]
  BY DEF Notify, Target, NewVal
<1>2. pc[t] = "notify" /\ UNCHANGED <<setVars, s_fun_id, handles, adds, varVars, locks, late, threw, pc, visitVars>>
  BY DEF Notify
<1>3. k \in Keys /\ job[t] # <<>> /\ Target(t) \in Names /\ NewVal(t) \in Values
  BY <1>2, HeadItem DEF Pending, JobInv, Setting
<1>4. loc' \in [Threads -> Locals] /\ \A u \in Threads : u # t => loc'[u] = loc[u]
  <2>1. [loc[t] EXCEPT !.key = k] \in Locals
    BY <1>3, LocalsUpdate DEF TypeOK
  <2> QED BY <1>1, <2>1 DEF TypeOK
<1>5. TypeOK'
  <2>1. told[Target(t)] \in [Keys -> Seq(Values)]
    BY <1>3 DEF TypeOK
  <2>2. Append(told[Target(t)][k], NewVal(t)) \in Seq(Values)
    BY <1>3, <2>1
  <2>3. told' \in [Names -> [Keys -> Seq(Values)]]
    BY <1>1, <1>3, <2>1, <2>2 DEF TypeOK
  <2> QED BY <1>2, <1>4, <2>3 DEF TypeOK
<1>6. LockInv'
  BY <1>2, <1>4 DEF LockInv, RegistryLockInv, NameLockInv, ExclusionInv, Target
<1>7. JobInv'
  BY <1>2, JobsKept
<1>8. LocInv'
  BY <1>2, <1>4 DEF LocInv
<1>9. CountInv'
  BY <1>2, <1>4 DEF CountInv
<1> QED BY <1>5, <1>6, <1>7, <1>8, <1>9

\* ... and gives the lock back, also when a listener throws.
LEMMA NotifiedBase ==
    ASSUME BaseInv, NEW t \in Threads, ListenerThrows(t) \/ Notified(t)
    PROVE  BaseInv'
<1> USE DEF BaseInv
<1>1. /\ pc[t] = "notify" /\ pc'[t] \in {"idle", "write"} /\ pc' \in [Threads -> Pcs]
      /\ \A u \in Threads : u # t => pc'[u] = pc[u]
  BY DEF ListenerThrows, Notified, Goto, TypeOK, Pcs
<1>2. /\ job[t] # <<>> /\ Target(t) \in Names /\ NewVal(t) \in Values
  BY <1>1, HeadItem DEF JobInv, Setting
<1>3. /\ readers' = [readers EXCEPT ![Target(t)] = @ \ {t}]
      /\ loc' = [loc EXCEPT ![t] = NoLocals]
      /\ UNCHANGED <<jobs, s_fun_id, handles, adds, varVars, writer, told, late, visitVars>>
  BY DEF ListenerThrows, Notified, ReleaseRead, Target, DropLocals
<1>4. job' \in [Threads -> Seq(Item)] /\ JobInv' /\ \A u \in Threads : u # t => job'[u] = job[u]
  <2>1. CASE ListenerThrows(t)
    BY <1>2, <2>1, ItemDone DEF ListenerThrows, Goto, NextItem, TypeOK
  <2>2. CASE Notified(t)
    <3>1. UNCHANGED job /\ pc'[t] = "write"
      BY <2>2 DEF Notified, Goto, TypeOK
    <3> QED BY <1>1, <1>2, <3>1 DEF TypeOK, JobInv, Setting, NewVal
  <2> QED BY <2>1, <2>2
<1>5. /\ loc' \in [Threads -> Locals] /\ loc'[t].key = 0
      /\ \A u \in Threads : u # t => loc'[u] = loc[u]
  BY <1>3, LocalsUpdate DEF TypeOK
<1>6. /\ readers' \in [Locks -> SUBSET Threads] /\ readers'[Target(t)] = readers[Target(t)] \ {t}
      /\ \A l \in Locks : l # Target(t) => readers'[l] = readers[l]
  BY <1>2, <1>3 DEF TypeOK, Locks
<1>7. TypeOK'
  <2>1. threw' \in [Names -> BOOLEAN]
    BY <1>2 DEF ListenerThrows, Notified, TypeOK, Target
  <2> QED BY <1>1, <1>3, <1>4, <1>5, <1>6, <2>1 DEF TypeOK
<1>8. LockInv'
  <2>1. RegistryLockInv'
    BY <1>1, <1>2, <1>3, <1>6, RegistryLockKept, ConfigAssumption DEF LockInv, Locks
  <2>2. NameLockInv'
    <3>1. ASSUME NEW u \in Threads, NEW n \in Names, u # t
          PROVE  /\ u \in readers'[n] <=> pc'[u] = "notify" /\ Target(u)' = n
                 /\ writer'[n] = u <=> pc'[u] \in {"inc", "insert", "return"} /\ loc'[u].name = n
      <4>1. u \in readers'[n] <=> u \in readers[n]
        BY <1>6, <3>1 DEF Locks
      <4>2. Target(u)' = Target(u)
        BY <1>4, <3>1 DEF Target
      <4>3. pc'[u] = pc[u] /\ loc'[u] = loc[u] /\ writer'[n] = writer[n]
        BY <1>1, <1>3, <1>5, <3>1
      <4> QED BY <4>1, <4>2, <4>3 DEF LockInv, NameLockInv
    <3>2. \A n \in Names : t \notin readers'[n] /\ writer'[n] # t
      BY <1>1, <1>3, <1>6 DEF LockInv, NameLockInv, Locks
    <3> QED BY <1>1, <3>1, <3>2 DEF NameLockInv
  <2>3. ExclusionInv'
    BY <1>2, <1>3, <1>6 DEF LockInv, ExclusionInv
  <2> QED BY <2>1, <2>2, <2>3 DEF LockInv
<1>9. LocInv'
  BY <1>1, <1>3, <1>5 DEF LocInv
<1>10. CountInv'
  BY <1>1, <1>3, <1>5 DEF CountInv
<1> QED BY <1>4, <1>7, <1>8, <1>9, <1>10

\* The write lock is taken and given back within the step.
LEMMA WriteBase == ASSUME BaseInv, NEW t \in Threads, Write(t) PROVE BaseInv'
<1> USE DEF BaseInv
<1>1. /\ pc[t] = "write" /\ pc' = [pc EXCEPT ![t] = "idle"] /\ NextItem(t)
      /\ pc'[t] = "idle" /\ pc' \in [Threads -> Pcs]
      /\ \A u \in Threads : u # t => pc'[u] = pc[u]
  BY DEF Write, Goto, TypeOK, Pcs
<1>2. job[t] # <<>> /\ Target(t) \in Names /\ NewVal(t) \in Values
  BY <1>1, HeadItem DEF JobInv, Setting
<1>3. /\ m_val' = [m_val EXCEPT ![Target(t)] = NewVal(t)]
      /\ threw' = [threw EXCEPT ![Target(t)] = FALSE]
      /\ UNCHANGED <<jobs, addVars, datas, m_cbs, locks, told, late, visitVars>>
  BY DEF Write, Target, NewVal
<1>4. job' \in [Threads -> Seq(Item)] /\ JobInv'
  BY <1>1, <1>2, ItemDone
<1>5. TypeOK'
  <2>1. m_val' \in [Names -> Values] /\ threw' \in [Names -> BOOLEAN]
    BY <1>2, <1>3 DEF TypeOK
  <2> QED BY <1>1, <1>3, <1>4, <2>1 DEF TypeOK
<1>6. LockInv'
  <2>1. \A u \in Threads : u # t => job'[u] = job[u]
    BY <1>1 DEF NextItem, TypeOK
  <2>2. NameLockInv'
    BY <1>1, <1>3, <2>1, NameLocksKept DEF LockInv
  <2>3. RegistryLockInv'
    BY <1>1, <1>3, RegistryLockKept DEF LockInv
  <2> QED BY <1>3, <2>2, <2>3 DEF LockInv, ExclusionInv
<1>7. LocInv'
  BY <1>1, <1>3 DEF LocInv
<1>8. CountInv'
  BY <1>1, <1>3 DEF CountInv
<1> QED BY <1>4, <1>5, <1>6, <1>7, <1>8

-----------------------------------------------------------------------------
(* Listeners.                                                              *)

\* add_listener takes the write lock ...
LEMMA AddListenerBase ==
    ASSUME BaseInv, NEW t \in Threads, NEW n \in Names, NEW l \in Listeners, AddListener(t, n, l)
    PROVE  BaseInv'
<1> USE ConfigAssumption DEF BaseInv
<1> DEFINE r == [name |-> n, key |-> s_fun_id[datas[n]], cb |-> l]
<1>1. /\ pc[t] = "idle" /\ pc'[t] = "inc" /\ pc' \in [Threads -> Pcs]
      /\ \A u \in Threads : u # t => pc'[u] = pc[u]
  BY DEF AddListener, Goto, TypeOK, Pcs
<1>2. /\ writer[n] = Null /\ readers[n] = {} /\ adds < MaxAdds /\ adds' = adds + 1
      /\ datas[n] \in Types /\ loc' = [loc EXCEPT ![t] = r]
      /\ UNCHANGED <<setVars, s_fun_id, handles, varVars, readers, history, visitVars>>
  BY DEF AddListener, CanWrite, TypeOK
<1>3. r \in Locals
  BY <1>2 DEF TypeOK, Locals
<1>4. /\ loc' \in [Threads -> Locals] /\ loc'[t] = r
      /\ \A u \in Threads : u # t => loc'[u] = loc[u]
  BY <1>2, <1>3 DEF TypeOK
<1>5. /\ writer' \in [Locks -> Threads \cup {Null}] /\ writer'[n] = t
      /\ \A x \in Locks : x # n => writer'[x] = writer[x]
  BY DEF AddListener, TypeOK, Locks
<1>6. TypeOK'
  <2>1. adds' \in 0..MaxAdds
    BY <1>2 DEF TypeOK
  <2> QED BY <1>1, <1>2, <1>4, <1>5, <2>1 DEF TypeOK
<1>7. LockInv'
  <2>1. RegistryLockInv'
    BY <1>1, <1>2, <1>5, RegistryLockKept DEF LockInv, Locks
  <2>2. NameLockInv'
    <3>1. ASSUME NEW u \in Threads, NEW m \in Names
          PROVE  u \in readers'[m] <=> pc'[u] = "notify" /\ Target(u)' = m
      BY <1>1, <1>2 DEF LockInv, NameLockInv, Target
    <3>2. ASSUME NEW u \in Threads, NEW m \in Names
          PROVE  writer'[m] = u <=> pc'[u] \in {"inc", "insert", "return"} /\ loc'[u].name = m
      <4>1. loc'[t].name = n
        BY <1>4
      <4> QED BY <1>1, <1>2, <1>4, <1>5, <4>1 DEF LockInv, NameLockInv, Locks
    <3> QED BY <3>1, <3>2 DEF NameLockInv
  <2>3. ExclusionInv'
    BY <1>2, <1>5 DEF LockInv, ExclusionInv
  <2> QED BY <2>1, <2>2, <2>3 DEF LockInv
<1>8. JobInv'
  BY <1>1, <1>2, JobsKept
<1>9. LocInv'
  <2>1. loc'[t].name = n /\ loc'[t].cb = l
    BY <1>4
  <2> QED BY <1>1, <1>2, <1>4, <2>1 DEF LocInv
<1>10. CountInv'
  <2>1. loc'[t].key = s_fun_id[datas[n]]
    BY <1>4
  <2>2. s_fun_id \in [Types -> Nat] /\ adds \in Nat
    BY DEF TypeOK, Keys
  <2>3. \A T \in Types : s_fun_id'[T] <= adds'
    BY <1>2, <2>2 DEF CountInv
  <2>4. \A u \in Threads : pc'[u] = "inc" => loc'[u].key < adds'
    <3>1. \A u \in Threads : loc[u].key \in Nat
      BY DEF TypeOK, Locals, Keys
    <3> QED BY <1>1, <1>2, <1>4, <2>1, <2>2, <3>1 DEF CountInv
  <2>5. \A u \in Threads : pc'[u] \in {"insert", "return"} => s_fun_id'[datas'[loc'[u].name]] > 0
    BY <1>1, <1>2, <1>4 DEF CountInv
  <2> QED BY <1>2, <2>3, <2>4, <2>5 DEF CountInv
<1> QED BY <1>6, <1>7, <1>8, <1>9, <1>10

\* ... draws a key, and enters the listener under what the counter then says ...
LEMMA StoreCounterBase == ASSUME BaseInv, NEW t \in Threads, StoreCounter(t) PROVE BaseInv'
<1> USE ConfigAssumption DEF BaseInv
<1>1. /\ pc[t] = "inc" /\ pc'[t] = "insert" /\ pc' \in [Threads -> Pcs]
      /\ \A u \in Threads : u # t => pc'[u] = pc[u]
  BY DEF StoreCounter, Goto, TypeOK, Pcs
<1>2. /\ loc[t].name \in Names /\ datas[loc[t].name] \in Types
      /\ loc[t].key \in Nat /\ loc[t].key < adds /\ adds \in Nat /\ adds <= MaxAdds
      /\ UNCHANGED <<setVars, loc, handles, adds, varVars, locks, history, visitVars>>
  BY <1>1 DEF StoreCounter, LocInv, CountInv, TypeOK, Locals, Keys
<1>3. /\ s_fun_id' \in [Types -> Keys]
      /\ s_fun_id'[datas[loc[t].name]] = loc[t].key + 1
      /\ \A T \in Types : s_fun_id'[T] \in {s_fun_id[T], loc[t].key + 1}
  BY <1>2 DEF StoreCounter, TypeOK, Keys
<1>4. TypeOK'
  BY <1>1, <1>2, <1>3 DEF TypeOK
<1>5. LockInv'
  <2>1. RegistryLockInv'
    BY <1>1, <1>2, RegistryLockKept DEF LockInv
  <2>2. NameLockInv'
    BY <1>1, <1>2 DEF LockInv, NameLockInv, Target
  <2> QED BY <1>2, <2>1, <2>2 DEF LockInv, ExclusionInv
<1>6. JobInv'
  BY <1>1, <1>2, JobsKept
<1>7. LocInv'
  BY <1>1, <1>2 DEF LocInv
<1>8. CountInv'
  <2>1. \A T \in Types : s_fun_id'[T] <= adds'
    BY <1>2, <1>3 DEF CountInv
  <2>2. \A u \in Threads : pc'[u] = "inc" => loc'[u].key < adds'
    BY <1>1, <1>2 DEF CountInv
  <2>3. ASSUME NEW u \in Threads, pc'[u] \in {"insert", "return"}
        PROVE  s_fun_id'[datas'[loc'[u].name]] > 0
    <3>1. CASE u = t
      BY <1>2, <1>3, <3>1
    <3>2. CASE u # t
      <4>1. datas[loc[u].name] \in Types /\ s_fun_id[datas[loc[u].name]] > 0
        BY <1>1, <2>3, <3>2 DEF LocInv, CountInv, TypeOK
      <4> QED BY <1>2, <1>3, <4>1
    <3> QED BY <3>1, <3>2
  <2> QED BY <1>2, <2>1, <2>2, <2>3 DEF CountInv
<1> QED BY <1>4, <1>5, <1>6, <1>7, <1>8

\* What Insert writes.
InsertsAt(t, n, k) ==
    /\ n = loc[t].name /\ k = s_fun_id[datas[n]] /\ k > 0 /\ loc[t].cb \in Listeners
    /\ pc[t] = "insert" /\ pc'[t] = "return" /\ pc' \in [Threads -> Pcs]
    /\ \A u \in Threads : u # t => pc'[u] = pc[u]
    /\ m_cbs' = [m_cbs EXCEPT ![n][k] = loc[t].cb]
    /\ told' = [told EXCEPT ![n][k] = <<m_val[n]>>]
    /\ late' = IF \E u \in Threads : Writing(u, n) THEN late \cup {<<n, k>>} ELSE late
    /\ UNCHANGED <<setVars, addVars, datas, m_val, locks, threw, visitVars>>

LEMMA InsertFacts ==
    ASSUME BaseInv, NEW t \in Threads, Insert(t)
    PROVE  \E n \in Names, k \in Keys : InsertsAt(t, n, k)
<1> DEFINE n == loc[t].name
           k == s_fun_id[datas[n]]
<1> USE DEF BaseInv
<1>1. /\ pc[t] = "insert" /\ pc'[t] = "return" /\ pc' \in [Threads -> Pcs]
      /\ \A u \in Threads : u # t => pc'[u] = pc[u]
  BY DEF Insert, Goto, TypeOK, Pcs
<1>2. n \in Names /\ datas[n] \in Types /\ loc[t].cb \in Listeners
  BY <1>1 DEF LocInv, TypeOK
<1>3. k \in Keys /\ k > 0
  BY <1>1, <1>2 DEF TypeOK, CountInv
<1>4. /\ m_cbs' = [m_cbs EXCEPT ![n][k] = loc[t].cb]
      /\ told' = [told EXCEPT ![n][k] = <<m_val[n]>>]
      /\ late' = IF \E u \in Threads : Writing(u, n) THEN late \cup {<<n, k>>} ELSE late
      /\ UNCHANGED <<setVars, addVars, datas, m_val, locks, threw, visitVars>>
  BY DEF Insert
<1>5. InsertsAt(t, n, k)
  BY <1>1, <1>2, <1>3, <1>4 DEF InsertsAt
<1> QED BY <1>2, <1>3, <1>5

LEMMA InsertBase == ASSUME BaseInv, NEW t \in Threads, Insert(t) PROVE BaseInv'
<1> USE ConfigAssumption DEF BaseInv
<1>a. PICK n \in Names, k \in Keys : InsertsAt(t, n, k)
  BY InsertFacts
<1>1. /\ n \in Names /\ k \in Keys /\ k > 0 /\ loc[t].cb \in Listeners
      /\ pc[t] = "insert" /\ pc'[t] = "return" /\ pc' \in [Threads -> Pcs]
      /\ \A u \in Threads : u # t => pc'[u] = pc[u]
      /\ m_cbs' = [m_cbs EXCEPT ![n][k] = loc[t].cb]
      /\ told' = [told EXCEPT ![n][k] = <<m_val[n]>>]
      /\ late' = IF \E u \in Threads : Writing(u, n) THEN late \cup {<<n, k>>} ELSE late
      /\ UNCHANGED <<setVars, addVars, datas, m_val, locks, threw, visitVars>>
  BY <1>a DEF InsertsAt
<1>2. TypeOK'
  <2>1. m_cbs' \in [Names -> [Keys -> Listeners \cup {Null}]]
    BY <1>1 DEF TypeOK
  <2>2. told' \in [Names -> [Keys -> Seq(Values)]]
    <3>1. <<m_val[n]>> \in Seq(Values)
      BY <1>1 DEF TypeOK
    <3> QED BY <1>1, <3>1 DEF TypeOK
  <2>3. late' \subseteq Names \X Keys
    BY <1>1 DEF TypeOK
  <2> QED BY <1>1, <2>1, <2>2, <2>3 DEF TypeOK
<1>3. LockInv'
  <2>1. RegistryLockInv'
    BY <1>1, RegistryLockKept DEF LockInv
  <2>2. NameLockInv'
    BY <1>1 DEF LockInv, NameLockInv, Target
  <2> QED BY <1>1, <2>1, <2>2 DEF LockInv, ExclusionInv
<1>4. JobInv'
  BY <1>1, JobsKept
<1>5. LocInv'
  BY <1>1 DEF LocInv
<1>6. CountInv'
  <2>1. \A m \in Names : m_cbs'[m][0] = m_cbs[m][0]
    BY <1>1 DEF TypeOK, Keys
  <2>2. ASSUME NEW u \in Threads, pc'[u] \in {"insert", "return"}
        PROVE  s_fun_id'[datas'[loc'[u].name]] > 0
    BY <1>1, <2>2 DEF CountInv
  <2> QED BY <1>1, <2>1, <2>2 DEF CountInv
<1> QED BY <1>2, <1>3, <1>4, <1>5, <1>6

\* ... and returns that key and the lock.
LEMMA ReturnKeyBase == ASSUME BaseInv, NEW t \in Threads, ReturnKey(t) PROVE BaseInv'
<1> USE ConfigAssumption DEF BaseInv
<1>1. /\ pc[t] = "return" /\ pc'[t] = "idle" /\ pc' \in [Threads -> Pcs]
      /\ \A u \in Threads : u # t => pc'[u] = pc[u]
  BY DEF ReturnKey, Goto, TypeOK, Pcs
<1>2. /\ loc[t].name \in Names /\ datas[loc[t].name] \in Types /\ loc[t].cb \in Listeners
      /\ UNCHANGED <<setVars, s_fun_id, adds, varVars, readers, history, visitVars>>
  BY <1>1 DEF ReturnKey, LocInv, TypeOK
<1>3. /\ loc' \in [Threads -> Locals] /\ loc'[t].key = 0
      /\ \A u \in Threads : u # t => loc'[u] = loc[u]
  BY LocalsUpdate DEF ReturnKey, DropLocals, TypeOK
<1>4. /\ writer' \in [Locks -> Threads \cup {Null}] /\ writer'[loc[t].name] = Null
      /\ \A x \in Locks : x # loc[t].name => writer'[x] = writer[x]
  BY <1>2 DEF ReturnKey, TypeOK, Locks
<1>5. handles' \subseteq [name : Names, key : Keys, cb : Listeners]
  BY <1>2 DEF ReturnKey, TypeOK
<1>6. TypeOK'
  BY <1>1, <1>2, <1>3, <1>4, <1>5 DEF TypeOK
<1>7. LockInv'
  <2>1. RegistryLockInv'
    BY <1>1, <1>2, <1>4, RegistryLockKept DEF LockInv, Locks
  <2>2. NameLockInv'
    <3>1. ASSUME NEW u \in Threads, NEW m \in Names
          PROVE  u \in readers'[m] <=> pc'[u] = "notify" /\ Target(u)' = m
      BY <1>1, <1>2 DEF LockInv, NameLockInv, Target
    <3>2. ASSUME NEW u \in Threads, NEW m \in Names
          PROVE  writer'[m] = u <=> pc'[u] \in {"inc", "insert", "return"} /\ loc'[u].name = m
      BY <1>1, <1>2, <1>3, <1>4 DEF LockInv, NameLockInv, Locks
    <3> QED BY <3>1, <3>2 DEF NameLockInv
  <2>3. ExclusionInv'
    BY <1>2, <1>4 DEF LockInv, ExclusionInv
  <2> QED BY <2>1, <2>2, <2>3 DEF LockInv
<1>8. JobInv'
  BY <1>1, <1>2, JobsKept
<1>9. LocInv'
  BY <1>1, <1>2, <1>3 DEF LocInv
<1>10. CountInv'
  BY <1>1, <1>2, <1>3 DEF CountInv
<1> QED BY <1>6, <1>7, <1>8, <1>9, <1>10

\* del_lietener and clear_listener, under the write lock.
Removed(n, keys) ==
    /\ writer[n] = Null /\ readers[n] = {}
    /\ m_cbs' \in [Names -> [Keys -> Listeners \cup {Null}]]
    /\ \A k \in Keys : m_cbs'[n][k] = IF k \in keys THEN Null ELSE m_cbs[n][k]
    /\ \A m \in Names : m # n => m_cbs'[m] = m_cbs[m]
    /\ told' \in [Names -> [Keys -> Seq(Values)]]
    /\ \A k \in Keys \ keys : told'[n][k] = told[n][k]
    /\ \A m \in Names : m # n => told'[m] = told[m]
    /\ late' = late \ ({n} \X keys)
    /\ handles' \subseteq handles
    /\ UNCHANGED <<setVars, s_fun_id, loc, adds, datas, m_val, locks, threw, pc, visitVars>>

LEMMA RemoveFacts ==
    ASSUME BaseInv, NEW t \in Threads,
           \/ \E h \in handles : DelListener(t, h)
           \/ \E m \in Names : ClearListener(t, m)
    PROVE  \E n \in Names : \E keys \in SUBSET Keys : Removed(n, keys)
<1> USE DEF BaseInv
<1>1. ASSUME NEW n \in Names, NEW keys \in SUBSET Keys, Forget(n, keys)
      PROVE  /\ told' \in [Names -> [Keys -> Seq(Values)]]
             /\ \A k \in Keys \ keys : told'[n][k] = told[n][k]
             /\ \A m \in Names : m # n => told'[m] = told[m]
             /\ late' = late \ ({n} \X keys)
  <2>1. told[n] \in [Keys -> Seq(Values)] /\ <<>> \in Seq(Values)
    BY DEF TypeOK
  <2>2. [k \in Keys |-> IF k \in keys THEN <<>> ELSE told[n][k]] \in [Keys -> Seq(Values)]
    BY <2>1
  <2>3. told' = [told EXCEPT ![n] = [k \in Keys |-> IF k \in keys THEN <<>> ELSE told[n][k]]]
    BY <1>1 DEF Forget
  <2>4. told' \in [Names -> [Keys -> Seq(Values)]]
    BY <2>2, <2>3 DEF TypeOK
  <2>5. /\ \A k \in Keys \ keys : told'[n][k] = told[n][k]
        /\ \A m \in Names : m # n => told'[m] = told[m]
    BY <2>3 DEF TypeOK
  <2> QED BY <1>1, <2>4, <2>5 DEF Forget
<1>2. ASSUME NEW h \in handles, DelListener(t, h)
      PROVE  /\ h.name \in Names /\ h.key \in Keys /\ writer[h.name] = Null /\ readers[h.name] = {}
             /\ m_cbs' \in [Names -> [Keys -> Listeners \cup {Null}]]
             /\ \A k \in Keys : m_cbs'[h.name][k] = IF k \in {h.key} THEN Null ELSE m_cbs[h.name][k]
             /\ \A m \in Names : m # h.name => m_cbs'[m] = m_cbs[m]
             /\ handles' \subseteq handles /\ Forget(h.name, {h.key})
             /\ UNCHANGED <<setVars, s_fun_id, loc, adds, datas, m_val, locks, threw, pc, visitVars>>
  <2>1. h.name \in Names /\ h.key \in Keys
    BY DEF TypeOK
  <2> QED BY <1>2, <2>1 DEF DelListener, CanWrite, TypeOK
<1>3. ASSUME NEW n \in Names, ClearListener(t, n)
      PROVE  /\ writer[n] = Null /\ readers[n] = {}
             /\ m_cbs' \in [Names -> [Keys -> Listeners \cup {Null}]]
             /\ \A k \in Keys : m_cbs'[n][k] = IF k \in Keys THEN Null ELSE m_cbs[n][k]
             /\ \A m \in Names : m # n => m_cbs'[m] = m_cbs[m]
             /\ handles' \subseteq handles /\ Forget(n, Keys)
             /\ UNCHANGED <<setVars, s_fun_id, loc, adds, datas, m_val, locks, threw, pc, visitVars>>
  BY <1>3 DEF ClearListener, CanWrite, NoListener, TypeOK
<1>4. CASE \E h \in handles : DelListener(t, h)
  <2> PICK h \in handles : DelListener(t, h)
    BY <1>4
  <2>1. {h.key} \in SUBSET Keys
    BY <1>2
  <2>2. Removed(h.name, {h.key})
    <3> DEFINE n == h.name
               keys == {h.key}
    <3>1. n \in Names /\ Forget(n, keys)
      BY <1>2
    <3>2. /\ told' \in [Names -> [Keys -> Seq(Values)]]
          /\ \A k \in Keys \ keys : told'[n][k] = told[n][k]
          /\ \A m \in Names : m # n => told'[m] = told[m]
          /\ late' = late \ ({n} \X keys)
      BY <1>1, <2>1, <3>1
    <3> QED BY <1>2, <3>2 DEF Removed
  <2> QED BY <1>2, <2>1, <2>2
<1>5. CASE \E m \in Names : ClearListener(t, m)
  <2> PICK m \in Names : ClearListener(t, m)
    BY <1>5
  <2>1. Removed(m, Keys)
    BY <1>1, <1>3 DEF Removed
  <2> QED BY <2>1
<1> QED BY <1>4, <1>5

LEMMA RemoveBase ==
    ASSUME BaseInv, NEW t \in Threads,
           \/ \E h \in handles : DelListener(t, h)
           \/ \E m \in Names : ClearListener(t, m)
    PROVE  BaseInv'
<1> USE DEF BaseInv
<1>1. PICK n \in Names, keys \in SUBSET Keys : Removed(n, keys)
  BY RemoveFacts
<1> USE <1>1 DEF Removed
<1>2. TypeOK'
  BY <1>1 DEF TypeOK
<1>3. LockInv'
  BY <1>1 DEF LockInv, RegistryLockInv, NameLockInv, ExclusionInv, Target
<1>4. JobInv'
  BY <1>1, JobsKept
<1>5. LocInv'
  BY <1>1 DEF LocInv
<1>6. CountInv'
  <2>1. 0 \in Keys
    BY ConfigAssumption DEF Keys
  <2>2. \A m \in Names : m_cbs'[m][0] = Null
    BY <1>1, <2>1 DEF CountInv
  <2> QED BY <1>1, <2>2 DEF CountInv
<1> QED BY <1>2, <1>3, <1>4, <1>5, <1>6

LEMMA StutterBase == BaseInv /\ UNCHANGED vars => BaseInv'
<1> SUFFICES ASSUME BaseInv, UNCHANGED vars PROVE BaseInv'
  OBVIOUS
<1> USE DEF BaseInv, vars
<1>1. TypeOK'
  BY DEF TypeOK
<1>2. LockInv'
  BY DEF LockInv, RegistryLockInv, NameLockInv, ExclusionInv, Target
<1>3. JobInv'
  BY JobsKept
<1>4. LocInv' /\ CountInv'
  BY DEF LocInv, CountInv
<1> QED BY <1>1, <1>2, <1>3, <1>4

LEMMA InitBase == Init => BaseInv
<1> SUFFICES ASSUME Init PROVE BaseInv
  OBVIOUS
<1> USE ConfigAssumption DEF Init
<1>1. TypeOK
  <2>1. m_cbs \in [Names -> [Keys -> Listeners \cup {Null}]] /\ s_fun_id \in [Types -> Keys]
    BY DEF NoListener, Keys
  <2>2. told \in [Names -> [Keys -> Seq(Values)]]
    OBVIOUS
  <2>3. job \in [Threads -> Seq(Item)] /\ pc \in [Threads -> Pcs]
    BY DEF Pcs
  <2>4. loc \in [Threads -> Locals]
    BY LocalsUpdate
  <2> QED BY <2>1, <2>2, <2>3, <2>4 DEF TypeOK
<1>2. LockInv
  BY DEF LockInv, RegistryLockInv, NameLockInv, ExclusionInv, Locks
<1>3. JobInv
  BY DEF JobInv, Setting
<1>4. LocInv
  BY LocalsUpdate DEF LocInv
<1>5. CountInv
  BY DEF CountInv, NoListener, Keys
<1> QED BY <1>1, <1>2, <1>3, <1>4, <1>5 DEF BaseInv

LEMMA NextBase == BaseInv /\ [Next]_vars => BaseInv'
<1> SUFFICES ASSUME BaseInv, [Next]_vars PROVE BaseInv'
  OBVIOUS
<1>1. ASSUME NEW t \in Threads, Running(t) PROVE BaseInv'
  BY <1>1, ItemBase, FindVarBase, SetBeginBase, NotifyBase, NotifiedBase, WriteBase, StoreCounterBase,
     InsertBase, ReturnKeyBase, MismatchBase, VisitBase DEF Running
<1>2. ASSUME NEW t \in Threads, Calling(t) PROVE BaseInv'
  <2>1. \A w \in Wanted : w[1] \in Names /\ w[2] \in Types
    BY ConfigAssumption
  <2> QED BY <1>2, <2>1, LookupBase, MismatchBase, AssignBase, AddListenerBase, RemoveBase, VisitBase
          DEF Calling
<1>3. CASE UNCHANGED vars
  BY <1>3, StutterBase
<1> QED BY <1>1, <1>2, <1>3 DEF Next, Terminated

LEMMA BaseHolds == Spec => []BaseInv
BY InitBase, NextBase, PTL DEF Spec

\* While set_value calls its listeners, neither the value nor the map of listeners
\* of its variable changes (config.h:326-332).
THEOREM NoChangeWhileNotifyingHolds == Spec => NoChangeWhileNotifying
<1> DEFINE A == \A t \in Threads : pc[t] = "notify" =>
                  LET n == Head(job[t]).name IN m_val'[n] = m_val[n] /\ m_cbs'[n] = m_cbs[n]
<1>1. BaseInv /\ [Next]_vars => [A]_vars
  <2> SUFFICES ASSUME BaseInv, Next, NEW t \in Threads, pc[t] = "notify"
               PROVE  m_val'[Target(t)] = m_val[Target(t)] /\ m_cbs'[Target(t)] = m_cbs[Target(t)]
    BY DEF Target
  <2> USE DEF BaseInv
  <2>1. /\ Target(t) \in Names /\ t \in readers[Target(t)] /\ readers[Target(t)] # {}
        /\ writer[Target(t)] = Null
    <3>1. job[t] # <<>>
      BY DEF JobInv
    <3> QED BY <3>1, HeadItem DEF LockInv, NameLockInv, ExclusionInv, Locks
  <2>2. ASSUME NEW u \in Threads, Write(u) PROVE m_val'[Target(t)] = m_val[Target(t)] /\ UNCHANGED m_cbs
    <3>1. /\ Target(u) # Target(t) /\ UNCHANGED m_cbs
          /\ m_val' = [m_val EXCEPT ![Target(u)] = NewVal(u)]
      BY <2>1, <2>2 DEF Write, CanWrite, Target, NewVal
    <3> QED BY <2>1, <3>1 DEF TypeOK
  <2>3. ASSUME NEW u \in Threads, Insert(u) PROVE m_cbs'[Target(t)] = m_cbs[Target(t)] /\ UNCHANGED m_val
    <3>a. PICK n \in Names, k \in Keys : InsertsAt(u, n, k)
      BY <2>3, InsertFacts
    <3>1. /\ loc[u].name \in Names /\ pc[u] = "insert" /\ UNCHANGED m_val
          /\ m_cbs' = [m_cbs EXCEPT ![loc[u].name][k] = loc[u].cb]
      BY <3>a DEF InsertsAt
    <3>2. writer[loc[u].name] = u /\ u # Null
      BY <3>1, ConfigAssumption DEF LockInv, NameLockInv
    <3> QED BY <2>1, <3>1, <3>2 DEF TypeOK
  <2>4. ASSUME NEW u \in Threads,
               (\E h \in handles : DelListener(u, h)) \/ (\E m \in Names : ClearListener(u, m))
        PROVE  m_cbs'[Target(t)] = m_cbs[Target(t)] /\ UNCHANGED m_val
    BY <2>1, <2>4, RemoveFacts DEF Removed
  <2>5. ASSUME NEW u \in Threads, Running(u), ~Write(u), ~Insert(u) PROVE UNCHANGED <<m_val, m_cbs>>
    BY <2>5 DEF Running, SkipItem, FindVar, FromStrThrows, SetSame, SetBegin, Notify, ListenerThrows,
                Notified, StoreCounter, ReturnKey, MismatchLogged, Visited, VisitOne
  <2>6. ASSUME NEW u \in Threads, Calling(u), ~ \E h \in handles : DelListener(u, h),
               ~ \E m \in Names : ClearListener(u, m)
        PROVE  UNCHANGED <<m_val, m_cbs>>
    BY <2>6 DEF Calling, Lookup, LookupMismatch, Assign, AddListener, Visit
  <2>7. CASE Terminated
    BY <2>7 DEF Terminated, vars
  <2> QED BY <2>2, <2>3, <2>4, <2>5, <2>6, <2>7 DEF Next
<1> QED BY <1>1, BaseHolds, PTL DEF Spec, NoChangeWhileNotifying

\* While a thread visits the registry no name is added to it (config.cc:53-59,
\* config.h:384-414).
THEOREM RegistryStableHolds == Spec => RegistryStable
<1> DEFINE A == (\E t \in Threads : pc[t] = "visit" /\ pc'[t] = "visit") => datas' = datas
<1>1. BaseInv /\ [Next]_vars => [A]_vars
  <2> SUFFICES ASSUME BaseInv, Next, NEW t \in Threads, pc[t] = "visit" PROVE datas' = datas
    OBVIOUS
  <2>1. readers[Registry] # {}
    BY DEF BaseInv, LockInv, RegistryLockInv
  <2>2. ASSUME NEW u \in Threads, Running(u) PROVE datas' = datas
    BY <2>2 DEF Running, SkipItem, FindVar, FromStrThrows, SetSame, SetBegin, Notify, ListenerThrows,
                Notified, Write, Insert, StoreCounter, ReturnKey, MismatchLogged, Visited, VisitOne
  <2>3. ASSUME NEW u \in Threads, Calling(u) PROVE datas' = datas
    BY <2>1, <2>3 DEF Calling, Lookup, CanWrite, LookupMismatch, Assign, AddListener, DelListener,
                      ClearListener, Visit
  <2>4. CASE Terminated
    BY <2>4 DEF Terminated, vars
  <2> QED BY <2>2, <2>3, <2>4 DEF Next
<1> QED BY <1>1, BaseHolds, PTL DEF Spec, RegistryStable

-----------------------------------------------------------------------------
(* What the listeners know.                                                *)

\* Where no set_value takes a step and no listener comes or goes.
LEMMA HistKept ==
    ASSUME HistInv, UNCHANGED <<m_val, m_cbs, told, late, threw>>,
           \A u \in Threads : Setting(u)' <=> Setting(u),
           \A u \in Threads : Setting(u) => pc'[u] = pc[u] /\ job'[u] = job[u] /\ loc'[u] = loc[u]
    PROVE  HistInv'
<1>1. \A n, k, v : Live(n, k)' = Live(n, k) /\ Knows(n, k, v)' = Knows(n, k, v) /\ Latest(n, k)' = Latest(n, k)
  BY DEF Live, Knows, Latest
<1>2. \A u \in Threads : Setting(u) => Target(u)' = Target(u) /\ NewVal(u)' = NewVal(u)
  BY DEF Target, NewVal
<1>3. TellInv'
  <2> SUFFICES ASSUME NEW t \in Threads, NEW k \in Keys, Live(Target(t), k)', Setting(t)'
               PROVE  /\ pc'[t] = "notify" /\ k <= loc'[t].key => Knows(Target(t), k, NewVal(t))'
                      /\ pc'[t] = "write" => Knows(Target(t), k, NewVal(t))'
    BY DEF TellInv, Setting
  <2> QED BY <1>1, <1>2 DEF HistInv, TellInv
<1>4. ToldInv'
  BY <1>1 DEF HistInv, ToldInv
<1>5. KnowInv'
  <2> SUFFICES ASSUME NEW n \in Names, NEW w \in Threads, Writers[n] = {w}, NEW k \in Keys, Live(n, k)'
               PROVE  (IF Setting(w) /\ Target(w) = n /\ (pc[w] = "write" \/ k <= loc[w].key)
                       THEN Latest(n, k) = NewVal(w)
                       ELSE threw[n] \/ Latest(n, k) = m_val[n])'
    BY DEF KnowInv
  <2>1. CASE Setting(w)
    BY <1>1, <1>2, <2>1 DEF HistInv, KnowInv
  <2>2. CASE ~Setting(w)
    BY <1>1, <2>2 DEF HistInv, KnowInv
  <2> QED BY <2>1, <2>2
<1> QED BY <1>3, <1>4, <1>5 DEF HistInv

LEMMA QuietHist ==
    ASSUME BaseInv, HistInv, NEW t \in Threads,
           \/ \E n \in Names, T \in Types : Lookup(t, n, T) \/ LookupMismatch(t, n, T)
           \/ MismatchLogged(t) \/ Visit(t) \/ Visited(t) \/ \E n \in Names : VisitOne(t, n)
           \/ \E d \in Documents : Assign(t, d)
           \/ SkipItem(t) \/ FindVar(t) \/ FromStrThrows(t) \/ SetSame(t)
           \/ \E n \in Names, l \in Listeners : AddListener(t, n, l)
           \/ StoreCounter(t) \/ ReturnKey(t)
    PROVE  HistInv'
<1> USE DEF BaseInv
<1>1. UNCHANGED <<m_val, m_cbs, told, late, threw>>
  BY DEF Lookup, LookupMismatch, MismatchLogged, Visit, Visited, VisitOne, Assign, SkipItem, FindVar,
         FromStrThrows, SetSame, AddListener, StoreCounter, ReturnKey
<1>2. /\ pc[t] \notin {"notify", "write"} /\ pc'[t] \notin {"notify", "write"}
      /\ \A u \in Threads : u # t => pc'[u] = pc[u]
  BY DEF Lookup, LookupMismatch, MismatchLogged, Visit, Visited, VisitOne, Assign, SkipItem, FindVar,
         FromStrThrows, SetSame, AddListener, StoreCounter, ReturnKey, Goto, Idle, TypeOK
<1>3. \A u \in Threads : u # t => job'[u] = job[u]
  BY DEF Lookup, LookupMismatch, MismatchLogged, Visit, Visited, VisitOne, Assign, SkipItem, FindVar,
         FromStrThrows, SetSame, AddListener, StoreCounter, ReturnKey, NextItem, TypeOK
<1>4. \A u \in Threads : u # t => loc'[u] = loc[u]
  BY DEF Lookup, LookupMismatch, MismatchLogged, Visit, Visited, VisitOne, Assign, SkipItem, FindVar,
         FromStrThrows, SetSame, AddListener, StoreCounter, ReturnKey, DropLocals, TypeOK
<1> QED BY <1>1, <1>2, <1>3, <1>4, HistKept DEF Setting

\* The one thread that assigns a variable.
LEMMA SoleWriter ==
    ASSUME TypeOK, JobInv, NEW t \in Threads, job[t] # <<>>, NEW w, Writers[Target(t)] = {w}
    PROVE  w = t
BY HeadItem

LEMMA SetBeginHist == ASSUME BaseInv, HistInv, NEW t \in Threads, SetBegin(t) PROVE HistInv'
<1> USE DEF BaseInv
<1>1. /\ pc[t] = "found" /\ pc'[t] = "notify" /\ \A u \in Threads : u # t => pc'[u] = pc[u]
  BY DEF SetBegin, Goto, TypeOK
<1>2. UNCHANGED <<job, loc, m_val, m_cbs, told, late, threw>>
  BY DEF SetBegin
<1>3. loc[t].key = 0 /\ \A n \in Names : ~Live(n, 0)
  BY <1>1 DEF LocInv, CountInv, Live
<1>4. \A k \in Keys : k <= 0 => k = 0
  BY DEF Keys
<1>5. \A n, k, v : Live(n, k)' = Live(n, k) /\ Knows(n, k, v)' = Knows(n, k, v) /\ Latest(n, k)' = Latest(n, k)
  BY <1>2 DEF Live, Knows, Latest
<1>6. \A u \in Threads : Target(u)' = Target(u) /\ NewVal(u)' = NewVal(u)
  BY <1>2 DEF Target, NewVal
<1>7. Target(t) \in Names
  BY <1>1, HeadItem DEF JobInv
<1>8. TellInv'
  BY <1>1, <1>2, <1>3, <1>4, <1>5, <1>6, <1>7 DEF HistInv, TellInv
<1>9. ToldInv'
  BY <1>2, <1>5 DEF HistInv, ToldInv
<1>10. KnowInv'
  <2> SUFFICES ASSUME NEW n \in Names, NEW w \in Threads, Writers[n] = {w}, NEW k \in Keys, Live(n, k)'
               PROVE  (IF Setting(w) /\ Target(w) = n /\ (pc[w] = "write" \/ k <= loc[w].key)
                       THEN Latest(n, k) = NewVal(w)
                       ELSE threw[n] \/ Latest(n, k) = m_val[n])'
    BY DEF KnowInv
  <2>1. CASE w = t
    <3>1. threw[n] \/ Latest(n, k) = m_val[n]
      BY <1>1, <1>5, <2>1 DEF HistInv, KnowInv, Setting
    <3>2. ~(k <= loc[w].key)
      BY <1>3, <1>4, <1>5, <2>1
    <3> QED BY <1>1, <1>2, <1>5, <2>1, <3>1, <3>2
  <2>2. CASE w # t
    BY <1>1, <1>2, <1>5, <1>6, <2>2 DEF HistInv, KnowInv, Setting
  <2> QED BY <2>1, <2>2
<1> QED BY <1>8, <1>9, <1>10 DEF HistInv

\* What Notify does: the next listener is told.
LEMMA NotifyFacts ==
    ASSUME BaseInv, NEW t \in Threads, Notify(t)
    PROVE  \E k \in Keys :
             /\ pc[t] = "notify" /\ Target(t) \in Names /\ job[t] # <<>>
             /\ k > loc[t].key /\ loc'[t].key = k
             /\ \A j \in Keys : loc[t].key < j /\ j < k => m_cbs[Target(t)][j] = Null
             /\ \A u \in Threads : u # t => loc'[u] = loc[u]
             /\ told'[Target(t)][k] = Append(told[Target(t)][k], NewVal(t))
             /\ \A n \in Names : \A j \in Keys : <<n, j>> # <<Target(t), k>> => told'[n][j] = told[n][j]
             /\ UNCHANGED <<pc, job, m_val, m_cbs, late, threw>>
<1> USE DEF BaseInv
<1>1. PICK k \in Pending(t) :
        /\ \A j \in Pending(t) : k <= j
        /\ loc' = [loc EXCEPT ![t].key = k]
        /\ told' = [told EXCEPT ![Target(t)][k] = Append(@, NewVal(t))]
  BY DEF Notify, Target, NewVal
<1>2. pc[t] = "notify" /\ UNCHANGED <<pc, job, m_val, m_cbs, late, threw>>
  BY DEF Notify
<1>3. k \in Keys /\ k > loc[t].key /\ job[t] # <<>> /\ Target(t) \in Names
  BY <1>2, HeadItem DEF Pending, JobInv
<1>4. loc'[t].key = k /\ \A u \in Threads : u # t => loc'[u] = loc[u]
  BY <1>1 DEF TypeOK, Locals
<1>5. ASSUME NEW j \in Keys, loc[t].key < j, j < k PROVE m_cbs[Target(t)][j] = Null
  <2>1. ~(k <= j)
    BY <1>3, <1>5 DEF Keys
  <2>2. j > loc[t].key
    BY <1>5
  <2> QED BY <1>1, <1>5, <2>1, <2>2 DEF Pending, Target
<1>6. /\ told'[Target(t)][k] = Append(told[Target(t)][k], NewVal(t))
      /\ \A n \in Names : \A j \in Keys : <<n, j>> # <<Target(t), k>> => told'[n][j] = told[n][j]
  BY <1>1, <1>3 DEF TypeOK
<1> QED BY <1>2, <1>3, <1>4, <1>5, <1>6

\* A listener that is told a value more.
LEMMA ToldMore ==
    ASSUME TypeOK, NEW n \in Names, NEW k \in Keys, NEW v, told'[n][k] = Append(told[n][k], v)
    PROVE  Knows(n, k, v)' /\ Latest(n, k)' = v /\ \A x : Knows(n, k, x) => Knows(n, k, x)'
<1>1. told[n][k] \in Seq(Values)
  BY DEF TypeOK
<1>2. /\ Len(told'[n][k]) = Len(told[n][k]) + 1 /\ Len(told[n][k]) \in Nat
      /\ DOMAIN told[n][k] = 1..Len(told[n][k]) /\ DOMAIN told'[n][k] = 1..Len(told[n][k]) + 1
      /\ told'[n][k][Len(told[n][k]) + 1] = v
      /\ \A i \in DOMAIN told[n][k] : told'[n][k][i] = told[n][k][i]
  BY <1>1
<1>3. Len(told[n][k]) + 1 \in DOMAIN told'[n][k]
  BY <1>2
<1>4. \A i \in DOMAIN told[n][k] : i \in DOMAIN told'[n][k]
  BY <1>2
<1> QED BY <1>2, <1>3, <1>4 DEF Knows, Latest

LEMMA NotifyHist == ASSUME BaseInv, HistInv, NEW t \in Threads, Notify(t) PROVE HistInv'
<1> USE DEF BaseInv
<1>1. PICK k0 \in Keys :
             /\ pc[t] = "notify" /\ Target(t) \in Names /\ job[t] # <<>>
             /\ k0 > loc[t].key /\ loc'[t].key = k0
             /\ \A j \in Keys : loc[t].key < j /\ j < k0 => m_cbs[Target(t)][j] = Null
             /\ \A u \in Threads : u # t => loc'[u] = loc[u]
             /\ told'[Target(t)][k0] = Append(told[Target(t)][k0], NewVal(t))
             /\ \A n \in Names : \A j \in Keys : <<n, j>> # <<Target(t), k0>> => told'[n][j] = told[n][j]
             /\ UNCHANGED <<pc, job, m_val, m_cbs, late, threw>>
  BY NotifyFacts
<1>b. PICK m \in Names : m = Target(t)
  BY <1>1
<1>c. PICK v : v = NewVal(t)
  OBVIOUS
<1>a. m = Target(t) /\ v = NewVal(t)
  BY <1>b, <1>c
<1>2. Knows(m, k0, v)' /\ Latest(m, k0)' = v /\ \A x : Knows(m, k0, x) => Knows(m, k0, x)'
  <2>1. told'[m][k0] = Append(told[m][k0], v)
    BY <1>1, <1>a
  <2> QED BY <2>1, ToldMore
<1>3. ASSUME NEW n \in Names, NEW k \in Keys, NEW x, Knows(n, k, x) PROVE Knows(n, k, x)'
  <2>1. CASE n = m /\ k = k0
    BY <1>2, <1>3, <2>1
  <2>2. CASE ~(n = m /\ k = k0)
    BY <1>1, <1>a, <1>3, <2>2 DEF Knows
  <2> QED BY <2>1, <2>2
<1>4. \A n \in Names, k \in Keys : <<n, k>> # <<Target(t), k0>> => Latest(n, k)' = Latest(n, k)
  BY <1>1 DEF Latest
<1>5. /\ \A n, k : Live(n, k)' = Live(n, k)
      /\ \A u \in Threads : Target(u)' = Target(u) /\ NewVal(u)' = NewVal(u) /\ (Setting(u)' <=> Setting(u))
  BY <1>1 DEF Live, Target, NewVal, Setting
<1>6. ASSUME NEW k \in Keys, Live(Target(t), k), k <= k0 PROVE k = k0 \/ k <= loc[t].key
  <2>1. loc[t].key \in Nat /\ k \in Nat /\ k0 \in Nat
    BY DEF TypeOK, Locals, Keys
  <2> QED BY <1>1, <1>6, <2>1 DEF Live
<1>7. ASSUME NEW k \in Keys, k <= loc[t].key PROVE k <= k0
  <2>1. loc[t].key \in Nat /\ k \in Nat /\ k0 \in Nat
    BY DEF TypeOK, Locals, Keys
  <2> QED BY <1>1, <1>7, <2>1
<1>8. TellInv'
  <2> SUFFICES ASSUME NEW u \in Threads, NEW k \in Keys, Live(Target(u), k)', Setting(u)'
               PROVE  /\ pc'[u] = "notify" /\ k <= loc'[u].key => Knows(Target(u), k, NewVal(u))'
                      /\ pc'[u] = "write" => Knows(Target(u), k, NewVal(u))'
    BY DEF TellInv, Setting
  <2>1. PICK n \in Names, x \in {NewVal(u)} : n = Target(u) /\ x = NewVal(u)
    BY <1>5, HeadItem DEF JobInv, Setting
  <2>2. /\ Live(n, k) /\ (Knows(n, k, x)' => Knows(Target(u), k, NewVal(u))')
        /\ pc[u] = "notify" /\ k <= loc[u].key => Knows(n, k, x)
        /\ pc[u] = "write" => Knows(n, k, x)
    <3>1. n = Target(u)' /\ x = NewVal(u)'
      BY <1>5, <2>1
    <3>2. Live(n, k)' /\ (Knows(n, k, x)' => Knows(Target(u), k, NewVal(u))')
      BY <3>1
    <3> QED BY <1>5, <2>1, <3>2 DEF HistInv, TellInv
  <2>3. ASSUME u = t, k <= k0 PROVE Knows(n, k, x)'
    <3>1. CASE k = k0
      BY <1>a, <1>2, <2>1, <2>3, <3>1
    <3>2. CASE k <= loc[t].key
      BY <1>1, <1>3, <2>2, <2>3, <3>2
    <3> QED BY <1>6, <2>1, <2>2, <2>3, <3>1, <3>2
  <2>4. ASSUME u # t PROVE (pc[u] = "notify" /\ k <= loc'[u].key) \/ pc[u] = "write" => Knows(n, k, x)'
    BY <1>1, <1>3, <2>2, <2>4
  <2> QED BY <1>1, <2>2, <2>3, <2>4
<1>9. ToldInv'
  <2> SUFFICES ASSUME NEW n \in Names, NEW k \in Keys, Live(n, k)' PROVE Knows(n, k, m_val[n])'
    BY DEF ToldInv
  <2>1. PICK x : x = m_val[n] /\ x = m_val'[n]
    BY <1>1
  <2>2. Knows(n, k, x)
    BY <1>5, <2>1 DEF HistInv, ToldInv
  <2> QED BY <1>3, <2>1, <2>2
<1>10. KnowInv'
  <2> SUFFICES ASSUME NEW n \in Names, NEW w \in Threads, Writers[n] = {w}, NEW k \in Keys, Live(n, k)
               PROVE  IF Setting(w) /\ Target(w) = n /\ (pc[w] = "write" \/ k <= loc'[w].key)
                      THEN Latest(n, k)' = NewVal(w)
                      ELSE threw[n] \/ Latest(n, k)' = m_val[n]
    BY <1>1, <1>5 DEF KnowInv
  <2>1. IF Setting(w) /\ Target(w) = n /\ (pc[w] = "write" \/ k <= loc[w].key)
        THEN Latest(n, k) = NewVal(w)
        ELSE threw[n] \/ Latest(n, k) = m_val[n]
    BY DEF HistInv, KnowInv
  <2>2. CASE n = Target(t) /\ k = k0
    <3>1. w = t
      BY <1>1, <2>2, SoleWriter
    <3>2. k <= loc'[w].key
      BY <1>1, <2>2, <3>1 DEF Keys
    <3>3. Setting(w) /\ Target(w) = n /\ Latest(n, k)' = NewVal(w)
      BY <1>1, <1>a, <1>2, <2>2, <3>1 DEF Setting
    <3> QED BY <3>2, <3>3
  <2>3. CASE n = Target(t) /\ k # k0
    <3>1. w = t
      BY <1>1, <2>3, SoleWriter
    <3>2. k <= loc'[t].key <=> k <= loc[t].key
      BY <1>1, <1>6, <1>7, <2>3
    <3> QED BY <1>1, <1>4, <2>1, <2>3, <3>1, <3>2
  <2>4. CASE n # Target(t)
    <3>1. w = t => ~(Target(w) = n)
      BY <2>4
    <3> QED BY <1>1, <1>4, <2>1, <2>4, <3>1
  <2> QED BY <2>2, <2>3, <2>4
<1> QED BY <1>8, <1>9, <1>10 DEF HistInv

\* A set_value that a listener has cut short.
LEMMA SettingEnds ==
    ASSUME BaseInv, HistInv, NEW t \in Threads, pc[t] = "notify", pc'[t] = "idle",
           threw' = [threw EXCEPT ![Target(t)] = TRUE], UNCHANGED <<m_val, m_cbs, told, late>>,
           \A u \in Threads : u # t => pc'[u] = pc[u] /\ job'[u] = job[u] /\ loc'[u] = loc[u]
    PROVE  HistInv'
<1> USE DEF BaseInv
<1>1. \A n, k, v : Live(n, k)' = Live(n, k) /\ Knows(n, k, v)' = Knows(n, k, v) /\ Latest(n, k)' = Latest(n, k)
  BY DEF Live, Knows, Latest
<1>2. \A u \in Threads : u # t => Target(u)' = Target(u) /\ NewVal(u)' = NewVal(u) /\ (Setting(u)' <=> Setting(u))
  BY DEF Target, NewVal, Setting
<1>3. ~Setting(t)' /\ Setting(t) /\ job[t] # <<>> /\ Target(t) \in Names
  BY HeadItem DEF Setting, JobInv
<1>4. threw'[Target(t)] /\ \A n \in Names : n # Target(t) => threw'[n] = threw[n]
  BY <1>3 DEF TypeOK
<1>5. TellInv'
  <2> SUFFICES ASSUME NEW u \in Threads, NEW k \in Keys, Live(Target(u), k)', u # t
               PROVE  /\ pc'[u] = "notify" /\ k <= loc'[u].key => Knows(Target(u), k, NewVal(u))'
                      /\ pc'[u] = "write" => Knows(Target(u), k, NewVal(u))'
    BY DEF TellInv
  <2> QED BY <1>1, <1>2 DEF HistInv, TellInv
<1>6. ToldInv'
  BY <1>1 DEF HistInv, ToldInv
<1>7. KnowInv'
  <2> SUFFICES ASSUME NEW n \in Names, NEW w \in Threads, Writers[n] = {w}, NEW k \in Keys, Live(n, k)
               PROVE  (IF Setting(w) /\ Target(w) = n /\ (pc[w] = "write" \/ k <= loc[w].key)
                       THEN Latest(n, k) = NewVal(w)
                       ELSE threw[n] \/ Latest(n, k) = m_val[n])'
    BY <1>1 DEF KnowInv
  <2>1. IF Setting(w) /\ Target(w) = n /\ (pc[w] = "write" \/ k <= loc[w].key)
        THEN Latest(n, k) = NewVal(w)
        ELSE threw[n] \/ Latest(n, k) = m_val[n]
    BY DEF HistInv, KnowInv
  <2>2. n = Target(t) => w = t
    BY <1>3, SoleWriter
  <2>3. CASE w = t
    BY <1>1, <1>3, <1>4, <2>1, <2>3
  <2>4. CASE w # t
    BY <1>1, <1>2, <1>4, <2>1, <2>2, <2>4
  <2> QED BY <2>3, <2>4
<1> QED BY <1>5, <1>6, <1>7 DEF HistInv

\* All listeners are told, or one has thrown.
LEMMA NotifiedHist ==
    ASSUME BaseInv, HistInv, NEW t \in Threads, ListenerThrows(t) \/ Notified(t)
    PROVE  HistInv'
<1> USE DEF BaseInv
<1>1. /\ pc[t] = "notify" /\ pc'[t] \in {"idle", "write"} /\ job[t] # <<>> /\ Target(t) \in Names
      /\ \A u \in Threads : u # t => pc'[u] = pc[u]
  <2>1. /\ pc[t] = "notify" /\ pc'[t] \in {"idle", "write"}
        /\ \A u \in Threads : u # t => pc'[u] = pc[u]
    BY DEF ListenerThrows, Notified, Goto, TypeOK
  <2> QED BY <2>1, HeadItem DEF JobInv
<1>2. /\ UNCHANGED <<m_val, m_cbs, told, late>>
      /\ \A u \in Threads : u # t => job'[u] = job[u] /\ loc'[u] = loc[u]
  BY DEF ListenerThrows, Notified, DropLocals, NextItem, TypeOK
<1>3. CASE ListenerThrows(t)
  <2>1. pc'[t] = "idle" /\ threw' = [threw EXCEPT ![Target(t)] = TRUE]
    BY <1>3 DEF ListenerThrows, Goto, Target, TypeOK
  <2> QED BY <1>1, <1>2, <2>1, SettingEnds
<1>4. CASE Notified(t)
  <2>1. pc'[t] = "write" /\ job' = job /\ threw' = threw
    BY <1>4 DEF Notified, Goto, TypeOK
  <2>2. \A k \in Keys : Live(Target(t), k) => k <= loc[t].key
    <3>1. \A k \in Keys : ~(k > loc[t].key /\ m_cbs[Target(t)][k] # Null)
      BY <1>4 DEF Notified, Pending, Target
    <3>2. \A k \in Keys : k \in Nat /\ loc[t].key \in Nat
      BY DEF TypeOK, Locals, Keys
    <3> QED BY <3>1, <3>2 DEF Live
  <2>3. \A n, k, v : Live(n, k)' = Live(n, k) /\ Knows(n, k, v)' = Knows(n, k, v) /\ Latest(n, k)' = Latest(n, k)
    BY <1>2 DEF Live, Knows, Latest
  <2>4. \A u \in Threads : Target(u)' = Target(u) /\ NewVal(u)' = NewVal(u) /\ (Setting(u)' <=> Setting(u))
    BY <1>1, <2>1 DEF Target, NewVal, Setting
  <2>5. TellInv'
    <3> SUFFICES ASSUME NEW u \in Threads, NEW k \in Keys, Live(Target(u), k)
                 PROVE  /\ pc'[u] = "notify" /\ k <= loc'[u].key => Knows(Target(u), k, NewVal(u))
                        /\ pc'[u] = "write" => Knows(Target(u), k, NewVal(u))
      BY <2>3, <2>4 DEF TellInv
    <3> QED BY <1>1, <1>2, <2>1, <2>2 DEF HistInv, TellInv
  <2>6. ToldInv'
    BY <1>2, <2>3 DEF HistInv, ToldInv
  <2>7. KnowInv'
    <3> SUFFICES ASSUME NEW n \in Names, NEW w \in Threads, Writers[n] = {w}, NEW k \in Keys, Live(n, k)
                 PROVE  IF Setting(w) /\ Target(w) = n /\ (pc'[w] = "write" \/ k <= loc'[w].key)
                        THEN Latest(n, k) = NewVal(w)
                        ELSE threw[n] \/ Latest(n, k) = m_val[n]
      BY <1>2, <2>1, <2>3, <2>4 DEF KnowInv
    <3>1. IF Setting(w) /\ Target(w) = n /\ (pc[w] = "write" \/ k <= loc[w].key)
          THEN Latest(n, k) = NewVal(w)
          ELSE threw[n] \/ Latest(n, k) = m_val[n]
      BY DEF HistInv, KnowInv
    <3> QED BY <1>1, <1>2, <2>1, <2>2, <3>1
  <2> QED BY <2>5, <2>6, <2>7 DEF HistInv
<1> QED BY <1>3, <1>4

\* The value that all listeners were told becomes the value.
LEMMA WriteHist == ASSUME BaseInv, HistInv, NEW t \in Threads, Write(t) PROVE HistInv'
<1> USE DEF BaseInv
<1>1. /\ pc[t] = "write" /\ pc'[t] = "idle" /\ \A u \in Threads : u # t => pc'[u] = pc[u]
  BY DEF Write, Goto, TypeOK
<1>2. PICK m \in Names, v \in {NewVal(t)} : m = Target(t) /\ v = NewVal(t)
  BY <1>1, HeadItem DEF JobInv
<1>3. /\ UNCHANGED <<m_cbs, told, late>>
      /\ \A u \in Threads : u # t => job'[u] = job[u] /\ loc'[u] = loc[u]
  BY DEF Write, NextItem, TypeOK
<1>4. /\ m_val'[m] = v /\ ~threw'[m]
      /\ \A n \in Names : n # m => m_val'[n] = m_val[n] /\ threw'[n] = threw[n]
  BY <1>2 DEF Write, TypeOK, Target, NewVal
<1>5. \A n, k, x : Live(n, k)' = Live(n, k) /\ Knows(n, k, x)' = Knows(n, k, x) /\ Latest(n, k)' = Latest(n, k)
  BY <1>3 DEF Live, Knows, Latest
<1>6. \A u \in Threads : u # t => Target(u)' = Target(u) /\ NewVal(u)' = NewVal(u) /\ (Setting(u)' <=> Setting(u))
  BY <1>1, <1>3 DEF Target, NewVal, Setting
<1>7. TellInv'
  <2> SUFFICES ASSUME NEW u \in Threads, NEW k \in Keys, Live(Target(u), k)', u # t
               PROVE  /\ pc'[u] = "notify" /\ k <= loc'[u].key => Knows(Target(u), k, NewVal(u))'
                      /\ pc'[u] = "write" => Knows(Target(u), k, NewVal(u))'
    BY <1>1 DEF TellInv
  <2> QED BY <1>1, <1>3, <1>5, <1>6 DEF HistInv, TellInv
<1>8. ToldInv'
  <2>1. \A k \in Keys : Live(m, k) => Knows(m, k, v)
    BY <1>1, <1>2 DEF HistInv, TellInv
  <2>2. \A n \in Names, k \in Keys : Live(n, k) => Knows(n, k, m_val'[n])
    BY <1>4, <2>1 DEF HistInv, ToldInv
  <2> QED BY <1>5, <2>2 DEF ToldInv
<1>9. KnowInv'
  <2> SUFFICES ASSUME NEW n \in Names, NEW w \in Threads, Writers[n] = {w}, NEW k \in Keys, Live(n, k)
               PROVE  (IF Setting(w) /\ Target(w) = n /\ (pc[w] = "write" \/ k <= loc[w].key)
                       THEN Latest(n, k) = NewVal(w)
                       ELSE threw[n] \/ Latest(n, k) = m_val[n])'
    BY <1>5 DEF KnowInv
  <2>1. IF Setting(w) /\ Target(w) = n /\ (pc[w] = "write" \/ k <= loc[w].key)
        THEN Latest(n, k) = NewVal(w)
        ELSE threw[n] \/ Latest(n, k) = m_val[n]
    BY DEF HistInv, KnowInv
  <2>2. n = m => w = t
    BY <1>1, <1>2, SoleWriter DEF JobInv
  <2>3. CASE w = t
    <3>1. ~Setting(t)' /\ Setting(t)
      BY <1>1 DEF Setting
    <3>2. CASE n = m
      BY <1>1, <1>2, <1>4, <1>5, <2>1, <2>3, <3>1, <3>2
    <3>3. CASE n # m
      BY <1>2, <1>4, <1>5, <2>1, <2>3, <3>1, <3>3
    <3> QED BY <3>2, <3>3
  <2>4. CASE w # t
    BY <1>1, <1>3, <1>4, <1>5, <1>6, <2>1, <2>2, <2>4
  <2> QED BY <2>3, <2>4
<1> QED BY <1>7, <1>8, <1>9 DEF HistInv

\* A listener more: if it misses an announcement it is one of the late ones.
LEMMA InsertHist == ASSUME BaseInv, HistInv, NEW t \in Threads, Insert(t) PROVE HistInv'
<1> USE DEF BaseInv
<1>a. PICK m \in Names, k0 \in Keys : InsertsAt(t, m, k0)
  BY InsertFacts
<1>1. /\ m = loc[t].name /\ pc[t] = "insert" /\ pc'[t] = "return"
      /\ \A u \in Threads : u # t => pc'[u] = pc[u]
      /\ m_cbs' = [m_cbs EXCEPT ![m][k0] = loc[t].cb]
      /\ told' = [told EXCEPT ![m][k0] = <<m_val[m]>>]
      /\ late' = IF \E u \in Threads : Writing(u, m) THEN late \cup {<<m, k0>>} ELSE late
      /\ UNCHANGED <<job, loc, m_val, locks, threw>>
  BY <1>a DEF InsertsAt
<1>2. /\ told'[m][k0] = <<m_val[m]>>
      /\ \A n \in Names, k \in Keys : <<n, k>> # <<m, k0>> => told'[n][k] = told[n][k] /\ m_cbs'[n][k] = m_cbs[n][k]
  BY <1>1 DEF TypeOK
<1>3. ASSUME NEW n \in Names, NEW k \in Keys, ~(n = m /\ k = k0), Live(n, k)'
      PROVE  /\ Live(n, k) /\ Latest(n, k)' = Latest(n, k)
             /\ \A x : Knows(n, k, x)' = Knows(n, k, x)
  <2>1. told'[n][k] = told[n][k] /\ m_cbs'[n][k] = m_cbs[n][k]
    BY <1>2, <1>3
  <2>2. <<n, k>> \notin late' => <<n, k>> \notin late
    BY <1>1
  <2> QED BY <1>3, <2>1, <2>2 DEF Live, Knows, Latest
<1>4. Knows(m, k0, m_val[m])' /\ Latest(m, k0)' = m_val[m]
  <2>1. Len(told'[m][k0]) = 1 /\ 1 \in DOMAIN told'[m][k0] /\ told'[m][k0][1] = m_val[m] /\ m_val' = m_val
    BY <1>1, <1>2
  <2> QED BY <2>1 DEF Knows, Latest
<1>5. \A u \in Threads : Target(u)' = Target(u) /\ NewVal(u)' = NewVal(u) /\ (Setting(u)' <=> Setting(u))
  BY <1>1 DEF Target, NewVal, Setting
<1>6. ASSUME Live(m, k0)' PROVE \A u \in Threads : ~(Setting(u) /\ Target(u) = m)
  <2> SUFFICES ASSUME NEW u \in Threads, Setting(u), Target(u) = m PROVE FALSE
    OBVIOUS
  <2>1. pc[u] # "write"
    BY <1>1, <1>6 DEF Live, Writing, Target
  <2>2. pc[u] # "notify"
    <3>1. writer[m] = t /\ t # Null
      BY <1>a, <1>1, ConfigAssumption DEF LockInv, NameLockInv
    <3>2. readers[m] = {}
      BY <3>1 DEF LockInv, ExclusionInv, Locks
    <3> QED BY <3>2 DEF LockInv, NameLockInv
  <2> QED BY <2>1, <2>2 DEF Setting
<1>7. TellInv'
  <2> SUFFICES ASSUME NEW u \in Threads, NEW k \in Keys, Live(Target(u), k)', Setting(u)'
               PROVE  /\ pc'[u] = "notify" /\ k <= loc'[u].key => Knows(Target(u), k, NewVal(u))'
                      /\ pc'[u] = "write" => Knows(Target(u), k, NewVal(u))'
    BY DEF TellInv, Setting
  <2>1. PICK n \in Names, x \in {NewVal(u)} : n = Target(u) /\ x = NewVal(u)
    BY <1>5, HeadItem DEF JobInv, Setting
  <2>2. n = Target(u)' /\ x = NewVal(u)' /\ Setting(u)
    BY <1>5, <2>1
  <2>3. Live(n, k)' /\ (Knows(n, k, x)' => Knows(Target(u), k, NewVal(u))')
    BY <2>2
  <2>4. ~(n = m /\ k = k0)
    BY <1>6, <2>1, <2>2, <2>3
  <2>5. /\ pc[u] = "notify" /\ k <= loc[u].key => Knows(n, k, x)
        /\ pc[u] = "write" => Knows(n, k, x)
    BY <1>3, <2>1, <2>3, <2>4 DEF HistInv, TellInv
  <2>6. pc'[u] = pc[u] /\ loc'[u] = loc[u]
    BY <1>1, <2>2 DEF Setting
  <2> QED BY <1>3, <2>3, <2>4, <2>5, <2>6
<1>8. ToldInv'
  <2> SUFFICES ASSUME NEW n \in Names, NEW k \in Keys, Live(n, k)' PROVE Knows(n, k, m_val[n])'
    BY DEF ToldInv
  <2>1. CASE n = m /\ k = k0
    BY <1>4, <2>1
  <2>2. CASE ~(n = m /\ k = k0)
    <3>1. PICK x : x = m_val[n] /\ x = m_val'[n]
      BY <1>1
    <3>2. Knows(n, k, x)'
      BY <1>3, <2>2, <3>1 DEF HistInv, ToldInv
    <3> QED BY <3>1, <3>2
  <2> QED BY <2>1, <2>2
<1>9. KnowInv'
  <2> SUFFICES ASSUME NEW n \in Names, NEW w \in Threads, Writers[n] = {w}, NEW k \in Keys, Live(n, k)'
               PROVE  IF Setting(w) /\ Target(w) = n /\ (pc[w] = "write" \/ k <= loc[w].key)
                      THEN Latest(n, k)' = NewVal(w)
                      ELSE threw[n] \/ Latest(n, k)' = m_val[n]
    BY <1>1, <1>5 DEF KnowInv, Setting
  <2>1. CASE n = m /\ k = k0
    BY <1>4, <1>6, <2>1
  <2>2. CASE ~(n = m /\ k = k0)
    BY <1>3, <2>2 DEF HistInv, KnowInv
  <2> QED BY <2>1, <2>2
<1> QED BY <1>7, <1>8, <1>9 DEF HistInv

\* Listeners less.
LEMMA RemoveHist ==
    ASSUME BaseInv, HistInv, NEW t \in Threads,
           \/ \E h \in handles : DelListener(t, h)
           \/ \E m \in Names : ClearListener(t, m)
    PROVE  HistInv'
<1>1. PICK m \in Names, keys \in SUBSET Keys : Removed(m, keys)
  BY RemoveFacts
<1>2. UNCHANGED <<job, loc, pc, m_val, threw>>
  BY <1>1 DEF Removed
<1>3. ASSUME NEW n \in Names, NEW k \in Keys, Live(n, k)'
      PROVE  /\ Live(n, k) /\ Latest(n, k)' = Latest(n, k)
             /\ \A x : Knows(n, k, x)' = Knows(n, k, x)
  <2>1. m_cbs'[n][k] # Null /\ <<n, k>> \notin late'
    BY <1>3 DEF Live
  <2>2. ~(n = m /\ k \in keys)
    BY <1>1, <2>1 DEF Removed
  <2>3. m_cbs'[n][k] = m_cbs[n][k] /\ told'[n][k] = told[n][k] /\ <<n, k>> \notin late
    BY <1>1, <2>1, <2>2 DEF Removed
  <2> QED BY <2>1, <2>3 DEF Live, Knows, Latest
<1>4. \A u \in Threads : Target(u)' = Target(u) /\ NewVal(u)' = NewVal(u) /\ (Setting(u)' <=> Setting(u))
  BY <1>2 DEF Target, NewVal, Setting
<1>5. TellInv'
  <2> SUFFICES ASSUME NEW u \in Threads, NEW k \in Keys, Live(Target(u), k)', Setting(u)'
               PROVE  /\ pc'[u] = "notify" /\ k <= loc'[u].key => Knows(Target(u), k, NewVal(u))'
                      /\ pc'[u] = "write" => Knows(Target(u), k, NewVal(u))'
    BY DEF TellInv, Setting
  <2>1. PICK n \in Names, x \in {NewVal(u)} : n = Target(u) /\ x = NewVal(u)
    BY <1>4, HeadItem DEF BaseInv, JobInv, Setting
  <2>2. n = Target(u)' /\ x = NewVal(u)'
    BY <1>4, <2>1
  <2>3. Live(n, k)' /\ (Knows(n, k, x)' => Knows(Target(u), k, NewVal(u))')
    BY <2>2
  <2>4. /\ pc[u] = "notify" /\ k <= loc[u].key => Knows(n, k, x)
        /\ pc[u] = "write" => Knows(n, k, x)
    BY <1>3, <2>1, <2>3 DEF HistInv, TellInv
  <2> QED BY <1>2, <1>3, <2>3, <2>4
<1>6. ToldInv'
  <2> SUFFICES ASSUME NEW n \in Names, NEW k \in Keys, Live(n, k)' PROVE Knows(n, k, m_val[n])'
    BY DEF ToldInv
  <2>1. PICK x : x = m_val[n] /\ x = m_val'[n]
    BY <1>2
  <2>2. Knows(n, k, x)'
    BY <1>3, <2>1 DEF HistInv, ToldInv
  <2> QED BY <2>1, <2>2
<1>7. KnowInv'
  <2> SUFFICES ASSUME NEW n \in Names, NEW w \in Threads, Writers[n] = {w}, NEW k \in Keys, Live(n, k)'
               PROVE  IF Setting(w) /\ Target(w) = n /\ (pc[w] = "write" \/ k <= loc[w].key)
                      THEN Latest(n, k)' = NewVal(w)
                      ELSE threw[n] \/ Latest(n, k)' = m_val[n]
    BY <1>2, <1>4 DEF KnowInv
  <2> QED BY <1>3 DEF HistInv, KnowInv
<1> QED BY <1>5, <1>6, <1>7 DEF HistInv

LEMMA NextHist == BaseInv /\ HistInv /\ [Next]_vars => HistInv'
<1> SUFFICES ASSUME BaseInv, HistInv, [Next]_vars PROVE HistInv'
  OBVIOUS
<1>1. ASSUME NEW t \in Threads, Running(t) PROVE HistInv'
  BY <1>1, QuietHist, SetBeginHist, NotifyHist, NotifiedHist, WriteHist, InsertHist DEF Running
<1>2. ASSUME NEW t \in Threads, Calling(t) PROVE HistInv'
  <2>1. \A w \in Wanted : w[1] \in Names /\ w[2] \in Types
    BY ConfigAssumption
  <2> QED BY <1>2, <2>1, QuietHist, RemoveHist DEF Calling
<1>3. CASE UNCHANGED vars
  BY <1>3, HistKept DEF vars, Setting
<1> QED BY <1>1, <1>2, <1>3 DEF Next, Terminated

LEMMA HistHolds == Spec => []HistInv
<1>1. Init => HistInv
  <2> SUFFICES ASSUME Init PROVE HistInv
    OBVIOUS
  <2>1. \A n \in Names, k \in Keys : ~Live(n, k)
    BY DEF Init, Live, NoListener
  <2>2. \A t \in Threads : ~Setting(t)
    BY DEF Init, Setting
  <2> QED BY <2>1, <2>2 DEF HistInv, TellInv, ToldInv, KnowInv, Setting
<1> QED BY <1>1, NextHist, BaseHolds, PTL DEF Spec

\* No value becomes visible unannounced (config.h:324-336).
THEOREM AnnouncedHolds == Spec => []Announced
<1>1. HistInv => Announced
  BY DEF HistInv, ToldInv, Announced, Live, Knows
<1> QED BY <1>1, HistHolds, PTL

\* Once the assignments of the one thread that assigns a variable are over, its
\* listeners know its value, unless one has thrown (config.h:280, 324-336).
THEOREM ListenersKnowValueHolds == Spec => []ListenersKnowValue
<1>1. BaseInv /\ HistInv => ListenersKnowValue
  <2> SUFFICES ASSUME BaseInv, HistInv, NEW n \in Names, Cardinality(Writers[n]) = 1, ~threw[n],
                      \A t \in Writers[n] : job[t] = <<>>, NEW k \in Keys, Live(n, k)
               PROVE  Latest(n, k) = m_val[n]
    BY DEF ListenersKnowValue, Live, Latest
  <2>1. IsFiniteSet(Writers[n])
    BY ConfigAssumption, FS_Subset
  <2>2. PICK w : Writers[n] = {w}
    BY <2>1, FS_Singleton
  <2>3. w \in Threads /\ ~Setting(w)
    BY <2>2, ConfigAssumption DEF BaseInv, JobInv, Setting
  <2> QED BY <2>2, <2>3 DEF HistInv, KnowInv
<1> QED BY <1>1, BaseHolds, HistHolds, PTL

-----------------------------------------------------------------------------
(* Keys, where every type has one variable: its write lock then guards the *)
(* counter too.                                                            *)

LEMMA UniqueKept ==
    ASSUME UniqueInv, UNCHANGED <<m_cbs, s_fun_id, handles>>,
           \A n \in Names : datas'[n] # Null => <<n, datas'[n]>> \in Wanted,
           \A n \in Names : datas[n] # Null => datas'[n] = datas[n],
           \A u \in Threads : pc'[u] \in {"inc", "insert", "return"} =>
               pc'[u] = pc[u] /\ loc'[u] = loc[u] /\ loc[u].name \in Names /\ datas[loc[u].name] # Null,
           TypeOK
    PROVE  UniqueInv'
<1>1. \A h \in handles : h.name \in Names /\ datas'[h.name] = datas[h.name]
  BY DEF UniqueInv, TypeOK
<1>2. \A u \in Threads : pc'[u] \in {"inc", "insert", "return"} => datas'[loc'[u].name] = datas[loc[u].name]
  OBVIOUS
<1>3. /\ \A h \in handles : datas'[h.name] # Null /\ h.key <= s_fun_id[datas'[h.name]]
      /\ \A g, h \in handles : g.name = h.name /\ g.key = h.key => g = h
      /\ KeysAreUnique'
  BY <1>1 DEF UniqueInv, KeysAreUnique
<1>4. /\ \A t \in Threads : pc'[t] = "inc" => loc'[t].key = s_fun_id[datas'[loc'[t].name]]
      /\ \A t \in Threads : pc'[t] = "return" =>
            m_cbs[loc'[t].name][s_fun_id[datas'[loc'[t].name]]] = loc'[t].cb
  BY <1>2 DEF UniqueInv
<1>5. \A t \in Threads : pc'[t] \in {"insert", "return"} =>
          \A h \in handles : h.name = loc'[t].name => h.key < s_fun_id[datas'[h.name]]
  BY <1>1 DEF UniqueInv
<1> QED BY <1>3, <1>4, <1>5 DEF UniqueInv

LEMMA QuietUnique ==
    ASSUME BaseInv, UniqueInv, NEW t \in Threads,
           \/ \E w \in Wanted : Lookup(t, w[1], w[2]) \/ LookupMismatch(t, w[1], w[2])
           \/ MismatchLogged(t) \/ Visit(t) \/ Visited(t) \/ \E n \in Names : VisitOne(t, n)
           \/ \E d \in Documents : Assign(t, d)
           \/ SkipItem(t) \/ FindVar(t) \/ FromStrThrows(t) \/ SetSame(t) \/ SetBegin(t)
           \/ Notify(t) \/ ListenerThrows(t) \/ Notified(t) \/ Write(t)
    PROVE  UniqueInv'
<1> USE DEF BaseInv
<1>1. UNCHANGED <<m_cbs, s_fun_id, handles>>
  BY DEF Lookup, LookupMismatch, MismatchLogged, Visit, Visited, VisitOne, Assign, SkipItem, FindVar,
         FromStrThrows, SetSame, SetBegin, Notify, ListenerThrows, Notified, Write
<1>2. /\ pc[t] \notin {"inc", "insert", "return"} /\ pc'[t] \notin {"inc", "insert", "return"}
      /\ \A u \in Threads : u # t => pc'[u] = pc[u]
  <2>1. CASE \/ \E w \in Wanted : Lookup(t, w[1], w[2]) \/ LookupMismatch(t, w[1], w[2])
             \/ MismatchLogged(t) \/ Visit(t) \/ Visited(t) \/ \E n \in Names : VisitOne(t, n)
    BY <2>1 DEF Lookup, LookupMismatch, MismatchLogged, Visit, Visited, VisitOne, Goto, Idle, TypeOK
  <2>2. CASE \/ \E d \in Documents : Assign(t, d)
             \/ SkipItem(t) \/ FindVar(t) \/ FromStrThrows(t) \/ SetSame(t)
    BY <2>2 DEF Assign, SkipItem, FindVar, FromStrThrows, SetSame, Goto, Idle, TypeOK
  <2>3. CASE SetBegin(t) \/ Notify(t) \/ ListenerThrows(t) \/ Notified(t) \/ Write(t)
    BY <2>3 DEF SetBegin, Notify, ListenerThrows, Notified, Write, Goto, TypeOK
  <2> QED BY <2>1, <2>2, <2>3
<1>3. \A u \in Threads : u # t => loc'[u] = loc[u]
  BY DEF Lookup, LookupMismatch, MismatchLogged, Visit, Visited, VisitOne, Assign, SkipItem, FindVar,
         FromStrThrows, SetSame, SetBegin, Notify, ListenerThrows, Notified, Write, DropLocals, TypeOK
<1>4. /\ \A n \in Names : datas'[n] # Null => <<n, datas'[n]>> \in Wanted
      /\ \A n \in Names : datas[n] # Null => datas'[n] = datas[n]
  <2>1. CASE \E w \in Wanted : Lookup(t, w[1], w[2])
    <3>1. PICK w \in Wanted : Lookup(t, w[1], w[2])
      BY <2>1
    <3>2. w = <<w[1], w[2]>> /\ w[1] \in Names /\ w[2] \in Types
      BY ConfigAssumption
    <3> QED BY <3>1, <3>2 DEF Lookup, TypeOK, UniqueInv
  <2>2. CASE datas' = datas
    BY <2>2 DEF UniqueInv
  <2>3. datas' = datas \/ \E w \in Wanted : Lookup(t, w[1], w[2])
    BY DEF LookupMismatch, MismatchLogged, Visit, Visited, VisitOne, Assign, SkipItem, FindVar,
           FromStrThrows, SetSame, SetBegin, Notify, ListenerThrows, Notified, Write
  <2> QED BY <2>1, <2>2, <2>3
<1> QED BY <1>1, <1>2, <1>3, <1>4, UniqueKept DEF LocInv

\* The counter of a variable's type is the business of its lock's holder.
LEMMA SoleCounter ==
    ASSUME BaseInv, UniqueInv, OneOfAType, NEW t \in Threads, NEW u \in Threads, u # t,
           pc[t] \in {"inc", "insert", "return"}, pc[u] \in {"inc", "insert", "return"}
    PROVE  loc[t].name # loc[u].name /\ datas[loc[t].name] # datas[loc[u].name]
<1> USE DEF BaseInv
<1>1. /\ loc[t].name \in Names /\ datas[loc[t].name] # Null
      /\ loc[u].name \in Names /\ datas[loc[u].name] # Null
  BY DEF LocInv
<1>2. loc[t].name # loc[u].name
  BY <1>1 DEF LockInv, NameLockInv
<1>3. <<loc[t].name, datas[loc[t].name]>> \in Wanted /\ <<loc[u].name, datas[loc[u].name]>> \in Wanted
  BY <1>1 DEF UniqueInv
<1> QED BY <1>2, <1>3 DEF OneOfAType

LEMMA AddListenerUnique ==
    ASSUME BaseInv, UniqueInv, NEW t \in Threads, NEW n \in Names, NEW l \in Listeners, AddListener(t, n, l)
    PROVE  UniqueInv'
<1> USE DEF BaseInv
<1>1. /\ pc'[t] = "inc" /\ loc'[t] = [name |-> n, key |-> s_fun_id[datas[n]], cb |-> l]
      /\ \A u \in Threads : u # t => pc'[u] = pc[u] /\ loc'[u] = loc[u]
  BY DEF AddListener, Goto, TypeOK
<1>2. loc'[t].name = n /\ loc'[t].key = s_fun_id[datas[n]]
  BY <1>1
<1>3. UNCHANGED <<datas, m_cbs, s_fun_id, handles>>
  BY DEF AddListener
<1>4. \A u \in Threads : pc'[u] = "inc" => loc'[u].key = s_fun_id[datas[loc'[u].name]]
  BY <1>1, <1>2 DEF UniqueInv
<1>5. /\ \A u \in Threads : pc'[u] \in {"insert", "return"} =>
            \A h \in handles : h.name = loc'[u].name => h.key < s_fun_id[datas[h.name]]
      /\ \A u \in Threads : pc'[u] = "return" =>
            m_cbs[loc'[u].name][s_fun_id[datas[loc'[u].name]]] = loc'[u].cb
  BY <1>1 DEF UniqueInv
<1> QED BY <1>3, <1>4, <1>5 DEF UniqueInv, KeysAreUnique

LEMMA StoreCounterUnique ==
    ASSUME BaseInv, UniqueInv, OneOfAType, NEW t \in Threads, StoreCounter(t)
    PROVE  UniqueInv'
<1> USE DEF BaseInv
<1>1. PICK m, T, j : m = loc[t].name /\ T = datas[m] /\ j = loc[t].key
  OBVIOUS
<1>2. /\ pc[t] = "inc" /\ pc'[t] = "insert" /\ \A u \in Threads : u # t => pc'[u] = pc[u]
      /\ UNCHANGED <<datas, m_cbs, handles, loc>>
  BY DEF StoreCounter, Goto, TypeOK
<1>3. m \in Names /\ T \in Types /\ j = s_fun_id[T] /\ j \in Nat
  BY <1>1, <1>2 DEF LocInv, TypeOK, UniqueInv, Keys
<1>4. s_fun_id'[T] = j + 1 /\ \A S \in Types : S # T => s_fun_id'[S] = s_fun_id[S]
  BY <1>1, <1>3 DEF StoreCounter, TypeOK
<1>5. \A h \in handles : /\ h.name \in Names /\ datas[h.name] \in Types /\ h.key \in Nat
                         /\ s_fun_id[datas[h.name]] \in Nat /\ h.key <= s_fun_id[datas[h.name]]
  BY DEF UniqueInv, TypeOK, Keys
<1>6. \A h \in handles : h.key <= s_fun_id'[datas[h.name]]
  BY <1>3, <1>4, <1>5
<1>7. \A h \in handles : h.name = m => h.key < s_fun_id'[datas[h.name]]
  BY <1>1, <1>3, <1>4, <1>5
<1>8. ASSUME NEW u \in Threads, u # t, pc[u] \in {"inc", "insert", "return"}
      PROVE  s_fun_id'[datas[loc[u].name]] = s_fun_id[datas[loc[u].name]] /\ loc[u].name # m
  <2>1. datas[loc[u].name] # T /\ loc[u].name # m
    BY <1>1, <1>2, <1>8, SoleCounter
  <2>2. datas[loc[u].name] \in Types
    BY <1>8 DEF LocInv, TypeOK
  <2> QED BY <1>4, <2>1, <2>2
<1>9. /\ \A u \in Threads : pc'[u] = "inc" => loc[u].key = s_fun_id'[datas[loc[u].name]]
      /\ \A u \in Threads : pc'[u] = "return" =>
            m_cbs[loc[u].name][s_fun_id'[datas[loc[u].name]]] = loc[u].cb
  BY <1>2, <1>8 DEF UniqueInv
<1>10. ASSUME NEW u \in Threads, pc'[u] \in {"insert", "return"}, NEW h \in handles, h.name = loc[u].name
       PROVE  h.key < s_fun_id'[datas[h.name]]
  <2>1. CASE u = t
    BY <1>1, <1>7, <1>10, <2>1
  <2>2. CASE u # t
    BY <1>2, <1>8, <1>10, <2>2 DEF UniqueInv
  <2> QED BY <2>1, <2>2
<1>11. /\ \A n \in Names : datas[n] # Null => <<n, datas[n]>> \in Wanted
       /\ \A h \in handles : datas[h.name] # Null
       /\ \A g, h \in handles : g.name = h.name /\ g.key = h.key => g = h
  BY DEF UniqueInv
<1>12. KeysAreUnique'
  BY <1>2 DEF UniqueInv, KeysAreUnique
<1> QED BY <1>2, <1>6, <1>9, <1>10, <1>11, <1>12 DEF UniqueInv

LEMMA InsertUnique ==
    ASSUME BaseInv, UniqueInv, OneOfAType, NEW t \in Threads, Insert(t)
    PROVE  UniqueInv'
<1> USE DEF BaseInv
<1>a. PICK m \in Names, k \in Keys : InsertsAt(t, m, k)
  BY InsertFacts
<1>1. m = loc[t].name /\ k = s_fun_id[datas[m]]
  BY <1>a DEF InsertsAt
<1>2. /\ m \in Names /\ k \in Keys /\ pc[t] = "insert" /\ pc'[t] = "return"
      /\ \A u \in Threads : u # t => pc'[u] = pc[u]
      /\ m_cbs' = [m_cbs EXCEPT ![m][k] = loc[t].cb]
      /\ UNCHANGED <<loc, datas, s_fun_id, handles>>
  BY <1>a DEF InsertsAt
<1>3. /\ m_cbs'[m][k] = loc[t].cb
      /\ \A n \in Names, j \in Keys : ~(n = m /\ j = k) => m_cbs'[n][j] = m_cbs[n][j]
  BY <1>2 DEF TypeOK
<1>4. \A h \in handles : h.name \in Names /\ h.key \in Keys /\ ~(h.name = m /\ h.key = k)
  <2>1. \A h \in handles : h.name \in Names /\ h.key \in Keys /\ (h.name = m => h.key < k)
    BY <1>1, <1>2 DEF UniqueInv, TypeOK
  <2> QED BY <1>2, <2>1 DEF Keys
<1>5. KeysAreUnique'
  BY <1>2, <1>3, <1>4 DEF UniqueInv, KeysAreUnique
<1>6. ASSUME NEW u \in Threads, pc'[u] = "return"
      PROVE  m_cbs'[loc[u].name][s_fun_id[datas[loc[u].name]]] = loc[u].cb
  <2>1. CASE u = t
    BY <1>1, <1>3, <2>1
  <2>2. CASE u # t
    <3>1. loc[u].name # m
      BY <1>1, <1>2, <1>6, <2>2, SoleCounter
    <3>2. loc[u].name \in Names /\ s_fun_id[datas[loc[u].name]] \in Keys
      BY <1>2, <1>6, <2>2 DEF LocInv, TypeOK
    <3> QED BY <1>2, <1>3, <1>6, <2>2, <3>1, <3>2 DEF UniqueInv
  <2> QED BY <2>1, <2>2
<1>7. /\ \A u \in Threads : pc'[u] = "inc" => loc[u].key = s_fun_id[datas[loc[u].name]]
      /\ \A u \in Threads : pc'[u] \in {"insert", "return"} =>
            \A h \in handles : h.name = loc[u].name => h.key < s_fun_id[datas[h.name]]
  BY <1>2 DEF UniqueInv
<1> QED BY <1>2, <1>5, <1>6, <1>7 DEF UniqueInv

LEMMA ReturnKeyUnique ==
    ASSUME BaseInv, UniqueInv, OneOfAType, NEW t \in Threads, ReturnKey(t)
    PROVE  UniqueInv'
<1> USE DEF BaseInv
<1>1. PICK m, k, l : m = loc[t].name /\ k = s_fun_id[datas[m]] /\ l = loc[t].cb
  OBVIOUS
<1>2. PICK r : r = [name |-> m, key |-> k, cb |-> l]
  OBVIOUS
<1>3. /\ pc[t] = "return" /\ pc'[t] = "idle"
      /\ \A u \in Threads : u # t => pc'[u] = pc[u] /\ loc'[u] = loc[u]
      /\ handles' = handles \cup {r}
      /\ UNCHANGED <<datas, m_cbs, s_fun_id>>
  BY <1>1, <1>2 DEF ReturnKey, Goto, DropLocals, TypeOK
<1>4. r.name = m /\ r.key = k /\ r.cb = l
  BY <1>2
<1>5. m \in Names /\ datas[m] \in Types /\ k \in Nat /\ m_cbs[m][k] = l
  BY <1>1, <1>3 DEF LocInv, TypeOK, Keys, UniqueInv
<1>6. \A h \in handles : h.name = m => h.key < k /\ h.key \in Nat
  BY <1>1, <1>3 DEF UniqueInv, TypeOK, Keys
<1>7. \A h \in handles' : datas[h.name] # Null /\ h.key <= s_fun_id[datas[h.name]]
  <2>1. \A h \in handles : datas[h.name] # Null /\ h.key <= s_fun_id[datas[h.name]]
    BY DEF UniqueInv
  <2>2. datas[r.name] # Null /\ r.key <= s_fun_id[datas[r.name]]
    BY <1>1, <1>4, <1>5, ConfigAssumption
  <2> QED BY <1>3, <2>1, <2>2
<1>8. ASSUME NEW g \in handles', NEW h \in handles', g.name = h.name, g.key = h.key PROVE g = h
  <2>1. \A x \in handles : ~(x.name = m /\ x.key = k)
    BY <1>5, <1>6
  <2>2. CASE g = r
    BY <1>3, <1>4, <1>8, <2>1, <2>2
  <2>3. CASE h = r
    BY <1>3, <1>4, <1>8, <2>1, <2>3
  <2>4. CASE g # r /\ h # r
    BY <1>3, <1>8, <2>4 DEF UniqueInv
  <2> QED BY <2>2, <2>3, <2>4
<1>9. KeysAreUnique'
  BY <1>3, <1>4, <1>5 DEF UniqueInv, KeysAreUnique
<1>10. ASSUME NEW u \in Threads, pc'[u] \in {"inc", "insert", "return"}
       PROVE  u # t /\ pc'[u] = pc[u] /\ loc'[u] = loc[u] /\ loc[u].name # m
  BY <1>1, <1>3, <1>10, SoleCounter
<1>11. /\ \A u \in Threads : pc'[u] = "inc" => loc'[u].key = s_fun_id[datas[loc'[u].name]]
       /\ \A u \in Threads : pc'[u] = "return" =>
            m_cbs[loc'[u].name][s_fun_id[datas[loc'[u].name]]] = loc'[u].cb
  BY <1>10 DEF UniqueInv
<1>12. \A u \in Threads : pc'[u] \in {"insert", "return"} =>
          \A h \in handles' : h.name = loc'[u].name => h.key < s_fun_id[datas[h.name]]
  BY <1>3, <1>4, <1>10 DEF UniqueInv
<1> QED BY <1>3, <1>7, <1>8, <1>9, <1>11, <1>12 DEF UniqueInv

\* A listener that is removed is that of its key.
LEMMA RemoveUnique ==
    ASSUME BaseInv, UniqueInv, NEW t \in Threads,
           \/ \E h \in handles : DelListener(t, h)
           \/ \E m \in Names : ClearListener(t, m)
    PROVE  UniqueInv'
<1> USE DEF BaseInv
<1>1. PICK m \in Names, keys \in SUBSET Keys :
        /\ writer[m] = Null /\ handles' \subseteq handles
        /\ \A n \in Names, k \in Keys : ~(n = m /\ k \in keys) => m_cbs'[n][k] = m_cbs[n][k]
        /\ \A h \in handles' : ~(h.name = m /\ h.key \in keys)
        /\ UNCHANGED <<s_fun_id, loc, datas, pc>>
  <2>1. CASE \E h \in handles : DelListener(t, h)
    <3>1. PICK h \in handles : DelListener(t, h)
      BY <2>1
    <3>2. h.name \in Names /\ h.key \in Keys
      BY DEF TypeOK
    <3>3. /\ \A n \in Names, k \in Keys : ~(n = h.name /\ k \in {h.key}) => m_cbs'[n][k] = m_cbs[n][k]
          /\ UNCHANGED <<s_fun_id, loc, datas, pc>> /\ writer[h.name] = Null /\ handles' = handles \ {h}
      BY <3>1, <3>2 DEF DelListener, CanWrite, TypeOK
    <3>4. \A g \in handles' : ~(g.name = h.name /\ g.key \in {h.key})
      BY <3>3 DEF UniqueInv
    <3>5. {h.key} \in SUBSET Keys /\ handles' \subseteq handles
      BY <3>2, <3>3
    <3> QED BY <3>2, <3>3, <3>4, <3>5
  <2>2. CASE \E m \in Names : ClearListener(t, m)
    <3>1. PICK m \in Names : ClearListener(t, m)
      BY <2>2
    <3>2. /\ \A n \in Names, k \in Keys : ~(n = m /\ k \in Keys) => m_cbs'[n][k] = m_cbs[n][k]
          /\ UNCHANGED <<s_fun_id, loc, datas, pc>> /\ writer[m] = Null
          /\ handles' = {h \in handles : h.name # m}
      BY <3>1 DEF ClearListener, CanWrite, TypeOK
    <3> QED BY <3>2
  <2> QED BY <2>1, <2>2
<1>2. \A h \in handles' : h \in handles /\ h.name \in Names /\ h.key \in Keys
  BY <1>1 DEF TypeOK
<1>3. KeysAreUnique'
  BY <1>1, <1>2 DEF UniqueInv, KeysAreUnique
<1>4. ASSUME NEW u \in Threads, pc[u] = "return"
      PROVE  m_cbs'[loc[u].name][s_fun_id[datas[loc[u].name]]] = loc[u].cb
  <2>1. loc[u].name \in Names /\ s_fun_id[datas[loc[u].name]] \in Keys /\ writer[loc[u].name] = u
    BY <1>4 DEF LocInv, TypeOK, LockInv, NameLockInv
  <2>2. loc[u].name # m
    BY <1>1, <2>1, ConfigAssumption
  <2> QED BY <1>1, <1>4, <2>1, <2>2 DEF UniqueInv
<1> QED BY <1>1, <1>2, <1>3, <1>4 DEF UniqueInv

LEMMA NextUnique == OneOfAType /\ BaseInv /\ UniqueInv /\ [Next]_vars => UniqueInv'
<1> SUFFICES ASSUME OneOfAType, BaseInv, UniqueInv, [Next]_vars PROVE UniqueInv'
  OBVIOUS
<1>1. ASSUME NEW t \in Threads, Running(t) PROVE UniqueInv'
  BY <1>1, QuietUnique, StoreCounterUnique, InsertUnique, ReturnKeyUnique DEF Running
<1>2. ASSUME NEW t \in Threads, Calling(t) PROVE UniqueInv'
  BY <1>2, QuietUnique, AddListenerUnique, RemoveUnique DEF Calling
<1>3. CASE UNCHANGED vars
  BY <1>3 DEF vars, UniqueInv, KeysAreUnique
<1> QED BY <1>1, <1>2, <1>3 DEF Next, Terminated

\* Where no two variables have one type, the key add_listener returns is that of the
\* listener, and of no other (config.h:364).  With two variables of a type the
\* property does not hold: their locks do not guard the counter they share.
THEOREM KeysAreUniqueHolds == ASSUME OneOfAType PROVE Spec => []KeysAreUnique
<1>1. Init => UniqueInv
  BY DEF Init, UniqueInv, KeysAreUnique
<1>2. BaseInv /\ UniqueInv /\ [Next]_vars => UniqueInv'
  BY NextUnique
<1>3. UniqueInv => KeysAreUnique
  BY DEF UniqueInv
<1> QED BY <1>1, <1>2, <1>3, BaseHolds, PTL DEF Spec
=============================================================================
