------------------------------- MODULE Config -------------------------------
(***************************************************************************)
(* wb_server/config.h and config.cc: named configuration variables with    *)
(* change listeners, and the registry that Config::load_from_yaml writes.  *)
(*                                                                         *)
(* A variable is guarded by its own RWMutex, the registry by another one,  *)
(* taken to look a name up, to add one and to visit all of them.           *)
(* set_value notifies under the read lock and assigns under the write lock *)
(* it takes afterwards; add_listener draws its key from a counter that all *)
(* variables of one type share and that none of their locks guards.        *)
(* A critical section with no other shared state is one action, whose      *)
(* guard is the acquisition of the lock.                                   *)
(***************************************************************************)
EXTENDS Naturals, FiniteSets, Sequences

CONSTANTS
    Threads,
    Names,          \* valid parameter names (in lower case)
    Types,          \* the types T of ConfigVar<T>
    Values,         \* values of a parameter
    Bad,            \* a string that FromStr cannot convert
    Default,        \* the default value lookups pass
    Listeners,      \* callbacks handed to add_listener
    Documents,      \* what is assigned: sequences of [name, val]
    Wanted,         \* the <<name, type>> pairs the program looks up
    Registry,       \* the lock of the registry, besides those of the names
    Null,
    Writers,        \* Writers[n]: the threads that assign n
    Subscribers,    \* Subscribers[n]: the threads that add and remove listeners of n
    MaxJobs,        \* bound: documents loaded
    MaxAdds,        \* bound: add_listener calls
    MaxVisits       \* bound: Visit calls and lookups with a wrong type, together

Item == [name : Names, val : Values \cup {Bad}]

ASSUME ConfigAssumption ==
    /\ Default \in Values /\ Bad \notin Values
    /\ Null \notin Threads \cup Types \cup Listeners /\ Registry \notin Names
    /\ IsFiniteSet(Threads)
    /\ Documents \subseteq Seq(Item)
    /\ Wanted \subseteq Names \X Types
    /\ Writers \in [Names -> SUBSET Threads]
    /\ Subscribers \in [Names -> SUBSET Threads]
    /\ {MaxJobs, MaxAdds, MaxVisits} \subseteq Nat

VARIABLES
    datas,          \* Config::GetDatas(): the type of the variable under each name
    m_val, m_cbs,   \* ConfigVar::m_val and m_cbs of the variable under each name
    s_fun_id,       \* the static counter in ConfigVar<T>::add_listener
    readers, writer,\* ConfigVar::m_mutex of each name, Config::GetMutex()
    pc,             \* where each thread is
    job,            \* what is left of the document the thread assigns
    loc,            \* its locals: the variable, a key, a callback
    seen,           \* the variables its Visit has passed to the callback
    told,           \* history: the values each listener knows of, its first one
                    \* being that of the variable when it was inserted
    late,           \* history: listeners inserted between a notification and its write
    threw,          \* history: a listener threw since the value last changed
    handles,        \* history: what add_listener returned, while it is subscribed
    jobs, adds, visits  \* counters behind the bounds

setVars == <<job, jobs>>
addVars == <<s_fun_id, loc, handles, adds>>
varVars == <<datas, m_val, m_cbs>>
visitVars == <<seen, visits>>
locks == <<readers, writer>>
history == <<told, late, threw>>
vars == <<setVars, addVars, varVars, visitVars, locks, history, pc>>

Keys == 0..MaxAdds
NoListener == [k \in Keys |-> Null]
Locals == [name : Names \cup {Null}, key : Keys, cb : Listeners \cup {Null}]
NoLocals == [name |-> Null, key |-> 0, cb |-> Null]
Pcs == {"idle", "found", "notify", "write", "inc", "insert", "return", "mismatch", "visit"}
Locks == Names \cup {Registry}

TypeOK ==
    /\ datas \in [Names -> Types \cup {Null}]
    /\ m_val \in [Names -> Values]
    /\ m_cbs \in [Names -> [Keys -> Listeners \cup {Null}]]
    /\ s_fun_id \in [Types -> Keys]
    /\ readers \in [Locks -> SUBSET Threads]
    /\ writer \in [Locks -> Threads \cup {Null}]
    /\ pc \in [Threads -> Pcs]
    /\ job \in [Threads -> Seq(Item)]
    /\ loc \in [Threads -> Locals]
    /\ told \in [Names -> [Keys -> Seq(Values)]]
    /\ late \subseteq Names \X Keys
    /\ threw \in [Names -> BOOLEAN]
    /\ handles \subseteq [name : Names, key : Keys, cb : Listeners]
    /\ seen \in [Threads -> SUBSET Names]
    /\ jobs \in 0..MaxJobs /\ adds \in 0..MaxAdds /\ visits \in 0..MaxVisits

Init ==
    /\ datas = [n \in Names |-> Null]
    /\ m_val = [n \in Names |-> Default]
    /\ m_cbs = [n \in Names |-> NoListener]
    /\ s_fun_id = [T \in Types |-> 0]
    /\ readers = [l \in Locks |-> {}]
    /\ writer = [l \in Locks |-> Null]
    /\ pc = [t \in Threads |-> "idle"]
    /\ job = [t \in Threads |-> <<>>]
    /\ loc = [t \in Threads |-> NoLocals]
    /\ told = [n \in Names |-> [k \in Keys |-> <<>>]]
    /\ late = {}
    /\ threw = [n \in Names |-> FALSE]
    /\ handles = {}
    /\ seen = [t \in Threads |-> {}]
    /\ jobs = 0 /\ adds = 0 /\ visits = 0

Goto(t, from, to) == pc[t] = from /\ pc' = [pc EXCEPT ![t] = to]

\* A call is over, its locals are gone.
DropLocals(t) == loc' = [loc EXCEPT ![t] = NoLocals]

\* RWMutex::read_lock and write_lock get the lock.
CanRead(l) == writer[l] = Null
CanWrite(l) == writer[l] = Null /\ readers[l] = {}

-----------------------------------------------------------------------------
(* The registry.                                                           *)

Idle(t) == pc[t] = "idle" /\ job[t] = <<>>

\* Mutant: lookup inserts under the read lock.
BugLookupReads(t, n, T) ==
    /\ Idle(t)
    /\ CanRead(Registry)
    /\ datas[n] = Null
    /\ datas' = [datas EXCEPT ![n] = T]
    /\ UNCHANGED <<setVars, addVars, m_val, m_cbs, visitVars, locks, history, pc>>

\* Config::lookup<T>(name, default, description), under the write lock of the
\* registry: a new variable with the default value.
Lookup(t, n, T) ==
    /\ Idle(t)
    /\ CanWrite(Registry)
    /\ datas[n] = Null
    /\ datas' = [datas EXCEPT ![n] = T]
    /\ UNCHANGED <<setVars, addVars, m_val, m_cbs, visitVars, locks, history, pc>>

\* An existing variable of another type: lookup holds the registry while it asks
\* the variable for its value, to log it, and returns null.
LookupMismatch(t, n, T) ==
    /\ Goto(t, "idle", "mismatch")
    /\ job[t] = <<>> /\ visits < MaxVisits
    /\ CanWrite(Registry)
    /\ datas[n] \notin {Null, T}
    /\ writer' = [writer EXCEPT ![Registry] = t]
    /\ loc' = [loc EXCEPT ![t].name = n]
    /\ visits' = visits + 1
    /\ UNCHANGED <<setVars, s_fun_id, handles, adds, varVars, seen, readers, history>>

\* to_string() takes the variable's read lock and gives it back.
MismatchLogged(t) ==
    /\ Goto(t, "mismatch", "idle")
    /\ CanRead(loc[t].name)
    /\ writer' = [writer EXCEPT ![Registry] = Null]
    /\ DropLocals(t)
    /\ UNCHANGED <<setVars, s_fun_id, handles, adds, varVars, visitVars, readers, history>>

\* Config::Visit: the registry's read lock around the whole iteration.
Visit(t) ==
    /\ Goto(t, "idle", "visit")
    /\ job[t] = <<>> /\ visits < MaxVisits
    /\ CanRead(Registry)
    /\ readers' = [readers EXCEPT ![Registry] = @ \cup {t}]
    /\ visits' = visits + 1
    /\ UNCHANGED <<setVars, addVars, varVars, seen, writer, history>>

\* cb(it->second): the callback reads the value of the variable (to_string),
\* in the order of an unordered_map.
VisitOne(t, n) ==
    /\ pc[t] = "visit"
    /\ datas[n] # Null /\ n \notin seen[t]
    /\ CanRead(n)
    /\ seen' = [seen EXCEPT ![t] = @ \cup {n}]
    /\ UNCHANGED <<setVars, addVars, varVars, visits, locks, history, pc>>

Visited(t) ==
    /\ Goto(t, "visit", "idle")
    /\ \A n \in Names : datas[n] # Null => n \in seen[t]
    /\ readers' = [readers EXCEPT ![Registry] = @ \ {t}]
    /\ seen' = [seen EXCEPT ![t] = {}]
    /\ UNCHANGED <<setVars, addVars, varVars, visits, writer, history>>

-----------------------------------------------------------------------------
(* Assignment: load_from_yaml, whose documents of one item also stand for  *)
(* calls of set_value and from_string.                                     *)

Assign(t, d) ==
    /\ Idle(t)
    /\ jobs < MaxJobs
    /\ \A i \in DOMAIN d : t \in Writers[d[i].name]
    /\ job' = [job EXCEPT ![t] = d]
    /\ jobs' = jobs + 1
    /\ UNCHANGED <<addVars, varVars, visitVars, locks, history, pc>>

NextItem(t) == job' = [job EXCEPT ![t] = Tail(@)]

\* lookup_base(key), under the registry's read lock, which is not kept: no
\* variable has the name, or one does.
SkipItem(t) ==
    /\ pc[t] = "idle" /\ job[t] # <<>>
    /\ CanRead(Registry)
    /\ datas[Head(job[t]).name] = Null
    /\ NextItem(t)
    /\ UNCHANGED <<jobs, addVars, varVars, visitVars, locks, history, pc>>

FindVar(t) ==
    /\ Goto(t, "idle", "found")
    /\ job[t] # <<>>
    /\ CanRead(Registry)
    /\ datas[Head(job[t]).name] # Null
    /\ UNCHANGED <<setVars, addVars, varVars, visitVars, locks, history>>

\* FromStr throws and from_string swallows it.
FromStrThrows(t) ==
    /\ Goto(t, "found", "idle")
    /\ Head(job[t]).val = Bad
    /\ NextItem(t)
    /\ UNCHANGED <<jobs, addVars, varVars, visitVars, locks, history>>

\* set_value: the read lock; nothing to do for an equal value.
SetSame(t) ==
    /\ Goto(t, "found", "idle")
    /\ LET n == Head(job[t]).name IN CanRead(n) /\ Head(job[t]).val = m_val[n]
    /\ NextItem(t)
    /\ UNCHANGED <<jobs, addVars, varVars, visitVars, locks, history>>

SetBegin(t) ==
    /\ Goto(t, "found", "notify")
    /\ LET n == Head(job[t]).name IN
         /\ CanRead(n)
         /\ Head(job[t]).val \notin {Bad, m_val[n]}
         /\ readers' = [readers EXCEPT ![n] = @ \cup {t}]
    /\ UNCHANGED <<setVars, addVars, varVars, visitVars, writer, history>>

\* The listeners the loop over m_cbs has not reached yet.
Pending(t) == {k \in Keys : k > loc[t].key /\ m_cbs[Head(job[t]).name][k] # Null}

\* i.second(m_val, val) for the next key of the map.
Notify(t) ==
    /\ pc[t] = "notify"
    /\ \E k \in Pending(t) :
         /\ \A j \in Pending(t) : k <= j
         /\ loc' = [loc EXCEPT ![t].key = k]
         /\ told' = [told EXCEPT ![Head(job[t]).name][k] = Append(@, Head(job[t]).val)]
    /\ UNCHANGED <<setVars, s_fun_id, handles, adds, varVars, locks, late, threw, pc, visitVars>>

ReleaseRead(t) == readers' = [readers EXCEPT ![Head(job[t]).name] = @ \ {t}]

\* Mutant: set_value swallows the exception itself and assigns.
BugListenerThrowsOn(t) ==
    /\ Goto(t, "notify", "write")
    /\ Pending(t) # {}
    /\ ReleaseRead(t)
    /\ DropLocals(t)
    /\ UNCHANGED <<setVars, s_fun_id, handles, adds, varVars, visitVars, writer, history>>

\* Mutant: the exception leaves the read lock held.
BugListenerThrowsLocked(t) ==
    /\ Goto(t, "notify", "idle")
    /\ Pending(t) # {}
    /\ threw' = [threw EXCEPT ![Head(job[t]).name] = TRUE]
    /\ NextItem(t)
    /\ DropLocals(t)
    /\ UNCHANGED <<jobs, s_fun_id, handles, adds, varVars, locks, told, late, visitVars>>

\* The listener throws instead: the scope guard unlocks, m_val is not assigned.
\* from_string swallows the exception and load_from_yaml goes on; out of a plain
\* set_value it reaches the caller.
ListenerThrows(t) ==
    /\ Goto(t, "notify", "idle")
    /\ Pending(t) # {}
    /\ threw' = [threw EXCEPT ![Head(job[t]).name] = TRUE]
    /\ ReleaseRead(t)
    /\ NextItem(t)
    /\ DropLocals(t)
    /\ UNCHANGED <<jobs, s_fun_id, handles, adds, varVars, writer, told, late, visitVars>>

\* Mutant: the loop over the listeners is left early.
BugNotifiedEarly(t) ==
    /\ Goto(t, "notify", "write")
    /\ ReleaseRead(t)
    /\ DropLocals(t)
    /\ UNCHANGED <<setVars, s_fun_id, handles, adds, varVars, writer, history, visitVars>>

\* All are notified: the read lock is released before the write lock is taken.
Notified(t) ==
    /\ Goto(t, "notify", "write")
    /\ Pending(t) = {}
    /\ ReleaseRead(t)
    /\ DropLocals(t)
    /\ UNCHANGED <<setVars, s_fun_id, handles, adds, varVars, writer, history, visitVars>>

Write(t) ==
    /\ Goto(t, "write", "idle")
    /\ LET n == Head(job[t]).name IN
         /\ CanWrite(n)
         /\ m_val' = [m_val EXCEPT ![n] = Head(job[t]).val]
         /\ threw' = [threw EXCEPT ![n] = FALSE]
    /\ NextItem(t)
    /\ UNCHANGED <<jobs, addVars, datas, m_cbs, locks, told, late, visitVars>>

-----------------------------------------------------------------------------
(* Listeners.                                                              *)

\* add_listener: the write lock of this variable, then ++s_fun_id, which is a
\* load and a store that another variable of the type may come between.
AddListener(t, n, l) ==
    /\ Goto(t, "idle", "inc")
    /\ job[t] = <<>> /\ adds < MaxAdds
    /\ datas[n] # Null /\ t \in Subscribers[n]
    /\ CanWrite(n)
    /\ writer' = [writer EXCEPT ![n] = t]
    /\ loc' = [loc EXCEPT ![t] = [name |-> n, key |-> s_fun_id[datas[n]], cb |-> l]]
    /\ adds' = adds + 1
    /\ UNCHANGED <<setVars, s_fun_id, handles, varVars, readers, history, visitVars>>

\* Mutant: s_fun_id is not incremented.
BugStoreCounterNot(t) ==
    /\ Goto(t, "inc", "insert")
    /\ UNCHANGED <<setVars, addVars, varVars, locks, history, visitVars>>

StoreCounter(t) ==
    /\ Goto(t, "inc", "insert")
    /\ s_fun_id' = [s_fun_id EXCEPT ![datas[loc[t].name]] = loc[t].key + 1]
    /\ UNCHANGED <<setVars, loc, handles, adds, varVars, locks, history, visitVars>>

Writing(t, n) == pc[t] = "write" /\ Head(job[t]).name = n

\* m_cbs[s_fun_id] = cb, reading the counter again.
Insert(t) ==
    /\ Goto(t, "insert", "return")
    /\ LET n == loc[t].name
           k == s_fun_id[datas[n]] IN
         /\ m_cbs' = [m_cbs EXCEPT ![n][k] = loc[t].cb]
         /\ told' = [told EXCEPT ![n][k] = <<m_val[n]>>]
         /\ late' = IF \E u \in Threads : Writing(u, n) THEN late \cup {<<n, k>>} ELSE late
    /\ UNCHANGED <<setVars, addVars, datas, m_val, locks, threw, visitVars>>

\* return s_fun_id, reading it once more; the guard unlocks.
ReturnKey(t) ==
    /\ Goto(t, "return", "idle")
    /\ LET n == loc[t].name IN
         /\ writer' = [writer EXCEPT ![n] = Null]
         /\ handles' = handles \cup {[name |-> n, key |-> s_fun_id[datas[n]], cb |-> loc[t].cb]}
    /\ DropLocals(t)
    /\ UNCHANGED <<setVars, s_fun_id, adds, varVars, readers, history, visitVars>>

\* History: what a removed listener was told is of no interest.
Forget(n, keys) ==
    /\ told' = [told EXCEPT ![n] = [k \in Keys |-> IF k \in keys THEN <<>> ELSE @[k]]]
    /\ late' = late \ ({n} \X keys)

\* del_lietener(key), with a key add_listener returned.
DelListener(t, h) ==
    /\ Idle(t)
    /\ h \in handles /\ t \in Subscribers[h.name]
    /\ CanWrite(h.name)
    /\ m_cbs' = [m_cbs EXCEPT ![h.name][h.key] = Null]
    /\ handles' = handles \ {h}
    /\ Forget(h.name, {h.key})
    /\ UNCHANGED <<setVars, s_fun_id, loc, adds, datas, m_val, locks, threw, pc, visitVars>>

\* Mutant: clear_listener takes the read lock.
BugClearUnderReadLock(t, n) ==
    /\ Idle(t)
    /\ datas[n] # Null /\ t \in Subscribers[n]
    /\ CanRead(n)
    /\ m_cbs' = [m_cbs EXCEPT ![n] = NoListener]
    /\ handles' = {h \in handles : h.name # n}
    /\ Forget(n, Keys)
    /\ UNCHANGED <<setVars, s_fun_id, loc, adds, datas, m_val, locks, threw, pc, visitVars>>

ClearListener(t, n) ==
    /\ Idle(t)
    /\ datas[n] # Null /\ t \in Subscribers[n]
    /\ CanWrite(n)
    /\ m_cbs' = [m_cbs EXCEPT ![n] = NoListener]
    /\ handles' = {h \in handles : h.name # n}
    /\ Forget(n, Keys)
    /\ UNCHANGED <<setVars, s_fun_id, loc, adds, datas, m_val, locks, threw, pc, visitVars>>

-----------------------------------------------------------------------------

Terminated == /\ \A t \in Threads : pc[t] = "idle" /\ job[t] = <<>>
              /\ UNCHANGED vars

Running(t) ==
    \/ SkipItem(t) \/ FindVar(t) \/ FromStrThrows(t) \/ SetSame(t) \/ SetBegin(t)
    \/ Notify(t) \/ ListenerThrows(t) \/ Notified(t) \/ Write(t)
    \/ StoreCounter(t) \/ Insert(t) \/ ReturnKey(t)
    \/ MismatchLogged(t) \/ Visited(t) \/ \E n \in Names : VisitOne(t, n)

Calling(t) ==
    \/ \E w \in Wanted : Lookup(t, w[1], w[2]) \/ LookupMismatch(t, w[1], w[2])
    \/ \E d \in Documents : Assign(t, d)
    \/ \E n \in Names, l \in Listeners : AddListener(t, n, l)
    \/ \E h \in handles : DelListener(t, h)
    \/ \E n \in Names : ClearListener(t, n)
    \/ Visit(t)

Next == (\E t \in Threads : Running(t) \/ Calling(t)) \/ Terminated

Spec == Init /\ [][Next]_vars

\* A call under way goes on; readers and writers of one lock are few, so a
\* waiting writer is not overtaken for ever.
FairSpec == Spec /\ \A t \in Threads : WF_vars(Running(t))

-----------------------------------------------------------------------------
(* Properties.                                                             *)

\* While set_value calls its listeners, neither the value it passes as the old
\* one nor the map it iterates over changes (config.h:326-332).
NoChangeWhileNotifying ==
    [][\A t \in Threads : pc[t] = "notify" =>
          LET n == Head(job[t]).name IN
              m_val'[n] = m_val[n] /\ m_cbs'[n] = m_cbs[n]]_vars

\* No value becomes visible unannounced: whichever threads assign, throw and
\* subscribe, a listener has been called with the present value, or was inserted
\* at it, or slipped in between the two locks of set_value (config.h:324-336).
Announced ==
    \A n \in Names : \A k \in Keys :
        m_cbs[n][k] # Null /\ <<n, k>> \notin late
            => \E i \in DOMAIN told[n][k] : told[n][k][i] = m_val[n]

\* The key add_listener returns is that of the listener that was added, and of no
\* other one: "the key is required to be unique" (config.h:364).
KeysAreUnique == \A h \in handles : m_cbs[h.name][h.key] = h.cb

\* A variable that one thread assigns: once its assignments are over, the last new
\* value a listener was called with is the value the variable has, unless a
\* listener threw since (on_change_cb, config.h:280; two assigning threads may
\* announce in one order and write in the other, config.h:324-336).
ListenersKnowValue ==
    \A n \in Names :
        /\ Cardinality(Writers[n]) = 1
        /\ ~threw[n] /\ \A t \in Writers[n] : job[t] = <<>>
        => \A k \in Keys : m_cbs[n][k] # Null /\ <<n, k>> \notin late
              => told[n][k][Len(told[n][k])] = m_val[n]

\* While Visit iterates over the registry, no lookup inserts a name, which would
\* rehash the unordered_map under the iterator (config.cc:53-59, config.h:384-414).
RegistryStable ==
    [][(\E t \in Threads : pc[t] = "visit" /\ pc'[t] = "visit") => datas' = datas]_vars

\* Every set_value, load_from_yaml, add_listener, Visit and lookup that has its
\* first lock comes to its end, whatever listeners throw and whichever locks are
\* taken one under the other (config.h:396-398, config.cc:53-59).
CallsEnd == \A t \in Threads : ~Idle(t) ~> Idle(t)
=============================================================================
