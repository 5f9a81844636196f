-------------------------------- MODULE Log --------------------------------
(***************************************************************************)
(* wb_server/log.cc: the loggers, and the listener LogIniter installs on   *)
(* the parameter "logs", which rebuilds them when the parameter changes    *)
(* while other threads log.                                                *)
(*                                                                         *)
(* Every operation of a logger runs under its spinlock and is one action,  *)
(* but for log() on a logger without appenders, which keeps its lock while *)
(* it takes that of the root logger, and add_appender of an appender that  *)
(* others know, which locks the appender twice.  to_yaml_string of the     *)
(* LoggerManager keeps the manager's lock, which get_logger waits for.  A  *)
(* logger that get_logger has not made yet is the logger it would make.    *)
(***************************************************************************)
EXTENDS Naturals, Sequences, SequencesExt

CONSTANTS
    Threads,
    Setters,        \* the threads that assign the parameter "logs"
    Names,          \* names of loggers; they may include that of the root
    Root,           \* the root logger
    Formats,        \* patterns LogFormatter::init accepts
    Default,        \* the pattern of a new logger
    NoFormat,       \* an empty pattern
    BadFormat,      \* a pattern it rejects
    Configs,        \* the values assigned: [Names -> Definition \cup {Null}]
    Levels,         \* of events
    Mine,           \* an appender of the program, a pointer in the loggers' lists
    Null,
    MaxSets,        \* bound: assignments
    MaxCalls        \* bound: other calls on loggers

Loggers == Names \cup {Root}
Patterns == Formats \cup {NoFormat, BadFormat}

\* LogAppenderDefine, as the LexicalCast makes it: type 1 is a file, 2 standard
\* output, which gets no pattern; level is never read and stays UNKNOW.
AppenderDefine == [type : {1}, formatter : Patterns] \cup [type : {2}, formatter : {NoFormat}]

\* LogDefine, under its name.
Definition == [level : 0..5, formatter : Patterns, appenders : Seq(AppenderDefine)]

\* The value of the parameter "logs".
Logs == [Names -> Definition \cup {Null}]

\* LogAppender: type stands for the class, has for m_has_formatter.
Appender == [type : {1, 2}, formatter : Formats, has : BOOLEAN]
Own == [formatter : Formats \cup {NoFormat}, has : BOOLEAN]

ASSUME LogAssumption ==
    /\ Setters \subseteq Threads
    /\ Default \in Formats /\ {NoFormat, BadFormat} \cap Formats = {}
    /\ Null \notin Threads \cup Loggers \cup Definition
    /\ Mine \notin Appender
    /\ Configs \subseteq Logs
    /\ Levels \subseteq 1..5
    /\ MaxSets \in Nat /\ MaxCalls \in Nat

VARIABLES
    m_level, m_formatter, m_appenders,  \* of each Logger
    mine,           \* the program's appender; its pattern is null (NoFormat) at first
    m_mutex,        \* the spinlock of each Logger: the thread that keeps it
    manager,        \* the lock of the LoggerManager: the thread that keeps it
    dumped,         \* the loggers its to_yaml_string has written
    m_val,          \* the value of the parameter "logs"
    pc,             \* where each thread is
    event,          \* the event a thread logs: its logger and level
    plan,           \* the listener's locals: the new value, the definitions left to
                    \* apply, the present one, its appenders left, the ones to delete
    asked,          \* history: the value last assigned
    seen,           \* history: the definitions each logger has had
    given,          \* history: the pattern mine was given last, unless it was
                    \* overwritten; how often it was added
    sets, calls     \* counters behind the bounds

mineVars == <<mine, given>>
loggerVars == <<m_level, m_formatter, m_appenders, mineVars>>
confVars == <<m_val, asked, seen, sets>>
dumpVars == <<manager, dumped>>
vars == <<loggerVars, confVars, dumpVars, m_mutex, pc, event, plan, calls>>

NoEvent == [logger |-> Root, level |-> 0]
Plan == [new : Logs, left : SUBSET Names, at : Names \cup {Null}, apps : Seq(AppenderDefine),
         gone : SUBSET Names]
NoPlan == [new |-> [n \in Names |-> Null], left |-> {}, at |-> Null, apps |-> <<>>, gone |-> {}]
Pcs == {"idle", "changed", "tell", "level", "formatter", "clear", "add", "pick", "bare", "write", "log", "lock",
        "root", "rootlock", "dump", "adopt", "append"}

TypeOK ==
    /\ m_level \in [Loggers -> 0..5]
    /\ m_formatter \in [Loggers -> Formats]
    /\ m_appenders \in [Loggers -> Seq(Appender \cup {Mine})]
    /\ mine \in Own
    /\ given \in [pattern : Formats \cup {NoFormat}, adds : Nat]
    /\ m_mutex \in [Loggers -> Threads \cup {Null}]
    /\ manager \in Threads \cup {Null} /\ dumped \subseteq Loggers
    /\ m_val \in Logs /\ asked \in Logs
    /\ pc \in [Threads -> Pcs]
    /\ event \in [Threads -> [logger : Loggers, level : 0..5]]
    /\ plan \in [Threads -> Plan]
    /\ seen \in [Names -> SUBSET Definition]
    /\ sets \in 0..MaxSets /\ calls \in 0..MaxCalls

\* A new Logger: DEBUG, its pattern, no appender.  The LoggerManager gives the
\* root logger one on standard output, which takes the logger's pattern.
Init ==
    /\ m_level = [L \in Loggers |-> 1]
    /\ m_formatter = [L \in Loggers |-> Default]
    /\ m_appenders = [L \in Loggers |->
           IF L = Root THEN <<[type |-> 2, formatter |-> Default, has |-> FALSE]>> ELSE <<>>]
    /\ mine = [formatter |-> NoFormat, has |-> FALSE]
    /\ given = [pattern |-> NoFormat, adds |-> 0]
    /\ m_mutex = [L \in Loggers |-> Null]
    /\ manager = Null /\ dumped = {}
    /\ m_val = [n \in Names |-> Null] /\ asked = m_val
    /\ seen = [n \in Names |-> {}]
    /\ pc = [t \in Threads |-> "idle"]
    /\ event = [t \in Threads |-> NoEvent]
    /\ plan = [t \in Threads |-> NoPlan]
    /\ sets = 0 /\ calls = 0

Goto(t, from, to) == pc[t] = from /\ pc' = [pc EXCEPT ![t] = to]
Free(L) == m_mutex[L] = Null

-----------------------------------------------------------------------------
(* Logger.                                                                 *)

\* Mutant: the appenders are not told.
BugSetFormatterAlone(L, pattern) ==
    /\ pattern \in Formats /\ Free(L)
    /\ m_formatter' = [m_formatter EXCEPT ![L] = pattern]
    /\ UNCHANGED <<m_appenders, mineVars>>

Holds(L) == Mine \in ToSet(m_appenders[L])

\* set_formatter(string): a pattern that init() rejects changes nothing; another
\* one is also that of the appenders without one of their own.
SetFormatter(L, pattern) ==
    \/ /\ pattern \notin Formats
       /\ UNCHANGED <<m_formatter, m_appenders, mineVars>>
    \/ /\ pattern \in Formats
       /\ Free(L)
       /\ m_formatter' = [m_formatter EXCEPT ![L] = pattern]
       /\ m_appenders' = [m_appenders EXCEPT ![L] =
              [i \in DOMAIN @ |-> IF @[i] = Mine \/ @[i].has THEN @[i]
                                  ELSE [@[i] EXCEPT !.formatter = pattern]]]
       /\ mine' = IF Holds(L) /\ ~mine.has THEN [mine EXCEPT !.formatter = pattern] ELSE mine
       /\ UNCHANGED given

\* Mutant: nothing is removed.
BugClearAppenderKeeps(L) == Free(L) /\ UNCHANGED m_appenders

ClearAppender(L) == Free(L) /\ m_appenders' = [m_appenders EXCEPT ![L] = <<>>]

\* add_appender of a new appender with the pattern of d, if that is a valid one.
AddAppender(L, d) ==
    /\ Free(L)
    /\ LET own == d.formatter \in Formats IN
         m_appenders' = [m_appenders EXCEPT ![L] = Append(@,
             [type |-> d.type, has |-> own,
              formatter |-> IF own THEN d.formatter ELSE m_formatter[L]])]

-----------------------------------------------------------------------------
(* Logging.  What an appender writes is no state of the loggers.           *)

\* The macro: m_level is read without the lock.  LogEventWrap calls log() when
\* the expression it is in ends.
Event(t, L, level) ==
    /\ Goto(t, "idle", "log")
    /\ calls < MaxCalls
    /\ level >= m_level[L]
    /\ event' = [event EXCEPT ![t] = [logger |-> L, level |-> level]]
    /\ calls' = calls + 1
    /\ UNCHANGED <<loggerVars, confVars, dumpVars, m_mutex, plan>>

\* log() reads m_level again, still without the lock.
CheckLevel(t) ==
    /\ Goto(t, "log", IF event[t].level >= m_level[event[t].logger] THEN "lock" ELSE "idle")
    /\ UNCHANGED <<loggerVars, confVars, dumpVars, m_mutex, event, plan, calls>>

\* The event goes to the appenders; a root logger without any drops it.
Output(t) ==
    /\ Goto(t, "lock", "idle")
    /\ LET L == event[t].logger IN Free(L) /\ (m_appenders[L] # <<>> \/ L = Root)
    /\ UNCHANGED <<loggerVars, confVars, dumpVars, m_mutex, event, plan, calls>>

\* A logger without appenders calls m_root->log under its lock.
Forward(t) ==
    /\ Goto(t, "lock", "root")
    /\ LET L == event[t].logger IN
         /\ Free(L) /\ m_appenders[L] = <<>> /\ L # Root
         /\ m_mutex' = [m_mutex EXCEPT ![L] = t]
    /\ UNCHANGED <<loggerVars, confVars, dumpVars, event, plan, calls>>

RootLevel(t) ==
    /\ Goto(t, "root", "rootlock")
    /\ event[t].level >= m_level[Root]
    /\ UNCHANGED <<loggerVars, confVars, dumpVars, m_mutex, event, plan, calls>>

\* Mutant: the logger's lock is not released.
BugForwardedLocked(t) ==
    /\ \/ Goto(t, "root", "idle") /\ event[t].level < m_level[Root]
       \/ Goto(t, "rootlock", "idle") /\ Free(Root)
    /\ UNCHANGED <<loggerVars, confVars, dumpVars, m_mutex, event, plan, calls>>

\* The root logger drops the event, or outputs it; the guards unlock.
Forwarded(t) ==
    /\ \/ Goto(t, "root", "idle") /\ event[t].level < m_level[Root]
       \/ Goto(t, "rootlock", "idle") /\ Free(Root)
    /\ m_mutex' = [m_mutex EXCEPT ![event[t].logger] = Null]
    /\ UNCHANGED <<loggerVars, confVars, dumpVars, event, plan, calls>>

\* logger->add_appender(mine), called by the program: get_formatter() and the
\* assignment after it take the appender's lock one after the other.
UserAdds(t, L) ==
    /\ Goto(t, "idle", IF mine.formatter = NoFormat THEN "adopt" ELSE "append")
    /\ calls < MaxCalls
    /\ Free(L)
    /\ m_mutex' = [m_mutex EXCEPT ![L] = t]
    /\ event' = [event EXCEPT ![t] = [NoEvent EXCEPT !.logger = L]]
    /\ calls' = calls + 1
    /\ UNCHANGED <<loggerVars, confVars, dumpVars, plan>>

UserAdded(t) ==
    /\ LET L == event[t].logger IN
         /\ \/ /\ Goto(t, "adopt", "idle")
               /\ mine' = [mine EXCEPT !.formatter = m_formatter[L]]
               /\ given' = [pattern |-> NoFormat, adds |-> given.adds + 1]
            \/ /\ Goto(t, "append", "idle")
               /\ given' = [given EXCEPT !.adds = @ + 1]
               /\ UNCHANGED mine
         /\ m_appenders' = [m_appenders EXCEPT ![L] = Append(@, Mine)]
         /\ m_mutex' = [m_mutex EXCEPT ![L] = Null]
    /\ UNCHANGED <<m_level, m_formatter, confVars, dumpVars, event, plan, calls>>

\* logger->del_appender(mine): the first one in the list.
UserDeletes(t, L) ==
    /\ pc[t] = "idle"
    /\ calls < MaxCalls
    /\ Free(L)
    /\ m_appenders' = [m_appenders EXCEPT ![L] = RemoveFirst(@, Mine)]
    /\ calls' = calls + 1
    /\ UNCHANGED <<m_level, m_formatter, mineVars, confVars, dumpVars, m_mutex, pc, event, plan>>

\* mine->set_formatter(pattern).
AppenderSetFormatter(t, pattern) ==
    /\ pc[t] = "idle"
    /\ calls < MaxCalls
    /\ mine' = [formatter |-> pattern, has |-> TRUE]
    /\ given' = [given EXCEPT !.pattern = pattern]
    /\ calls' = calls + 1
    /\ UNCHANGED <<m_level, m_formatter, m_appenders, confVars, dumpVars, m_mutex, pc, event, plan>>

\* logger->set_formatter(pattern), called by the program.
UserSetsFormatter(t, L, pattern) ==
    /\ pc[t] = "idle"
    /\ calls < MaxCalls
    /\ SetFormatter(L, pattern)
    /\ calls' = calls + 1
    /\ UNCHANGED <<m_level, confVars, dumpVars, m_mutex, pc, event, plan>>

\* LoggerManager::to_yaml_string: the manager's lock is kept while each logger
\* takes its own, one after the other in the order of their names.
ToYamlString(t) ==
    /\ Goto(t, "idle", "dump")
    /\ calls < MaxCalls
    /\ manager = Null
    /\ manager' = t
    /\ calls' = calls + 1
    /\ UNCHANGED <<loggerVars, confVars, dumped, m_mutex, event, plan>>

\* Logger::to_yaml_string, under its lock.
DumpLogger(t, L) ==
    /\ pc[t] = "dump"
    /\ L \notin dumped /\ Free(L)
    /\ dumped' = dumped \cup {L}
    /\ UNCHANGED <<loggerVars, confVars, manager, m_mutex, pc, event, plan, calls>>

Dumped(t) ==
    /\ Goto(t, "dump", "idle")
    /\ dumped = Loggers
    /\ manager' = Null /\ dumped' = {}
    /\ UNCHANGED <<loggerVars, confVars, m_mutex, event, plan, calls>>

-----------------------------------------------------------------------------
(* g_log_defines->set_value, and the listener.                             *)

\* Mutant: operator== looks at the pattern only.
BugSameFormatter(d, e) == d.formatter = e.formatter

\* LogDefine::operator== compares appenders with itself.
Same(d, e) == d.level = e.level /\ d.formatter = e.formatter

\* Whether the listener leaves n alone, given the old and the new value.
Kept(n, old, new) == new[n] # Null => old[n] # Null /\ Same(new[n], old[n])

SameConfig(old, new) ==
    \A n \in Names : Kept(n, old, new) /\ (new[n] = Null => old[n] = Null)

\* set_value: an equal value is not announced; another one is, to the listener,
\* under the read lock of the variable.
SetValue(t, new) ==
    /\ pc[t] = "idle" /\ t \in Setters
    /\ sets < MaxSets
    /\ sets' = sets + 1
    /\ asked' = new
    /\ \/ /\ SameConfig(m_val, new)
          /\ UNCHANGED <<pc, plan, seen>>
       \/ /\ ~SameConfig(m_val, new)
          /\ pc' = [pc EXCEPT ![t] = "changed"]
          /\ plan' = [plan EXCEPT ![t] =
                 [NoPlan EXCEPT !.new = new,
                                !.left = {n \in Names : ~Kept(n, m_val, new)},
                                !.gone = {n \in Names : m_val[n] # Null /\ new[n] = Null}]]
          /\ seen' = [n \in Names |-> seen[n] \cup ({new[n]} \ {Null})]
    /\ UNCHANGED <<loggerVars, m_val, dumpVars, m_mutex, event, calls>>

\* The listener's own line goes to the root logger, which takes its lock for it.
Info == 2

LogChange(t) ==
    /\ \/ Goto(t, "changed", "tell") /\ m_level[Root] <= Info
       \/ Goto(t, "changed", "pick") /\ m_level[Root] > Info
       \/ Goto(t, "tell", "pick") /\ Free(Root)
    /\ UNCHANGED <<loggerVars, confVars, dumpVars, m_mutex, event, plan, calls>>

\* The definition the listener is at.
Present(t) == plan[t].new[plan[t].at]

\* get_logger gets the manager's lock.
GetLogger == manager = Null

\* The next new or changed definition (std::set has them in the order of their
\* names, which makes no difference here).
Pick(t) ==
    /\ Goto(t, "pick", "level")
    /\ GetLogger
    /\ \E n \in plan[t].left :
         plan' = [plan EXCEPT ![t].at = n, ![t].left = @ \ {n},
                              ![t].apps = plan[t].new[n].appenders]
    /\ UNCHANGED <<loggerVars, confVars, dumpVars, m_mutex, event, calls>>

ApplyLevel(t) ==
    /\ Goto(t, "level", "formatter")
    /\ m_level' = [m_level EXCEPT ![plan[t].at] = Present(t).level]
    /\ UNCHANGED <<m_formatter, m_appenders, mineVars, confVars, dumpVars, m_mutex, event, plan, calls>>

\* An empty pattern is not applied: the logger keeps the one it has.
ApplyFormatter(t) ==
    /\ Goto(t, "formatter", "clear")
    /\ SetFormatter(plan[t].at, Present(t).formatter)
    /\ UNCHANGED <<m_level, confVars, dumpVars, m_mutex, event, plan, calls>>

ApplyClear(t) ==
    /\ Goto(t, "clear", "add")
    /\ ClearAppender(plan[t].at)
    /\ UNCHANGED <<m_level, m_formatter, mineVars, confVars, dumpVars, m_mutex, event, plan, calls>>

ApplyAppender(t) ==
    /\ pc[t] = "add" /\ plan[t].apps # <<>>
    /\ AddAppender(plan[t].at, Head(plan[t].apps))
    /\ plan' = [plan EXCEPT ![t].apps = Tail(@)]
    /\ UNCHANGED <<m_level, m_formatter, mineVars, confVars, dumpVars, m_mutex, pc, event, calls>>

Applied(t) ==
    /\ Goto(t, "add", "pick")
    /\ plan[t].apps = <<>>
    /\ UNCHANGED <<loggerVars, confVars, dumpVars, m_mutex, event, plan, calls>>

\* A definition that is gone: set_level(0), then clear_appender.
Delete(t) ==
    /\ Goto(t, "pick", "bare")
    /\ plan[t].left = {}
    /\ GetLogger
    /\ \E n \in plan[t].gone :
         /\ m_level' = [m_level EXCEPT ![n] = 0]
         /\ plan' = [plan EXCEPT ![t].at = n, ![t].gone = @ \ {n}]
    /\ UNCHANGED <<m_formatter, m_appenders, mineVars, confVars, dumpVars, m_mutex, event, calls>>

DeleteClear(t) ==
    /\ Goto(t, "bare", "pick")
    /\ ClearAppender(plan[t].at)
    /\ UNCHANGED <<m_level, m_formatter, mineVars, confVars, dumpVars, m_mutex, event, plan, calls>>

\* The listener returns, and the read lock is released.
Notified(t) ==
    /\ Goto(t, "pick", "write")
    /\ plan[t].left = {} /\ plan[t].gone = {}
    /\ UNCHANGED <<loggerVars, confVars, dumpVars, m_mutex, event, plan, calls>>

Listening == {"changed", "tell", "pick", "level", "formatter", "clear", "add", "bare"}

\* The write lock: nobody is left under the read lock.
Write(t) ==
    /\ Goto(t, "write", "idle")
    /\ \A u \in Threads : pc[u] \notin Listening
    /\ m_val' = plan[t].new
    /\ plan' = [plan EXCEPT ![t] = NoPlan]
    /\ UNCHANGED <<loggerVars, asked, seen, sets, dumpVars, m_mutex, event, calls>>

-----------------------------------------------------------------------------

Calling(t) ==
    \/ \E L \in Loggers, level \in Levels : Event(t, L, level)
    \/ \E L \in Loggers, pattern \in Patterns \ {NoFormat} : UserSetsFormatter(t, L, pattern)
    \/ \E new \in Configs : SetValue(t, new)
    \/ ToYamlString(t)
    \/ \E L \in Loggers : UserAdds(t, L) \/ UserDeletes(t, L)
    \/ \E pattern \in Formats : AppenderSetFormatter(t, pattern)

Running(t) ==
    \/ CheckLevel(t) \/ Output(t) \/ Forward(t) \/ RootLevel(t) \/ Forwarded(t)
    \/ UserAdded(t)
    \/ Dumped(t) \/ \E L \in Loggers : DumpLogger(t, L)
    \/ LogChange(t)
    \/ Pick(t) \/ ApplyLevel(t) \/ ApplyFormatter(t) \/ ApplyClear(t) \/ ApplyAppender(t)
    \/ Applied(t) \/ Delete(t) \/ DeleteClear(t) \/ Notified(t) \/ Write(t)

Terminated == (\A t \in Threads : pc[t] = "idle") /\ UNCHANGED vars

Next == (\E t \in Threads : Calling(t) \/ Running(t)) \/ Terminated

Spec == Init /\ [][Next]_vars

\* Threads run; the calls are finitely many, so a spinlock is free in the end.
FairSpec == Spec /\ \A t \in Threads : WF_vars(Running(t))

-----------------------------------------------------------------------------
(* Properties.                                                             *)

Quiet == \A t \in Threads : pc[t] \notin Listening \cup {"write"}

\* The list apps has an appender for each of the definitions, in their order, and no
\* other but the program's, which may stand anywhere.
AsDefined(apps, defs) ==
    \E at \in [DOMAIN defs -> DOMAIN apps] :
        /\ \A i, j \in DOMAIN defs : i < j => at[i] < at[j]
        /\ \A i \in DOMAIN defs : apps[at[i]] # Mine /\ apps[at[i]].type = defs[i].type
        /\ \A k \in DOMAIN apps : apps[k] = Mine \/ \E i \in DOMAIN defs : at[i] = k

\* An appender without a pattern of its own has that of its logger, whoever calls
\* set_formatter while the listener rebuilds the list: one of the program too, if it
\* was added only once, as add_appender leaves a pattern alone that came from
\* another logger.  And an appender with a pattern of its own has the one it was
\* given, unless that was while add_appender had found none (log.cc:222-250, 299-308).
InheritedFormatter ==
    /\ \A L \in Loggers : \A a \in ToSet(m_appenders[L]) :
          a = Mine \/ a.has \/ a.formatter = m_formatter[L]
    /\ \A L \in Loggers :
          Holds(L) /\ given.adds = 1 /\ ~mine.has => mine.formatter = m_formatter[L]
    /\ mine.has => mine.formatter = given.pattern \/ given.pattern = NoFormat

\* After a change, a logger has the level its definition gives it, and one that is
\* no longer defined has level 0 and no appender of a definition (log.cc:715-766).
LoggersFollowConfig ==
    Quiet => \A n \in Names :
        /\ m_val[n] # Null => m_level[n] = m_val[n].level
        /\ m_val[n] = Null /\ seen[n] # {} => m_level[n] = 0 /\ ToSet(m_appenders[n]) \subseteq {Mine}

\* After a change, the appenders of a logger are those of one definition it has
\* had, all of them in their order, never those of two or a part (log.cc:736-756).
WholeDefinition ==
    Quiet => \A n \in Names : m_val[n] # Null =>
        \E d \in seen[n] : Same(d, m_val[n]) /\ AsDefined(m_appenders[n], d.appenders)

\* The listener configures each logger "modified" by the new value (log.cc:724):
\* after a change, the appenders are those of the definition last assigned.
AppendersFollowConfig ==
    Quiet => \A n \in Names : asked[n] # Null =>
        AsDefined(m_appenders[n], asked[n].appenders)

\* Every call on a logger, and every change of "logs", comes to its end: no thread
\* waits for ever for a lock, with the manager's taken over each logger's and a
\* logger's over the root's (log.cc:266-281, 776-785).
CallsReturn == \A t \in Threads : pc[t] # "idle" ~> pc[t] = "idle"
=============================================================================
