---------------------------- MODULE FileAppender ----------------------------
(***************************************************************************)
(* FileLogAppender of wb_server/log.cc: lines go to a file that is opened  *)
(* again, by name, with the first line of every second, so that a file     *)
(* somebody has renamed is left behind.                                    *)
(*                                                                         *)
(* A logger lets one call of its appenders through at a time: the callers  *)
(* here are the loggers that share this appender.  The clock, the process  *)
(* that renames the file and the failures of open() and write() are the    *)
(* environment.                                                            *)
(***************************************************************************)
EXTENDS Naturals, Sequences

CONSTANTS
    Callers,
    Null,
    Items,          \* how many items the formatter writes for a line
    MaxTime,        \* bound: the seconds
    MaxFiles,       \* bound: the files that ever get the name
    MaxLines        \* bound: the calls of log() and reopen()

ASSUME FileAppenderAssumption ==
    /\ Null \notin Callers
    /\ Items \in Nat \ {0}
    /\ {MaxTime, MaxFiles, MaxLines} \subseteq Nat \ {0}

Files == 1..MaxFiles
Part == [line : 1..MaxLines, now : 1..MaxTime, item : 1..Items]

VARIABLES
    clock,          \* time(0)
    named,          \* the file that has the name m_file_name, 0 for none
    left,           \* when a file lost the name: 0 for not yet
    disk,           \* what was written to each file
    m_file_stream,  \* the file it has open (0 for none), and its failbit or badbit
    m_last_time,
    m_mutex,        \* who holds the appender's lock
    pc,
    now, line,      \* of a caller: its local now, and a number for its line
    item,           \* the item that the holder of the lock writes next
    lines,          \* counter behind the bound
    refused,        \* history: the last open() by name was refused
    broken          \* history: a write has failed

world == <<clock, named, left>>
callVars == <<now, line, lines>>
vars == <<world, disk, m_file_stream, m_last_time, m_mutex, pc, item, callVars, refused, broken>>

Streams == [file : 0..MaxFiles, fail : BOOLEAN]

TypeOK ==
    /\ clock \in 1..MaxTime
    /\ named \in 0..MaxFiles
    /\ left \in [Files -> 0..MaxTime]
    /\ disk \in [Files -> Seq(Part)]
    /\ m_file_stream \in Streams
    /\ m_last_time \in 0..MaxTime
    /\ m_mutex \in Callers \cup {Null}
    /\ pc \in [Callers -> {"idle", "compare", "reopen", "stamp", "lock", "write"}]
    /\ item \in 1..Items + 1
    /\ now \in [Callers -> 0..MaxTime]
    /\ line \in [Callers -> 0..MaxLines]
    /\ lines \in 0..MaxLines
    /\ refused \in BOOLEAN /\ broken \in BOOLEAN

-----------------------------------------------------------------------------
(* std::ofstream, as the appender uses it.                                 *)

\* close() of a stream that has no file open is a failure.
Closed(s) == [file |-> 0, fail |-> s.file = 0]

\* open() is a failure when a file is open already, or when the system refuses,
\* which f = 0 stands for; otherwise it clears the state.
Opened(s, f) ==
    IF s.file # 0 THEN [s EXCEPT !.fail = TRUE] ELSE [file |-> f, fail |-> f = 0]

\* Mutant: the file is not closed.
BugReopenedOver(s, f) == Opened(s, f)

\* reopen(): what becomes of the stream.
Reopened(s, f) == Opened(IF s.fail THEN s ELSE Closed(s), f)

\* A file that open() may find or make: none if it is refused.
Openable ==
    {0} \cup IF named # 0 THEN {named}
             ELSE {f \in Files : left[f] = 0 /\ \A g \in 1..f - 1 : left[g] # 0}

Reopen(f) ==
    /\ m_mutex = Null
    /\ f \in Openable
    /\ m_file_stream' = Reopened(m_file_stream, f)
    /\ named' = IF f # 0 /\ m_file_stream'.file = f THEN f ELSE named
    /\ refused' = (f = 0)
    /\ UNCHANGED <<clock, left>>

\* The constructor has run: it calls reopen() on a new stream.
Init ==
    /\ clock = 1
    /\ left = [f \in Files |-> 0]
    /\ disk = [f \in Files |-> <<>>]
    /\ named \in {0, 1}
    /\ m_file_stream = Reopened([file |-> 0, fail |-> FALSE], named)
    /\ refused = (named = 0)
    /\ m_last_time = 0
    /\ m_mutex = Null
    /\ pc = [c \in Callers |-> "idle"]
    /\ now = [c \in Callers |-> 0]
    /\ line = [c \in Callers |-> 0]
    /\ lines = 0 /\ item = 1
    /\ broken = FALSE

-----------------------------------------------------------------------------
(* log().                                                                  *)

Goto(c, from, to) == pc[c] = from /\ pc' = [pc EXCEPT ![c] = to]

\* An event below the appender's level.
Ignore(c) ==
    /\ pc[c] = "idle"
    /\ UNCHANGED vars

Log(c) ==
    /\ Goto(c, "idle", "compare")
    /\ lines < MaxLines
    /\ lines' = lines + 1
    /\ line' = [line EXCEPT ![c] = lines + 1]
    /\ now' = [now EXCEPT ![c] = clock]
    /\ UNCHANGED <<world, disk, m_file_stream, m_last_time, m_mutex, item, refused, broken>>

\* Mutant: the second is noted before the file is opened.
BugCompareStamps(c) ==
    /\ Goto(c, "compare", IF now[c] # m_last_time THEN "reopen" ELSE "lock")
    /\ m_last_time' = now[c]
    /\ UNCHANGED <<world, disk, m_file_stream, m_mutex, item, callVars, refused, broken>>

\* m_last_time is read without a lock ...
Compare(c) ==
    /\ Goto(c, "compare", IF now[c] # m_last_time THEN "reopen" ELSE "lock")
    /\ UNCHANGED <<world, disk, m_file_stream, m_last_time, m_mutex, item, callVars, refused, broken>>

LogReopen(c, f) ==
    /\ Goto(c, "reopen", "stamp")
    /\ Reopen(f)
    /\ UNCHANGED <<disk, m_last_time, m_mutex, item, callVars, broken>>

\* ... and written without one.
Stamp(c) ==
    /\ Goto(c, "stamp", "lock")
    /\ m_last_time' = now[c]
    /\ UNCHANGED <<world, disk, m_file_stream, m_mutex, item, callVars, refused, broken>>

\* Mutant: no lock.
BugLockNone(c) ==
    /\ Goto(c, "lock", "write")
    /\ item' = 1
    /\ UNCHANGED <<world, disk, m_file_stream, m_last_time, m_mutex, callVars, refused, broken>>

Lock(c) ==
    /\ Goto(c, "lock", "write")
    /\ m_mutex = Null
    /\ m_mutex' = c
    /\ item' = 1
    /\ UNCHANGED <<world, disk, m_file_stream, m_last_time, callVars, refused, broken>>

\* format() writes the next item.
Writing(c) ==
    /\ pc[c] = "write" /\ item <= Items
    /\ item' = item + 1
    /\ UNCHANGED <<world, m_last_time, m_mutex, pc, callVars, refused>>

\* A stream that has failed, or has no file, takes nothing.
WriteItem(c) ==
    /\ Writing(c)
    /\ disk' = IF m_file_stream.fail \/ m_file_stream.file = 0 THEN disk
               ELSE [disk EXCEPT ![m_file_stream.file] =
                        Append(@, [line |-> line[c], now |-> now[c], item |-> item])]
    /\ UNCHANGED <<m_file_stream, broken>>

\* The system takes nothing more, for want of space say.
WriteFails(c) ==
    /\ Writing(c)
    /\ ~m_file_stream.fail /\ m_file_stream.file # 0
    /\ m_file_stream' = [m_file_stream EXCEPT !.fail = TRUE]
    /\ broken' = TRUE
    /\ UNCHANGED disk

\* Mutant: the lock is not given back when the stream has failed.
BugUnlockGood(c) ==
    /\ Goto(c, "write", "idle") /\ item > Items
    /\ m_mutex' = IF m_file_stream.fail THEN m_mutex ELSE Null
    /\ UNCHANGED <<world, disk, m_file_stream, m_last_time, item, callVars, refused, broken>>

Unlock(c) ==
    /\ Goto(c, "write", "idle") /\ item > Items
    /\ m_mutex' = Null
    /\ UNCHANGED <<world, disk, m_file_stream, m_last_time, item, callVars, refused, broken>>

\* reopen() may also be called from outside.
UserReopen(c, f) ==
    /\ pc[c] = "idle"
    /\ lines < MaxLines
    /\ lines' = lines + 1
    /\ Reopen(f)
    /\ UNCHANGED <<disk, m_last_time, m_mutex, pc, item, now, line, broken>>

-----------------------------------------------------------------------------
(* The environment.                                                        *)

Tick ==
    /\ clock < MaxTime
    /\ clock' = clock + 1
    /\ UNCHANGED <<named, left, disk, m_file_stream, m_last_time, m_mutex, pc, item, callVars,
                   refused, broken>>

\* The file is renamed or removed.
Rotate ==
    /\ named # 0
    /\ left' = [left EXCEPT ![named] = clock]
    /\ named' = 0
    /\ UNCHANGED <<clock, disk, m_file_stream, m_last_time, m_mutex, pc, item, callVars,
                   refused, broken>>

-----------------------------------------------------------------------------

Step(c) ==
    \/ Compare(c) \/ Stamp(c) \/ Lock(c) \/ Unlock(c)
    \/ \E f \in 0..MaxFiles : LogReopen(c, f)
    \/ WriteItem(c) \/ WriteFails(c)

Next ==
    \/ \E c \in Callers :
          \/ Step(c) \/ Ignore(c) \/ Log(c)
          \/ \E f \in 0..MaxFiles : UserReopen(c, f)
    \/ Tick \/ Rotate

Spec == Init /\ [][Next]_vars

\* A caller that can run does.
FairSpec == Spec /\ \A c \in Callers : WF_vars(Step(c))

-----------------------------------------------------------------------------
(* Properties.                                                             *)

\* A line never goes to a file that had lost the name before the second in which
\* the line was logged, although m_last_time is compared and stored without the
\* lock and every caller works with a second of its own (log.cc:377-381).
LinesFresh ==
    \A f \in Files : \A k \in DOMAIN disk[f] :
        left[f] = 0 \/ left[f] >= disk[f][k].now

\* The items of a line stand together in its file and in order, whatever is logged
\* and reopened at the same time; only a write that failed cuts a line short
\* (log.cc:383-386, 390).
WholeLines ==
    \A f \in Files : \A k \in DOMAIN disk[f] :
        LET p == disk[f][k] IN
        /\ p.item > 1 => k > 1 /\ disk[f][k - 1] = [p EXCEPT !.item = p.item - 1]
        /\ p.item < Items =>
              \/ k < Len(disk[f]) /\ disk[f][k + 1].line = p.line
              \/ k = Len(disk[f]) /\ (broken \/ \E c \in Callers : m_mutex = c /\ line[c] = p.line)

\* Lines are lost only for a reason outside: the stream cannot be written to only
\* if open() was refused when it was last tried or a write has failed.  Opening the
\* file again and again does not cost a line by itself (log.cc:389-397).
LossExplained ==
    m_file_stream.fail \/ m_file_stream.file = 0 => refused \/ broken

\* reopen() answers whether the file was opened (log.h:369-370).  Its answer is
\* is_open(), which is true as well of a stream that failed while its file was
\* open: reopen() does not close that one, and its open() fails (log.cc:391-396).
ReopenAnswers ==
    [][\A c \in Callers : \A f \in 0..MaxFiles :
          UserReopen(c, f) =>
              (m_file_stream'.file # 0 <=> m_file_stream' = [file |-> f, fail |-> FALSE])]_vars

\* Every call of log() ends, whatever open() and write() say (log.cc:371-388).
CallsReturn == \A c \in Callers : pc[c] # "idle" ~> pc[c] = "idle"
=============================================================================
