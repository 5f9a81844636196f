------------------------- MODULE FileAppenderProofs -------------------------
(***************************************************************************)
(* What FileLogAppender keeps, for any number of callers, lines, seconds   *)
(* and files: whole lines, in files that still had the name in the second  *)
(* of the line, lost only for a reason outside.                            *)
(***************************************************************************)
EXTENDS FileAppender, SequenceTheorems, TLAPS

\* The stream takes what is written.
Good == ~m_file_stream.fail /\ m_file_stream.file # 0

\* The holder of the lock is the caller that writes.
LockInv == \A c \in Callers : pc[c] = "write" <=> m_mutex = c

\* A call under way has its line and its second.
CallInv ==
    /\ \A c \in Callers : pc[c] # "idle" => line[c] > 0 /\ now[c] > 0
    /\ \A c \in Callers : now[c] <= clock

\* A stream with a file that has failed was broken by a write, and stays so; one
\* without a file was refused one.
StreamInv ==
    /\ broken <=> m_file_stream.fail /\ m_file_stream.file # 0
    /\ m_file_stream.file = 0 => refused

\* The file the stream writes to had the name in second s, or has it still.
FreshFor(s) == Good => left[m_file_stream.file] = 0 \/ left[m_file_stream.file] >= s

\* Who has looked at m_last_time or opened the file again may write.
FreshInv ==
    /\ named # 0 => left[named] = 0
    /\ m_last_time <= clock /\ FreshFor(m_last_time)
    /\ \A c \in Callers : pc[c] \in {"stamp", "lock", "write"} => FreshFor(now[c])
    /\ \A f \in Files : \A k \in DOMAIN disk[f] :
          /\ disk[f][k].now <= clock
          /\ left[f] = 0 \/ left[f] >= disk[f][k].now

\* The part that the holder c of the lock has written last.
Written(c) == [line |-> line[c], now |-> now[c], item |-> item - 1]

\* Each part stands behind the one before it and before the one after it; the last
\* part of a file ends its line, unless its writer is still at it.
Before(p) == [p EXCEPT !.item = p.item - 1]

InFileInv ==
    \A f \in Files : \A k \in DOMAIN disk[f] :
        /\ disk[f][k].item > 1 =>
              k > 1 /\ disk[f][k - 1] = Before(disk[f][k])
        /\ disk[f][k].item < Items /\ k < Len(disk[f]) =>
              disk[f][k + 1].line = disk[f][k].line

AtEndInv ==
    \A f \in Files : Len(disk[f]) > 0 /\ disk[f][Len(disk[f])].item < Items =>
        \/ broken
        \/ \E c \in Callers : /\ m_mutex = c /\ f = m_file_stream.file /\ item > 1
                              /\ disk[f][Len(disk[f])] = Written(c)

HolderInv ==
    \A c \in Callers : m_mutex = c /\ item > 1 /\ Good =>
        LET d == disk[m_file_stream.file] IN Len(d) > 0 /\ d[Len(d)] = Written(c)

PartsInv == InFileInv /\ AtEndInv /\ HolderInv

FileInv == TypeOK /\ LockInv /\ CallInv /\ StreamInv /\ FreshInv /\ PartsInv

-----------------------------------------------------------------------------

LEMMA InitInv == Init => FileInv
<1> SUFFICES ASSUME Init PROVE FileInv
  OBVIOUS
<1> USE FileAppenderAssumption DEF Init, Files
<1>1. TypeOK
  <2>1. m_file_stream \in Streams
    BY DEF Streams, Reopened, Opened, Closed
  <2>2. disk \in [Files -> Seq(Part)]
    OBVIOUS
  <2>3. refused \in BOOLEAN /\ broken \in BOOLEAN
    OBVIOUS
  <2>4. item \in 1..Items + 1 /\ lines \in 0..MaxLines /\ m_last_time \in 0..MaxTime
    OBVIOUS
  <2>5. clock \in 1..MaxTime /\ named \in 0..MaxFiles
    OBVIOUS
  <2>6. left \in [Files -> 0..MaxTime]
    OBVIOUS
  <2>7. now \in [Callers -> 0..MaxTime] /\ line \in [Callers -> 0..MaxLines]
    OBVIOUS
  <2> QED BY <2>1, <2>2, <2>3, <2>4, <2>5, <2>6, <2>7 DEF TypeOK
<1>2. LockInv /\ CallInv
  BY DEF LockInv, CallInv
<1>3. StreamInv
  BY DEF StreamInv, Reopened, Opened, Closed
<1>4. FreshInv
  BY DEF FreshInv, FreshFor, Good, Reopened, Opened, Closed
<1>5. PartsInv
  BY DEF PartsInv, InFileInv, AtEndInv, HolderInv
<1> QED BY <1>1, <1>2, <1>3, <1>4, <1>5 DEF FileInv

\* What a part of a line is made of.
LEMMA PartTypes ==
    ASSUME TypeOK, NEW f \in Files, NEW k \in DOMAIN disk[f]
    PROVE  /\ disk[f][k] \in Part
           /\ disk[f][k].now \in Nat /\ disk[f][k].item \in 1..Items /\ disk[f][k].line \in Nat
<1>1. disk[f] \in Seq(Part)
  BY DEF TypeOK
<1>2. disk[f][k] \in Part
  BY <1>1
<1> QED BY <1>2, FileAppenderAssumption DEF Part

\* Where neither the files, nor the stream, nor the lock change, parts stay whole.
LEMMA PartsKept ==
    ASSUME PartsInv, UNCHANGED <<disk, m_file_stream, m_mutex, item, broken>>,
           \A c \in Callers : m_mutex = c => line'[c] = line[c] /\ now'[c] = now[c]
    PROVE  PartsInv'
<1>1. \A c \in Callers : m_mutex = c => Written(c)' = Written(c)
  BY DEF Written
<1> QED BY <1>1 DEF PartsInv, InFileInv, AtEndInv, HolderInv, Good

LEMMA StutterInv == FileInv /\ UNCHANGED vars => FileInv'
<1> SUFFICES ASSUME FileInv, UNCHANGED vars PROVE FileInv'
  OBVIOUS
<1> USE DEF FileInv, vars, world, callVars
<1>1. TypeOK'
  BY DEF TypeOK
<1>2. LockInv' /\ CallInv' /\ StreamInv'
  BY DEF LockInv, CallInv, StreamInv
<1>3. FreshInv'
  BY DEF FreshInv, FreshFor, Good
<1>4. PartsInv'
  BY PartsKept
<1> QED BY <1>1, <1>2, <1>3, <1>4

-----------------------------------------------------------------------------
(* Steps that touch neither the stream nor the files.                      *)

LEMMA LogInv == ASSUME FileInv, NEW c \in Callers, Log(c) PROVE FileInv'
<1> USE FileAppenderAssumption DEF FileInv, Log, Goto, world
<1>1. TypeOK'
  BY DEF TypeOK
<1>2. LockInv' /\ CallInv' /\ StreamInv'
  BY DEF TypeOK, LockInv, CallInv, StreamInv
<1>3. FreshInv'
  BY DEF TypeOK, FreshInv, FreshFor, Good
<1>4. m_mutex # c
  BY DEF LockInv
<1>5. PartsInv'
  BY <1>4, PartsKept DEF TypeOK
<1> QED BY <1>1, <1>2, <1>3, <1>5

\* m_last_time is compared and stored outside the lock.
LEMMA StampInv == ASSUME FileInv, NEW c \in Callers, Compare(c) \/ Stamp(c) PROVE FileInv'
<1> USE DEF FileInv, Goto, world, callVars
<1>1. CASE Compare(c)
  <2>1. TypeOK'
    BY <1>1 DEF TypeOK, Compare
  <2>2. LockInv' /\ CallInv' /\ StreamInv'
    BY <1>1 DEF TypeOK, LockInv, CallInv, StreamInv, Compare
  <2>3. FreshInv'
    BY <1>1 DEF TypeOK, FreshInv, FreshFor, Good, Compare
  <2>4. PartsInv'
    BY <1>1, PartsKept DEF Compare
  <2> QED BY <2>1, <2>2, <2>3, <2>4
<1>2. CASE Stamp(c)
  <2>1. TypeOK'
    BY <1>2 DEF TypeOK, Stamp
  <2>2. LockInv' /\ CallInv' /\ StreamInv'
    BY <1>2 DEF TypeOK, LockInv, CallInv, StreamInv, Stamp
  <2>3. FreshInv'
    BY <1>2 DEF TypeOK, CallInv, FreshInv, FreshFor, Good, Stamp
  <2>4. PartsInv'
    BY <1>2, PartsKept DEF Stamp
  <2> QED BY <2>1, <2>2, <2>3, <2>4
<1> QED BY <1>1, <1>2

\* The lock: whoever takes it finds the last line of every file ended.
LEMMA LockStepInv == ASSUME FileInv, NEW c \in Callers, Lock(c) \/ Unlock(c) PROVE FileInv'
<1> USE FileAppenderAssumption DEF FileInv, Goto, world, callVars
<1>1. CASE Lock(c)
  <2>1. TypeOK'
    BY <1>1 DEF TypeOK, Lock
  <2>2. LockInv' /\ CallInv' /\ StreamInv'
    BY <1>1 DEF TypeOK, LockInv, CallInv, StreamInv, Lock
  <2>3. FreshInv'
    BY <1>1 DEF TypeOK, FreshInv, FreshFor, Good, Lock
  <2>4. PartsInv'
    BY <1>1 DEF PartsInv, InFileInv, AtEndInv, HolderInv, Lock
  <2> QED BY <2>1, <2>2, <2>3, <2>4
<1>2. CASE Unlock(c)
  <2>1. TypeOK'
    BY <1>2 DEF TypeOK, Unlock
  <2>2. LockInv' /\ CallInv' /\ StreamInv'
    BY <1>2 DEF TypeOK, LockInv, CallInv, StreamInv, Unlock
  <2>3. FreshInv'
    BY <1>2 DEF TypeOK, FreshInv, FreshFor, Good, Unlock
  <2>4. PartsInv'
    <3>1. ASSUME NEW f \in Files, Len(disk[f]) > 0, disk[f][Len(disk[f])].item < Items
          PROVE  broken
      <4>1. item = Items + 1 /\ Written(c).item = item - 1
        BY <1>2 DEF TypeOK, Written, Unlock
      <4>2. m_mutex = c
        BY <1>2 DEF LockInv, Unlock
      <4> QED BY <3>1, <4>1, <4>2 DEF PartsInv, InFileInv, AtEndInv, HolderInv
    <3> QED BY <1>2, <3>1 DEF PartsInv, InFileInv, AtEndInv, HolderInv, Unlock
  <2> QED BY <2>1, <2>2, <2>3, <2>4
<1> QED BY <1>1, <1>2

\* The clock, and the process that takes the file away.
LEMMA WorldInv == ASSUME FileInv, Tick \/ Rotate PROVE FileInv'
<1> USE FileAppenderAssumption DEF FileInv, callVars
<1>1. CASE Tick
  <2>1. TypeOK'
    BY <1>1 DEF TypeOK, Tick
  <2>2. LockInv' /\ CallInv' /\ StreamInv'
    BY <1>1 DEF TypeOK, LockInv, CallInv, StreamInv, Tick
  <2>3. FreshInv'
    <3>1. \A f \in Files : \A k \in DOMAIN disk[f] : disk[f][k].now \in Nat
      BY PartTypes
    <3> QED BY <1>1, <3>1 DEF TypeOK, FreshInv, FreshFor, Good, Tick
  <2>4. PartsInv'
    BY <1>1, PartsKept DEF Tick
  <2> QED BY <2>1, <2>2, <2>3, <2>4
<1>2. CASE Rotate
  <2>1. TypeOK'
    BY <1>2 DEF TypeOK, Rotate, Files
  <2>2. LockInv' /\ CallInv' /\ StreamInv'
    BY <1>2 DEF TypeOK, LockInv, CallInv, StreamInv, Rotate
  <2>3. FreshInv'
    BY <1>2 DEF TypeOK, CallInv, FreshInv, FreshFor, Good, Rotate, Files, Streams
  <2>4. PartsInv'
    BY <1>2, PartsKept DEF Rotate
  <2> QED BY <2>1, <2>2, <2>3, <2>4
<1> QED BY <1>1, <1>2

-----------------------------------------------------------------------------
(* reopen().                                                               *)

\* A stream that a write has broken is left as it is; any other gets the file f
\* stands for, or none.
LEMMA ReopenedStream ==
    ASSUME TypeOK, NEW f \in 0..MaxFiles
    PROVE  /\ m_file_stream.fail /\ m_file_stream.file # 0 =>
                 Reopened(m_file_stream, f) = m_file_stream
           /\ ~(m_file_stream.fail /\ m_file_stream.file # 0) =>
                 Reopened(m_file_stream, f) = [file |-> f, fail |-> f = 0]
BY DEF TypeOK, Streams, Reopened, Opened, Closed

\* A file that open() finds or makes has not lost the name.
LEMMA OpenedFile ==
    ASSUME TypeOK, FreshInv, NEW f \in Openable, f # 0
    PROVE  f \in Files /\ left[f] = 0
BY DEF TypeOK, FreshInv, Openable, Files

\* What reopen() leaves of the invariant's parts about the stream.
LEMMA ReopenKeeps ==
    ASSUME FileInv, NEW f \in 0..MaxFiles, Reopen(f), UNCHANGED <<disk, m_last_time, m_mutex, item, broken>>
    PROVE  /\ m_file_stream' \in Streams /\ named' \in 0..MaxFiles /\ refused' \in BOOLEAN
           /\ StreamInv'
           /\ named' # 0 => left[named'] = 0
           /\ Good' => left[m_file_stream'.file] = 0
           /\ PartsInv'
<1> USE FileAppenderAssumption DEF FileInv
<1> DEFINE dead == m_file_stream.fail /\ m_file_stream.file # 0
<1>1. m_file_stream' = IF dead THEN m_file_stream ELSE [file |-> f, fail |-> f = 0]
  BY ReopenedStream DEF Reopen
<1>2. f # 0 => f \in Files /\ left[f] = 0
  BY OpenedFile DEF Reopen
<1>3. m_file_stream' \in Streams
  BY <1>1 DEF TypeOK, Streams
<1>4. named' \in 0..MaxFiles
  BY DEF TypeOK, Reopen
<1>5. refused' \in BOOLEAN
  BY DEF Reopen
<1>6. StreamInv'
  <2>1. CASE dead
    BY <1>1, <2>1 DEF StreamInv, Reopen
  <2>2. CASE ~dead
    <3>1. m_file_stream' = [file |-> f, fail |-> f = 0]
      BY <1>1, <2>2
    <3>2. m_file_stream'.file = f /\ (m_file_stream'.fail <=> f = 0)
      BY <3>1
    <3>3. f = 0 => refused'
      BY DEF Reopen
    <3> QED BY <2>2, <3>2, <3>3 DEF StreamInv
  <2> QED BY <2>1, <2>2
<1>7. named' # 0 => left[named'] = 0
  BY <1>2 DEF FreshInv, Reopen
<1>8. Good' => left[m_file_stream'.file] = 0
  BY <1>1, <1>2 DEF Good
<1>9. PartsInv'
  <2>1. m_mutex = Null /\ m_mutex' = Null /\ Null \notin Callers
    BY DEF Reopen
  <2> QED BY <2>1 DEF PartsInv, InFileInv, AtEndInv, HolderInv
<1> QED BY <1>3, <1>4, <1>5, <1>6, <1>7, <1>8, <1>9

\* reopen(), by log() or from outside.
LEMMA ReopenInv ==
    ASSUME FileInv, NEW c \in Callers, NEW f \in 0..MaxFiles, LogReopen(c, f) \/ UserReopen(c, f)
    PROVE  FileInv'
<1> USE DEF FileInv, callVars
<1>1. Reopen(f) /\ UNCHANGED <<disk, m_last_time, m_mutex, item, broken>>
  BY DEF LogReopen, UserReopen
<1>2. UNCHANGED <<clock, left, now, line>>
  BY DEF LogReopen, UserReopen, Reopen
<1>3. /\ pc' \in [Callers -> {"idle", "compare", "reopen", "stamp", "lock", "write"}]
      /\ \A x \in Callers : pc'[x] = "write" <=> pc[x] = "write"
      /\ \A x \in Callers : pc'[x] = "idle" <=> pc[x] = "idle"
      /\ lines' \in 0..MaxLines
  <2>1. CASE LogReopen(c, f)
    BY <2>1 DEF LogReopen, Goto, TypeOK
  <2>2. CASE UserReopen(c, f)
    BY <2>2, FileAppenderAssumption DEF UserReopen, TypeOK
  <2> QED BY <2>1, <2>2
<1>4. TypeOK'
  BY <1>1, <1>2, <1>3, ReopenKeeps DEF TypeOK
<1>5. LockInv' /\ CallInv' /\ StreamInv'
  BY <1>1, <1>2, <1>3, ReopenKeeps DEF LockInv, CallInv
<1>6. FreshInv'
  BY <1>1, <1>2, ReopenKeeps DEF FreshInv, FreshFor
<1>7. PartsInv'
  BY <1>1, ReopenKeeps
<1> QED BY <1>4, <1>5, <1>6, <1>7

-----------------------------------------------------------------------------
(* Writing a line.                                                         *)

LEMMA WriteFailsInv == ASSUME FileInv, NEW c \in Callers, WriteFails(c) PROVE FileInv'
<1> USE FileAppenderAssumption DEF FileInv, Writing, world, callVars
<1>1. TypeOK'
  <2>1. item' \in 1..Items + 1 /\ broken' \in BOOLEAN
    BY DEF TypeOK, WriteFails
  <2>2. m_file_stream' \in Streams
    BY DEF TypeOK, WriteFails, Streams
  <2> QED BY <2>1, <2>2 DEF TypeOK, WriteFails
<1>2. LockInv' /\ CallInv'
  BY DEF TypeOK, LockInv, CallInv, WriteFails
<1>3. m_file_stream'.fail /\ m_file_stream'.file = m_file_stream.file
  BY DEF TypeOK, Streams, WriteFails
<1>4. StreamInv'
  BY <1>3 DEF StreamInv, WriteFails
<1>5. FreshInv'
  BY <1>3 DEF FreshInv, FreshFor, Good, WriteFails
<1>6. PartsInv'
  BY <1>3 DEF PartsInv, InFileInv, AtEndInv, HolderInv, Good, WriteFails
<1> QED BY <1>1, <1>2, <1>4, <1>5, <1>6

\* A stream that is no longer good takes nothing.
LEMMA WriteNothingInv == ASSUME FileInv, NEW c \in Callers, WriteItem(c), ~Good PROVE FileInv'
<1> USE FileAppenderAssumption DEF FileInv, Writing, WriteItem, world, callVars
<1>1. UNCHANGED <<disk, m_file_stream>>
  BY DEF Good
<1>2. TypeOK'
  <2>1. item' \in 1..Items + 1
    BY DEF TypeOK
  <2> QED BY <1>1, <2>1 DEF TypeOK
<1>3. LockInv' /\ CallInv' /\ StreamInv'
  BY DEF LockInv, CallInv, StreamInv
<1>4. FreshInv'
  BY <1>1 DEF FreshInv, FreshFor, Good
<1>5. PartsInv'
  <2>1. ASSUME NEW f \in Files, Len(disk[f]) > 0, disk[f][Len(disk[f])].item < Items
        PROVE  broken \/ f = m_file_stream.file
    BY <2>1 DEF PartsInv, InFileInv, AtEndInv, HolderInv
  <2>2. \A f \in Files : f # 0
    BY DEF Files
  <2>3. ASSUME NEW f \in Files, f = m_file_stream.file PROVE broken
    BY <2>2, <2>3 DEF Good, StreamInv
  <2>4. InFileInv'
    BY <1>1 DEF PartsInv, InFileInv
  <2>5. AtEndInv'
    BY <1>1, <2>1, <2>3 DEF AtEndInv
  <2>6. HolderInv'
    BY <1>1 DEF HolderInv, Good
  <2> QED BY <2>4, <2>5, <2>6 DEF PartsInv
<1> QED BY <1>2, <1>3, <1>4, <1>5

\* A part more at the end of a file.
LEMMA AppendPart ==
    ASSUME NEW d \in Seq(Part), NEW p \in Part, NEW e, e = Append(d, p)
    PROVE  /\ e \in Seq(Part) /\ Len(d) \in Nat /\ Len(e) = Len(d) + 1
           /\ DOMAIN d = 1..Len(d) /\ DOMAIN e = 1..Len(d) + 1
           /\ \A k \in 1..Len(d) : e[k] = d[k]
           /\ e[Len(d) + 1] = p
OBVIOUS

\* It goes behind the part that its writer c has written before.
LEMMA WritePartsInv ==
    ASSUME TypeOK, StreamInv, PartsInv, Good, NEW c \in Callers, m_mutex = c,
           NEW f \in Files, f = m_file_stream.file, item \in 1..Items, item' = item + 1,
           NEW p \in Part, p = [line |-> line[c], now |-> now[c], item |-> item],
           disk' = [disk EXCEPT ![f] = Append(@, p)],
           UNCHANGED <<m_file_stream, m_mutex, line, now, broken>>
    PROVE  PartsInv'
<1> DEFINE n == Len(disk[f])
<1> USE FileAppenderAssumption
<1>1. disk[f] \in Seq(Part) /\ disk'[f] = Append(disk[f], p)
  BY DEF TypeOK
<1>2. /\ n \in Nat /\ Len(disk'[f]) = n + 1 /\ DOMAIN disk[f] = 1..n /\ DOMAIN disk'[f] = 1..n + 1
      /\ \A k \in 1..n : disk'[f][k] = disk[f][k]
      /\ disk'[f][n + 1] = p
  BY <1>1, AppendPart
<1>3. \A g \in Files : g # f => disk'[g] = disk[g]
  BY DEF TypeOK
<1>4. Written(c)' = p
  BY DEF Written
<1>5. item > 1 => n > 0 /\ disk[f][n] = Written(c)
  BY DEF PartsInv, HolderInv
<1>6. n > 0 /\ disk[f][n].item < Items => disk[f][n] = Written(c)
  BY DEF PartsInv, AtEndInv, StreamInv, Good
<1>7. Written(c).line = p.line /\ Written(c) = Before(p) /\ p.item = item
  BY DEF Written, Before
<1> HIDE DEF n
<1>8. InFileInv'
  <2> SUFFICES ASSUME NEW g \in Files, NEW k \in DOMAIN disk'[g]
               PROVE  /\ disk'[g][k].item > 1 =>
                            k > 1 /\ disk'[g][k - 1] = Before(disk'[g][k])
                      /\ disk'[g][k].item < Items /\ k < Len(disk'[g]) =>
                            disk'[g][k + 1].line = disk'[g][k].line
    BY DEF InFileInv
  <2>1. CASE g # f
    <3>1. disk'[g] = disk[g]
      BY <1>3, <2>1
    <3>2. k \in DOMAIN disk[g]
      BY <3>1
    <3>3. /\ disk[g][k].item > 1 => k > 1 /\ disk[g][k - 1] = Before(disk[g][k])
          /\ disk[g][k].item < Items /\ k < Len(disk[g]) => disk[g][k + 1].line = disk[g][k].line
      BY <3>2 DEF PartsInv, InFileInv
    <3> QED BY <3>1, <3>3
  <2>2. CASE g = f /\ k \in 1..n
    <3>1. disk'[f][k] = disk[f][k]
      BY <1>2, <2>2
    <3>2. ASSUME disk[f][k].item > 1
          PROVE  k > 1 /\ disk'[f][k - 1] = Before(disk[f][k])
      <4>1. k > 1 /\ disk[f][k - 1] = Before(disk[f][k])
        BY <1>2, <2>2, <3>2 DEF PartsInv, InFileInv
      <4>2. k - 1 \in 1..n
        BY <1>2, <2>2, <4>1
      <4>3. disk'[f][k - 1] = disk[f][k - 1]
        BY <1>2, <4>2
      <4> QED BY <4>1, <4>3
    <3>3. ASSUME disk[f][k].item < Items, k < n PROVE disk'[f][k + 1].line = disk[f][k].line
      <4>1. disk[f][k + 1].line = disk[f][k].line
        BY <1>2, <2>2, <3>3 DEF PartsInv, InFileInv, n
      <4>2. disk'[f][k + 1] = disk[f][k + 1]
        BY <1>2, <2>2, <3>3
      <4> QED BY <4>1, <4>2
    <3>4. ASSUME disk[f][k].item < Items, k = n PROVE disk'[f][k + 1].line = disk[f][k].line
      <4>1. disk[f][k] = Written(c)
        BY <1>2, <1>6, <2>2, <3>4 DEF n
      <4>2. disk'[f][k + 1] = p
        BY <1>2, <3>4
      <4> QED BY <1>7, <4>1, <4>2
    <3>5. k < Len(disk'[f]) => k < n \/ k = n
      BY <1>2, <2>2
    <3> QED BY <2>2, <3>1, <3>2, <3>3, <3>4, <3>5
  <2>3. CASE g = f /\ k = n + 1
    <3>1. disk'[f][k] = p
      BY <1>2, <2>3
    <3>2. ASSUME p.item > 1 PROVE k > 1 /\ disk'[f][k - 1] = Before(p)
      <4>1. n > 0 /\ disk[f][n] = Written(c)
        BY <1>5, <1>7, <3>2
      <4>2. k > 1 /\ k - 1 = n /\ n \in 1..n
        BY <1>2, <2>3, <4>1
      <4> QED BY <1>2, <1>7, <4>1, <4>2
    <3>3. ~(k < Len(disk'[f]))
      BY <1>2, <2>3
    <3> QED BY <2>3, <3>1, <3>2, <3>3
  <2>4. g = f => k \in 1..n \/ k = n + 1
    BY <1>2
  <2> QED BY <2>1, <2>2, <2>3, <2>4
<1>9. AtEndInv'
  <2> SUFFICES ASSUME NEW g \in Files, Len(disk'[g]) > 0, disk'[g][Len(disk'[g])].item < Items
               PROVE  \/ broken'
                      \/ \E x \in Callers : /\ m_mutex' = x /\ g = m_file_stream'.file /\ item' > 1
                                            /\ disk'[g][Len(disk'[g])] = Written(x)'
    BY DEF AtEndInv
  <2>1. CASE g # f
    BY <1>3, <2>1 DEF PartsInv, AtEndInv
  <2>2. CASE g = f
    <3>1. disk'[g][Len(disk'[g])] = Written(c)' /\ g = m_file_stream'.file /\ m_mutex' = c
      BY <1>2, <1>4, <2>2
    <3>2. item' > 1
      OBVIOUS
    <3> QED BY <3>1, <3>2
  <2> QED BY <2>1, <2>2
<1>10. HolderInv'
  <2>1. m_file_stream'.file = f /\ m_mutex' = c /\ Len(disk'[f]) > 0 /\ disk'[f][Len(disk'[f])] = Written(c)'
    BY <1>2, <1>4
  <2> QED BY <2>1 DEF HolderInv
<1> QED BY <1>8, <1>9, <1>10 DEF PartsInv

\* The next item of a line goes behind the one before it, in the same file.
LEMMA WriteItemInv == ASSUME FileInv, NEW c \in Callers, WriteItem(c), Good PROVE FileInv'
<1> USE FileAppenderAssumption DEF FileInv
<1> DEFINE f == m_file_stream.file
           p == [line |-> line[c], now |-> now[c], item |-> item]
<1>1. /\ f \in Files /\ m_mutex = c /\ item \in 1..Items /\ item' = item + 1
      /\ UNCHANGED <<world, m_file_stream, m_last_time, m_mutex, pc, callVars, refused, broken>>
  BY DEF TypeOK, Streams, Files, LockInv, Good, WriteItem, Writing
<1>2. p \in Part
  <2>1. pc[c] = "write"
    BY <1>1 DEF LockInv
  <2>2. line[c] \in 1..MaxLines /\ now[c] \in 1..MaxTime
    <3>1. line[c] \in 0..MaxLines /\ now[c] \in 0..MaxTime
      BY DEF TypeOK
    <3>2. line[c] > 0 /\ now[c] > 0
      BY <2>1 DEF CallInv
    <3> QED BY <3>1, <3>2
  <2> QED BY <1>1, <2>2 DEF Part
<1>3. disk' = [disk EXCEPT ![f] = Append(@, p)]
  BY DEF WriteItem, Good
<1>4. disk[f] \in Seq(Part) /\ DOMAIN disk = Files
  BY <1>1 DEF TypeOK
<1>5. /\ disk'[f] = Append(disk[f], p)
      /\ \A g \in Files \ {f} : disk'[g] = disk[g]
  BY <1>1, <1>3, <1>4
<1>6. /\ disk'[f] \in Seq(Part) /\ Len(disk'[f]) = Len(disk[f]) + 1
      /\ DOMAIN disk[f] = 1..Len(disk[f]) /\ DOMAIN disk'[f] = 1..Len(disk[f]) + 1
      /\ Len(disk[f]) \in Nat
      /\ \A k \in 1..Len(disk[f]) : disk'[f][k] = disk[f][k]
      /\ disk'[f][Len(disk[f]) + 1] = p
  BY <1>2, <1>4, <1>5
<1>7. TypeOK'
  <2>1. disk' \in [Files -> Seq(Part)]
    BY <1>1, <1>2, <1>3, <1>4 DEF TypeOK
  <2> QED BY <1>1, <2>1 DEF TypeOK, world, callVars
<1>8. LockInv' /\ CallInv' /\ StreamInv'
  BY <1>1 DEF LockInv, CallInv, StreamInv, world, callVars
<1>9. FreshInv'
  <2>1. FreshFor(now[c]) /\ now[c] <= clock
    BY <1>1 DEF LockInv, FreshInv, CallInv
  <2>2. p.now = now[c] /\ (left[f] = 0 \/ left[f] >= now[c])
    BY <2>1 DEF FreshFor
  <2>3. ASSUME NEW g \in Files, NEW k \in DOMAIN disk'[g]
        PROVE  disk'[g][k].now <= clock /\ (left[g] = 0 \/ left[g] >= disk'[g][k].now)
    <3>1. CASE g # f
      BY <1>5, <2>3, <3>1 DEF FreshInv
    <3>2. CASE g = f /\ k \in DOMAIN disk[f]
      <4>1. disk'[g][k] = disk[g][k]
        BY <1>6, <3>2
      <4> QED BY <3>2, <4>1 DEF FreshInv
    <3>3. CASE g = f /\ k = Len(disk[f]) + 1
      <4>1. disk'[g][k] = p
        BY <1>6, <3>3
      <4> QED BY <2>1, <2>2, <3>3, <4>1
    <3>4. ASSUME g = f PROVE k \in DOMAIN disk[f] \/ k = Len(disk[f]) + 1
      <4>1. k \in 1..Len(disk[f]) + 1
        BY <1>6, <2>3, <3>4
      <4> QED BY <1>6, <4>1
    <3> QED BY <3>1, <3>2, <3>3, <3>4
  <2> QED BY <1>1, <2>3 DEF FreshInv, FreshFor, Good, world, callVars
<1>10. PartsInv'
  BY <1>1, <1>2, <1>3, WritePartsInv DEF callVars
<1> QED BY <1>7, <1>8, <1>9, <1>10

-----------------------------------------------------------------------------

LEMMA NextInv == FileInv /\ [Next]_vars => FileInv'
<1> SUFFICES ASSUME FileInv, [Next]_vars PROVE FileInv'
  OBVIOUS
<1>1. CASE UNCHANGED vars
  BY <1>1, StutterInv
<1>2. ASSUME NEW c \in Callers, Step(c) PROVE FileInv'
  BY <1>2, StampInv, LockStepInv, ReopenInv, WriteItemInv, WriteNothingInv, WriteFailsInv DEF Step
<1>3. ASSUME NEW c \in Callers, Ignore(c) \/ Log(c) PROVE FileInv'
  BY <1>3, StutterInv, LogInv DEF Ignore
<1> QED BY <1>1, <1>2, <1>3, ReopenInv, WorldInv DEF Next

\* FileInv is an invariant: for any callers and any bounds.
LEMMA InvHolds == Spec => []FileInv
BY InitInv, NextInv, PTL DEF Spec

\* A line never goes to a file that had lost the name before the second of the line,
\* although m_last_time has no lock (log.cc:377-381).
THEOREM LinesFreshHolds == Spec => []LinesFresh
<1>1. FileInv => LinesFresh
  BY DEF FileInv, FreshInv, LinesFresh
<1> QED BY <1>1, InvHolds, PTL

\* The items of a line stand together and in order; only a failed write cuts a line
\* short (log.cc:383-386, 390).
THEOREM WholeLinesHolds == Spec => []WholeLines
<1>1. FileInv => WholeLines
  <2> SUFFICES ASSUME FileInv, NEW f \in Files, NEW k \in DOMAIN disk[f]
               PROVE  LET p == disk[f][k] IN
                      /\ p.item > 1 => k > 1 /\ disk[f][k - 1] = [p EXCEPT !.item = p.item - 1]
                      /\ p.item < Items =>
                            \/ k < Len(disk[f]) /\ disk[f][k + 1].line = p.line
                            \/ k = Len(disk[f])
                               /\ (broken \/ \E c \in Callers : m_mutex = c /\ line[c] = p.line)
    BY DEF WholeLines
  <2> USE DEF FileInv
  <2>1. disk[f] \in Seq(Part)
    BY DEF TypeOK
  <2>2. Len(disk[f]) \in Nat /\ k \in 1..Len(disk[f])
    BY <2>1
  <2>3. \A c \in Callers : Written(c).line = line[c]
    BY DEF Written
  <2>4. disk[f][k].item > 1 => k > 1 /\ disk[f][k - 1] = [disk[f][k] EXCEPT !.item = disk[f][k].item - 1]
    BY DEF PartsInv, InFileInv, Before
  <2>5. ASSUME disk[f][k].item < Items, k < Len(disk[f]) PROVE disk[f][k + 1].line = disk[f][k].line
    BY <2>5 DEF PartsInv, InFileInv
  <2>6. ASSUME disk[f][k].item < Items, k = Len(disk[f])
        PROVE  broken \/ \E c \in Callers : m_mutex = c /\ line[c] = disk[f][k].line
    <3>1. broken \/ \E c \in Callers : m_mutex = c /\ disk[f][k] = Written(c)
      BY <2>2, <2>6 DEF PartsInv, AtEndInv
    <3> QED BY <2>3, <3>1
  <2> QED BY <2>2, <2>4, <2>5, <2>6
<1> QED BY <1>1, InvHolds, PTL

\* Lines are lost only when open() was refused or a write has failed (log.cc:389-397).
THEOREM LossExplainedHolds == Spec => []LossExplained
<1>1. FileInv => LossExplained
  BY DEF FileInv, StreamInv, LossExplained
<1> QED BY <1>1, InvHolds, PTL
=============================================================================
