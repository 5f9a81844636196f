------------------------------ MODULE LogProofs ------------------------------
(***************************************************************************)
(* What the loggers keep, for any number of threads, loggers, patterns and *)
(* values of "logs": appenders have the pattern of their logger, and       *)
(* loggers follow the parameter if one thread assigns it.                  *)
(***************************************************************************)
EXTENDS Log, SequenceTheorems, WellFoundedInduction, TLAPS

USE DEF mineVars, loggerVars, confVars, dumpVars

Busy(t) == pc[t] \in Listening \cup {"write"}

\* What the listener is at, and what it has left to do.
PlanOK(at, p) ==
    /\ at \in {"level", "formatter", "clear", "add"} => p.at \in Names /\ p.new[p.at] # Null
    /\ at = "bare" => p.at \in Names /\ p.new[p.at] = Null
    /\ \A n \in p.left : p.new[n] # Null
    /\ \A n \in p.gone : p.new[n] = Null

PlanInv == \A t \in Threads : PlanOK(pc[t], plan[t])

\* The program's appender: until it is added nobody else gives it a pattern, and
\* then no logger but one holds it, until it is added again.
MineInv ==
    /\ given.adds = 0 => (\A L \in Loggers : ~Holds(L)) /\ (mine.has \/ mine.formatter = NoFormat)
    /\ given.adds = 1 => \A K, L \in Loggers : Holds(K) /\ Holds(L) => K = L
    /\ \A t \in Threads : pc[t] = "append" => mine.formatter # NoFormat

\* How far the thread t, which has assigned "logs", has come with the logger n.
Reached(t, n) ==
    /\ plan[t].new[n] # Null /\ n \notin plan[t].left /\ ~(pc[t] = "level" /\ plan[t].at = n)
          => m_level[n] = plan[t].new[n].level
    /\ plan[t].new[n] = Null /\ seen[n] # {} /\ n \notin plan[t].gone
          => /\ m_level[n] = 0
             /\ ToSet(m_appenders[n]) \subseteq {Mine} \/ (pc[t] = "bare" /\ plan[t].at = n)

FollowInv ==
    /\ \A t \in Threads : Busy(t) => t \in Setters
    /\ LoggersFollowConfig
    /\ \A t \in Threads : Busy(t) => \A n \in Names : Reached(t, n)
    /\ \A t \in Threads : pc[t] = "write" => plan[t].left = {} /\ plan[t].gone = {}

\* One thread assigns the parameter.
OneSetter == \A t, u \in Setters : t = u

BaseInv == TypeOK /\ PlanInv

FormatInv == MineInv /\ InheritedFormatter

-----------------------------------------------------------------------------
(* Lists of appenders.                                                     *)

Appenders == Appender \cup {Mine}

LEMMA AppendList ==
    ASSUME NEW S, NEW s \in Seq(S), NEW x \in S
    PROVE  Append(s, x) \in Seq(S) /\ ToSet(Append(s, x)) = ToSet(s) \cup {x}
<1> DEFINE r == Append(s, x)
<1>1. /\ r \in Seq(S) /\ Len(s) \in Nat /\ DOMAIN s = 1..Len(s) /\ DOMAIN r = 1..Len(s) + 1
      /\ r[Len(s) + 1] = x /\ \A i \in 1..Len(s) : r[i] = s[i]
  OBVIOUS
<1> HIDE DEF r
<1>2. DOMAIN r = DOMAIN s \cup {Len(s) + 1}
  BY <1>1
<1>3. ToSet(r) = ToSet(s) \cup {x}
  BY <1>1, <1>2 DEF ToSet
<1> QED BY <1>1, <1>3 DEF r

LEMMA MinOf ==
    ASSUME NEW I, I \subseteq Nat, I # {}
    PROVE  Min(I) \in I
<1>1. PICK x \in I : \A y \in I : ~(<<y, x>> \in OpToRel(<, Nat))
  BY NatLessThanWellFounded, WFMin
<1>2. \A y \in I : x =< y
  <2>1. \A y \in I : ~(y < x) /\ y \in Nat /\ x \in Nat
    BY <1>1, Zenon DEF OpToRel
  <2> QED BY <2>1
<1> QED BY <1>2 DEF Min

\* r is s without its element j, which is x.
Removed(s, x, r) ==
    \E j \in DOMAIN s :
        /\ s[j] = x /\ DOMAIN r = 1..(Len(s) - 1)
        /\ \A i \in 1..(Len(s) - 1) : r[i] = IF i < j THEN s[i] ELSE s[i + 1]

\* RemoveFirst takes out one occurrence, and shifts what is behind it.
LEMMA RemoveFirstIs ==
    ASSUME NEW S, NEW s \in Seq(S), NEW x
    PROVE  /\ RemoveFirst(s, x) \in Seq(S)
           /\ RemoveFirst(s, x) = s \/ Removed(s, x, RemoveFirst(s, x))
<1>1. CASE \E i \in 1..Len(s) : s[i] = x
  <2> DEFINE j == SelectInSeq(s, LAMBDA v : v = x)
  <2>1. RemoveFirst(s, x) = SubSeq(s, 1, j - 1) \o SubSeq(s, j + 1, Len(s))
    BY <1>1 DEF RemoveFirst, RemoveAt
  <2>2. j \in 1..Len(s) /\ s[j] = x
    <3> DEFINE I == {i \in 1..Len(s) : s[i] = x}
    <3>1. I # {} /\ I \subseteq Nat
      BY <1>1
    <3>2. j = Min(I)
      BY <3>1 DEF SelectInSeq
    <3> QED BY <3>1, <3>2, MinOf
  <2> HIDE DEF j
  <2>3. PICK p : p = SubSeq(s, 1, j - 1)
    OBVIOUS
  <2>4. PICK q : q = SubSeq(s, j + 1, Len(s))
    OBVIOUS
  <2>5. p \in Seq(S) /\ Len(p) = j - 1 /\ \A i \in 1..(j - 1) : p[i] = s[i]
    BY <2>2, <2>3
  <2>6. q \in Seq(S) /\ Len(q) = Len(s) - j /\ \A i \in 1..(Len(s) - j) : q[i] = s[i + j]
    BY <2>2, <2>4
  <2>7. PICK r : r = p \o q
    OBVIOUS
  <2>8. /\ r \in Seq(S) /\ Len(r) = Len(p) + Len(q)
        /\ \A i \in 1..Len(p) + Len(q) : r[i] = IF i <= Len(p) THEN p[i] ELSE q[i - Len(p)]
    BY <2>5, <2>6, <2>7, ConcatProperties, Zenon
  <2>9. DOMAIN r = 1..(Len(s) - 1)
    BY <2>2, <2>5, <2>6, <2>8
  <2>10. ASSUME NEW i \in 1..(Len(s) - 1) PROVE r[i] = IF i < j THEN s[i] ELSE s[i + 1]
    <3>1. i \in 1..Len(p) + Len(q) /\ Len(s) \in Nat
      BY <2>2, <2>5, <2>6
    <3>2. r[i] = IF i <= Len(p) THEN p[i] ELSE q[i - Len(p)]
      BY <2>8, <3>1, Zenon
    <3>3. CASE i < j
      BY <2>2, <2>5, <3>2, <3>3
    <3>4. CASE ~(i < j)
      <4>1. i - (j - 1) \in 1..(Len(s) - j) /\ i - (j - 1) + j = i + 1 /\ ~(i <= Len(p))
        BY <2>2, <2>5, <3>1, <3>4
      <4> QED BY <2>5, <2>6, <3>2, <3>4, <4>1
    <3> QED BY <3>3, <3>4
  <2>11. r = RemoveFirst(s, x) /\ j \in DOMAIN s
    BY <2>1, <2>2, <2>3, <2>4, <2>7
  <2>12. Removed(s, x, r)
    BY <2>2, <2>9, <2>10, <2>11 DEF Removed
  <2> QED BY <2>8, <2>11, <2>12
<1>2. CASE ~ \E i \in 1..Len(s) : s[i] = x
  BY <1>2 DEF RemoveFirst
<1> QED BY <1>1, <1>2

LEMMA RemoveList ==
    ASSUME NEW S, NEW s \in Seq(S), NEW x
    PROVE  RemoveFirst(s, x) \in Seq(S) /\ ToSet(RemoveFirst(s, x)) \subseteq ToSet(s)
<1>1. PICK r : r = RemoveFirst(s, x)
  OBVIOUS
<1>2. r \in Seq(S) /\ \A i \in DOMAIN r : \E k \in DOMAIN s : r[i] = s[k]
  <2>1. CASE r = s
    BY <1>1, <2>1, RemoveFirstIs
  <2>2. CASE r # s
    <3>1. PICK j \in DOMAIN s : /\ DOMAIN r = 1..(Len(s) - 1)
                               /\ \A i \in 1..(Len(s) - 1) : r[i] = IF i < j THEN s[i] ELSE s[i + 1]
      <4>1. Removed(s, x, r)
        BY <1>1, <2>2, RemoveFirstIs
      <4> QED BY <4>1 DEF Removed
    <3>2. \A i \in DOMAIN r : i \in DOMAIN s /\ i + 1 \in DOMAIN s
      BY <3>1
    <3>3. r \in Seq(S)
      BY <1>1, RemoveFirstIs
    <3> QED BY <3>1, <3>2, <3>3
  <2> QED BY <2>1, <2>2
<1>3. ToSet(r) \subseteq ToSet(s)
  BY <1>2 DEF ToSet
<1> QED BY <1>1, <1>2, <1>3

\* set_formatter on a list.
Repatterned(s, pattern) ==
    [i \in DOMAIN s |-> IF s[i] = Mine \/ s[i].has THEN s[i] ELSE [s[i] EXCEPT !.formatter = pattern]]

LEMMA RepatternList ==
    ASSUME NEW s \in Seq(Appenders), NEW p \in Formats
    PROVE  /\ Repatterned(s, p) \in Seq(Appenders)
           /\ \A a \in ToSet(Repatterned(s, p)) : a = Mine \/ a.has \/ a.formatter = p
           /\ Mine \in ToSet(Repatterned(s, p)) <=> Mine \in ToSet(s)
           /\ ToSet(s) \subseteq {Mine} => ToSet(Repatterned(s, p)) \subseteq {Mine}
<1> DEFINE r == Repatterned(s, p)
<1>1. /\ DOMAIN r = DOMAIN s /\ DOMAIN s = 1..Len(s) /\ Len(s) \in Nat
      /\ \A i \in DOMAIN s : r[i] = IF s[i] = Mine \/ s[i].has THEN s[i] ELSE [s[i] EXCEPT !.formatter = p]
  BY DEF Repatterned
<1>2. \A i \in DOMAIN s : s[i] \in Appenders
  OBVIOUS
<1> HIDE DEF r
<1>3. ASSUME NEW i \in DOMAIN s
      PROVE  /\ r[i] \in Appenders /\ (r[i] = Mine <=> s[i] = Mine)
             /\ r[i] = Mine \/ r[i].has \/ r[i].formatter = p
  <2>1. CASE s[i] = Mine
    BY <1>1, <2>1 DEF Appenders
  <2>2. CASE s[i] # Mine /\ s[i].has
    BY <1>1, <1>2, <2>2
  <2>3. CASE s[i] # Mine /\ ~s[i].has
    <3>1. r[i] = [s[i] EXCEPT !.formatter = p] /\ s[i] \in Appender
      BY <1>1, <1>2, <2>3 DEF Appenders
    <3>2. r[i] \in Appender /\ r[i].formatter = p
      BY <3>1 DEF Appender
    <3> QED BY <2>3, <3>2, LogAssumption DEF Appenders
  <2> QED BY <2>1, <2>2, <2>3
<1>4. r \in Seq(Appenders)
  <2>1. r = [i \in 1..Len(s) |-> r[i]]
    BY <1>1 DEF r, Repatterned
  <2> QED BY <1>1, <1>3, <2>1
<1>5. ToSet(r) = {r[i] : i \in DOMAIN s} /\ ToSet(s) = {s[i] : i \in DOMAIN s}
  BY <1>1 DEF ToSet
<1> QED BY <1>3, <1>4, <1>5 DEF r

-----------------------------------------------------------------------------
(* The operations on one logger.                                           *)

LEMMA SetFormatterFacts ==
    ASSUME TypeOK, NEW L \in Loggers, NEW pattern, SetFormatter(L, pattern)
    PROVE  /\ m_formatter' \in [Loggers -> Formats]
           /\ m_appenders' \in [Loggers -> Seq(Appenders)]
           /\ mine' \in Own /\ mine'.has = mine.has /\ given' = given
           /\ mine = mine' \/ (Holds(L) /\ ~mine.has /\ mine'.formatter = m_formatter'[L])
           /\ Holds(L) /\ ~mine.has => m_formatter' = m_formatter \/ mine'.formatter = m_formatter'[L]
           /\ \A K \in Loggers \ {L} : m_appenders'[K] = m_appenders[K] /\ m_formatter'[K] = m_formatter[K]
           /\ \/ m_appenders'[L] = m_appenders[L] /\ m_formatter' = m_formatter /\ mine' = mine
              \/ /\ pattern \in Formats /\ m_formatter'[L] = pattern
                 /\ m_appenders'[L] = Repatterned(m_appenders[L], pattern)
<1>1. CASE pattern \notin Formats
  BY <1>1 DEF TypeOK, SetFormatter, Appenders
<1>2. CASE pattern \in Formats
  <2>1. /\ m_formatter' = [m_formatter EXCEPT ![L] = pattern]
        /\ m_appenders' = [m_appenders EXCEPT ![L] = Repatterned(m_appenders[L], pattern)]
        /\ mine' = IF Holds(L) /\ ~mine.has THEN [mine EXCEPT !.formatter = pattern] ELSE mine
        /\ given' = given
    BY <1>2 DEF SetFormatter, Repatterned, TypeOK
  <2>2. m_appenders \in [Loggers -> Seq(Appenders)] /\ m_formatter \in [Loggers -> Formats]
    BY DEF TypeOK, Appenders
  <2>3. Repatterned(m_appenders[L], pattern) \in Seq(Appenders)
    BY <1>2, <2>2, RepatternList
  <2>4. /\ m_appenders' \in [Loggers -> Seq(Appenders)]
        /\ m_appenders'[L] = Repatterned(m_appenders[L], pattern)
        /\ \A K \in Loggers \ {L} : m_appenders'[K] = m_appenders[K]
    BY <2>1, <2>2, <2>3
  <2>5. /\ m_formatter' \in [Loggers -> Formats] /\ m_formatter'[L] = pattern
        /\ \A K \in Loggers \ {L} : m_formatter'[K] = m_formatter[K]
    BY <1>2, <2>1, <2>2
  <2>6. /\ mine' \in Own /\ mine'.has = mine.has
        /\ mine = mine' \/ (Holds(L) /\ ~mine.has /\ mine'.formatter = pattern)
        /\ Holds(L) /\ ~mine.has => mine'.formatter = pattern
    BY <1>2, <2>1 DEF TypeOK, Own
  <2> QED BY <1>2, <2>1, <2>4, <2>5, <2>6
<1> QED BY <1>1, <1>2

LEMMA ClearFacts ==
    ASSUME TypeOK, NEW L \in Loggers, ClearAppender(L)
    PROVE  /\ m_appenders' \in [Loggers -> Seq(Appenders)]
           /\ m_appenders'[L] = <<>> /\ ToSet(m_appenders'[L]) = {}
           /\ \A K \in Loggers \ {L} : m_appenders'[K] = m_appenders[K]
<1>1. m_appenders' = [m_appenders EXCEPT ![L] = <<>>] /\ <<>> \in Seq(Appenders)
  BY DEF ClearAppender
<1>2. m_appenders \in [Loggers -> Seq(Appenders)]
  BY DEF TypeOK, Appenders
<1>3. ToSet(<<>>) = {}
  BY DEF ToSet
<1> QED BY <1>1, <1>2, <1>3

LEMMA AddFacts ==
    ASSUME TypeOK, NEW L \in Loggers, NEW d \in AppenderDefine, AddAppender(L, d)
    PROVE  /\ m_appenders' \in [Loggers -> Seq(Appenders)]
           /\ \E a \in Appender : /\ a.type = d.type /\ (a.has \/ a.formatter = m_formatter[L])
                                 /\ m_appenders'[L] = Append(m_appenders[L], a)
                                 /\ ToSet(m_appenders'[L]) = ToSet(m_appenders[L]) \cup {a}
           /\ \A K \in Loggers \ {L} : m_appenders'[K] = m_appenders[K]
<1> DEFINE own == d.formatter \in Formats
           a == [type |-> d.type, has |-> own, formatter |-> IF own THEN d.formatter ELSE m_formatter[L]]
<1>1. d.type \in {1, 2} /\ m_formatter[L] \in Formats
  BY DEF TypeOK, AppenderDefine
<1>2. a \in Appender /\ a.type = d.type /\ (a.has \/ a.formatter = m_formatter[L])
  <2>1. CASE own
    <3>1. a = [type |-> d.type, has |-> TRUE, formatter |-> d.formatter]
      BY <2>1
    <3> QED BY <1>1, <2>1, <3>1 DEF Appender
  <2>2. CASE ~own
    <3>1. a = [type |-> d.type, has |-> FALSE, formatter |-> m_formatter[L]]
      BY <2>2, own = FALSE, Zenon
    <3> QED BY <1>1, <3>1 DEF Appender
  <2> QED BY <2>1, <2>2
<1>3. m_appenders' = [m_appenders EXCEPT ![L] = Append(m_appenders[L], a)]
  BY DEF AddAppender, TypeOK
<1> HIDE DEF a
<1>4. m_appenders \in [Loggers -> Seq(Appenders)] /\ a \in Appenders
  BY <1>2 DEF TypeOK, Appenders
<1>5. /\ Append(m_appenders[L], a) \in Seq(Appenders)
      /\ ToSet(Append(m_appenders[L], a)) = ToSet(m_appenders[L]) \cup {a}
  BY <1>4, AppendList
<1> QED BY <1>2, <1>3, <1>4, <1>5

-----------------------------------------------------------------------------
(* Types, and the listener's locals.                                       *)

LEMMA Facts ==
    /\ Root \in Loggers /\ Names \subseteq Loggers /\ 0 \in 0..5 /\ Levels \subseteq 0..5
    /\ Default \in Formats /\ NoFormat \notin Formats /\ Null \notin Names /\ Null \notin Definition
    /\ MaxSets \in Nat /\ MaxCalls \in Nat /\ Setters \subseteq Threads /\ Configs \subseteq Logs
BY LogAssumption DEF Loggers

LEMMA NoPlanType == NoPlan \in Plan /\ PlanOK("idle", NoPlan)
<1>1. [n \in Names |-> Null] \in Logs /\ <<>> \in Seq(AppenderDefine)
  BY DEF Logs
<1> QED BY <1>1 DEF NoPlan, Plan, PlanOK

\* What a step does to its own thread's plan is all that PlanInv is about.
LEMMA PlanStep ==
    ASSUME PlanInv, NEW t \in Threads, PlanOK(pc'[t], plan'[t]),
           \A u \in Threads \ {t} : pc'[u] = pc[u] /\ plan'[u] = plan[u]
    PROVE  PlanInv'
BY DEF PlanInv

\* The calls of the program.
LEMMA CallingBase ==
    ASSUME BaseInv, NEW t \in Threads, Calling(t)
    PROVE  BaseInv'
<1> USE Facts DEF BaseInv
<1>1. ASSUME NEW L \in Loggers, NEW level \in Levels, Event(t, L, level) PROVE BaseInv'
  <2>1. TypeOK'
    BY <1>1 DEF TypeOK, Event, Goto, Pcs
  <2>2. PlanInv'
    BY <1>1 DEF TypeOK, Event, Goto, PlanInv, PlanOK
  <2> QED BY <2>1, <2>2
<1>2. ASSUME NEW L \in Loggers, NEW pattern, UserSetsFormatter(t, L, pattern) PROVE BaseInv'
  <2>1. SetFormatter(L, pattern)
    BY <1>2 DEF UserSetsFormatter
  <2>2. /\ m_formatter' \in [Loggers -> Formats] /\ m_appenders' \in [Loggers -> Seq(Appenders)]
        /\ mine' \in Own /\ given' = given
    BY <2>1, SetFormatterFacts
  <2>3. TypeOK'
    BY <1>2, <2>2 DEF TypeOK, UserSetsFormatter, Appenders
  <2>4. PlanInv'
    BY <1>2 DEF UserSetsFormatter, PlanInv
  <2> QED BY <2>3, <2>4
<1>3. ASSUME NEW new \in Configs, SetValue(t, new) PROVE BaseInv'
  <2>1. new \in Logs /\ \A n \in Names : new[n] # Null => new[n] \in Definition
    BY DEF Logs
  <2>2. /\ asked' \in Logs /\ m_val' \in Logs /\ sets' \in 0..MaxSets /\ calls' \in 0..MaxCalls
        /\ UNCHANGED <<loggerVars, dumpVars, m_mutex, event>>
    BY <1>3, <2>1 DEF TypeOK, SetValue
  <2>3. CASE SameConfig(m_val, new)
    BY <1>3, <2>2, <2>3 DEF TypeOK, SetValue, PlanInv
  <2>4. CASE ~SameConfig(m_val, new)
    <3> DEFINE left == {n \in Names : ~Kept(n, m_val, new)}
               gone == {n \in Names : m_val[n] # Null /\ new[n] = Null}
               p == [NoPlan EXCEPT !.new = new, !.left = left, !.gone = gone]
    <3>1. /\ pc' = [pc EXCEPT ![t] = "changed"] /\ plan' = [plan EXCEPT ![t] = p]
          /\ seen' = [n \in Names |-> seen[n] \cup ({new[n]} \ {Null})]
      BY <1>3, <2>4 DEF SetValue
    <3>2. /\ left \subseteq Names /\ \A n \in left : new[n] # Null
          /\ gone \subseteq Names /\ \A n \in gone : new[n] = Null
      BY DEF Kept
    <3> HIDE DEF left, gone
    <3>3. p.new = new /\ p.left = left /\ p.gone = gone
      BY NoPlanType DEF Plan
    <3>4. p \in Plan /\ PlanOK("changed", p)
      <4>1. p \in Plan
        BY <2>1, <3>2, NoPlanType DEF Plan
      <4> QED BY <3>2, <3>3, <4>1 DEF PlanOK
    <3> HIDE DEF p
    <3>5. pc' \in [Threads -> Pcs] /\ plan' \in [Threads -> Plan]
      BY <3>1, <3>4 DEF TypeOK, Pcs
    <3>6. seen' \in [Names -> SUBSET Definition]
      BY <2>1, <3>1 DEF TypeOK
    <3>7. TypeOK'
      BY <2>2, <3>5, <3>6 DEF TypeOK
    <3>8. PlanInv'
      BY <3>1, <3>4, PlanStep DEF TypeOK
    <3> QED BY <3>7, <3>8
  <2> QED BY <2>3, <2>4
<1>4. ASSUME ToYamlString(t) PROVE BaseInv'
  <2>1. TypeOK'
    BY <1>4 DEF TypeOK, ToYamlString, Goto, Pcs
  <2>2. PlanInv'
    BY <1>4 DEF TypeOK, ToYamlString, Goto, PlanInv, PlanOK
  <2> QED BY <2>1, <2>2
<1>5. ASSUME NEW L \in Loggers, UserAdds(t, L) PROVE BaseInv'
  <2>1. /\ pc' \in [Threads -> Pcs] /\ m_mutex' \in [Loggers -> Threads \cup {Null}]
        /\ calls' \in 0..MaxCalls
    BY <1>5 DEF TypeOK, UserAdds, Goto, Pcs
  <2>2. event' \in [Threads -> [logger : Loggers, level : 0..5]]
    BY <1>5 DEF TypeOK, UserAdds, NoEvent
  <2>3. TypeOK'
    BY <1>5, <2>1, <2>2 DEF TypeOK, UserAdds
  <2>4. PlanInv'
    BY <1>5 DEF TypeOK, UserAdds, Goto, PlanInv, PlanOK
  <2> QED BY <2>3, <2>4
<1>6. ASSUME NEW L \in Loggers, UserDeletes(t, L) PROVE BaseInv'
  <2>1. m_appenders[L] \in Seq(Appenders)
    BY DEF TypeOK, Appenders
  <2>2. RemoveFirst(m_appenders[L], Mine) \in Seq(Appenders)
    BY <2>1, RemoveList
  <2>3. m_appenders' \in [Loggers -> Seq(Appender \cup {Mine})]
    BY <1>6, <2>2 DEF TypeOK, UserDeletes, Appenders
  <2>4. TypeOK'
    BY <1>6, <2>3 DEF TypeOK, UserDeletes
  <2>5. PlanInv'
    BY <1>6 DEF UserDeletes, PlanInv
  <2> QED BY <2>4, <2>5
<1>7. ASSUME NEW pattern \in Formats, AppenderSetFormatter(t, pattern) PROVE BaseInv'
  <2>1. mine' \in Own /\ calls' \in 0..MaxCalls
    BY <1>7 DEF TypeOK, AppenderSetFormatter, Own
  <2>4. given' \in [pattern : Formats \cup {NoFormat}, adds : Nat]
    BY <1>7 DEF TypeOK, AppenderSetFormatter
  <2>2. TypeOK'
    BY <1>7, <2>1, <2>4 DEF TypeOK, AppenderSetFormatter
  <2>3. PlanInv'
    BY <1>7 DEF AppenderSetFormatter, PlanInv
  <2> QED BY <2>2, <2>3
<1> QED BY <1>1, <1>2, <1>3, <1>4, <1>5, <1>6, <1>7 DEF Calling

\* The steps of a call on a logger: the listener's locals stay as they are.
LEMMA LoggingBase ==
    ASSUME BaseInv, NEW t \in Threads,
           \/ CheckLevel(t) \/ Output(t) \/ Forward(t) \/ RootLevel(t) \/ Forwarded(t)
           \/ UserAdded(t) \/ Dumped(t) \/ \E L \in Loggers : DumpLogger(t, L)
    PROVE  BaseInv'
<1> USE Facts DEF BaseInv
<1>1. event[t].logger \in Loggers
  BY DEF TypeOK
<1>2. CASE CheckLevel(t) \/ Output(t) \/ RootLevel(t)
  <2>1. TypeOK'
    BY <1>2 DEF TypeOK, CheckLevel, Output, RootLevel, Goto, Pcs
  <2>2. PlanInv'
    BY <1>2 DEF TypeOK, CheckLevel, Output, RootLevel, Goto, PlanInv, PlanOK
  <2> QED BY <2>1, <2>2
<1>3. CASE Forward(t) \/ Forwarded(t)
  <2>1. PICK to \in {"root", "idle"}, holder \in Threads \cup {Null} :
            /\ pc' = [pc EXCEPT ![t] = to] /\ m_mutex' = [m_mutex EXCEPT ![event[t].logger] = holder]
            /\ UNCHANGED <<loggerVars, confVars, dumpVars, event, plan, calls>>
    BY <1>3, Zenon DEF Forward, Forwarded, Goto
  <2>2. pc' \in [Threads -> Pcs] /\ m_mutex' \in [Loggers -> Threads \cup {Null}]
    BY <1>1, <2>1 DEF TypeOK, Pcs
  <2>3. TypeOK'
    BY <2>1, <2>2 DEF TypeOK
  <2>4. PlanInv'
    BY <2>1 DEF TypeOK, PlanInv, PlanOK
  <2> QED BY <2>3, <2>4
<1>4. CASE UserAdded(t)
  <2>1. m_appenders[event[t].logger] \in Seq(Appenders) /\ Mine \in Appenders
    BY <1>1 DEF TypeOK, Appenders
  <2>2. Append(m_appenders[event[t].logger], Mine) \in Seq(Appenders)
    BY <2>1, AppendList
  <2>3. m_appenders' \in [Loggers -> Seq(Appender \cup {Mine})]
    BY <1>1, <1>4, <2>2 DEF TypeOK, UserAdded, Appenders
  <2>4. mine' \in Own
    BY <1>1, <1>4 DEF TypeOK, UserAdded, Own
  <2>5. given' \in [pattern : Formats \cup {NoFormat}, adds : Nat]
    BY <1>4 DEF TypeOK, UserAdded
  <2>6. pc' \in [Threads -> Pcs] /\ m_mutex' \in [Loggers -> Threads \cup {Null}]
    BY <1>1, <1>4 DEF TypeOK, UserAdded, Goto, Pcs
  <2>7. TypeOK'
    BY <1>4, <2>3, <2>4, <2>5, <2>6 DEF TypeOK, UserAdded
  <2>8. PlanInv'
    BY <1>4 DEF TypeOK, UserAdded, Goto, PlanInv, PlanOK
  <2> QED BY <2>7, <2>8
<1>5. CASE Dumped(t) \/ \E L \in Loggers : DumpLogger(t, L)
  <2>1. TypeOK'
    BY <1>5 DEF TypeOK, Dumped, DumpLogger, Goto, Pcs
  <2>2. PlanInv'
    BY <1>5 DEF TypeOK, Dumped, DumpLogger, Goto, PlanInv, PlanOK
  <2> QED BY <2>1, <2>2
<1> QED BY <1>2, <1>3, <1>4, <1>5

\* The listener takes the next definition to apply, or to delete.
LEMMA PickFacts ==
    ASSUME BaseInv, NEW t \in Threads, Pick(t)
    PROVE  /\ plan' \in [Threads -> Plan] /\ \A u \in Threads \ {t} : plan'[u] = plan[u]
           /\ \E n \in plan[t].left :
                /\ n \in Names /\ plan[t].new[n] \in Definition
                /\ plan'[t].at = n /\ plan'[t].left = plan[t].left \ {n}
                /\ plan'[t].new = plan[t].new /\ plan'[t].gone = plan[t].gone
                /\ plan'[t].apps = plan[t].new[n].appenders
<1>1. PICK n \in plan[t].left :
          plan' = [plan EXCEPT ![t].at = n, ![t].left = @ \ {n}, ![t].apps = plan[t].new[n].appenders]
  BY DEF Pick
<1>2. plan[t] \in Plan /\ plan \in [Threads -> Plan] /\ plan[t].new[n] # Null
  BY <1>1 DEF BaseInv, TypeOK, PlanInv, PlanOK
<1>3. n \in Names /\ plan[t].new \in Logs /\ plan[t].left \ {n} \subseteq Names
  BY <1>2 DEF Plan
<1>4. plan[t].new[n] \in Definition
  BY <1>2, <1>3 DEF Logs
<1>5. plan[t].new[n].appenders \in Seq(AppenderDefine)
  BY <1>4 DEF Definition
<1>6. PICK apps \in Seq(AppenderDefine) : apps = plan[t].new[n].appenders
  BY <1>5
<1>7. PICK p : p = [plan[t] EXCEPT !.at = n, !.left = @ \ {n}, !.apps = apps]
  OBVIOUS
<1>8. plan' = [plan EXCEPT ![t] = p]
  BY <1>1, <1>2, <1>6, <1>7
<1>9. /\ p \in Plan /\ p.at = n /\ p.left = plan[t].left \ {n} /\ p.new = plan[t].new
      /\ p.gone = plan[t].gone /\ p.apps = apps
  BY <1>2, <1>3, <1>7 DEF Plan
<1>10. plan' \in [Threads -> Plan] /\ plan'[t] = p /\ \A u \in Threads \ {t} : plan'[u] = plan[u]
  BY <1>2, <1>8, <1>9
<1> QED BY <1>3, <1>4, <1>6, <1>9, <1>10

LEMMA DeleteFacts ==
    ASSUME BaseInv, NEW t \in Threads, Delete(t)
    PROVE  /\ plan' \in [Threads -> Plan] /\ \A u \in Threads \ {t} : plan'[u] = plan[u]
           /\ plan[t].left = {}
           /\ \E n \in plan[t].gone :
                /\ n \in Names /\ plan[t].new[n] = Null
                /\ m_level' = [m_level EXCEPT ![n] = 0]
                /\ plan'[t].at = n /\ plan'[t].gone = plan[t].gone \ {n}
                /\ plan'[t].new = plan[t].new /\ plan'[t].left = {}
<1>1. PICK n \in plan[t].gone : /\ plan[t].left = {} /\ m_level' = [m_level EXCEPT ![n] = 0]
                               /\ plan' = [plan EXCEPT ![t].at = n, ![t].gone = @ \ {n}]
  BY DEF Delete
<1>2. plan[t] \in Plan /\ plan \in [Threads -> Plan] /\ plan[t].new[n] = Null
  BY DEF BaseInv, TypeOK, PlanInv, PlanOK
<1>3. n \in Names /\ plan[t].gone \ {n} \subseteq Names
  BY <1>2 DEF Plan
<1>4. PICK p : p = [plan[t] EXCEPT !.at = n, !.gone = @ \ {n}]
  OBVIOUS
<1>5. plan' = [plan EXCEPT ![t] = p]
  BY <1>1, <1>2, <1>4
<1>6. /\ p \in Plan /\ p.at = n /\ p.gone = plan[t].gone \ {n} /\ p.new = plan[t].new
      /\ p.left = plan[t].left
  BY <1>2, <1>3, <1>4 DEF Plan
<1>7. plan' \in [Threads -> Plan] /\ plan'[t] = p /\ \A u \in Threads \ {t} : plan'[u] = plan[u]
  BY <1>2, <1>5, <1>6
<1> QED BY <1>1, <1>2, <1>3, <1>6, <1>7

LEMMA PresentFacts ==
    ASSUME BaseInv, NEW t \in Threads, pc[t] \in {"level", "formatter", "clear", "add"}
    PROVE  /\ plan[t].at \in Names /\ plan[t].at \in Loggers
           /\ Present(t) \in Definition /\ Present(t).level \in 0..5
<1>1. plan[t] \in Plan /\ plan[t].at \in Names /\ Present(t) # Null
  BY DEF BaseInv, TypeOK, PlanInv, PlanOK, Present
<1>2. Present(t) \in Definition
  BY <1>1 DEF Plan, Logs, Present
<1> QED BY <1>1, <1>2 DEF Definition, Loggers

\* The next appender of the definition, and the ones after it.
LEMMA AppenderFacts ==
    ASSUME BaseInv, NEW t \in Threads, ApplyAppender(t)
    PROVE  /\ plan[t].apps \in Seq(AppenderDefine) /\ plan[t].apps # <<>>
           /\ Head(plan[t].apps) \in AppenderDefine /\ plan'[t].apps = Tail(plan[t].apps)
           /\ plan' \in [Threads -> Plan] /\ \A u \in Threads \ {t} : plan'[u] = plan[u]
           /\ plan'[t].at = plan[t].at /\ plan'[t].left = plan[t].left
           /\ plan'[t].new = plan[t].new /\ plan'[t].gone = plan[t].gone
<1>1. plan' = [plan EXCEPT ![t].apps = Tail(@)] /\ plan[t].apps # <<>>
  BY DEF ApplyAppender
<1>2. plan[t] \in Plan /\ plan \in [Threads -> Plan] /\ plan[t].apps \in Seq(AppenderDefine)
  BY DEF BaseInv, TypeOK, Plan
<1>3. Head(plan[t].apps) \in AppenderDefine /\ Tail(plan[t].apps) \in Seq(AppenderDefine)
  BY <1>1, <1>2
<1>4. PICK rest \in Seq(AppenderDefine) : rest = Tail(plan[t].apps)
  BY <1>3
<1>5. PICK p : p = [plan[t] EXCEPT !.apps = rest]
  OBVIOUS
<1>6. plan' = [plan EXCEPT ![t] = p]
  BY <1>1, <1>2, <1>4, <1>5
<1>7. /\ p \in Plan /\ p.at = plan[t].at /\ p.gone = plan[t].gone /\ p.new = plan[t].new
      /\ p.left = plan[t].left /\ p.apps = rest
  BY <1>2, <1>5 DEF Plan
<1>8. plan' \in [Threads -> Plan] /\ plan'[t] = p /\ \A u \in Threads \ {t} : plan'[u] = plan[u]
  BY <1>2, <1>6, <1>7
<1> QED BY <1>1, <1>2, <1>3, <1>4, <1>7, <1>8

LEMMA ListenerBase ==
    ASSUME BaseInv, NEW t \in Threads,
           \/ LogChange(t) \/ Pick(t) \/ ApplyLevel(t) \/ ApplyFormatter(t) \/ ApplyClear(t) \/ ApplyAppender(t)
           \/ Applied(t) \/ Delete(t) \/ DeleteClear(t) \/ Notified(t) \/ Write(t)
    PROVE  BaseInv'
<1> USE Facts DEF BaseInv
<1>1. CASE Pick(t)
  <2>1. PICK n \in plan[t].left :
            /\ n \in Names /\ plan[t].new[n] \in Definition
            /\ plan'[t].at = n /\ plan'[t].left = plan[t].left \ {n}
            /\ plan'[t].new = plan[t].new /\ plan'[t].gone = plan[t].gone
    BY <1>1, PickFacts
  <2>2. plan' \in [Threads -> Plan] /\ \A u \in Threads \ {t} : plan'[u] = plan[u]
    BY <1>1, PickFacts
  <2>3. pc' \in [Threads -> Pcs] /\ pc'[t] = "level" /\ \A u \in Threads \ {t} : pc'[u] = pc[u]
    BY <1>1 DEF TypeOK, Pick, Goto, Pcs
  <2>4. TypeOK'
    BY <1>1, <2>2, <2>3 DEF TypeOK, Pick
  <2>5. PlanOK(pc[t], plan[t])
    BY DEF PlanInv
  <2>6. PlanOK(pc'[t], plan'[t])
    BY <2>1, <2>3, <2>5 DEF PlanOK
  <2> QED BY <2>2, <2>3, <2>4, <2>6, PlanStep
<1>2. CASE ApplyLevel(t)
  <2>1. plan[t].at \in Loggers /\ Present(t).level \in 0..5
    BY <1>2, PresentFacts DEF ApplyLevel, Goto
  <2>2. m_level' \in [Loggers -> 0..5]
    BY <1>2, <2>1 DEF TypeOK, ApplyLevel
  <2>3. TypeOK'
    BY <1>2, <2>2 DEF TypeOK, ApplyLevel, Goto, Pcs
  <2>4. PlanInv'
    BY <1>2 DEF TypeOK, ApplyLevel, Goto, PlanInv, PlanOK
  <2> QED BY <2>3, <2>4
<1>3. CASE ApplyFormatter(t)
  <2>1. plan[t].at \in Loggers /\ SetFormatter(plan[t].at, Present(t).formatter)
    BY <1>3, PresentFacts DEF ApplyFormatter, Goto
  <2>2. /\ m_formatter' \in [Loggers -> Formats] /\ m_appenders' \in [Loggers -> Seq(Appenders)]
        /\ mine' \in Own /\ given' = given
    BY <2>1, SetFormatterFacts
  <2>3. TypeOK'
    BY <1>3, <2>2 DEF TypeOK, ApplyFormatter, Goto, Pcs, Appenders
  <2>4. PlanInv'
    BY <1>3 DEF TypeOK, ApplyFormatter, Goto, PlanInv, PlanOK
  <2> QED BY <2>3, <2>4
<1>4. CASE ApplyClear(t)
  <2>1. plan[t].at \in Loggers /\ ClearAppender(plan[t].at)
    BY <1>4, PresentFacts DEF ApplyClear, Goto
  <2>2. m_appenders' \in [Loggers -> Seq(Appenders)]
    BY <2>1, ClearFacts
  <2>3. TypeOK'
    BY <1>4, <2>2 DEF TypeOK, ApplyClear, Goto, Pcs, Appenders
  <2>4. PlanInv'
    BY <1>4 DEF TypeOK, ApplyClear, Goto, PlanInv, PlanOK
  <2> QED BY <2>3, <2>4
<1>5. CASE ApplyAppender(t)
  <2>1. plan[t].at \in Loggers /\ AddAppender(plan[t].at, Head(plan[t].apps))
    BY <1>5, PresentFacts DEF ApplyAppender
  <2>2. m_appenders' \in [Loggers -> Seq(Appenders)]
    BY <1>5, <2>1, AppenderFacts, AddFacts
  <2>3. /\ plan' \in [Threads -> Plan] /\ \A u \in Threads \ {t} : plan'[u] = plan[u]
        /\ plan'[t].at = plan[t].at /\ plan'[t].left = plan[t].left
        /\ plan'[t].new = plan[t].new /\ plan'[t].gone = plan[t].gone
    BY <1>5, AppenderFacts
  <2>4. TypeOK'
    BY <1>5, <2>2, <2>3 DEF TypeOK, ApplyAppender, Appenders
  <2>5. PlanInv'
    <3>1. PlanOK(pc[t], plan[t]) /\ pc' = pc
      BY <1>5 DEF PlanInv, ApplyAppender
    <3>2. PlanOK(pc'[t], plan'[t])
      BY <2>3, <3>1 DEF PlanOK
    <3> QED BY <2>3, <3>1, <3>2, PlanStep
  <2> QED BY <2>4, <2>5
<1>6. CASE LogChange(t) \/ Applied(t) \/ Notified(t)
  <2>1. TypeOK'
    BY <1>6 DEF TypeOK, LogChange, Applied, Notified, Goto, Pcs
  <2>2. PlanInv'
    BY <1>6 DEF TypeOK, LogChange, Applied, Notified, Goto, PlanInv, PlanOK
  <2> QED BY <2>1, <2>2
<1>7. CASE Delete(t)
  <2>1. PICK n \in plan[t].gone :
            /\ n \in Names /\ plan[t].new[n] = Null /\ m_level' = [m_level EXCEPT ![n] = 0]
            /\ plan'[t].at = n /\ plan'[t].gone = plan[t].gone \ {n}
            /\ plan'[t].new = plan[t].new /\ plan'[t].left = {}
    BY <1>7, DeleteFacts
  <2>2. plan' \in [Threads -> Plan] /\ \A u \in Threads \ {t} : plan'[u] = plan[u]
    BY <1>7, DeleteFacts
  <2>3. pc' \in [Threads -> Pcs] /\ pc'[t] = "bare" /\ \A u \in Threads \ {t} : pc'[u] = pc[u]
    BY <1>7 DEF TypeOK, Delete, Goto, Pcs
  <2>4. m_level' \in [Loggers -> 0..5]
    BY <2>1 DEF TypeOK
  <2>5. TypeOK'
    BY <1>7, <2>2, <2>3, <2>4 DEF TypeOK, Delete
  <2>6. PlanOK(pc[t], plan[t])
    BY DEF PlanInv
  <2>7. PlanOK(pc'[t], plan'[t])
    BY <2>1, <2>3, <2>6 DEF PlanOK
  <2> QED BY <2>2, <2>3, <2>5, <2>7, PlanStep
<1>8. CASE DeleteClear(t)
  <2>1. plan[t].at \in Loggers /\ ClearAppender(plan[t].at)
    BY <1>8 DEF DeleteClear, Goto, PlanInv, PlanOK
  <2>2. m_appenders' \in [Loggers -> Seq(Appenders)]
    BY <2>1, ClearFacts
  <2>3. TypeOK'
    BY <1>8, <2>2 DEF TypeOK, DeleteClear, Goto, Pcs, Appenders
  <2>4. PlanInv'
    BY <1>8 DEF TypeOK, DeleteClear, Goto, PlanInv, PlanOK
  <2> QED BY <2>3, <2>4
<1>9. CASE Write(t)
  <2>1. pc' \in [Threads -> Pcs] /\ pc'[t] = "idle" /\ \A u \in Threads \ {t} : pc'[u] = pc[u]
    BY <1>9 DEF TypeOK, Write, Goto, Pcs
  <2>2. plan' \in [Threads -> Plan] /\ plan'[t] = NoPlan /\ \A u \in Threads \ {t} : plan'[u] = plan[u]
    BY <1>9, NoPlanType DEF TypeOK, Write
  <2>3. m_val' \in Logs
    BY <1>9 DEF TypeOK, Write, Plan
  <2>4. TypeOK'
    BY <1>9, <2>1, <2>2, <2>3 DEF TypeOK, Write
  <2> QED BY <2>1, <2>2, <2>4, NoPlanType, PlanStep
<1> QED BY <1>1, <1>2, <1>3, <1>4, <1>5, <1>6, <1>7, <1>8, <1>9

LEMMA BaseInit == Init => BaseInv
<1> SUFFICES ASSUME Init PROVE BaseInv
  OBVIOUS
<1>1. [n \in Names |-> Null] \in Logs
  BY DEF Logs
<1>2. m_val \in Logs /\ asked \in Logs /\ seen \in [Names -> SUBSET Definition]
  BY <1>1 DEF Init
<1>3. m_appenders \in [Loggers -> Seq(Appender \cup {Mine})]
  <2>1. [type |-> 2, formatter |-> Default, has |-> FALSE] \in Appender
    BY Facts DEF Appender
  <2>2. /\ <<[type |-> 2, formatter |-> Default, has |-> FALSE]>> \in Seq(Appender \cup {Mine})
        /\ <<>> \in Seq(Appender \cup {Mine})
    BY <2>1
  <2> QED BY <2>2 DEF Init
<1>4. mine \in Own /\ given \in [pattern : Formats \cup {NoFormat}, adds : Nat]
  BY DEF Init, Own
<1>5. event \in [Threads -> [logger : Loggers, level : 0..5]]
  BY Facts DEF Init, NoEvent
<1>6. TypeOK
  <2>1. /\ m_level \in [Loggers -> 0..5] /\ m_formatter \in [Loggers -> Formats]
        /\ m_mutex \in [Loggers -> Threads \cup {Null}]
    BY Facts DEF Init
  <2>2. pc \in [Threads -> Pcs] /\ plan \in [Threads -> Plan]
    BY NoPlanType DEF Init, Pcs
  <2>3. /\ manager \in Threads \cup {Null} /\ dumped \subseteq Loggers
        /\ sets \in 0..MaxSets /\ calls \in 0..MaxCalls
    BY Facts DEF Init
  <2> QED BY <1>2, <1>3, <1>4, <1>5, <2>1, <2>2, <2>3 DEF TypeOK
<1>7. PlanInv
  BY NoPlanType DEF Init, PlanInv
<1> QED BY <1>6, <1>7 DEF BaseInv

LEMMA BaseStep == BaseInv /\ [Next]_vars => BaseInv'
<1> SUFFICES ASSUME BaseInv, [Next]_vars PROVE BaseInv'
  OBVIOUS
<1>1. CASE UNCHANGED vars
  BY <1>1 DEF BaseInv, TypeOK, PlanInv, PlanOK, vars
<1>2. ASSUME NEW t \in Threads, Calling(t) PROVE BaseInv'
  BY <1>2, CallingBase
<1>3. ASSUME NEW t \in Threads, Running(t) PROVE BaseInv'
  BY <1>3, LoggingBase, ListenerBase DEF Running
<1> QED BY <1>1, <1>2, <1>3 DEF Next, Terminated

-----------------------------------------------------------------------------
(* Patterns.                                                               *)

\* A step that takes appenders from the lists, or adds one that has a pattern of
\* its own or its logger's, and leaves patterns and the program's appender alone.
LEMMA ListsOnly ==
    ASSUME FormatInv, UNCHANGED <<m_formatter, mine, given>>,
           \A L \in Loggers : \A a \in ToSet(m_appenders'[L]) :
              \/ a \in ToSet(m_appenders[L])
              \/ a # Mine /\ (a.has \/ a.formatter = m_formatter[L]),
           \A u \in Threads : pc'[u] = "append" => mine.formatter # NoFormat
    PROVE  FormatInv'
<1>1. \A L \in Loggers : Holds(L)' => Holds(L)
  BY DEF Holds
<1>2. MineInv'
  BY <1>1 DEF FormatInv, MineInv
<1>3. InheritedFormatter'
  BY <1>1 DEF FormatInv, InheritedFormatter
<1> QED BY <1>2, <1>3 DEF FormatInv

LEMMA SetFormatterFormat ==
    ASSUME BaseInv, FormatInv, NEW L \in Loggers, NEW pattern, SetFormatter(L, pattern),
           \A u \in Threads : pc'[u] = "append" => pc[u] = "append"
    PROVE  FormatInv'
<1> DEFINE Asis == m_appenders'[L] = m_appenders[L] /\ m_formatter' = m_formatter /\ mine' = mine
           Told == /\ pattern \in Formats /\ m_formatter'[L] = pattern
                   /\ m_appenders'[L] = Repatterned(m_appenders[L], pattern)
<1>1. /\ m_formatter' \in [Loggers -> Formats] /\ given' = given /\ mine'.has = mine.has
      /\ mine = mine' \/ (Holds(L) /\ ~mine.has /\ mine'.formatter = m_formatter'[L])
      /\ Holds(L) /\ ~mine.has => m_formatter' = m_formatter \/ mine'.formatter = m_formatter'[L]
      /\ \A K \in Loggers \ {L} : m_appenders'[K] = m_appenders[K] /\ m_formatter'[K] = m_formatter[K]
      /\ Asis \/ Told
  BY SetFormatterFacts DEF BaseInv
<1>2. /\ m_appenders[L] \in Seq(Appenders)
      /\ \A a \in ToSet(m_appenders[L]) : a = Mine \/ a.has \/ a.formatter = m_formatter[L]
  BY DEF BaseInv, TypeOK, Appenders, FormatInv, InheritedFormatter
<1>3. /\ Mine \in ToSet(m_appenders'[L]) <=> Mine \in ToSet(m_appenders[L])
      /\ \A a \in ToSet(m_appenders'[L]) : a = Mine \/ a.has \/ a.formatter = m_formatter'[L]
  <2>1. CASE Asis
    BY <1>2, <2>1
  <2>2. CASE Told
    BY <1>2, <2>2, RepatternList
  <2> QED BY <1>1, <2>1, <2>2
<1>4. \A K \in Loggers : Holds(K)' <=> Holds(K)
  BY <1>1, <1>3 DEF Holds
<1> HIDE DEF Asis, Told
<1>5. MineInv'
  <2>1. m_formatter'[L] # NoFormat
    BY <1>1, Facts
  <2> QED BY <1>1, <1>4, <2>1 DEF FormatInv, MineInv
<1>6. InheritedFormatter'
  <2>1. \A K \in Loggers : \A a \in ToSet(m_appenders'[K]) :
            a = Mine \/ a.has \/ a.formatter = m_formatter'[K]
    BY <1>1, <1>3 DEF FormatInv, InheritedFormatter
  <2>2. ASSUME NEW K \in Loggers, Holds(K)', given'.adds = 1, ~mine'.has
        PROVE  mine'.formatter = m_formatter'[K]
    <3>1. Holds(K) /\ given.adds = 1 /\ ~mine.has /\ mine.formatter = m_formatter[K]
      BY <1>1, <1>4, <2>2 DEF FormatInv, InheritedFormatter
    <3>2. CASE K = L
      BY <1>1, <3>1, <3>2
    <3>3. CASE K # L
      <4>1. ~Holds(L)
        BY <3>1, <3>3 DEF FormatInv, MineInv
      <4> QED BY <1>1, <3>1, <3>3, <4>1
    <3> QED BY <3>2, <3>3
  <2>3. mine'.has => mine'.formatter = given'.pattern \/ given'.pattern = NoFormat
    BY <1>1 DEF FormatInv, InheritedFormatter
  <2> QED BY <2>1, <2>2, <2>3 DEF InheritedFormatter
<1> QED BY <1>5, <1>6 DEF FormatInv

LEMMA UserAddedFormat ==
    ASSUME BaseInv, FormatInv, NEW t \in Threads, UserAdded(t)
    PROVE  FormatInv'
<1>1. PICK L \in Loggers : /\ L = event[t].logger
                          /\ m_appenders' = [m_appenders EXCEPT ![L] = Append(m_appenders[L], Mine)]
                          /\ m_formatter' = m_formatter
  BY DEF BaseInv, TypeOK, UserAdded
<1>2. m_appenders \in [Loggers -> Seq(Appenders)] /\ Mine \in Appenders
  BY DEF BaseInv, TypeOK, Appenders
<1>3. ToSet(Append(m_appenders[L], Mine)) = ToSet(m_appenders[L]) \cup {Mine}
  BY <1>2, AppendList
<1>4. /\ ToSet(m_appenders'[L]) = ToSet(m_appenders[L]) \cup {Mine}
      /\ \A K \in Loggers \ {L} : m_appenders'[K] = m_appenders[K]
  BY <1>1, <1>2, <1>3
<1>5. \A K \in Loggers : Holds(K)' => K = L \/ Holds(K)
  BY <1>4 DEF Holds
<1>6. given.adds \in Nat /\ given'.adds = given.adds + 1
  BY DEF BaseInv, TypeOK, UserAdded
<1>7. /\ mine'.has = mine.has
      /\ \/ mine'.formatter = m_formatter[L] /\ given'.pattern = NoFormat
         \/ pc[t] = "append" /\ mine' = mine /\ given'.pattern = given.pattern
  BY <1>1 DEF BaseInv, TypeOK, UserAdded, Goto, Own
<1>8. m_formatter[L] # NoFormat
  BY Facts DEF BaseInv, TypeOK
<1>9. pc[t] = "append" => mine.formatter # NoFormat
  BY DEF FormatInv, MineInv
<1>10. mine'.formatter # NoFormat
  BY <1>7, <1>8, <1>9
<1>11. given'.adds = 1 => /\ \A K \in Loggers : ~Holds(K)
                          /\ mine.has \/ mine.formatter = NoFormat
  BY <1>6 DEF FormatInv, MineInv
<1>12. MineInv'
  <2>1. given'.adds # 0
    BY <1>6
  <2>2. given'.adds = 1 => \A K \in Loggers : Holds(K)' => K = L
    BY <1>5, <1>11
  <2> QED BY <1>10, <2>1, <2>2 DEF MineInv, Holds
<1>13. InheritedFormatter'
  <2>1. \A K \in Loggers : \A a \in ToSet(m_appenders'[K]) :
            a = Mine \/ a.has \/ a.formatter = m_formatter'[K]
    BY <1>1, <1>4 DEF FormatInv, InheritedFormatter
  <2>2. ASSUME NEW K \in Loggers, Holds(K)', given'.adds = 1, ~mine'.has
        PROVE  mine'.formatter = m_formatter'[K]
    <3>1. K = L
      BY <1>5, <1>11, <2>2
    <3> QED BY <1>1, <1>7, <1>9, <1>11, <2>2, <3>1
  <2>3. mine'.has => mine'.formatter = given'.pattern \/ given'.pattern = NoFormat
    BY <1>7 DEF FormatInv, InheritedFormatter
  <2> QED BY <2>1, <2>2, <2>3 DEF InheritedFormatter
<1> QED BY <1>12, <1>13 DEF FormatInv

LEMMA NoListChanges ==
    ASSUME FormatInv, UNCHANGED <<m_formatter, m_appenders, mine, given>>,
           \A u \in Threads : pc'[u] = "append" => pc[u] = "append" \/ mine.formatter # NoFormat
    PROVE  FormatInv'
<1>1. \A u \in Threads : pc'[u] = "append" => mine.formatter # NoFormat
  BY DEF FormatInv, MineInv
<1> QED BY <1>1, ListsOnly

LEMMA CallingFormat ==
    ASSUME BaseInv, FormatInv, NEW t \in Threads, Calling(t)
    PROVE  FormatInv'
<1>1. \A u \in Threads : pc[u] = "append" => mine.formatter # NoFormat
  BY DEF FormatInv, MineInv
<1>2. pc \in [Threads -> Pcs]
  BY DEF BaseInv, TypeOK
<1>3. ASSUME NEW L \in Loggers, NEW level \in Levels, Event(t, L, level) PROVE FormatInv'
  BY <1>2, <1>3, NoListChanges DEF Event, Goto
<1>4. ASSUME NEW L \in Loggers, NEW pattern, UserSetsFormatter(t, L, pattern) PROVE FormatInv'
  BY <1>4, SetFormatterFormat DEF UserSetsFormatter
<1>5. ASSUME NEW new \in Configs, SetValue(t, new) PROVE FormatInv'
  BY <1>2, <1>5, NoListChanges DEF SetValue
<1>6. ASSUME ToYamlString(t) PROVE FormatInv'
  BY <1>2, <1>6, NoListChanges DEF ToYamlString, Goto
<1>7. ASSUME NEW L \in Loggers, UserAdds(t, L) PROVE FormatInv'
  BY <1>2, <1>7, NoListChanges DEF UserAdds, Goto
<1>8. ASSUME NEW L \in Loggers, UserDeletes(t, L) PROVE FormatInv'
  <2>1. m_appenders \in [Loggers -> Seq(Appenders)]
    BY DEF BaseInv, TypeOK, Appenders
  <2>2. ToSet(RemoveFirst(m_appenders[L], Mine)) \subseteq ToSet(m_appenders[L])
    BY <2>1, RemoveList
  <2>3. \A K \in Loggers : ToSet(m_appenders'[K]) \subseteq ToSet(m_appenders[K])
    BY <1>8, <2>1, <2>2 DEF UserDeletes
  <2> QED BY <1>1, <1>8, <2>3, ListsOnly DEF UserDeletes
<1>9. ASSUME NEW pattern \in Formats, AppenderSetFormatter(t, pattern) PROVE FormatInv'
  <2>1. /\ mine'.has = TRUE /\ mine'.formatter = pattern /\ given'.pattern = pattern /\ given'.adds = given.adds
        /\ UNCHANGED <<m_formatter, m_appenders, pc>>
    BY <1>9 DEF AppenderSetFormatter, BaseInv, TypeOK
  <2>2. \A K \in Loggers : Holds(K)' <=> Holds(K)
    BY <2>1 DEF Holds
  <2>3. MineInv'
    BY <2>1, <2>2, Facts DEF FormatInv, MineInv
  <2>4. InheritedFormatter'
    BY <2>1 DEF FormatInv, InheritedFormatter
  <2> QED BY <2>3, <2>4 DEF FormatInv
<1> QED BY <1>3, <1>4, <1>5, <1>6, <1>7, <1>8, <1>9 DEF Calling

LEMMA RunningFormat ==
    ASSUME BaseInv, FormatInv, NEW t \in Threads, Running(t)
    PROVE  FormatInv'
<1>1. \A u \in Threads : pc[u] = "append" => mine.formatter # NoFormat
  BY DEF FormatInv, MineInv
<1>2. pc \in [Threads -> Pcs] /\ TypeOK
  BY DEF BaseInv, TypeOK
<1>3. CASE CheckLevel(t) \/ Output(t) \/ Forward(t) \/ RootLevel(t) \/ Forwarded(t)
  BY <1>2, <1>3, NoListChanges DEF CheckLevel, Output, Forward, RootLevel, Forwarded, Goto
<1>4. CASE Dumped(t) \/ \E L \in Loggers : DumpLogger(t, L)
  BY <1>2, <1>4, NoListChanges DEF Dumped, DumpLogger, Goto
<1>5. CASE \/ LogChange(t) \/ Pick(t) \/ ApplyLevel(t) \/ Applied(t)
          \/ Delete(t) \/ Notified(t) \/ Write(t)
  BY <1>2, <1>5, NoListChanges DEF LogChange, Pick, ApplyLevel, Applied, Delete, Notified, Write, Goto
<1>6. CASE UserAdded(t)
  BY <1>6, UserAddedFormat
<1>7. CASE ApplyFormatter(t)
  <2>1. plan[t].at \in Loggers /\ SetFormatter(plan[t].at, Present(t).formatter)
    BY <1>7, PresentFacts DEF ApplyFormatter, Goto
  <2>2. \A u \in Threads : pc'[u] = "append" => pc[u] = "append"
    BY <1>2, <1>7 DEF ApplyFormatter, Goto
  <2> QED BY <2>1, <2>2, SetFormatterFormat
<1>8. CASE ApplyClear(t) \/ DeleteClear(t)
  <2>1. plan[t].at \in Loggers /\ ClearAppender(plan[t].at)
    BY <1>8, PresentFacts, Facts DEF ApplyClear, DeleteClear, Goto, BaseInv, PlanInv, PlanOK
  <2>2. \A K \in Loggers : ToSet(m_appenders'[K]) \subseteq ToSet(m_appenders[K])
    BY <1>2, <2>1, ClearFacts
  <2>3. /\ UNCHANGED <<m_formatter, mine, given>>
        /\ \A u \in Threads : pc'[u] = "append" => pc[u] = "append"
    BY <1>2, <1>8 DEF ApplyClear, DeleteClear, Goto
  <2> QED BY <1>1, <2>2, <2>3, ListsOnly
<1>9. CASE ApplyAppender(t)
  <2>1. PICK L \in Loggers : AddAppender(L, Head(plan[t].apps))
    BY <1>9, PresentFacts DEF ApplyAppender
  <2>2. Head(plan[t].apps) \in AppenderDefine
    BY <1>9, AppenderFacts
  <2>3. PICK b \in Appender : /\ b.has \/ b.formatter = m_formatter[L]
                             /\ ToSet(m_appenders'[L]) = ToSet(m_appenders[L]) \cup {b}
    BY <1>2, <2>1, <2>2, AddFacts
  <2>4. \A K \in Loggers \ {L} : m_appenders'[K] = m_appenders[K]
    BY <1>2, <2>1, <2>2, AddFacts
  <2>5. b # Mine
    BY LogAssumption
  <2>6. \A K \in Loggers : \A a \in ToSet(m_appenders'[K]) :
            \/ a \in ToSet(m_appenders[K])
            \/ a # Mine /\ (a.has \/ a.formatter = m_formatter[K])
    BY <2>3, <2>4, <2>5
  <2> QED BY <1>1, <1>9, <2>6, ListsOnly DEF ApplyAppender
<1> QED BY <1>3, <1>4, <1>5, <1>6, <1>7, <1>8, <1>9 DEF Running

LEMMA FormatInit == Init => FormatInv
<1> SUFFICES ASSUME Init PROVE FormatInv
  OBVIOUS
<1>1. PICK a \in Appender : a = [type |-> 2, formatter |-> Default, has |-> FALSE]
  BY Facts DEF Appender
<1>2. a # Mine /\ a.formatter = Default
  BY <1>1, LogAssumption
<1>3. ToSet(<<>>) = {} /\ ToSet(<<a>>) = {a}
  <2>1. DOMAIN <<a>> = {1} /\ <<a>>[1] = a
    OBVIOUS
  <2> QED BY <2>1 DEF ToSet
<1>4. \A L \in Loggers : ToSet(m_appenders[L]) \subseteq {a} /\ m_formatter[L] = Default
  <2>1. m_appenders = [L \in Loggers |-> IF L = Root THEN <<a>> ELSE <<>>]
    BY <1>1 DEF Init
  <2> QED BY <1>3, <2>1 DEF Init
<1>7. \A L \in Loggers : ~Holds(L)
  BY <1>2, <1>4 DEF Holds
<1>8. /\ given.adds = 0 /\ mine.formatter = NoFormat /\ mine.has = FALSE
      /\ \A u \in Threads : pc[u] # "append"
  BY DEF Init
<1>5. MineInv
  BY <1>7, <1>8 DEF MineInv
<1>6. InheritedFormatter
  BY <1>2, <1>4, <1>7, <1>8 DEF InheritedFormatter
<1> QED BY <1>5, <1>6 DEF FormatInv

\* An appender of a logger has a pattern of its own or the logger's, whoever calls
\* set_formatter, add_appender or del_appender while the listener rebuilds the
\* list (log.cc:222-250, 299-308, 715-766).
THEOREM InheritedFormatterHolds == Spec => []InheritedFormatter
<1>1. Init => BaseInv /\ FormatInv
  BY BaseInit, FormatInit
<1>2. BaseInv /\ FormatInv /\ [Next]_vars => BaseInv' /\ FormatInv'
  <2> SUFFICES ASSUME BaseInv, FormatInv, [Next]_vars PROVE FormatInv'
    BY BaseStep
  <2>1. CASE UNCHANGED vars
    <3>1. UNCHANGED <<m_formatter, m_appenders, mine, given, pc>>
      BY <2>1 DEF vars
    <3> QED BY <3>1, NoListChanges
  <2> QED BY <2>1, CallingFormat, RunningFormat DEF Next, Terminated
<1>3. BaseInv /\ FormatInv => InheritedFormatter
  BY DEF FormatInv
<1> QED BY <1>1, <1>2, <1>3, PTL DEF Spec

-----------------------------------------------------------------------------
(* Loggers follow the parameter.                                           *)

Bare(L) == ToSet(m_appenders[L]) \subseteq {Mine}

\* A step outside the listener that gives no logger an appender of a definition.
LEMMA OutsideStep ==
    ASSUME FollowInv, UNCHANGED <<m_level, m_val, seen, plan>>,
           \A L \in Loggers : Bare(L) => ToSet(m_appenders'[L]) \subseteq {Mine},
           \A u \in Threads : pc'[u] = pc[u] \/ (~Busy(u) /\ pc'[u] \notin Listening \cup {"write"})
    PROVE  FollowInv'
<1>1. \A u \in Threads : /\ Busy(u)' => Busy(u) /\ pc'[u] = pc[u]
                         /\ Busy(u) => Busy(u)'
  BY DEF Busy
<1>2. Quiet' => Quiet
  BY <1>1 DEF Busy, Quiet
<1>3. LoggersFollowConfig'
  BY <1>2, Facts DEF FollowInv, LoggersFollowConfig, Bare
<1>4. \A u \in Threads : Busy(u)' => \A n \in Names : Reached(u, n)'
  BY <1>1, Facts DEF FollowInv, Reached, Bare
<1>5. \A u \in Threads : pc'[u] = "write" => plan'[u].left = {} /\ plan'[u].gone = {}
  BY DEF FollowInv, Busy
<1> QED BY <1>1, <1>3, <1>4, <1>5 DEF FollowInv

LEMMA OnlyOneBusy ==
    ASSUME FollowInv, OneSetter, NEW t \in Setters
    PROVE  \A u \in Threads \ {t} : ~Busy(u)
BY DEF FollowInv, OneSetter

\* A step of the listener, or the one that calls it.
LEMMA InsideStep ==
    ASSUME FollowInv, OneSetter, NEW t \in Threads, t \in Setters, pc'[t] \in Listening \cup {"write"},
           \A u \in Threads \ {t} : pc'[u] = pc[u],
           \A n \in Names : Reached(t, n)',
           pc'[t] = "write" => plan'[t].left = {} /\ plan'[t].gone = {}
    PROVE  FollowInv'
<1>1. \A u \in Threads \ {t} : ~Busy(u)' /\ pc'[u] # "write"
  BY OnlyOneBusy DEF Busy
<1>2. ~Quiet'
  BY DEF Quiet
<1> QED BY <1>1, <1>2 DEF FollowInv, LoggersFollowConfig

LEMMA SetValueFollow ==
    ASSUME BaseInv, FollowInv, OneSetter, NEW t \in Threads, NEW new \in Configs, SetValue(t, new)
    PROVE  FollowInv'
<1>1. /\ pc[t] = "idle" /\ t \in Setters
      /\ UNCHANGED <<m_level, m_appenders, m_val>>
  BY DEF SetValue
<1>2. CASE SameConfig(m_val, new)
  BY <1>1, <1>2, OutsideStep DEF SetValue, Bare
<1>3. CASE ~SameConfig(m_val, new)
  <2> DEFINE left == {n \in Names : ~Kept(n, m_val, new)}
             gone == {n \in Names : m_val[n] # Null /\ new[n] = Null}
             p == [NoPlan EXCEPT !.new = new, !.left = left, !.gone = gone]
  <2>1. /\ pc' = [pc EXCEPT ![t] = "changed"] /\ plan' = [plan EXCEPT ![t] = p]
        /\ seen' = [n \in Names |-> seen[n] \cup ({new[n]} \ {Null})]
    BY <1>3 DEF SetValue
  <2>2. p.new = new /\ p.left = left /\ p.gone = gone
    BY NoPlanType DEF Plan
  <2> HIDE DEF p
  <2>3. pc'[t] = "changed" /\ \A u \in Threads \ {t} : pc'[u] = pc[u]
    BY <2>1 DEF BaseInv, TypeOK
  <2>4. plan'[t].new = new /\ plan'[t].left = left /\ plan'[t].gone = gone
    BY <2>1, <2>2 DEF BaseInv, TypeOK
  <2>5. Quiet
    BY <1>1, OnlyOneBusy DEF Quiet, Busy, Listening
  <2>6. ASSUME NEW n \in Names PROVE Reached(t, n)'
    <3>1. /\ m_val[n] # Null => m_level[n] = m_val[n].level
          /\ m_val[n] = Null /\ seen[n] # {} => m_level[n] = 0 /\ ToSet(m_appenders[n]) \subseteq {Mine}
      BY <2>5 DEF FollowInv, LoggersFollowConfig
    <3>2. new[n] # Null /\ n \notin left => m_level[n] = new[n].level
      BY <3>1 DEF Kept, Same
    <3>3. new[n] = Null /\ n \notin gone => m_val[n] = Null /\ seen'[n] = seen[n]
      BY <2>1
    <3> QED BY <1>1, <2>4, <3>1, <3>2, <3>3 DEF Reached
  <2> QED BY <1>1, <2>3, <2>6, InsideStep DEF Listening
<1> QED BY <1>2, <1>3

LEMMA SetFormatterBare ==
    ASSUME TypeOK, NEW L \in Loggers, NEW pattern, SetFormatter(L, pattern)
    PROVE  \A K \in Loggers : Bare(K) => ToSet(m_appenders'[K]) \subseteq {Mine}
<1>1. /\ \A K \in Loggers \ {L} : m_appenders'[K] = m_appenders[K]
      /\ \/ m_appenders'[L] = m_appenders[L]
         \/ pattern \in Formats /\ m_appenders'[L] = Repatterned(m_appenders[L], pattern)
  BY SetFormatterFacts
<1>2. m_appenders[L] \in Seq(Appenders)
  BY DEF TypeOK, Appenders
<1>3. Bare(L) => ToSet(m_appenders'[L]) \subseteq {Mine}
  BY <1>1, <1>2, RepatternList DEF Bare
<1> QED BY <1>1, <1>3 DEF Bare

LEMMA ListenerFollow ==
    ASSUME BaseInv, FollowInv, OneSetter, NEW t \in Threads,
           \/ LogChange(t) \/ Pick(t) \/ ApplyLevel(t) \/ ApplyFormatter(t) \/ ApplyClear(t) \/ ApplyAppender(t)
           \/ Applied(t) \/ Delete(t) \/ DeleteClear(t) \/ Notified(t)
    PROVE  FollowInv'
<1>1. pc[t] \in Listening
  BY DEF LogChange, Pick, ApplyLevel, ApplyFormatter, ApplyClear, ApplyAppender, Applied, Delete,
         DeleteClear, Notified, Goto, Listening
<1>2. /\ t \in Setters /\ \A n \in Names : Reached(t, n)
  BY <1>1 DEF FollowInv, Busy
<1>3. /\ seen' = seen /\ pc'[t] \in Listening \cup {"write"}
      /\ \A u \in Threads \ {t} : pc'[u] = pc[u]
  BY DEF BaseInv, TypeOK, LogChange, Pick, ApplyLevel, ApplyFormatter, ApplyClear, ApplyAppender,
         Applied, Delete, DeleteClear, Notified, Goto, Listening
<1>4. pc \in [Threads -> Pcs] /\ m_level \in [Loggers -> 0..5] /\ TypeOK
  BY DEF BaseInv, TypeOK
<1>5. SUFFICES /\ \A n \in Names : Reached(t, n)'
               /\ pc'[t] = "write" => plan'[t].left = {} /\ plan'[t].gone = {}
  BY <1>2, <1>3, InsideStep
<1>6. CASE Pick(t)
  <2>1. PICK k \in plan[t].left :
            /\ k \in Names /\ plan'[t].at = k /\ plan'[t].left = plan[t].left \ {k}
            /\ plan'[t].new = plan[t].new /\ plan'[t].gone = plan[t].gone
    BY <1>6, PickFacts
  <2>2. pc[t] = "pick" /\ pc'[t] = "level" /\ UNCHANGED <<m_level, m_appenders>>
    BY <1>4, <1>6 DEF Pick, Goto
  <2> QED BY <1>2, <1>3, <2>1, <2>2 DEF Reached
<1>7. CASE ApplyLevel(t)
  <2>1. PICK k \in Names : /\ k = plan[t].at /\ plan[t].new[k] # Null
                           /\ m_level' = [m_level EXCEPT ![k] = plan[t].new[k].level]
    BY <1>7, PresentFacts DEF ApplyLevel, Goto, Present, BaseInv, PlanInv, PlanOK
  <2>2. m_level'[k] = plan[t].new[k].level /\ \A n \in Names \ {k} : m_level'[n] = m_level[n]
    BY <1>4, <2>1, Facts
  <2>3. pc[t] = "level" /\ pc'[t] = "formatter" /\ UNCHANGED <<plan, m_appenders>>
    BY <1>4, <1>7 DEF ApplyLevel, Goto
  <2> QED BY <1>2, <1>3, <2>1, <2>2, <2>3 DEF Reached
<1>8. CASE ApplyFormatter(t)
  <2>1. plan[t].at \in Loggers /\ SetFormatter(plan[t].at, Present(t).formatter)
    BY <1>8, PresentFacts DEF ApplyFormatter, Goto
  <2>2. \A n \in Names : Bare(n) => ToSet(m_appenders'[n]) \subseteq {Mine}
    BY <1>4, <2>1, SetFormatterBare, Facts
  <2>3. pc[t] = "formatter" /\ pc'[t] = "clear" /\ UNCHANGED <<plan, m_level>>
    BY <1>4, <1>8 DEF ApplyFormatter, Goto
  <2> QED BY <1>2, <1>3, <2>2, <2>3 DEF Reached, Bare
<1>9. CASE ApplyClear(t)
  <2>1. plan[t].at \in Loggers /\ ClearAppender(plan[t].at)
    BY <1>9, PresentFacts DEF ApplyClear, Goto
  <2>2. \A n \in Names : Bare(n) => ToSet(m_appenders'[n]) \subseteq {Mine}
    BY <1>4, <2>1, ClearFacts, Facts DEF Bare
  <2>3. pc[t] = "clear" /\ pc'[t] = "add" /\ UNCHANGED <<plan, m_level>>
    BY <1>4, <1>9 DEF ApplyClear, Goto
  <2> QED BY <1>2, <1>3, <2>2, <2>3 DEF Reached, Bare
<1>10. CASE ApplyAppender(t)
  <2>1. PICK k \in Names : k = plan[t].at /\ plan[t].new[k] # Null
    BY <1>10, PresentFacts DEF ApplyAppender, BaseInv, PlanInv, PlanOK
  <2>2. /\ plan'[t].at = plan[t].at /\ plan'[t].left = plan[t].left
        /\ plan'[t].new = plan[t].new /\ plan'[t].gone = plan[t].gone
        /\ Head(plan[t].apps) \in AppenderDefine
    BY <1>10, AppenderFacts
  <2>3. AddAppender(k, Head(plan[t].apps))
    BY <1>10, <2>1 DEF ApplyAppender
  <2>4. \A n \in Names \ {k} : m_appenders'[n] = m_appenders[n]
    BY <1>4, <2>2, <2>3, AddFacts, Facts
  <2>5. pc[t] = "add" /\ UNCHANGED <<pc, m_level>>
    BY <1>10 DEF ApplyAppender
  <2> QED BY <1>2, <1>3, <2>1, <2>2, <2>4, <2>5 DEF Reached
<1>11. CASE Applied(t)
  <2>1. pc[t] = "add" /\ pc'[t] = "pick" /\ UNCHANGED <<plan, m_level, m_appenders>>
    BY <1>4, <1>11 DEF Applied, Goto
  <2> QED BY <1>2, <1>3, <2>1 DEF Reached
<1>12. CASE Delete(t)
  <2>1. PICK k \in plan[t].gone :
            /\ k \in Names /\ plan[t].new[k] = Null /\ m_level' = [m_level EXCEPT ![k] = 0]
            /\ plan'[t].at = k /\ plan'[t].gone = plan[t].gone \ {k}
            /\ plan'[t].new = plan[t].new /\ plan'[t].left = {}
    BY <1>12, DeleteFacts
  <2>2. m_level'[k] = 0 /\ \A n \in Names \ {k} : m_level'[n] = m_level[n]
    BY <1>4, <2>1, Facts
  <2>3. pc[t] = "pick" /\ pc'[t] = "bare" /\ m_appenders' = m_appenders /\ plan[t].left = {}
    BY <1>4, <1>12 DEF Delete, Goto
  <2> QED BY <1>2, <1>3, <2>1, <2>2, <2>3 DEF Reached
<1>13. CASE DeleteClear(t)
  <2>1. PICK k \in Names : k = plan[t].at /\ ClearAppender(k)
    BY <1>13 DEF DeleteClear, Goto, BaseInv, PlanInv, PlanOK
  <2>2. ToSet(m_appenders'[k]) = {} /\ \A n \in Names \ {k} : m_appenders'[n] = m_appenders[n]
    BY <1>4, <2>1, ClearFacts, Facts
  <2>3. pc[t] = "bare" /\ pc'[t] = "pick" /\ UNCHANGED <<plan, m_level>>
    BY <1>4, <1>13 DEF DeleteClear, Goto
  <2> QED BY <1>2, <1>3, <2>1, <2>2, <2>3 DEF Reached
<1>14. CASE Notified(t)
  <2>1. /\ pc[t] = "pick" /\ pc'[t] = "write" /\ UNCHANGED <<plan, m_level, m_appenders>>
        /\ plan[t].left = {} /\ plan[t].gone = {}
    BY <1>4, <1>14 DEF Notified, Goto
  <2> QED BY <1>2, <1>3, <2>1 DEF Reached
<1>15. CASE LogChange(t)
  <2>1. /\ pc[t] \in {"changed", "tell"} /\ pc'[t] \in {"tell", "pick"}
        /\ UNCHANGED <<plan, m_level, m_appenders>>
    BY <1>4, <1>15 DEF LogChange, Goto
  <2> QED BY <1>2, <1>3, <2>1 DEF Reached
<1> QED BY <1>6, <1>7, <1>8, <1>9, <1>10, <1>11, <1>12, <1>13, <1>14, <1>15

LEMMA WriteFollow ==
    ASSUME BaseInv, FollowInv, OneSetter, NEW t \in Threads, Write(t)
    PROVE  FollowInv'
<1>1. /\ pc[t] = "write" /\ pc'[t] = "idle" /\ \A u \in Threads \ {t} : pc'[u] = pc[u]
      /\ m_val' = plan[t].new /\ UNCHANGED <<m_level, m_appenders, seen>>
  BY DEF BaseInv, TypeOK, Write, Goto
<1>2. /\ t \in Setters /\ \A n \in Names : Reached(t, n)
      /\ plan[t].left = {} /\ plan[t].gone = {}
  BY <1>1 DEF FollowInv, Busy
<1>3. \A u \in Threads : ~Busy(u)'
  BY <1>1, <1>2, OnlyOneBusy DEF Busy, Listening
<1>4. LoggersFollowConfig'
  BY <1>1, <1>2 DEF LoggersFollowConfig, Reached
<1>5. \A u \in Threads : pc'[u] # "write"
  BY <1>3 DEF Busy
<1> QED BY <1>3, <1>4, <1>5 DEF FollowInv

LEMMA CallingFollow ==
    ASSUME BaseInv, FollowInv, OneSetter, NEW t \in Threads, Calling(t)
    PROVE  FollowInv'
<1> USE DEF Listening
<1>1. pc \in [Threads -> Pcs] /\ TypeOK
  BY DEF BaseInv, TypeOK
<1>2. ASSUME NEW L \in Loggers, NEW level \in Levels, Event(t, L, level) PROVE FollowInv'
  BY <1>1, <1>2, OutsideStep DEF Event, Goto, Busy, Bare
<1>3. ASSUME NEW L \in Loggers, NEW pattern, UserSetsFormatter(t, L, pattern) PROVE FollowInv'
  <2>1. \A K \in Loggers : Bare(K) => ToSet(m_appenders'[K]) \subseteq {Mine}
    BY <1>1, <1>3, SetFormatterBare DEF UserSetsFormatter
  <2> QED BY <1>3, <2>1, OutsideStep DEF UserSetsFormatter
<1>4. ASSUME NEW new \in Configs, SetValue(t, new) PROVE FollowInv'
  BY <1>4, SetValueFollow
<1>5. ASSUME ToYamlString(t) PROVE FollowInv'
  BY <1>1, <1>5, OutsideStep DEF ToYamlString, Goto, Busy, Bare
<1>6. ASSUME NEW L \in Loggers, UserAdds(t, L) PROVE FollowInv'
  BY <1>1, <1>6, OutsideStep DEF UserAdds, Goto, Busy, Bare
<1>7. ASSUME NEW L \in Loggers, UserDeletes(t, L) PROVE FollowInv'
  <2>1. m_appenders \in [Loggers -> Seq(Appenders)]
    BY DEF BaseInv, TypeOK, Appenders
  <2>2. ToSet(RemoveFirst(m_appenders[L], Mine)) \subseteq ToSet(m_appenders[L])
    BY <2>1, RemoveList
  <2>3. \A K \in Loggers : Bare(K) => ToSet(m_appenders'[K]) \subseteq {Mine}
    BY <1>7, <2>1, <2>2 DEF UserDeletes, Bare
  <2> QED BY <1>7, <2>3, OutsideStep DEF UserDeletes
<1>8. ASSUME NEW pattern \in Formats, AppenderSetFormatter(t, pattern) PROVE FollowInv'
  BY <1>8, OutsideStep DEF AppenderSetFormatter, Bare
<1> QED BY <1>2, <1>3, <1>4, <1>5, <1>6, <1>7, <1>8 DEF Calling

LEMMA LoggingFollow ==
    ASSUME BaseInv, FollowInv, NEW t \in Threads,
           \/ CheckLevel(t) \/ Output(t) \/ Forward(t) \/ RootLevel(t) \/ Forwarded(t)
           \/ UserAdded(t) \/ Dumped(t) \/ \E L \in Loggers : DumpLogger(t, L)
    PROVE  FollowInv'
<1> USE DEF Listening
<1>1. pc \in [Threads -> Pcs]
  BY DEF BaseInv, TypeOK
<1>2. CASE CheckLevel(t) \/ Output(t) \/ Forward(t) \/ RootLevel(t) \/ Forwarded(t)
  BY <1>1, <1>2, OutsideStep DEF CheckLevel, Output, Forward, RootLevel, Forwarded, Goto, Busy, Bare
<1>3. CASE Dumped(t) \/ \E L \in Loggers : DumpLogger(t, L)
  BY <1>1, <1>3, OutsideStep DEF Dumped, DumpLogger, Goto, Busy, Bare
<1>4. CASE UserAdded(t)
  <2>1. PICK L \in Loggers : m_appenders' = [m_appenders EXCEPT ![L] = Append(m_appenders[L], Mine)]
    BY <1>4 DEF BaseInv, TypeOK, UserAdded
  <2>2. m_appenders \in [Loggers -> Seq(Appenders)] /\ Mine \in Appenders
    BY DEF BaseInv, TypeOK, Appenders
  <2>3. ToSet(Append(m_appenders[L], Mine)) = ToSet(m_appenders[L]) \cup {Mine}
    BY <2>2, AppendList
  <2>4. \A K \in Loggers : Bare(K) => ToSet(m_appenders'[K]) \subseteq {Mine}
    BY <2>1, <2>2, <2>3 DEF Bare
  <2>5. \A u \in Threads : pc'[u] = pc[u] \/ (~Busy(u) /\ pc'[u] \notin Listening \cup {"write"})
    BY <1>1, <1>4 DEF UserAdded, Goto, Busy
  <2> QED BY <1>4, <2>4, <2>5, OutsideStep DEF UserAdded
<1> QED BY <1>2, <1>3, <1>4

LEMMA FollowInit == Init => FollowInv
<1> SUFFICES ASSUME Init PROVE FollowInv
  OBVIOUS
<1>1. \A t \in Threads : ~Busy(t) /\ pc[t] # "write"
  BY DEF Init, Busy, Listening
<1>2. LoggersFollowConfig
  BY DEF Init, LoggersFollowConfig
<1> QED BY <1>1, <1>2 DEF FollowInv

LEMMA FollowStep ==
    ASSUME BaseInv, FollowInv, OneSetter, [Next]_vars
    PROVE  FollowInv'
<1>1. CASE UNCHANGED vars
  <2>1. UNCHANGED <<m_level, m_val, seen, plan, m_appenders, pc>>
    BY <1>1 DEF vars
  <2> QED BY <2>1, OutsideStep DEF Bare
<1>2. ASSUME NEW t \in Threads, Calling(t) PROVE FollowInv'
  BY <1>2, CallingFollow
<1>3. ASSUME NEW t \in Threads, Running(t) PROVE FollowInv'
  BY <1>3, LoggingFollow, ListenerFollow, WriteFollow DEF Running
<1> QED BY <1>1, <1>2, <1>3 DEF Next, Terminated

\* With one thread that assigns "logs", a logger has the level of its definition
\* once the listener is done, and one whose definition is gone has level 0 and no
\* appender of a definition, whatever other threads do to it (log.cc:715-766).
THEOREM LoggersFollowConfigHolds ==
    ASSUME OneSetter
    PROVE  Spec => []LoggersFollowConfig
<1>1. Init => BaseInv /\ FollowInv
  BY BaseInit, FollowInit
<1>2. BaseInv /\ FollowInv /\ [Next]_vars => BaseInv' /\ FollowInv'
  BY BaseStep, FollowStep
<1>3. FollowInv => LoggersFollowConfig
  BY DEF FollowInv
<1> QED BY <1>1, <1>2, <1>3, PTL DEF Spec

-----------------------------------------------------------------------------
(* Lists made from a definition.                                           *)

\* at is where the appenders of defs stand in the list apps.
StandAt(at, apps, defs) ==
    /\ at \in [DOMAIN defs -> DOMAIN apps]
    /\ \A i, j \in DOMAIN defs : i < j => at[i] < at[j]
    /\ \A i \in DOMAIN defs : apps[at[i]] # Mine /\ apps[at[i]].type = defs[i].type
    /\ \A k \in DOMAIN apps : apps[k] = Mine \/ \E i \in DOMAIN defs : at[i] = k

LEMMA AsDefinedIs ==
    ASSUME NEW apps, NEW defs
    PROVE  AsDefined(apps, defs) <=> \E at : StandAt(at, apps, defs)
BY DEF AsDefined, StandAt

\* An empty list is that of no definitions.
LEMMA EmptyList == AsDefined(<<>>, <<>>)
<1>1. PICK at : at = [i \in DOMAIN <<>> |-> i]
  OBVIOUS
<1>2. StandAt(at, <<>>, <<>>)
  BY <1>1 DEF StandAt
<1> QED BY <1>2, AsDefinedIs

\* The program adds its appender.
LEMMA AppendMine ==
    ASSUME NEW s \in Seq(Appenders), NEW p, AsDefined(s, p)
    PROVE  AsDefined(Append(s, Mine), p)
<1>1. PICK at : StandAt(at, s, p)
  BY AsDefinedIs
<1>2. PICK r : r = Append(s, Mine)
  OBVIOUS
<1>3. /\ DOMAIN s \subseteq DOMAIN r /\ \A k \in DOMAIN s : r[k] = s[k]
      /\ \A k \in DOMAIN r : k \in DOMAIN s \/ r[k] = Mine
  BY <1>2 DEF Appenders
<1>4. StandAt(at, r, p)
  BY <1>1, <1>3 DEF StandAt
<1> QED BY <1>2, <1>4, AsDefinedIs

\* The listener adds one for the next definition.
LEMMA AppendDefined ==
    ASSUME NEW s \in Seq(Appenders), NEW a \in Appender, NEW S, NEW p \in Seq(S), NEW d \in S,
           AsDefined(s, p), a.type = d.type
    PROVE  AsDefined(Append(s, a), Append(p, d))
<1>1. PICK at : StandAt(at, s, p)
  BY AsDefinedIs
<1>2. a # Mine /\ a \in Appenders
  BY LogAssumption DEF Appenders
<1>3. PICK r : r = Append(s, a)
  OBVIOUS
<1>4. PICK q : q = Append(p, d)
  OBVIOUS
<1>5. /\ Len(s) \in Nat /\ DOMAIN s = 1..Len(s) /\ DOMAIN r = 1..(Len(s) + 1)
      /\ r[Len(s) + 1] = a /\ \A k \in DOMAIN s : r[k] = s[k]
  BY <1>2, <1>3
<1>6. /\ Len(p) \in Nat /\ DOMAIN p = 1..Len(p) /\ DOMAIN q = 1..(Len(p) + 1)
      /\ q[Len(p) + 1] = d /\ \A i \in DOMAIN p : q[i] = p[i]
  BY <1>4
<1>7. PICK bt : bt = [i \in 1..(Len(p) + 1) |-> IF i = Len(p) + 1 THEN Len(s) + 1 ELSE at[i]]
  OBVIOUS
<1>8. /\ bt \in [DOMAIN q -> DOMAIN r] /\ bt[Len(p) + 1] = Len(s) + 1
      /\ \A i \in DOMAIN p : bt[i] = at[i] /\ at[i] \in DOMAIN s
  BY <1>1, <1>5, <1>6, <1>7 DEF StandAt
<1>9. \A i, j \in DOMAIN q : i < j => bt[i] < bt[j]
  <2> TAKE i, j \in DOMAIN q
  <2> HAVE i < j
  <2>1. i \in DOMAIN p /\ (j \in DOMAIN p \/ j = Len(p) + 1)
    BY <1>6
  <2> QED BY <1>1, <1>5, <1>8, <2>1 DEF StandAt
<1>10. \A i \in DOMAIN q : r[bt[i]] # Mine /\ r[bt[i]].type = q[i].type
  <2> TAKE i \in DOMAIN q
  <2>1. i \in DOMAIN p \/ i = Len(p) + 1
    BY <1>6
  <2>2. CASE i \in DOMAIN p
    BY <1>1, <1>5, <1>6, <1>8, <2>2 DEF StandAt
  <2>3. CASE i = Len(p) + 1
    BY <1>2, <1>5, <1>6, <1>8, <2>3
  <2> QED BY <2>1, <2>2, <2>3
<1>11. \A k \in DOMAIN r : r[k] = Mine \/ \E i \in DOMAIN q : bt[i] = k
  <2> TAKE k \in DOMAIN r
  <2>1. Len(p) + 1 \in DOMAIN q /\ DOMAIN p \subseteq DOMAIN q
    BY <1>6
  <2>2. k \in DOMAIN s \/ k = Len(s) + 1
    BY <1>5
  <2>3. CASE k \in DOMAIN s
    BY <1>1, <1>5, <1>8, <2>1, <2>3 DEF StandAt
  <2>4. CASE k = Len(s) + 1
    BY <1>8, <2>1, <2>4
  <2> QED BY <2>2, <2>3, <2>4
<1>12. StandAt(bt, r, q)
  BY <1>8, <1>9, <1>10, <1>11 DEF StandAt
<1> QED BY <1>3, <1>4, <1>12, AsDefinedIs

\* A new pattern changes neither classes nor places.
LEMMA RepatternDefined ==
    ASSUME NEW s \in Seq(Appenders), NEW f \in Formats, NEW p, AsDefined(s, p)
    PROVE  AsDefined(Repatterned(s, f), p)
<1>1. PICK at : StandAt(at, s, p)
  BY AsDefinedIs
<1>2. PICK r : r = Repatterned(s, f)
  OBVIOUS
<1>3. /\ DOMAIN r = DOMAIN s
      /\ \A k \in DOMAIN s : r[k] = IF s[k] = Mine \/ s[k].has THEN s[k] ELSE [s[k] EXCEPT !.formatter = f]
  BY <1>2 DEF Repatterned
<1>4. ASSUME NEW k \in DOMAIN s
      PROVE  (r[k] = Mine <=> s[k] = Mine) /\ (s[k] # Mine => r[k].type = s[k].type)
  <2>1. s[k] \in Appenders
    OBVIOUS
  <2>2. CASE s[k] = Mine \/ s[k].has
    BY <1>3, <2>2
  <2>3. CASE ~(s[k] = Mine \/ s[k].has)
    <3>1. s[k] \in Appender /\ r[k] = [s[k] EXCEPT !.formatter = f]
      BY <1>3, <2>1, <2>3 DEF Appenders
    <3>2. r[k] \in Appender /\ r[k].type = s[k].type
      BY <3>1 DEF Appender
    <3> QED BY <2>3, <3>2, LogAssumption
  <2> QED BY <2>2, <2>3
<1>5. StandAt(at, r, p)
  BY <1>1, <1>3, <1>4 DEF StandAt
<1> QED BY <1>2, <1>5, AsDefinedIs

\* The program deletes its appender.
LEMMA RemoveMine ==
    ASSUME NEW s \in Seq(Appenders), NEW p, AsDefined(s, p)
    PROVE  AsDefined(RemoveFirst(s, Mine), p)
<1>1. PICK at : StandAt(at, s, p)
  BY AsDefinedIs
<1>2. PICK r : r = RemoveFirst(s, Mine)
  OBVIOUS
<1>3. CASE r = s
  BY <1>2, <1>3
<1>4. CASE r # s
  <2>1. PICK j \in DOMAIN s : /\ s[j] = Mine /\ DOMAIN r = 1..(Len(s) - 1)
                             /\ \A i \in 1..(Len(s) - 1) : r[i] = IF i < j THEN s[i] ELSE s[i + 1]
    <3>1. Removed(s, Mine, r)
      BY <1>2, <1>4, RemoveFirstIs
    <3> QED BY <3>1 DEF Removed
  <2>2. Len(s) \in Nat /\ DOMAIN s = 1..Len(s)
    OBVIOUS
  <2>3. \A i \in DOMAIN p : at[i] \in DOMAIN s /\ at[i] # j
    BY <1>1, <2>1 DEF StandAt
  <2>4. PICK bt : bt = [i \in DOMAIN p |-> IF at[i] < j THEN at[i] ELSE at[i] - 1]
    OBVIOUS
  <2>5. ASSUME NEW i \in DOMAIN p PROVE bt[i] \in DOMAIN r /\ r[bt[i]] = s[at[i]]
    <3>1. CASE at[i] < j
      BY <2>1, <2>2, <2>3, <2>4, <3>1
    <3>2. CASE ~(at[i] < j)
      <4>1. at[i] - 1 \in 1..(Len(s) - 1) /\ ~(at[i] - 1 < j) /\ (at[i] - 1) + 1 = at[i]
        BY <2>2, <2>3, <3>2
      <4> QED BY <2>1, <2>4, <3>2, <4>1
    <3> QED BY <3>1, <3>2
  <2>6. \A i, k \in DOMAIN p : i < k => bt[i] < bt[k]
    BY <1>1, <2>2, <2>3, <2>4 DEF StandAt
  <2>7. ASSUME NEW k \in DOMAIN r, r[k] # Mine PROVE \E i \in DOMAIN p : bt[i] = k
    <3>1. CASE k < j
      <4>1. k \in DOMAIN s /\ s[k] # Mine
        BY <2>1, <2>2, <2>7, <3>1
      <4>2. PICK i \in DOMAIN p : at[i] = k
        BY <1>1, <4>1 DEF StandAt
      <4> QED BY <2>4, <3>1, <4>2
    <3>2. CASE ~(k < j)
      <4>1. k + 1 \in DOMAIN s /\ s[k + 1] # Mine
        BY <2>1, <2>2, <2>7, <3>2
      <4>2. PICK i \in DOMAIN p : at[i] = k + 1
        BY <1>1, <4>1 DEF StandAt
      <4>3. ~(at[i] < j) /\ at[i] - 1 = k
        BY <2>1, <2>2, <3>2, <4>2
      <4> QED BY <2>4, <4>3
    <3> QED BY <3>1, <3>2
  <2>8. bt \in [DOMAIN p -> DOMAIN r]
    BY <2>4, <2>5
  <2>9. StandAt(bt, r, p)
    BY <1>1, <2>5, <2>6, <2>7, <2>8 DEF StandAt
  <2> QED BY <1>2, <2>9, AsDefinedIs
<1> QED BY <1>3, <1>4

-----------------------------------------------------------------------------
(* Loggers have the appenders of one definition.                           *)

\* The logger n has the appenders of a definition that it has had, equal to v.
Whole(n, v) == \E d \in seen[n] : Same(d, v) /\ AsDefined(m_appenders[n], d.appenders)

Rebuilding(t, n) == pc[t] \in {"level", "formatter", "clear", "add"} /\ plan[t].at = n

\* The listener has made k appenders of the list defs, and has the others to make.
Partly(t, n, defs) ==
    \E k \in 0..Len(defs) :
        /\ Len(plan[t].apps) = Len(defs) - k
        /\ \A i \in DOMAIN plan[t].apps : plan[t].apps[i] = defs[k + i]
        /\ IF pc[t] = "add" THEN AsDefined(m_appenders[n], SubSeq(defs, 1, k)) ELSE k = 0

\* How far the thread t, which has assigned "logs", has come with the appenders of n.
Made(t, n) ==
    plan[t].new[n] # Null =>
        /\ plan[t].new[n] \in seen[n]
        /\ n \in plan[t].left \/ Rebuilding(t, n) \/ Whole(n, plan[t].new[n])
        /\ Rebuilding(t, n) => Partly(t, n, plan[t].new[n].appenders)

WholeInv ==
    /\ WholeDefinition
    /\ \A t \in Threads : Busy(t) => \A n \in Names : Made(t, n)

\* A step outside the listener, which leaves the lists made from a definition so.
LEMMA WholeOutside ==
    ASSUME WholeInv, UNCHANGED <<m_val, seen, plan>>,
           \A n \in Names : \A defs : AsDefined(m_appenders[n], defs) => AsDefined(m_appenders'[n], defs),
           \A u \in Threads : pc'[u] = pc[u] \/ (~Busy(u) /\ pc'[u] \notin Listening \cup {"write"})
    PROVE  WholeInv'
<1>1. \A u \in Threads : /\ Busy(u)' => Busy(u) /\ pc'[u] = pc[u]
                         /\ Busy(u) => Busy(u)'
  BY DEF Busy
<1>2. Quiet' => Quiet
  BY <1>1 DEF Busy, Quiet
<1>3. ASSUME NEW n \in Names, NEW v, Whole(n, v) PROVE Whole(n, v)'
  <2>1. PICK d \in seen[n] : Same(d, v) /\ AsDefined(m_appenders[n], d.appenders)
    BY <1>3 DEF Whole
  <2>2. AsDefined(m_appenders'[n], d.appenders)
    BY <2>1
  <2> QED BY <2>1, <2>2 DEF Whole, AsDefined
<1>4. WholeDefinition'
  <2> SUFFICES ASSUME Quiet', NEW n \in Names, m_val[n] # Null PROVE Whole(n, m_val[n])'
    BY DEF WholeDefinition, Whole
  <2>1. Whole(n, m_val[n])
    BY <1>2 DEF WholeInv, WholeDefinition, Whole
  <2> QED BY <1>3, <2>1
<1>5. ASSUME NEW t \in Threads, Busy(t)', NEW n \in Names PROVE Made(t, n)'
  <2>1. Made(t, n) /\ pc'[t] = pc[t] /\ plan'[t] = plan[t]
    BY <1>1, <1>5 DEF WholeInv
  <2>2. Rebuilding(t, n)' <=> Rebuilding(t, n)
    BY <2>1 DEF Rebuilding
  <2>3. ASSUME NEW defs, Partly(t, n, defs) PROVE Partly(t, n, defs)'
    <3>1. PICK k \in 0..Len(defs) :
              /\ Len(plan[t].apps) = Len(defs) - k
              /\ \A i \in DOMAIN plan[t].apps : plan[t].apps[i] = defs[k + i]
              /\ IF pc[t] = "add" THEN AsDefined(m_appenders[n], SubSeq(defs, 1, k)) ELSE k = 0
      BY <2>3 DEF Partly
    <3>2. IF pc'[t] = "add" THEN AsDefined(m_appenders'[n], SubSeq(defs, 1, k)) ELSE k = 0
      BY <2>1, <3>1
    <3> QED BY <2>1, <3>1, <3>2 DEF Partly, AsDefined
  <2> QED BY <1>3, <2>1, <2>2, <2>3 DEF Made
<1> QED BY <1>4, <1>5 DEF WholeInv

\* A step of the listener, or the one that calls it.
LEMMA WholeInside ==
    ASSUME FollowInv', OneSetter, NEW t \in Threads, t \in Setters, pc'[t] \in Listening \cup {"write"},
           \A n \in Names : Made(t, n)'
    PROVE  WholeInv'
<1>1. \A u \in Threads : Busy(u)' => u = t
  BY DEF FollowInv, OneSetter
<1>2. ~Quiet'
  BY DEF Quiet
<1> QED BY <1>1, <1>2 DEF WholeInv, WholeDefinition

LEMMA SetValueWhole ==
    ASSUME BaseInv, FollowInv, FollowInv', WholeInv, OneSetter, NEW t \in Threads, NEW new \in Configs,
           SetValue(t, new)
    PROVE  WholeInv'
<1>1. /\ pc[t] = "idle" /\ t \in Setters /\ UNCHANGED <<m_appenders, m_val>>
  BY DEF SetValue
<1>2. CASE SameConfig(m_val, new)
  BY <1>1, <1>2, WholeOutside DEF SetValue
<1>3. CASE ~SameConfig(m_val, new)
  <2> DEFINE left == {n \in Names : ~Kept(n, m_val, new)}
             gone == {n \in Names : m_val[n] # Null /\ new[n] = Null}
             p == [NoPlan EXCEPT !.new = new, !.left = left, !.gone = gone]
  <2>1. /\ pc' = [pc EXCEPT ![t] = "changed"] /\ plan' = [plan EXCEPT ![t] = p]
        /\ seen' = [n \in Names |-> seen[n] \cup ({new[n]} \ {Null})]
    BY <1>3 DEF SetValue
  <2>2. p.new = new /\ p.left = left
    BY NoPlanType DEF Plan
  <2> HIDE DEF p
  <2>3. pc'[t] = "changed" /\ plan'[t].new = new /\ plan'[t].left = left
    BY <2>1, <2>2 DEF BaseInv, TypeOK
  <2>4. Quiet
    BY <1>1, OnlyOneBusy DEF Quiet, Busy, Listening
  <2>5. ASSUME NEW n \in Names PROVE Made(t, n)'
    <3> SUFFICES ASSUME new[n] # Null
                 PROVE  new[n] \in seen'[n] /\ (n \notin left => Whole(n, new[n])')
      BY <2>3 DEF Made, Rebuilding
    <3>1. new[n] \in seen'[n] /\ seen[n] \subseteq seen'[n]
      BY <2>1
    <3>2. ASSUME n \notin left PROVE Whole(n, new[n])'
      <4>1. m_val[n] # Null /\ Same(new[n], m_val[n])
        BY <3>2 DEF Kept
      <4>2. PICK d \in seen[n] : Same(d, m_val[n]) /\ AsDefined(m_appenders[n], d.appenders)
        BY <2>4, <4>1 DEF WholeInv, WholeDefinition
      <4>3. Same(d, new[n])
        BY <4>1, <4>2 DEF Same
      <4> QED BY <1>1, <3>1, <4>2, <4>3 DEF Whole, AsDefined
    <3> QED BY <3>1, <3>2
  <2> QED BY <1>1, <2>3, <2>5, WholeInside DEF Listening
<1> QED BY <1>2, <1>3

\* What the listener does to one logger, k, is nothing to the others.
LEMMA MadeOthers ==
    ASSUME NEW t \in Threads, NEW n \in Names, Made(t, n), UNCHANGED <<seen, m_appenders[n]>>,
           plan'[t].new = plan[t].new, n \in plan[t].left => n \in plan'[t].left,
           ~Rebuilding(t, n), ~Rebuilding(t, n)'
    PROVE  Made(t, n)'
<1>1. ASSUME NEW v, Whole(n, v) PROVE Whole(n, v)'
  BY <1>1 DEF Whole, AsDefined
<1> QED BY <1>1 DEF Made

\* One call of the listener on the logger it rebuilds.
LEMMA MadeHere ==
    ASSUME NEW t \in Threads, NEW n \in Names, Made(t, n), plan'[t].new = plan[t].new, seen' = seen,
           Rebuilding(t, n)', plan[t].new[n] # Null => Partly(t, n, plan[t].new[n].appenders)'
    PROVE  Made(t, n)'
BY DEF Made

\* Before the list is cleared, the listener has all of it to make.
LEMMA PartlyBefore ==
    ASSUME BaseInv, NEW t \in Threads, NEW n \in Names, NEW defs \in Seq(AppenderDefine),
           Partly(t, n, defs), pc[t] # "add"
    PROVE  plan[t].apps = defs
<1>1. /\ Len(plan[t].apps) = Len(defs) - 0
      /\ \A i \in DOMAIN plan[t].apps : plan[t].apps[i] = defs[0 + i]
  BY DEF Partly
<1>2. plan[t].apps \in Seq(AppenderDefine)
  BY DEF BaseInv, TypeOK, Plan
<1>3. PICK apps \in Seq(AppenderDefine) : apps = plan[t].apps
  BY <1>2
<1>4. Len(apps) = Len(defs) /\ \A i \in 1..Len(defs) : apps[i] = defs[i]
  BY <1>1, <1>3
<1> QED BY <1>3, <1>4

\* Nothing of the list is made, and that is what there is.
LEMMA PartlyFirst ==
    ASSUME NEW t \in Threads, NEW n \in Names, NEW defs \in Seq(AppenderDefine), plan'[t].apps = defs,
           pc'[t] = "add" => AsDefined(m_appenders'[n], <<>>)
    PROVE  Partly(t, n, defs)'
<1>1. /\ 0 \in 0..Len(defs) /\ Len(plan'[t].apps) = Len(defs) - 0
      /\ \A i \in DOMAIN plan'[t].apps : plan'[t].apps[i] = defs[0 + i]
  OBVIOUS
<1>2. SubSeq(defs, 1, 0) = <<>>
  OBVIOUS
<1>3. IF pc'[t] = "add" THEN AsDefined(m_appenders'[n], SubSeq(defs, 1, 0)) ELSE 0 = 0
  BY <1>2
<1> QED BY <1>1, <1>3 DEF Partly, AsDefined

\* The definition of a logger that is rebuilt.
LEMMA RebuildingFacts ==
    ASSUME BaseInv, NEW t \in Threads, NEW n \in Names, Made(t, n), Rebuilding(t, n)
    PROVE  /\ plan[t].new[n] \in Definition /\ plan[t].new[n] # Null
           /\ plan[t].new[n].appenders \in Seq(AppenderDefine)
           /\ Partly(t, n, plan[t].new[n].appenders)
<1>1. plan[t].at = n /\ plan[t].new[n] \in Definition
  BY PresentFacts DEF Rebuilding, Present
<1>2. plan[t].new[n].appenders \in Seq(AppenderDefine) /\ plan[t].new[n] # Null
  BY <1>1, Facts DEF Definition
<1> QED BY <1>1, <1>2 DEF Made

LEMMA PickWhole ==
    ASSUME BaseInv, NEW t \in Threads, Pick(t), NEW n \in Names, Made(t, n)
    PROVE  Made(t, n)'
<1>1. PICK k \in plan[t].left :
          /\ k \in Names /\ plan[t].new[k] \in Definition
          /\ plan'[t].at = k /\ plan'[t].left = plan[t].left \ {k}
          /\ plan'[t].new = plan[t].new /\ plan'[t].apps = plan[t].new[k].appenders
  BY PickFacts
<1>2. pc[t] = "pick" /\ pc'[t] = "level" /\ UNCHANGED <<seen, m_appenders>>
  BY DEF BaseInv, TypeOK, Pick, Goto
<1>3. CASE n = k
  <2>1. PICK defs \in Seq(AppenderDefine) : defs = plan[t].new[n].appenders
    BY <1>1, <1>3 DEF Definition
  <2>2. Partly(t, n, defs)'
    BY <1>1, <1>2, <1>3, <2>1, PartlyFirst
  <2>3. Rebuilding(t, n)'
    BY <1>1, <1>2, <1>3 DEF Rebuilding
  <2> QED BY <1>1, <1>2, <2>1, <2>2, <2>3, MadeHere
<1>4. CASE n # k
  BY <1>1, <1>2, <1>4, MadeOthers DEF Rebuilding
<1> QED BY <1>3, <1>4

\* set_level and set_formatter, before clear_appender.
LEMMA ApplyWhole ==
    ASSUME BaseInv, NEW t \in Threads, ApplyLevel(t) \/ ApplyFormatter(t), NEW n \in Names, Made(t, n)
    PROVE  Made(t, n)'
<1>1. /\ pc[t] \in {"level", "formatter"} /\ pc'[t] \in {"formatter", "clear"}
      /\ UNCHANGED <<seen, plan>>
  BY DEF BaseInv, TypeOK, ApplyLevel, ApplyFormatter, Goto
<1>2. CASE plan[t].at = n
  <2>1. Rebuilding(t, n) /\ Rebuilding(t, n)'
    BY <1>1, <1>2 DEF Rebuilding
  <2>2. PICK defs \in Seq(AppenderDefine) : defs = plan[t].new[n].appenders /\ Partly(t, n, defs)
    BY <2>1, RebuildingFacts
  <2>3. plan'[t].apps = defs
    BY <1>1, <2>2, PartlyBefore
  <2>4. Partly(t, n, defs)'
    BY <1>1, <2>3, PartlyFirst
  <2> QED BY <1>1, <2>1, <2>2, <2>4, MadeHere
<1>3. CASE plan[t].at # n
  <2>1. m_appenders'[n] = m_appenders[n]
    <3>1. CASE ApplyLevel(t)
      BY <3>1 DEF ApplyLevel
    <3>2. CASE ApplyFormatter(t)
      <4>1. plan[t].at \in Loggers /\ SetFormatter(plan[t].at, Present(t).formatter)
        BY <1>1, <3>2, PresentFacts DEF ApplyFormatter
      <4> QED BY <1>3, <4>1, SetFormatterFacts, Facts DEF BaseInv
    <3> QED BY <3>1, <3>2
  <2> QED BY <1>1, <1>3, <2>1, MadeOthers DEF Rebuilding
<1> QED BY <1>2, <1>3

LEMMA ClearWhole ==
    ASSUME BaseInv, NEW t \in Threads, ApplyClear(t), NEW n \in Names, Made(t, n)
    PROVE  Made(t, n)'
<1>1. pc[t] = "clear" /\ pc'[t] = "add" /\ UNCHANGED <<seen, plan>>
  BY DEF BaseInv, TypeOK, ApplyClear, Goto
<1>2. /\ plan[t].at \in Loggers /\ m_appenders'[plan[t].at] = <<>>
      /\ \A K \in Loggers \ {plan[t].at} : m_appenders'[K] = m_appenders[K]
  BY <1>1, PresentFacts, ClearFacts DEF ApplyClear, BaseInv
<1>3. CASE plan[t].at = n
  <2>1. Rebuilding(t, n) /\ Rebuilding(t, n)'
    BY <1>1, <1>3 DEF Rebuilding
  <2>2. PICK defs \in Seq(AppenderDefine) : defs = plan[t].new[n].appenders /\ Partly(t, n, defs)
    BY <2>1, RebuildingFacts
  <2>3. plan'[t].apps = defs
    BY <1>1, <2>2, PartlyBefore
  <2>4. AsDefined(m_appenders'[n], <<>>)
    BY <1>2, <1>3, EmptyList
  <2>5. Partly(t, n, defs)'
    BY <2>3, <2>4, PartlyFirst
  <2> QED BY <1>1, <2>1, <2>2, <2>5, MadeHere
<1>4. CASE plan[t].at # n
  BY <1>1, <1>2, <1>4, Facts, MadeOthers DEF Rebuilding
<1> QED BY <1>3, <1>4

LEMMA AppenderWhole ==
    ASSUME BaseInv, NEW t \in Threads, ApplyAppender(t), NEW n \in Names, Made(t, n)
    PROVE  Made(t, n)'
<1>1. pc[t] = "add" /\ pc' = pc /\ seen' = seen /\ TypeOK
  BY DEF BaseInv, TypeOK, ApplyAppender
<1>2. /\ plan[t].apps \in Seq(AppenderDefine) /\ plan[t].apps # <<>>
      /\ Head(plan[t].apps) \in AppenderDefine /\ plan'[t].apps = Tail(plan[t].apps)
      /\ plan'[t].at = plan[t].at /\ plan'[t].left = plan[t].left /\ plan'[t].new = plan[t].new
  BY AppenderFacts
<1>3. plan[t].at \in Loggers /\ AddAppender(plan[t].at, Head(plan[t].apps))
  BY <1>1, PresentFacts DEF ApplyAppender
<1>4. PICK a \in Appender : /\ a.type = Head(plan[t].apps).type
                           /\ m_appenders'[plan[t].at] = Append(m_appenders[plan[t].at], a)
  BY <1>1, <1>2, <1>3, AddFacts
<1>5. \A K \in Loggers \ {plan[t].at} : m_appenders'[K] = m_appenders[K]
  BY <1>1, <1>2, <1>3, AddFacts
<1>6. CASE plan[t].at = n
  <2>1. Rebuilding(t, n) /\ Rebuilding(t, n)'
    BY <1>1, <1>2, <1>6 DEF Rebuilding
  <2>2. PICK defs \in Seq(AppenderDefine) : defs = plan[t].new[n].appenders /\ Partly(t, n, defs)
    BY <2>1, RebuildingFacts
  <2>3. PICK k \in 0..Len(defs) :
            /\ Len(plan[t].apps) = Len(defs) - k
            /\ \A i \in DOMAIN plan[t].apps : plan[t].apps[i] = defs[k + i]
            /\ AsDefined(m_appenders[n], SubSeq(defs, 1, k))
    BY <1>1, <2>2 DEF Partly
  <2>4. PICK d : d = Head(plan[t].apps)
    OBVIOUS
  <2>5. /\ k + 1 \in 0..Len(defs) /\ k + 1 \in 1..Len(defs) /\ d = defs[k + 1] /\ d \in AppenderDefine
        /\ Len(plan'[t].apps) = Len(defs) - (k + 1)
        /\ \A i \in DOMAIN plan'[t].apps : plan'[t].apps[i] = defs[(k + 1) + i]
    <3>1. Len(plan[t].apps) > 0 /\ Len(plan[t].apps) \in Nat /\ Len(defs) \in Nat
      BY <1>2
    <3>2. d = plan[t].apps[1] /\ 1 \in DOMAIN plan[t].apps
      BY <1>2, <2>4, <3>1
    <3>3. /\ Len(plan'[t].apps) = Len(plan[t].apps) - 1
          /\ \A i \in DOMAIN plan'[t].apps : /\ i + 1 \in DOMAIN plan[t].apps /\ i \in Nat
                                             /\ plan'[t].apps[i] = plan[t].apps[i + 1]
      BY <1>2
    <3>4. k \in Nat /\ k + 1 \in 1..Len(defs)
      BY <2>3, <3>1
    <3>5. d = defs[k + 1] /\ d \in AppenderDefine
      BY <1>2, <2>3, <2>4, <3>2
    <3>6. Len(plan'[t].apps) = Len(defs) - (k + 1)
      BY <2>3, <3>1, <3>3, <3>4
    <3>7. ASSUME NEW i \in DOMAIN plan'[t].apps PROVE plan'[t].apps[i] = defs[(k + 1) + i]
      <4>1. plan'[t].apps[i] = defs[k + (i + 1)] /\ i \in Nat
        BY <2>3, <3>3
      <4> QED BY <3>4, <4>1
    <3> QED BY <3>1, <3>4, <3>5, <3>6, <3>7
  <2>6. SubSeq(defs, 1, k + 1) = Append(SubSeq(defs, 1, k), defs[k + 1])
    BY <2>3, <2>5
  <2>7. m_appenders[n] \in Seq(Appenders) /\ SubSeq(defs, 1, k) \in Seq(AppenderDefine)
    BY <1>1, <2>3, Facts DEF TypeOK, Appenders
  <2>8. AsDefined(Append(m_appenders[n], a), Append(SubSeq(defs, 1, k), d))
    BY <1>4, <2>3, <2>4, <2>5, <2>7, AppendDefined
  <2>9. AsDefined(m_appenders'[n], SubSeq(defs, 1, k + 1))
    BY <1>4, <1>6, <2>5, <2>6, <2>8
  <2>10. Partly(t, n, defs)'
    BY <1>1, <2>5, <2>9 DEF Partly, AsDefined
  <2> QED BY <1>1, <1>2, <2>1, <2>2, <2>10, MadeHere
<1>7. CASE plan[t].at # n
  BY <1>1, <1>2, <1>5, <1>7, Facts, MadeOthers DEF Rebuilding
<1> QED BY <1>6, <1>7

\* The last appender is made: the list is that of the definition.
LEMMA AppliedWhole ==
    ASSUME BaseInv, NEW t \in Threads, Applied(t), NEW n \in Names, Made(t, n)
    PROVE  Made(t, n)'
<1>1. /\ pc[t] = "add" /\ pc'[t] = "pick" /\ plan[t].apps = <<>>
      /\ UNCHANGED <<seen, plan, m_appenders>>
  BY DEF BaseInv, TypeOK, Applied, Goto
<1>2. CASE plan[t].at = n
  <2>1. Rebuilding(t, n) /\ ~Rebuilding(t, n)'
    BY <1>1, <1>2 DEF Rebuilding
  <2>2. PICK defs \in Seq(AppenderDefine) : defs = plan[t].new[n].appenders /\ Partly(t, n, defs)
    BY <2>1, RebuildingFacts
  <2>3. AsDefined(m_appenders[n], defs)
    <3>1. AsDefined(m_appenders[n], SubSeq(defs, 1, Len(defs)))
      <4>1. PICK k \in 0..Len(defs) : /\ Len(plan[t].apps) = Len(defs) - k
                                     /\ AsDefined(m_appenders[n], SubSeq(defs, 1, k))
        BY <1>1, <2>2 DEF Partly
      <4>2. Len(plan[t].apps) = 0 /\ Len(defs) \in Nat
        BY <1>1
      <4>3. k = Len(defs)
        BY <4>1, <4>2
      <4> QED BY <4>1, <4>3
    <3>2. SubSeq(defs, 1, Len(defs)) = defs
      BY <2>2
    <3> QED BY <3>1, <3>2
  <2>4. PICK d \in seen[n] : d = plan[t].new[n]
    BY <2>1, RebuildingFacts DEF Made
  <2>5. Whole(n, d)
    BY <2>2, <2>3, <2>4 DEF Whole, Same
  <2>6. Whole(n, d)'
    BY <1>1, <2>5 DEF Whole, AsDefined
  <2> QED BY <1>1, <2>1, <2>4, <2>6 DEF Made
<1>3. CASE plan[t].at # n
  BY <1>1, <1>3, MadeOthers DEF Rebuilding
<1> QED BY <1>2, <1>3

\* The listener's line, the definitions that are gone, and the end of the announcement.
LEMMA DeleteWhole ==
    ASSUME BaseInv, NEW t \in Threads,
           LogChange(t) \/ Delete(t) \/ DeleteClear(t) \/ Notified(t),
           NEW n \in Names, Made(t, n)
    PROVE  Made(t, n)'
<1>1. /\ seen' = seen /\ pc[t] \in {"changed", "tell", "pick", "bare"}
      /\ pc'[t] \in {"tell", "pick", "bare", "write"}
  BY DEF BaseInv, TypeOK, LogChange, Delete, DeleteClear, Notified, Goto
<1>2. ~Rebuilding(t, n) /\ ~Rebuilding(t, n)'
  BY <1>1 DEF Rebuilding
<1>3. CASE Delete(t)
  <2>1. plan'[t].new = plan[t].new /\ plan'[t].left = plan[t].left
    BY <1>3, DeleteFacts
  <2>2. m_appenders' = m_appenders
    BY <1>3 DEF Delete
  <2> QED BY <1>1, <1>2, <2>1, <2>2, MadeOthers
<1>4. CASE DeleteClear(t)
  <2>1. PICK k \in Names : k = plan[t].at /\ plan[t].new[k] = Null /\ ClearAppender(k)
    BY <1>4 DEF DeleteClear, Goto, BaseInv, PlanInv, PlanOK
  <2>2. \A m \in Names \ {k} : m_appenders'[m] = m_appenders[m]
    BY <2>1, ClearFacts, Facts DEF BaseInv
  <2>3. plan' = plan
    BY <1>4 DEF DeleteClear
  <2>4. CASE n = k
    BY <2>1, <2>3, <2>4 DEF Made
  <2>5. CASE n # k
    BY <1>1, <1>2, <2>2, <2>3, <2>5, MadeOthers
  <2> QED BY <2>4, <2>5
<1>5. CASE LogChange(t) \/ Notified(t)
  <2>1. UNCHANGED <<plan, m_appenders>>
    BY <1>5 DEF LogChange, Notified
  <2> QED BY <1>1, <1>2, <2>1, MadeOthers
<1> QED BY <1>3, <1>4, <1>5

LEMMA ListenerWhole ==
    ASSUME BaseInv, FollowInv, FollowInv', WholeInv, OneSetter, NEW t \in Threads,
           \/ LogChange(t) \/ Pick(t) \/ ApplyLevel(t) \/ ApplyFormatter(t) \/ ApplyClear(t) \/ ApplyAppender(t)
           \/ Applied(t) \/ Delete(t) \/ DeleteClear(t) \/ Notified(t)
    PROVE  WholeInv'
<1>1. pc[t] \in Listening /\ pc'[t] \in Listening \cup {"write"}
  BY DEF BaseInv, TypeOK, LogChange, Pick, ApplyLevel, ApplyFormatter, ApplyClear, ApplyAppender,
         Applied, Delete, DeleteClear, Notified, Goto, Listening
<1>2. t \in Setters /\ \A n \in Names : Made(t, n)
  BY <1>1 DEF FollowInv, WholeInv, Busy
<1>3. \A n \in Names : Made(t, n)'
  BY <1>2, PickWhole, ApplyWhole, ClearWhole, AppenderWhole, AppliedWhole, DeleteWhole
<1> QED BY <1>1, <1>2, <1>3, WholeInside

LEMMA WriteWhole ==
    ASSUME BaseInv, FollowInv, FollowInv', WholeInv, OneSetter, NEW t \in Threads, Write(t)
    PROVE  WholeInv'
<1>1. /\ pc[t] = "write" /\ pc'[t] = "idle" /\ \A u \in Threads \ {t} : pc'[u] = pc[u]
      /\ m_val' = plan[t].new /\ UNCHANGED <<m_appenders, seen>>
  BY DEF BaseInv, TypeOK, Write, Goto
<1>2. t \in Setters /\ plan[t].left = {} /\ \A n \in Names : Made(t, n)
  BY <1>1 DEF FollowInv, WholeInv, Busy
<1>3. \A u \in Threads : ~Busy(u)'
  BY <1>1, <1>2, OnlyOneBusy DEF Busy, Listening
<1>4. ASSUME NEW n \in Names, plan[t].new[n] # Null PROVE Whole(n, plan[t].new[n])
  BY <1>1, <1>2, <1>4 DEF Made, Rebuilding
<1>5. WholeDefinition'
  <2> SUFFICES ASSUME NEW n \in Names, m_val'[n] # Null PROVE Whole(n, m_val[n])'
    BY DEF WholeDefinition, Whole
  <2>1. PICK v : v = plan[t].new[n]
    OBVIOUS
  <2>2. Whole(n, v) /\ m_val'[n] = v
    BY <1>1, <1>4, <2>1
  <2>3. Whole(n, v)'
    BY <1>1, <2>2 DEF Whole, AsDefined
  <2> QED BY <2>2, <2>3
<1> QED BY <1>3, <1>5 DEF WholeInv

LEMMA CallingWhole ==
    ASSUME BaseInv, FollowInv, FollowInv', WholeInv, OneSetter, NEW t \in Threads, Calling(t)
    PROVE  WholeInv'
<1> USE DEF Listening
<1>1. pc \in [Threads -> Pcs] /\ TypeOK
  BY DEF BaseInv, TypeOK
<1>2. m_appenders \in [Loggers -> Seq(Appenders)]
  BY <1>1 DEF TypeOK, Appenders
<1>3. ASSUME NEW L \in Loggers, NEW level \in Levels, Event(t, L, level) PROVE WholeInv'
  BY <1>1, <1>3, WholeOutside DEF Event, Goto, Busy
<1>4. ASSUME NEW L \in Loggers, NEW pattern, UserSetsFormatter(t, L, pattern) PROVE WholeInv'
  <2>1. /\ \A K \in Loggers \ {L} : m_appenders'[K] = m_appenders[K]
        /\ \/ m_appenders'[L] = m_appenders[L]
           \/ pattern \in Formats /\ m_appenders'[L] = Repatterned(m_appenders[L], pattern)
    BY <1>1, <1>4, SetFormatterFacts DEF UserSetsFormatter
  <2>2. \A defs : AsDefined(m_appenders[L], defs) => AsDefined(m_appenders'[L], defs)
    BY <1>2, <2>1, RepatternDefined
  <2>3. \A n \in Names : \A defs : AsDefined(m_appenders[n], defs) => AsDefined(m_appenders'[n], defs)
    BY <2>1, <2>2, Facts
  <2> QED BY <1>4, <2>3, WholeOutside DEF UserSetsFormatter
<1>5. ASSUME NEW new \in Configs, SetValue(t, new) PROVE WholeInv'
  BY <1>5, SetValueWhole
<1>6. ASSUME ToYamlString(t) PROVE WholeInv'
  BY <1>1, <1>6, WholeOutside DEF ToYamlString, Goto, Busy
<1>7. ASSUME NEW L \in Loggers, UserAdds(t, L) PROVE WholeInv'
  BY <1>1, <1>7, WholeOutside DEF UserAdds, Goto, Busy
<1>8. ASSUME NEW L \in Loggers, UserDeletes(t, L) PROVE WholeInv'
  <2>1. /\ \A K \in Loggers \ {L} : m_appenders'[K] = m_appenders[K]
        /\ m_appenders'[L] = RemoveFirst(m_appenders[L], Mine)
    BY <1>2, <1>8 DEF UserDeletes
  <2>2. \A defs : AsDefined(m_appenders[L], defs) => AsDefined(m_appenders'[L], defs)
    BY <1>2, <2>1, RemoveMine
  <2>3. \A n \in Names : \A defs : AsDefined(m_appenders[n], defs) => AsDefined(m_appenders'[n], defs)
    BY <2>1, <2>2, Facts
  <2> QED BY <1>8, <2>3, WholeOutside DEF UserDeletes
<1>9. ASSUME NEW pattern \in Formats, AppenderSetFormatter(t, pattern) PROVE WholeInv'
  BY <1>9, WholeOutside DEF AppenderSetFormatter
<1> QED BY <1>3, <1>4, <1>5, <1>6, <1>7, <1>8, <1>9 DEF Calling

LEMMA LoggingWhole ==
    ASSUME BaseInv, WholeInv, NEW t \in Threads,
           \/ CheckLevel(t) \/ Output(t) \/ Forward(t) \/ RootLevel(t) \/ Forwarded(t)
           \/ UserAdded(t) \/ Dumped(t) \/ \E L \in Loggers : DumpLogger(t, L)
    PROVE  WholeInv'
<1> USE DEF Listening
<1>1. pc \in [Threads -> Pcs]
  BY DEF BaseInv, TypeOK
<1>2. CASE CheckLevel(t) \/ Output(t) \/ Forward(t) \/ RootLevel(t) \/ Forwarded(t)
  BY <1>1, <1>2, WholeOutside DEF CheckLevel, Output, Forward, RootLevel, Forwarded, Goto, Busy
<1>3. CASE Dumped(t) \/ \E L \in Loggers : DumpLogger(t, L)
  BY <1>1, <1>3, WholeOutside DEF Dumped, DumpLogger, Goto, Busy
<1>4. CASE UserAdded(t)
  <2>1. PICK L \in Loggers : m_appenders' = [m_appenders EXCEPT ![L] = Append(m_appenders[L], Mine)]
    BY <1>4 DEF BaseInv, TypeOK, UserAdded
  <2>2. m_appenders \in [Loggers -> Seq(Appenders)]
    BY DEF BaseInv, TypeOK, Appenders
  <2>3. \A defs : AsDefined(m_appenders[L], defs) => AsDefined(Append(m_appenders[L], Mine), defs)
    BY <2>2, AppendMine
  <2>4. \A n \in Names : \A defs : AsDefined(m_appenders[n], defs) => AsDefined(m_appenders'[n], defs)
    <3>1. /\ m_appenders'[L] = Append(m_appenders[L], Mine)
          /\ \A K \in Loggers \ {L} : m_appenders'[K] = m_appenders[K]
      BY <2>1, <2>2
    <3> QED BY <2>3, <3>1, Facts
  <2>5. \A u \in Threads : pc'[u] = pc[u] \/ (~Busy(u) /\ pc'[u] \notin Listening \cup {"write"})
    BY <1>1, <1>4 DEF UserAdded, Goto, Busy
  <2> QED BY <1>4, <2>4, <2>5, WholeOutside DEF UserAdded
<1> QED BY <1>2, <1>3, <1>4

\* With one thread that assigns "logs", once the listener is done a logger has the
\* appenders of one definition, all of them in their order, whatever other threads
\* add, delete or reformat while the list is rebuilt (log.cc:736-756).
THEOREM WholeDefinitionHolds ==
    ASSUME OneSetter
    PROVE  Spec => []WholeDefinition
<1>1. Init => BaseInv /\ FollowInv /\ WholeInv
  <2> SUFFICES ASSUME Init PROVE WholeInv
    BY BaseInit, FollowInit
  <2>1. \A t \in Threads : ~Busy(t)
    BY DEF Init, Busy, Listening
  <2>2. WholeDefinition
    BY DEF Init, WholeDefinition
  <2> QED BY <2>1, <2>2 DEF WholeInv
<1>2. BaseInv /\ FollowInv /\ WholeInv /\ [Next]_vars => BaseInv' /\ FollowInv' /\ WholeInv'
  <2> SUFFICES ASSUME BaseInv, FollowInv, WholeInv, [Next]_vars PROVE WholeInv'
    BY BaseStep, FollowStep
  <2>1. FollowInv'
    BY FollowStep
  <2>2. CASE UNCHANGED vars
    <3>1. UNCHANGED <<m_val, seen, plan, m_appenders, pc>>
      BY <2>2 DEF vars
    <3> QED BY <3>1, WholeOutside
  <2>3. ASSUME NEW t \in Threads, Calling(t) PROVE WholeInv'
    BY <2>1, <2>3, CallingWhole
  <2>4. ASSUME NEW t \in Threads, Running(t) PROVE WholeInv'
    BY <2>1, <2>4, LoggingWhole, ListenerWhole, WriteWhole DEF Running
  <2> QED BY <2>2, <2>3, <2>4 DEF Next, Terminated
<1>3. WholeInv => WholeDefinition
  BY DEF WholeInv
<1> QED BY <1>1, <1>2, <1>3, PTL DEF Spec
=============================================================================
