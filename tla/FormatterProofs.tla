--------------------------- MODULE FormatterProofs ---------------------------
(***************************************************************************)
(* init() stays inside its pattern, whatever the pattern, and makes of it  *)
(* what it means.                                                          *)
(*                                                                         *)
(* The second part needs induction over data: over the sequence of tuples  *)
(* for what is written of it, and backwards over the pattern for its       *)
(* tokens.  NaturalsIn gives it, with a set where other provers have a     *)
(* predicate.                                                              *)
(***************************************************************************)
EXTENDS Formatter, SequenceTheorems, WellFoundedInduction, TLAPS

LEMMA SubSeqType ==
    ASSUME NEW S, NEW s \in Seq(S), NEW a \in Nat \ {0}, NEW b \in Nat, b <= Len(s)
    PROVE  SubSeq(s, a, b) \in Seq(S)
<1>1. \A k \in a..b : s[k] \in S
  OBVIOUS
<1> QED BY <1>1, SubSeqProperties

LEMMA TextTupleType == ASSUME NEW s \in Seq(Char) PROVE TextTuple(s) \in Tuple
<1>1. s \in Text
  BY SeqMonotonic DEF Text
<1> QED BY <1>1 DEF TextTuple, Tuple

LEMMA ItemTupleType ==
    ASSUME NEW s \in Seq(Char), NEW f \in Seq(Char) PROVE ItemTuple(s, f) \in Tuple
<1>1. s \in Text
  BY SeqMonotonic DEF Text
<1> QED BY <1>1 DEF ItemTuple, Tuple

LEMMA ErrorTupleType ==
    /\ TextTuple(PatternError) \in Tuple
    /\ \A s \in Text : TextTuple(ErrorFormat(s)) \in Tuple
<1> DEFINE A == Char \cup {"pattern_error", "error_format"}
<1>1. PatternError \in Seq(A)
  BY DEF PatternError
<1>2. ASSUME NEW s \in Seq(A) PROVE ErrorFormat(s) \in Seq(A)
  <2>0. "error_format" \in A
    OBVIOUS
  <2>1. <<"error_format">> \in Seq(A)
    BY <2>0
  <2> QED BY <2>1, ConcatProperties DEF ErrorFormat
<1>3. <<>> \in Seq(Char)
  OBVIOUS
<1> QED BY <1>1, <1>2, <1>3 DEF TextTuple, Tuple, Text

\* One tuple, or a text and a tuple, behind vec.
LEMMA VecType ==
    ASSUME NEW v \in Seq(Tuple), NEW x \in Tuple, NEW y \in Tuple, NEW b \in BOOLEAN
    PROVE  (IF b THEN Append(v, x) ELSE v) \o <<y>> \in Seq(Tuple)
OBVIOUS

-----------------------------------------------------------------------------

LEMMA InitIndex == Init => IndexInv
<1> SUFFICES ASSUME Init PROVE IndexInv
  OBVIOUS
<1>1. pattern \in Seq(Char)
  BY FormatterAssumption DEF Init
<1>2. Len(pattern) \in Nat
  BY <1>1
<1>3. <<>> \in Seq(Char) /\ <<>> \in Seq(Tuple)
  OBVIOUS
<1>4. TypeOK
  <2>1. /\ nstr \in Seq(Char) /\ str \in Seq(Char) /\ fmt \in Seq(Char)
        /\ vec \in Seq(Tuple) /\ m_items \in Seq(Tuple) /\ m_error \in BOOLEAN
    BY <1>3, Zenon DEF Init
  <2>2. /\ i \in Nat /\ n \in Nat /\ fmt_begin \in Nat /\ fmt_status \in 0..2
        /\ pc \in {"loop", "scan", "item", "build", "done"}
    BY DEF Init
  <2> QED BY <1>1, <2>1, <2>2 DEF TypeOK
<1>5. IndicesInside
  BY <1>2 DEF Init, IndicesInside, Between
<1> QED BY <1>4, <1>5 DEF IndexInv

LEMMA OuterIndex ==
    ASSUME IndexInv, Literal \/ Percent \/ BeginItem PROVE IndexInv'
<1> USE DEF IndexInv, outer, inner, result, Goto
<1>0. ASSUME i <= Len(pattern) PROVE pattern[i] \in Char
  BY <1>0 DEF TypeOK, IndicesInside, Between
<1>1. CASE Literal
  <2>1. nstr' \in Seq(Char)
    BY <1>0, <1>1 DEF Literal, TypeOK
  <2> QED BY <1>1, <2>1 DEF Literal, TypeOK, IndicesInside, Between
<1>2. CASE Percent
  <2>0. "%" \in Char
    BY DEF Char
  <2>1. nstr' \in Seq(Char)
    BY <1>2, <2>0 DEF Percent, TypeOK
  <2> QED BY <1>2, <2>1 DEF Percent, TypeOK, IndicesInside, Between
<1>3. CASE BeginItem
  BY <1>3 DEF BeginItem, TypeOK, IndicesInside, Between
<1> QED BY <1>1, <1>2, <1>3

LEMMA ScanIndex ==
    ASSUME IndexInv, ScanStops \/ ScanOpens \/ ScanCloses \/ ScanOn \/ ScanEnds
    PROVE  IndexInv'
<1> USE DEF IndexInv, outer, inner, result, Goto, Scanning
<1>0. pc = "scan" => i \in Nat \ {0} /\ n - 1 \in Nat /\ n - 1 <= Len(pattern) /\ i + 1 \in Nat \ {0}
                     /\ fmt_begin + 1 \in Nat \ {0} /\ pattern \in Seq(Char)
  BY DEF TypeOK, IndicesInside, Between
<1>1. pc = "scan" => SubSeq(pattern, i + 1, n - 1) \in Seq(Char)
                     /\ SubSeq(pattern, fmt_begin + 1, n - 1) \in Seq(Char)
  BY <1>0, SubSeqType
<1>2. CASE ScanStops
  BY <1>1, <1>2 DEF ScanStops, TypeOK, IndicesInside, Between
<1>3. CASE ScanOpens
  <2>1. TypeOK'
    BY <1>1, <1>3 DEF ScanOpens, TypeOK
  <2>2. IndicesInside'
    BY <1>3 DEF ScanOpens, TypeOK, IndicesInside, Between
  <2> QED BY <2>1, <2>2
<1>4. CASE ScanCloses
  <2>1. TypeOK'
    BY <1>1, <1>4 DEF ScanCloses, TypeOK
  <2>2. IndicesInside'
    BY <1>4 DEF ScanCloses, TypeOK, IndicesInside, Between
  <2> QED BY <2>1, <2>2
<1>5. CASE ScanOn
  <2>1. TypeOK'
    BY <1>5 DEF ScanOn, TypeOK
  <2>2. IndicesInside'
    BY <1>5 DEF ScanOn, TypeOK, IndicesInside, Between
  <2> QED BY <2>1, <2>2
<1>6. CASE ScanEnds
  BY <1>6 DEF ScanEnds, TypeOK, IndicesInside, Between
<1> QED BY <1>2, <1>3, <1>4, <1>5, <1>6

LEMMA ItemIndex ==
    ASSUME IndexInv, PlainItem \/ UnclosedItem \/ FormattedItem PROVE IndexInv'
<1> USE DEF IndexInv, outer, inner, result, Goto
<1>0. pc = "item" => i \in Nat \ {0} /\ n - 1 \in Nat /\ n - 1 <= Len(pattern) /\ i + 1 \in Nat \ {0}
                     /\ pattern \in Seq(Char)
  BY DEF TypeOK, IndicesInside, Between
<1>1. pc = "item" => SubSeq(pattern, i + 1, n - 1) \in Seq(Char)
  BY <1>0, SubSeqType
<1>2. TextTuple(nstr) \in Tuple /\ ItemTuple(str, fmt) \in Tuple
  BY TextTupleType, ItemTupleType DEF TypeOK
<1>3. pc = "item" => ItemTuple(SubSeq(pattern, i + 1, n - 1), fmt) \in Tuple
  BY <1>1, ItemTupleType DEF TypeOK
<1>4. CASE PlainItem
  <2>1. vec' \in Seq(Tuple)
    BY <1>2, <1>3, <1>4, VecType DEF PlainItem, TypeOK
  <2> QED BY <1>4, <2>1 DEF PlainItem, TypeOK, IndicesInside, Between
<1>5. CASE UnclosedItem
  <2>1. vec' \in Seq(Tuple)
    BY <1>5, ErrorTupleType DEF UnclosedItem, TypeOK
  <2> QED BY <1>5, <2>1 DEF UnclosedItem, TypeOK, IndicesInside, Between
<1>6. CASE FormattedItem
  <2>1. vec' \in Seq(Tuple)
    BY <1>2, <1>6, VecType DEF FormattedItem, TypeOK
  <2> QED BY <1>6, <2>1 DEF FormattedItem, TypeOK, IndicesInside, Between
<1> QED BY <1>4, <1>5, <1>6

LEMMA EndIndex == ASSUME IndexInv, Finish \/ Build PROVE IndexInv'
<1> USE DEF IndexInv, outer, inner, result, Goto
<1>1. CASE Finish
  <2>1. vec' \in Seq(Tuple)
    BY <1>1, TextTupleType DEF Finish, TypeOK
  <2>2. TypeOK'
    BY <1>1, <2>1 DEF Finish, TypeOK
  <2>3. IndicesInside'
    BY <1>1 DEF Finish, TypeOK, IndicesInside, Between
  <2> QED BY <2>2, <2>3
<1>2. CASE Build
  <2>1. ASSUME NEW k \in DOMAIN vec
        PROVE  vec[k] \in Tuple /\ TextTuple(ErrorFormat(vec[k].str)) \in Tuple
    <3>1. vec[k] \in Tuple
      BY <2>1 DEF TypeOK
    <3>2. vec[k].str \in Text
      BY <3>1 DEF Tuple
    <3> QED BY <3>1, <3>2, ErrorTupleType
  <2>2. m_items' \in Seq(Tuple)
    <3>1. Len(vec) \in Nat /\ DOMAIN vec = 1..Len(vec)
      BY DEF TypeOK
    <3>2. m_items' \in [1..Len(vec) -> Tuple]
      BY <1>2, <2>1, <3>1 DEF Build
    <3> QED BY <3>1, <3>2
  <2>3. m_error' \in BOOLEAN
    BY <1>2 DEF Build, TypeOK
  <2> QED BY <1>2, <2>2, <2>3 DEF Build, TypeOK, IndicesInside, Between
<1> QED BY <1>1, <1>2

-----------------------------------------------------------------------------

\* For every pattern, init() reads only characters of the pattern and never asks
\* substr() for a part that begins behind its end (log.cc:431-500).
THEOREM IndexInvHolds == Spec => []IndexInv
<1>1. IndexInv /\ [Next]_vars => IndexInv'
  <2> SUFFICES ASSUME IndexInv, [Next]_vars PROVE IndexInv'
    OBVIOUS
  <2>1. CASE UNCHANGED vars
    BY <2>1 DEF vars, outer, inner, result, IndexInv, TypeOK, IndicesInside
  <2> QED BY <2>1, OuterIndex, ScanIndex, ItemIndex, EndIndex DEF Next, Step, Returned
<1> QED BY InitIndex, <1>1, PTL DEF Spec

-----------------------------------------------------------------------------
(* Sequences of sequences, put together.                                   *)

\* The least number that is not in X cannot be there.
LEMMA NaturalsIn ==
    ASSUME NEW X, 0 \in X, \A m \in Nat : m \in X => m + 1 \in X
    PROVE  Nat \subseteq X
<1> SUFFICES ASSUME Nat \ X # {} PROVE FALSE
  OBVIOUS
<1>1. PICK m \in Nat \ X : \A y \in Nat \ X : ~(<<y, m>> \in OpToRel(<, Nat))
  BY NatLessThanWellFounded, WFMin
<1>2. ASSUME NEW y \in Nat, y < m PROVE y \in X
  BY <1>1, <1>2, Zenon DEF OpToRel
<1>3. m \in Nat /\ m \notin X /\ m # 0
  OBVIOUS
<1>4. m - 1 \in Nat /\ m - 1 < m /\ (m - 1) + 1 = m
  BY <1>3
<1>5. m - 1 \in X
  BY <1>2, <1>4
<1>6. (m - 1) + 1 \in X
  BY <1>4, <1>5, Zenon
<1> QED BY <1>3, <1>4, <1>6

\* \o under another name, which the provers leave alone.
Cat(a, b) == a \o b

LEMMA CatAssociative ==
    ASSUME NEW S, NEW a \in Seq(S), NEW b \in Seq(S), NEW c \in Seq(S)
    PROVE  Cat(Cat(a, b), c) = Cat(a, Cat(b, c))
BY DEF Cat

\* f has the prefixes of ss, a sequence of sequences, put together.
Flattens(f, ss, m) == \A k \in 1..m : f[k] = IF k = 1 THEN ss[k] ELSE f[k - 1] \o ss[k]

\* FlattenSeq takes the function with that equation: there is one, ...
LEMMA FlattensExists ==
    ASSUME NEW S, NEW ss \in Seq(Seq(S)), NEW m \in Nat, m <= Len(ss)
    PROVE  \E f \in [1..m -> Seq(S)] : Flattens(f, ss, m)
<1> DEFINE X == {k \in Nat : k <= Len(ss) => \E f \in [1..k -> Seq(S)] : Flattens(f, ss, k)}
<1>1. 0 \in X
  <2>1. PICK f : f = [k \in 1..0 |-> <<>>]
    OBVIOUS
  <2>2. f \in [1..0 -> Seq(S)] /\ Flattens(f, ss, 0)
    BY <2>1 DEF Flattens
  <2> QED BY <2>2
<1>2. ASSUME NEW k \in Nat, k \in X PROVE k + 1 \in X
  <2> SUFFICES ASSUME k + 1 <= Len(ss) PROVE \E f \in [1..(k + 1) -> Seq(S)] : Flattens(f, ss, k + 1)
    OBVIOUS
  <2>1. PICK g \in [1..k -> Seq(S)] : Flattens(g, ss, k)
    BY <1>2
  <2>2. PICK x \in Seq(S) : x = ss[k + 1]
    OBVIOUS
  <2>3. PICK y \in Seq(S) : (k = 0 => y = x) /\ (k # 0 => y = g[k] \o x)
    <3>1. k # 0 => g[k] \in Seq(S) /\ g[k] \o x \in Seq(S)
      BY ConcatProperties
    <3> QED BY <3>1
  <2>4. PICK f : f = [j \in 1..(k + 1) |-> IF j = k + 1 THEN y ELSE g[j]]
    OBVIOUS
  <2>5. f \in [1..(k + 1) -> Seq(S)]
    BY <2>4
  <2>6. Flattens(f, ss, k + 1)
    <3> SUFFICES ASSUME NEW j \in 1..(k + 1) PROVE f[j] = IF j = 1 THEN ss[j] ELSE f[j - 1] \o ss[j]
      BY DEF Flattens
    <3>1. CASE j = k + 1
      <4>1. f[j] = y /\ ss[j] = x /\ (k # 0 => f[j - 1] = g[k]) /\ (j = 1 <=> k = 0)
        BY <2>2, <2>4, <3>1
      <4> QED BY <2>3, <4>1
    <3>2. CASE j # k + 1
      <4>1. j \in 1..k /\ f[j] = g[j] /\ (j # 1 => j - 1 \in 1..k /\ f[j - 1] = g[j - 1])
        BY <2>4, <3>2
      <4> QED BY <2>1, <4>1 DEF Flattens
    <3> QED BY <3>1, <3>2
  <2> QED BY <2>5, <2>6
<1> HIDE DEF X
<1>3. m \in X
  BY <1>1, <1>2, NaturalsIn
<1> QED BY <1>3 DEF X

\* ... there is no other, ...
LEMMA FlattensUnique ==
    ASSUME NEW ss, NEW f, NEW g, NEW m \in Nat, Flattens(f, ss, m), Flattens(g, ss, m)
    PROVE  \A k \in 1..m : f[k] = g[k]
<1> DEFINE X == {k \in Nat : k \in 1..m => f[k] = g[k]}
<1>1. 0 \in X
  OBVIOUS
<1>2. ASSUME NEW k \in Nat, k \in X PROVE k + 1 \in X
  <2> SUFFICES ASSUME k + 1 \in 1..m PROVE f[k + 1] = g[k + 1]
    OBVIOUS
  <2>1. CASE k = 0
    BY <2>1 DEF Flattens
  <2>2. CASE k # 0
    <3>1. f[k] = g[k] /\ k + 1 # 1 /\ (k + 1) - 1 = k
      BY <1>2, <2>2
    <3> QED BY <3>1 DEF Flattens
  <2> QED BY <2>1, <2>2
<1> HIDE DEF X
<1>3. \A k \in Nat : k \in X
  BY <1>1, <1>2, NaturalsIn
<1> QED BY <1>3 DEF X

\* ... so that FlattenSeq is its last value.
LEMMA FlattenIs ==
    ASSUME NEW S, NEW ss \in Seq(Seq(S)), Len(ss) # 0
    PROVE  \E f \in [1..Len(ss) -> Seq(S)] : Flattens(f, ss, Len(ss)) /\ FlattenSeq(ss) = f[Len(ss)]
<1> DEFINE f == CHOOSE g : g = [k \in 1..Len(ss) |-> IF k = 1 THEN ss[k] ELSE g[k - 1] \o ss[k]]
<1>1. FlattenSeq(ss) = f[Len(ss)]
  BY DEF FlattenSeq
<1>2. f = [k \in 1..Len(ss) |-> IF k = 1 THEN ss[k] ELSE f[k - 1] \o ss[k]]
  <2>1. PICK g \in [1..Len(ss) -> Seq(S)] : Flattens(g, ss, Len(ss))
    BY FlattensExists
  <2>2. g = [k \in 1..Len(ss) |-> IF k = 1 THEN ss[k] ELSE g[k - 1] \o ss[k]]
    BY <2>1 DEF Flattens
  <2> QED BY <2>2
<1> HIDE DEF f
<1>0. Len(ss) \in Nat
  OBVIOUS
<1>3. Flattens(f, ss, Len(ss))
  <2>1. PICK h : h = f
    OBVIOUS
  <2>2. h = [k \in 1..Len(ss) |-> IF k = 1 THEN ss[k] ELSE h[k - 1] \o ss[k]]
    BY <1>2, <2>1
  <2>3. Flattens(h, ss, Len(ss))
    BY <2>2 DEF Flattens
  <2> QED BY <2>1, <2>3
<1>4. PICK g \in [1..Len(ss) -> Seq(S)] : Flattens(g, ss, Len(ss))
  <2>1. Len(ss) <= Len(ss)
    BY <1>0
  <2> QED BY <1>0, <2>1, FlattensExists
<1>5. \A k \in 1..Len(ss) : f[k] = g[k]
  BY <1>0, <1>3, <1>4, FlattensUnique
<1>6. f[Len(ss)] = g[Len(ss)]
  BY <1>0, <1>5
<1> QED BY <1>1, <1>4, <1>6

\* One more sequence goes behind the others.
LEMMA FlattenAppend ==
    ASSUME NEW S, NEW ss \in Seq(Seq(S)), NEW x \in Seq(S)
    PROVE  FlattenSeq(ss) \in Seq(S) /\ FlattenSeq(Append(ss, x)) = FlattenSeq(ss) \o x
<1>1. PICK tt : tt = Append(ss, x)
  OBVIOUS
<1>6. tt \in Seq(Seq(S))
  BY <1>1, AppendProperties
<1>2. /\ Len(ss) \in Nat /\ Len(tt) = Len(ss) + 1 /\ tt[Len(ss) + 1] = x
      /\ \A k \in 1..Len(ss) : tt[k] = ss[k]
  BY <1>1, AppendProperties
<1>3. PICK g \in [1..Len(tt) -> Seq(S)] : Flattens(g, tt, Len(tt)) /\ FlattenSeq(tt) = g[Len(tt)]
  BY <1>2, <1>6, FlattenIs
<1>4. CASE Len(ss) = 0
  <2>1. ss = <<>> /\ FlattenSeq(ss) = <<>>
    BY <1>4 DEF FlattenSeq
  <2>2. FlattenSeq(tt) = x
    BY <1>2, <1>3, <1>4 DEF Flattens
  <2>3. <<>> \in Seq(S) /\ <<>> \o x = x
    BY ConcatEmptySeq, EmptySeq
  <2> QED BY <1>1, <2>1, <2>2, <2>3
<1>5. CASE Len(ss) # 0
  <2>1. PICK f \in [1..Len(ss) -> Seq(S)] : Flattens(f, ss, Len(ss)) /\ FlattenSeq(ss) = f[Len(ss)]
    BY <1>5, FlattenIs
  <2>2. Flattens(g, ss, Len(ss))
    <3> SUFFICES ASSUME NEW k \in 1..Len(ss)
                 PROVE  g[k] = IF k = 1 THEN ss[k] ELSE g[k - 1] \o ss[k]
      BY DEF Flattens
    <3>1. k \in 1..Len(tt) /\ tt[k] = ss[k]
      BY <1>2
    <3> QED BY <1>3, <3>1 DEF Flattens
  <2>3. f[Len(ss)] = g[Len(ss)]
    BY <1>2, <1>5, <2>1, <2>2, FlattensUnique
  <2>4. g[Len(ss) + 1] = g[Len(ss)] \o x
    <3>1. Len(ss) + 1 \in 1..Len(tt) /\ Len(ss) + 1 # 1 /\ (Len(ss) + 1) - 1 = Len(ss)
      BY <1>2, <1>5
    <3> QED BY <1>2, <1>3, <3>1 DEF Flattens
  <2>5. f[Len(ss)] \in Seq(S)
    <3>1. Len(ss) \in 1..Len(ss)
      BY <1>2, <1>5
    <3> QED BY <2>1, <3>1
  <2> QED BY <1>1, <1>2, <1>3, <2>1, <2>3, <2>4, <2>5
<1> QED BY <1>4, <1>5

\* What is put together from the parts is what is put together from the whole.
LEMMA FlattenConcat ==
    ASSUME NEW S, NEW ss \in Seq(Seq(S)), NEW tt \in Seq(Seq(S))
    PROVE  FlattenSeq(ss \o tt) = FlattenSeq(ss) \o FlattenSeq(tt)
<1> DEFINE Ok(rr) == FlattenSeq(ss \o rr) = FlattenSeq(ss) \o FlattenSeq(rr)
           X == {m \in Nat : \A rr \in Seq(Seq(S)) : Len(rr) = m => Ok(rr)}
<1>0. \A rr \in Seq(Seq(S)) : FlattenSeq(rr) \in Seq(S)
  BY FlattenAppend, EmptySeq
<1>1. 0 \in X
  <2> SUFFICES ASSUME NEW rr \in Seq(Seq(S)), Len(rr) = 0 PROVE Ok(rr)
    OBVIOUS
  <2>1. rr = <<>> /\ ss \o rr = ss
    OBVIOUS
  <2>2. FlattenSeq(rr) = <<>>
    BY <2>1 DEF FlattenSeq
  <2>3. FlattenSeq(ss) \o <<>> = FlattenSeq(ss)
    BY <1>0, ConcatEmptySeq
  <2> QED BY <2>1, <2>2, <2>3
<1>2. ASSUME NEW m \in Nat, m \in X PROVE m + 1 \in X
  <2> SUFFICES ASSUME NEW rr \in Seq(Seq(S)), Len(rr) = m + 1 PROVE Ok(rr)
    OBVIOUS
  <2>0. rr # <<>>
    OBVIOUS
  <2>1. PICK qq \in Seq(Seq(S)), x \in Seq(S) : rr = Append(qq, x)
    BY <2>0, SequenceEmptyOrAppend, Zenon
  <2>2. Len(qq) = m
    BY <2>1
  <2>3. FlattenSeq(ss \o qq) = FlattenSeq(ss) \o FlattenSeq(qq)
    BY <1>2, <2>2
  <2>4. ss \o rr = Append(ss \o qq, x) /\ ss \o qq \in Seq(Seq(S))
    BY <2>1, ConcatProperties
  <2>5. FlattenSeq(ss \o rr) = FlattenSeq(ss \o qq) \o x
    BY <2>4, FlattenAppend
  <2>6. FlattenSeq(rr) = FlattenSeq(qq) \o x
    BY <2>1, FlattenAppend
  <2>7. FlattenSeq(ss) \in Seq(S) /\ FlattenSeq(qq) \in Seq(S) /\ x \in Seq(S)
    BY <1>0, <2>1, Zenon
  <2>8. FlattenSeq(ss \o qq) \o x = FlattenSeq(ss) \o FlattenSeq(rr)
    <3>1. Cat(Cat(FlattenSeq(ss), FlattenSeq(qq)), x) = Cat(FlattenSeq(ss), Cat(FlattenSeq(qq), x))
      BY <2>7, CatAssociative
    <3> QED BY <2>3, <2>6, <3>1, Zenon DEF Cat
  <2> QED BY <2>5, <2>8, Zenon
<1> HIDE DEF X
<1>3. \A m \in Nat : m \in X
  BY <1>1, <1>2, NaturalsIn
<1>4. Len(tt) \in X
  BY <1>3
<1> QED BY <1>4 DEF X

-----------------------------------------------------------------------------
(* What is written of a sequence of tuples.                                *)

LEMMA FlattenSimple ==
    ASSUME NEW S, NEW x \in Seq(S) PROVE FlattenSeq(<<>>) = <<>> /\ FlattenSeq(<<x>>) = x
<1>1. FlattenSeq(<<>>) = <<>>
  BY DEF FlattenSeq
<1>2. <<>> \in Seq(Seq(S)) /\ Append(<<>>, x) = <<x>> /\ <<>> \o x = x
  OBVIOUS
<1>3. FlattenSeq(Append(<<>>, x)) = FlattenSeq(<<>>) \o x
  BY <1>2, FlattenAppend
<1> QED BY <1>1, <1>2, <1>3

LEMMA CharactersType ==
    ASSUME NEW s \in Text
    PROVE  /\ Characters(s) \in Seq(Tuple) /\ Len(Characters(s)) = Len(s)
           /\ \A k \in 1..Len(s) : Characters(s)[k] = TextTuple(<<s[k]>>)
<1> DEFINE A == Char \cup {"pattern_error", "error_format"}
<1>1. s \in Seq(A) /\ DOMAIN s = 1..Len(s) /\ Len(s) \in Nat
  BY DEF Text
<1>2. ASSUME NEW k \in 1..Len(s) PROVE TextTuple(<<s[k]>>) \in Tuple
  <2>1. s[k] \in A
    BY <1>1
  <2>2. <<s[k]>> \in Seq(A) /\ <<>> \in Seq(Char)
    BY <2>1
  <2> QED BY <2>2 DEF TextTuple, Tuple, Text
<1>3. Characters(s) = [k \in 1..Len(s) |-> TextTuple(<<s[k]>>)]
  BY <1>1 DEF Characters
<1> HIDE DEF A
<1>4. \A k \in 1..Len(s) : TextTuple(<<s[k]>>) \in Tuple
  BY <1>2
<1> QED BY <1>1, <1>3, <1>4

LEMMA CharactersAppend ==
    ASSUME NEW s \in Text, NEW c \in Char
    PROVE  /\ Characters(<<>>) = <<>>
           /\ Append(s, c) \in Text
           /\ Characters(Append(s, c)) = Append(Characters(s), TextTuple(<<c>>))
<1>0. Characters(<<>>) = <<>>
  <2>1. <<>> \in Text /\ Len(<<>>) = 0
    BY DEF Text
  <2> QED BY <2>1, CharactersType
<1>1. PICK r : r = Append(s, c)
  OBVIOUS
<1>2. /\ r \in Text /\ Len(s) \in Nat /\ Len(r) = Len(s) + 1 /\ r[Len(s) + 1] = c
      /\ \A k \in 1..Len(s) : r[k] = s[k]
  BY <1>1 DEF Text
<1>3. PICK u, v, x : u = Characters(s) /\ v = Characters(r) /\ x = TextTuple(<<c>>)
  OBVIOUS
<1>4. /\ u \in Seq(Tuple) /\ Len(u) = Len(s)
      /\ v \in Seq(Tuple) /\ Len(v) = Len(r) /\ v[Len(r)] = x
      /\ \A k \in 1..Len(s) : v[k] = u[k]
  <2>1. /\ u \in Seq(Tuple) /\ Len(u) = Len(s)
        /\ \A k \in 1..Len(s) : u[k] = TextTuple(<<s[k]>>)
    BY <1>3, CharactersType
  <2>2. /\ v \in Seq(Tuple) /\ Len(v) = Len(r)
        /\ \A k \in 1..Len(r) : v[k] = TextTuple(<<r[k]>>)
    BY <1>2, <1>3, CharactersType
  <2> HIDE DEF TextTuple, Tuple
  <2>3. v[Len(r)] = x
    <3>1. Len(r) \in 1..Len(r) /\ r[Len(r)] = c
      BY <1>2
    <3> QED BY <1>3, <2>2, <3>1
  <2>4. ASSUME NEW k \in 1..Len(s) PROVE v[k] = u[k]
    <3>1. k \in 1..Len(r) /\ r[k] = s[k]
      BY <1>2
    <3> QED BY <2>1, <2>2, <3>1
  <2> QED BY <2>1, <2>2, <2>3, <2>4
<1>5. v = Append(u, x)
  BY <1>2, <1>4
<1> QED BY <1>0, <1>1, <1>2, <1>3, <1>5

-----------------------------------------------------------------------------

\* What Spelled and OfType make of one tuple.
Spells(x) == IF x.type = 1 THEN <<x>> ELSE Characters(x.str)
Picked(t, x) == IF x.type = t THEN <<x>> ELSE <<>>

LEMMA SpellsType == ASSUME NEW x \in Tuple PROVE Spells(x) \in Seq(Tuple)
<1>1. x.str \in Text
  BY DEF Tuple
<1>2. Characters(x.str) \in Seq(Tuple)
  BY <1>1, CharactersType
<1>3. <<x>> \in Seq(Tuple)
  OBVIOUS
<1> QED BY <1>2, <1>3 DEF Spells

\* Two sequences mapped and put together.
TupleSeq == Seq(Tuple)
Mapped(f, s) == [k \in DOMAIN s |-> f[s[k]]]

LEMMA MapConcat ==
    ASSUME NEW f \in [Tuple -> TupleSeq], NEW a \in Seq(Tuple), NEW b \in Seq(Tuple)
    PROVE  /\ Mapped(f, a) \in Seq(TupleSeq)
           /\ Mapped(f, a \o b) = Mapped(f, a) \o Mapped(f, b)
<1> USE DEF Mapped
<1>1. \A s \in Seq(Tuple) : [k \in DOMAIN s |-> f[s[k]]] \in Seq(TupleSeq) /\ Len([k \in DOMAIN s |-> f[s[k]]]) = Len(s)
  <2> SUFFICES ASSUME NEW s \in Seq(Tuple) 
               PROVE [k \in DOMAIN s |-> f[s[k]]] \in Seq(TupleSeq) /\ Len([k \in DOMAIN s |-> f[s[k]]]) = Len(s)
    OBVIOUS
  <2> QED OBVIOUS
<1>2. PICK c : c = a \o b
  OBVIOUS
<1>3. /\ c \in Seq(Tuple) /\ Len(c) = Len(a) + Len(b)
      /\ Len(a) \in Nat /\ Len(b) \in Nat
      /\ \A k \in 1..Len(a) : c[k] = a[k]
      /\ \A k \in 1..Len(b) : c[k + Len(a)] = b[k]
  BY <1>2
<1>4. PICK u, v, w : /\ u = [k \in DOMAIN a |-> f[a[k]]] /\ v = [k \in DOMAIN b |-> f[b[k]]]
                     /\ w = [k \in DOMAIN c |-> f[c[k]]]
  OBVIOUS
<1>5. /\ u \in Seq(TupleSeq) /\ v \in Seq(TupleSeq) /\ w \in Seq(TupleSeq)
      /\ Len(u) = Len(a) /\ Len(v) = Len(b) /\ Len(w) = Len(c)
  BY <1>1, <1>3, <1>4
<1>6. /\ \A k \in 1..Len(a) : w[k] = u[k]
      /\ \A k \in 1..Len(b) : w[k + Len(a)] = v[k]
  <2>1. ASSUME NEW k \in 1..Len(a) PROVE w[k] = u[k]
    <3>1. k \in DOMAIN a /\ k \in DOMAIN c /\ c[k] = a[k]
      BY <1>3
    <3> QED BY <1>4, <3>1
  <2>2. ASSUME NEW k \in 1..Len(b) PROVE w[k + Len(a)] = v[k]
    <3>1. DOMAIN b = 1..Len(b) /\ DOMAIN c = 1..Len(c)
      BY <1>3
    <3>2. k + Len(a) \in 1..Len(c)
      BY <1>3
    <3>3. c[k + Len(a)] = b[k]
      BY <1>2
    <3> QED BY <1>4, <3>1, <3>2, <3>3
  <2> QED BY <2>1, <2>2
<1>7. w = u \o v
  <2>1. /\ u \o v \in Seq(TupleSeq) /\ Len(u \o v) = Len(u) + Len(v)
        /\ \A k \in 1..Len(u) + Len(v) : (u \o v)[k] = IF k <= Len(u) THEN u[k] ELSE v[k - Len(u)]
    <3>1. u \in Seq(TupleSeq) /\ v \in Seq(TupleSeq)
      BY <1>5
    <3> QED BY <3>1, ConcatProperties
  <2>2. ASSUME NEW k \in 1..Len(w) PROVE w[k] = (u \o v)[k]
    <3>0. k \in 1..Len(u) + Len(v) /\ Len(u) = Len(a)
      BY <1>3, <1>5
    <3>1. CASE k <= Len(a)
      <4>1. k \in 1..Len(a)
        BY <3>0, <3>1
      <4> QED BY <1>6, <2>1, <3>0, <3>1, <4>1
    <3>2. CASE ~(k <= Len(a))
      <4>1. k - Len(a) \in 1..Len(b) /\ (k - Len(a)) + Len(a) = k
        BY <1>3, <1>5, <3>0, <3>2
      <4>2. w[k] = v[k - Len(a)]
        BY <1>6, <4>1
      <4> QED BY <2>1, <3>0, <3>2, <4>2
    <3> QED BY <3>1, <3>2
  <2>3. PICK z : z = u \o v
    OBVIOUS
  <2>4. z \in Seq(TupleSeq) /\ w \in Seq(TupleSeq) /\ Len(z) = Len(w) /\ \A k \in 1..Len(w) : w[k] = z[k]
    BY <1>3, <1>5, <2>1, <2>2, <2>3
  <2>5. w = z
    BY <2>4
  <2> QED BY <2>3, <2>5
<1> QED BY <1>1, <1>2, <1>4, <1>7

\* Spelled and OfType go through their items one by one.
LEMMA SpelledConcat ==
    ASSUME NEW a \in Seq(Tuple), NEW b \in Seq(Tuple)
    PROVE  /\ Spelled(a) \in Seq(Tuple)
           /\ Spelled(a \o b) = Spelled(a) \o Spelled(b)
<1>1. PICK f \in [Tuple -> TupleSeq] : \A x \in Tuple : f[x] = Spells(x)
  <2>1. [x \in Tuple |-> Spells(x)] \in [Tuple -> TupleSeq]
    BY SpellsType DEF TupleSeq
  <2> QED BY <2>1
<1>2. a \o b \in Seq(Tuple)
  BY ConcatProperties
<1>3. ASSUME NEW s \in Seq(Tuple)
      PROVE  Spelled(s) = FlattenSeq(Mapped(f, s))
  <2>1. \A k \in DOMAIN s : s[k] \in Tuple
    OBVIOUS
  <2>2. \A k \in DOMAIN s : f[s[k]] = IF s[k].type = 1 THEN <<s[k]>> ELSE Characters(s[k].str)
    BY <1>1, <2>1 DEF Spells
  <2>3. [k \in DOMAIN s |-> f[s[k]]]
           = [k \in DOMAIN s |-> IF s[k].type = 1 THEN <<s[k]>> ELSE Characters(s[k].str)]
    BY <2>2
  <2> QED BY <2>3 DEF Spelled, Mapped
<1>5. /\ Mapped(f, a) \in Seq(TupleSeq) /\ Mapped(f, b) \in Seq(TupleSeq)
      /\ Mapped(f, a \o b) = Mapped(f, a) \o Mapped(f, b)
  BY <1>1, MapConcat
<1>6. /\ FlattenSeq(Mapped(f, a)) \in Seq(Tuple)
      /\ FlattenSeq(Mapped(f, a) \o Mapped(f, b)) = FlattenSeq(Mapped(f, a)) \o FlattenSeq(Mapped(f, b))
  BY <1>5, FlattenConcat, FlattenAppend, EmptySeq DEF TupleSeq
<1>7. /\ Spelled(a) = FlattenSeq(Mapped(f, a)) /\ Spelled(b) = FlattenSeq(Mapped(f, b))
      /\ Spelled(a \o b) = FlattenSeq(Mapped(f, a \o b))
  BY <1>2, <1>3
<1> QED BY <1>5, <1>6, <1>7

LEMMA OfTypeConcat ==
    ASSUME NEW t, NEW a \in Seq(Tuple), NEW b \in Seq(Tuple)
    PROVE  /\ OfType(t, a) \in Seq(Tuple)
           /\ OfType(t, a \o b) = OfType(t, a) \o OfType(t, b)
<1>1. PICK f \in [Tuple -> TupleSeq] : \A x \in Tuple : f[x] = Picked(t, x)
  <2>1. [x \in Tuple |-> Picked(t, x)] \in [Tuple -> TupleSeq]
    BY DEF Picked, TupleSeq
  <2> QED BY <2>1
<1>2. a \o b \in Seq(Tuple)
  BY ConcatProperties
<1>3. ASSUME NEW s \in Seq(Tuple)
      PROVE  OfType(t, s) = FlattenSeq(Mapped(f, s))
  <2>1. \A k \in DOMAIN s : s[k] \in Tuple
    OBVIOUS
  <2>2. \A k \in DOMAIN s : f[s[k]] = IF s[k].type = t THEN <<s[k]>> ELSE <<>>
    BY <1>1, <2>1 DEF Picked
  <2>3. [k \in DOMAIN s |-> f[s[k]]] = [k \in DOMAIN s |-> IF s[k].type = t THEN <<s[k]>> ELSE <<>>]
    BY <2>2
  <2> QED BY <2>3 DEF OfType, Mapped
<1>5. /\ Mapped(f, a) \in Seq(TupleSeq) /\ Mapped(f, b) \in Seq(TupleSeq)
      /\ Mapped(f, a \o b) = Mapped(f, a) \o Mapped(f, b)
  BY <1>1, MapConcat
<1>6. /\ FlattenSeq(Mapped(f, a)) \in Seq(Tuple)
      /\ FlattenSeq(Mapped(f, a) \o Mapped(f, b)) = FlattenSeq(Mapped(f, a)) \o FlattenSeq(Mapped(f, b))
  BY <1>5, FlattenConcat, FlattenAppend, EmptySeq DEF TupleSeq
<1>7. /\ OfType(t, a) = FlattenSeq(Mapped(f, a)) /\ OfType(t, b) = FlattenSeq(Mapped(f, b))
      /\ OfType(t, a \o b) = FlattenSeq(Mapped(f, a \o b))
  BY <1>2, <1>3
<1> QED BY <1>5, <1>6, <1>7

LEMMA SpelledOne ==
    ASSUME NEW x \in Tuple PROVE Spelled(<<>>) = <<>> /\ Spelled(<<x>>) = Spells(x)
<1>1. [k \in DOMAIN <<x>> |-> IF <<x>>[k].type = 1 THEN <<<<x>>[k]>> ELSE Characters(<<x>>[k].str)] = <<Spells(x)>>
  <2>1. PICK s : s = <<x>>
    OBVIOUS
  <2>2. DOMAIN s = {1} /\ s[1] = x
    BY <2>1
  <2>3. [k \in DOMAIN s |-> IF s[k].type = 1 THEN <<s[k]>> ELSE Characters(s[k].str)] = [k \in {1} |-> Spells(x)]
    BY <2>2 DEF Spells
  <2>4. \A y : [k \in {1} |-> y] = <<y>>
    OBVIOUS
  <2> QED BY <2>1, <2>3, <2>4
<1>2. Spelled(<<x>>) = FlattenSeq(<<Spells(x)>>)
  BY <1>1 DEF Spelled
<1>3. [k \in DOMAIN <<>> |-> IF <<>>[k].type = 1 THEN <<<<>>[k]>> ELSE Characters(<<>>[k].str)] = <<>>
  OBVIOUS
<1>4. Spelled(<<>>) = FlattenSeq(<<>>)
  BY <1>3 DEF Spelled
<1> QED BY <1>2, <1>4, SpellsType, FlattenSimple

LEMMA OfTypeOne ==
    ASSUME NEW t, NEW x \in Tuple PROVE OfType(t, <<>>) = <<>> /\ OfType(t, <<x>>) = Picked(t, x)
<1>1. [k \in DOMAIN <<x>> |-> IF <<x>>[k].type = t THEN <<<<x>>[k]>> ELSE <<>>] = <<Picked(t, x)>>
  <2>1. PICK s : s = <<x>>
    OBVIOUS
  <2>2. DOMAIN s = {1} /\ s[1] = x
    BY <2>1
  <2>3. [k \in DOMAIN s |-> IF s[k].type = t THEN <<s[k]>> ELSE <<>>] = [k \in {1} |-> Picked(t, x)]
    BY <2>2 DEF Picked
  <2>4. \A y : [k \in {1} |-> y] = <<y>>
    OBVIOUS
  <2> QED BY <2>1, <2>3, <2>4
<1>2. OfType(t, <<x>>) = FlattenSeq(<<Picked(t, x)>>)
  BY <1>1 DEF OfType
<1>3. [k \in DOMAIN <<>> |-> IF <<>>[k].type = t THEN <<<<>>[k]>> ELSE <<>>] = <<>>
  OBVIOUS
<1>4. OfType(t, <<>>) = FlattenSeq(<<>>)
  BY <1>3 DEF OfType
<1>5. Picked(t, x) \in Seq(Tuple)
  BY DEF Picked
<1> QED BY <1>2, <1>4, <1>5, FlattenSimple

-----------------------------------------------------------------------------
(* The tokens of a pattern.                                                *)

TokenSet == [kind : {"text", "plain", "unclosed", "braced"}, str : Seq(Char), fmt : Seq(Char)]

\* e is where FirstIn looks for.
IsFirst(s, k, C, e) ==
    /\ e \in k..Len(s) + 1
    /\ e <= Len(s) => s[e] \in C
    /\ \A x \in k..e - 1 : s[x] \notin C

\* There is a first place, the least of those that will do, and no other.
LEMMA FirstExists ==
    ASSUME NEW s \in Seq(Char), NEW k \in Nat, 1 <= k, k <= Len(s) + 1, NEW C
    PROVE  \E e : IsFirst(s, k, C, e)
<1> DEFINE E == {e \in k..Len(s) + 1 : e <= Len(s) => s[e] \in C}
<1>0. Len(s) \in Nat
  OBVIOUS
<1>1. Len(s) + 1 \in E
  BY <1>0
<1>2. E \subseteq Nat
  BY <1>0
<1> HIDE DEF E
<1>3. PICK e \in E : \A y \in E : ~(<<y, e>> \in OpToRel(<, Nat))
  BY <1>1, <1>2, NatLessThanWellFounded, WFMin
<1>5. e \in k..Len(s) + 1
  BY <1>3 DEF E
<1>4. ASSUME NEW x \in k..e - 1 PROVE s[x] \notin C
  <2>1. x \in Nat /\ x < e /\ k <= x
    BY <1>0, <1>5
  <2>2. x \notin E
    BY <1>2, <1>3, <2>1, Zenon DEF OpToRel
  <2>3. x \in k..Len(s) + 1 /\ x <= Len(s)
    BY <1>0, <1>5, <2>1
  <2> QED BY <2>2, <2>3 DEF E
<1> QED BY <1>3, <1>4 DEF E, IsFirst

LEMMA FirstInIs ==
    ASSUME NEW s \in Seq(Char), NEW k \in Nat, 1 <= k, k <= Len(s) + 1, NEW C
    PROVE  IsFirst(s, k, C, FirstIn(s, k, C))
<1>1. \E e : IsFirst(s, k, C, e)
  BY FirstExists
<1> QED BY <1>1 DEF IsFirst, FirstIn

LEMMA FirstInOnly ==
    ASSUME NEW s \in Seq(Char), NEW k \in Nat, 1 <= k, k <= Len(s) + 1, NEW C,
           NEW e, IsFirst(s, k, C, e)
    PROVE  FirstIn(s, k, C) = e
<1>1. PICK f : f = FirstIn(s, k, C)
  OBVIOUS
<1>2. IsFirst(s, k, C, f)
  BY <1>1, FirstInIs
<1>3. Len(s) \in Nat
  OBVIOUS
<1>4. ~(f < e) /\ ~(e < f)
  BY <1>2, <1>3 DEF IsFirst
<1>5. f \in Nat /\ e \in Nat
  BY <1>2, <1>3 DEF IsFirst
<1> QED BY <1>1, <1>4, <1>5

-----------------------------------------------------------------------------

\* The places the tokens are read off are of that kind, ...
LEMMA NameEndIs ==
    ASSUME NEW s \in Seq(Char), NEW k \in 1..Len(s)
    PROVE  IsFirst(s, k + 1, Char \ (Letters \cup {"close"}), NameEnd(s, k))
<1>1. k + 1 \in Nat /\ 1 <= k + 1 /\ k + 1 <= Len(s) + 1
  OBVIOUS
<1> QED BY <1>1, FirstInIs DEF NameEnd

LEMMA BraceEndIs ==
    ASSUME NEW s \in Seq(Char), NEW k \in 1..Len(s), NameEnd(s, k) <= Len(s)
    PROVE  IsFirst(s, NameEnd(s, k) + 1, {"close"}, BraceEnd(s, k))
<1>1. NameEnd(s, k) \in (k + 1)..Len(s) + 1 /\ Len(s) \in Nat
  BY NameEndIs DEF IsFirst
<1>2. NameEnd(s, k) + 1 \in Nat /\ 1 <= NameEnd(s, k) + 1 /\ NameEnd(s, k) + 1 <= Len(s) + 1
  BY <1>1
<1> QED BY <1>2, FirstInIs DEF BraceEnd

\* ... so a token takes at least its first character and ends inside the pattern.
LEMMA AfterType ==
    ASSUME NEW s \in Seq(Char), NEW k \in 1..Len(s)
    PROVE  After(s, k) \in (k + 1)..Len(s) + 1
<1>1. NameEnd(s, k) \in (k + 1)..Len(s) + 1 /\ Len(s) \in Nat
  BY NameEndIs DEF IsFirst
<1>2. NameEnd(s, k) <= Len(s) => BraceEnd(s, k) \in (NameEnd(s, k) + 1)..Len(s) + 1
  BY BraceEndIs DEF IsFirst
<1> QED BY <1>1, <1>2 DEF After, Opens

LEMMA TokenType ==
    ASSUME NEW s \in Seq(Char), NEW k \in 1..Len(s)
    PROVE  TokenAt(s, k) \in TokenSet
<1>1. NameEnd(s, k) \in (k + 1)..Len(s) + 1 /\ Len(s) \in Nat
  BY NameEndIs DEF IsFirst
<1>2. NameEnd(s, k) <= Len(s) => BraceEnd(s, k) \in (NameEnd(s, k) + 1)..Len(s) + 1
  BY BraceEndIs DEF IsFirst
<1>3. Name(s, k) \in Seq(Char)
  <2>1. k + 1 \in Nat \ {0} /\ NameEnd(s, k) - 1 \in Nat /\ NameEnd(s, k) - 1 <= Len(s)
    BY <1>1
  <2> QED BY <2>1, SubSeqType DEF Name
<1>4. Opens(s, k) => Format(s, k) \in Seq(Char)
  <2>1. Opens(s, k) => /\ NameEnd(s, k) + 1 \in Nat \ {0}
                       /\ BraceEnd(s, k) - 1 \in Nat /\ BraceEnd(s, k) - 1 <= Len(s)
    BY <1>1, <1>2 DEF Opens
  <2> QED BY <2>1, SubSeqType DEF Format
<1>5. <<s[k]>> \in Seq(Char) /\ <<>> \in Seq(Char)
  OBVIOUS
<1> QED BY <1>3, <1>4, <1>5 DEF TokenAt, Token, TokenSet

\* What g has to hold at k to hold the tokens from each place on.
TokensOf(s, g, k) == IF k > Len(s) THEN <<>> ELSE <<TokenAt(s, k)>> \o g[After(s, k)]

\* The function of the tokens exists: it is put together from the end of s on.
LEMMA TokensExist ==
    ASSUME NEW s \in Seq(Char)
    PROVE  \E g \in [1..Len(s) + 1 -> Seq(TokenSet)] :
               \A k \in 1..Len(s) + 1 : g[k] = TokensOf(s, g, k)
<1>0. Len(s) \in Nat
  OBVIOUS
<1> DEFINE D == 1..Len(s) + 1
           X == {m \in Nat : m <= Len(s) + 1 =>
                    \E g \in [D -> Seq(TokenSet)] :
                        \A k \in (Len(s) + 2) - m..Len(s) + 1 : g[k] = TokensOf(s, g, k)}
<1>1. 0 \in X
  <2>1. [k \in D |-> <<>>] \in [D -> Seq(TokenSet)]
    OBVIOUS
  <2>2. (Len(s) + 2) - 0..Len(s) + 1 = {}
    BY <1>0
  <2> QED BY <2>1, <2>2
<1>2. ASSUME NEW m \in Nat, m \in X PROVE m + 1 \in X
  <2> SUFFICES ASSUME m + 1 <= Len(s) + 1
               PROVE  \E g \in [D -> Seq(TokenSet)] :
                        \A k \in (Len(s) + 2) - (m + 1)..Len(s) + 1 : g[k] = TokensOf(s, g, k)
    OBVIOUS
  <2>1. PICK f \in [D -> Seq(TokenSet)] :
            \A k \in (Len(s) + 2) - m..Len(s) + 1 : f[k] = TokensOf(s, f, k)
    BY <1>0, <1>2
  <2>2. PICK j : j = (Len(s) + 2) - (m + 1)
    OBVIOUS
  <2>3. j \in D /\ (Len(s) + 2) - m = j + 1
    BY <1>0, <2>2
  <2>4. j <= Len(s) => j \in 1..Len(s) /\ After(s, j) \in (j + 1)..Len(s) + 1 /\ TokenAt(s, j) \in TokenSet
    BY <1>0, <2>3, AfterType, TokenType
  <2>5. TokensOf(s, f, j) \in Seq(TokenSet)
    <3>1. CASE j > Len(s)
      BY <3>1 DEF TokensOf
    <3>2. CASE ~(j > Len(s))
      <4>1. f[After(s, j)] \in Seq(TokenSet) /\ <<TokenAt(s, j)>> \in Seq(TokenSet)
        BY <1>0, <2>1, <2>3, <2>4, <3>2
      <4> QED BY <3>2, <4>1, ConcatProperties DEF TokensOf
    <3> QED BY <3>1, <3>2
  <2>6. PICK g : g = [f EXCEPT ![j] = TokensOf(s, f, j)]
    OBVIOUS
  <2>7. /\ g \in [D -> Seq(TokenSet)] /\ g[j] = TokensOf(s, f, j)
        /\ \A k \in D : k # j => g[k] = f[k]
    BY <2>1, <2>3, <2>5, <2>6
  <2>8. ASSUME NEW k \in j..Len(s) + 1 PROVE g[k] = TokensOf(s, g, k)
    <3>0. k \in D /\ k \in Nat
      BY <1>0, <2>3
    <3>1. TokensOf(s, g, k) = TokensOf(s, f, k)
      <4>1. CASE k > Len(s)
        BY <4>1 DEF TokensOf
      <4>2. CASE ~(k > Len(s))
        <5>1. k \in 1..Len(s)
          BY <1>0, <3>0, <4>2
        <5>2. After(s, k) \in (k + 1)..Len(s) + 1
          BY <5>1, AfterType
        <5>3. After(s, k) \in D /\ After(s, k) # j
          BY <1>0, <2>3, <3>0, <5>2
        <5> QED BY <2>7, <5>3 DEF TokensOf
      <4> QED BY <4>1, <4>2
    <3>2. CASE k = j
      BY <2>7, <3>1, <3>2
    <3>3. CASE k # j
      <4>1. k \in (j + 1)..Len(s) + 1
        BY <1>0, <2>3, <3>0, <3>3
      <4>2. f[k] = TokensOf(s, f, k)
        BY <2>1, <2>3, <4>1
      <4> QED BY <2>7, <3>0, <3>1, <3>3, <4>2
    <3> QED BY <3>2, <3>3
  <2> QED BY <2>2, <2>7, <2>8
<1> HIDE DEF X
<1>3. Len(s) + 1 \in X
  <2>1. Nat \subseteq X
    BY <1>1, <1>2, NaturalsIn
  <2> QED BY <1>0, <2>1
<1>4. (Len(s) + 2) - (Len(s) + 1) = 1
  BY <1>0
<1> QED BY <1>0, <1>3, <1>4 DEF X

\* So TokensFrom(s), the function with the equation, has the tokens as its values.
LEMMA TokensFromIs ==
    ASSUME NEW s \in Seq(Char)
    PROVE  \A k \in 1..Len(s) + 1 :
               /\ TokensFrom(s)[k] \in Seq(TokenSet)
               /\ TokensFrom(s)[k] = TokensOf(s, TokensFrom(s), k)
<1>0. Len(s) \in Nat
  OBVIOUS
<1> DEFINE D == 1..Len(s) + 1
           f == CHOOSE g : g = [k \in 1..Len(s) + 1 |->
                    IF k > Len(s) THEN <<>> ELSE <<TokenAt(s, k)>> \o g[After(s, k)]]
<1>1. TokensFrom(s) = f
  BY DEF TokensFrom
<1>2. f = [k \in 1..Len(s) + 1 |-> IF k > Len(s) THEN <<>> ELSE <<TokenAt(s, k)>> \o f[After(s, k)]]
  <2>1. PICK g \in [1..Len(s) + 1 -> Seq(TokenSet)] :
            \A k \in 1..Len(s) + 1 : g[k] = TokensOf(s, g, k)
    BY TokensExist
  <2>2. g = [k \in 1..Len(s) + 1 |-> IF k > Len(s) THEN <<>> ELSE <<TokenAt(s, k)>> \o g[After(s, k)]]
    BY <2>1 DEF TokensOf
  <2> QED BY <2>2
<1> HIDE DEF f
<1>3. \A k \in D : f[k] = TokensOf(s, f, k)
  BY <1>2 DEF TokensOf
<1> DEFINE X == {m \in Nat : m <= Len(s) + 1 =>
                    \A k \in (Len(s) + 2) - m..Len(s) + 1 : f[k] \in Seq(TokenSet)}
<1>4. 0 \in X
  <2>1. (Len(s) + 2) - 0..Len(s) + 1 = {}
    BY <1>0
  <2> QED BY <2>1
<1>5. ASSUME NEW m \in Nat, m \in X PROVE m + 1 \in X
  <2> SUFFICES ASSUME m + 1 <= Len(s) + 1, NEW k \in (Len(s) + 2) - (m + 1)..Len(s) + 1
               PROVE  f[k] \in Seq(TokenSet)
    OBVIOUS
  <2>1. k \in D /\ m <= Len(s) + 1
    BY <1>0
  <2>2. CASE k > Len(s)
    <3>1. f[k] = <<>>
      BY <1>3, <2>1, <2>2 DEF TokensOf
    <3> QED BY <3>1
  <2>3. CASE ~(k > Len(s))
    <3>1. k \in 1..Len(s)
      BY <1>0, <2>3
    <3>2. After(s, k) \in (k + 1)..Len(s) + 1 /\ <<TokenAt(s, k)>> \in Seq(TokenSet)
      BY <3>1, AfterType, TokenType
    <3>3. After(s, k) \in (Len(s) + 2) - m..Len(s) + 1
      BY <1>0, <3>1, <3>2
    <3>4. f[After(s, k)] \in Seq(TokenSet)
      BY <1>5, <2>1, <3>3
    <3>5. f[k] = <<TokenAt(s, k)>> \o f[After(s, k)]
      BY <1>3, <2>1, <2>3 DEF TokensOf
    <3> QED BY <3>2, <3>4, <3>5, ConcatProperties
  <2> QED BY <2>2, <2>3
<1> HIDE DEF X
<1>6. Len(s) + 1 \in X
  <2>1. Nat \subseteq X
    BY <1>4, <1>5, NaturalsIn
  <2> QED BY <1>0, <2>1
<1>7. (Len(s) + 2) - (Len(s) + 1) = 1
  BY <1>0
<1>8. \A k \in D : f[k] \in Seq(TokenSet)
  BY <1>0, <1>6, <1>7 DEF X
<1> QED BY <1>1, <1>3, <1>8

LEMMA FirstToken ==
    ASSUME NEW s \in Seq(Char) PROVE Tokens(s) = <<>> \o TokensFrom(s)[1]
<1>1. 1 \in 1..Len(s) + 1
  OBVIOUS
<1>2. TokensFrom(s)[1] \in Seq(TokenSet)
  BY <1>1, TokensFromIs
<1> QED BY <1>2, ConcatEmptySeq DEF Tokens

\* The token at k moves from what is still to come to what has been taken.
LEMMA NextToken ==
    ASSUME NEW s \in Seq(Char), NEW done \in Seq(TokenSet), NEW k \in 1..Len(s),
           Tokens(s) = done \o TokensFrom(s)[k]
    PROVE  /\ Append(done, TokenAt(s, k)) \in Seq(TokenSet)
           /\ Tokens(s) = Append(done, TokenAt(s, k)) \o TokensFrom(s)[After(s, k)]
<1>0. /\ TokenAt(s, k) \in TokenSet /\ Len(s) \in Nat
      /\ After(s, k) \in 1..Len(s) + 1 /\ k \in 1..Len(s) + 1 /\ ~(k > Len(s))
  BY TokenType, AfterType
<1>1. PICK x, r : x = TokenAt(s, k) /\ r = TokensFrom(s)[After(s, k)]
  OBVIOUS
<1>2. x \in TokenSet /\ r \in Seq(TokenSet)
  BY <1>0, <1>1, TokensFromIs
<1>3. TokensFrom(s)[k] = <<x>> \o r
  BY <1>0, <1>1, TokensFromIs DEF TokensOf
<1>4. done \o (<<x>> \o r) = Append(done, x) \o r
  BY <1>2
<1> QED BY <1>0, <1>1, <1>2, <1>3, <1>4, AppendProperties

LEMMA LastToken ==
    ASSUME NEW s \in Seq(Char), NEW done \in Seq(TokenSet),
           Tokens(s) = done \o TokensFrom(s)[Len(s) + 1]
    PROVE  Tokens(s) = done
<1>1. Len(s) + 1 \in 1..Len(s) + 1 /\ Len(s) + 1 > Len(s)
  OBVIOUS
<1>2. TokensFrom(s)[Len(s) + 1] = <<>>
  BY <1>1, TokensFromIs DEF TokensOf
<1> QED BY <1>2, ConcatEmptySeq

-----------------------------------------------------------------------------

\* What the inner loop knows of the item at i: its name goes on to n, or ends where
\* fmt_begin is, and its format goes on to n, or ends right before n.
Scanned ==
    /\ pc \in {"scan", "item"} =>
          /\ ~IsText(pattern, i)
          /\ fmt_status # 2 => fmt = <<>>
          /\ fmt_status = 0 => \A x \in i + 1..n - 1 : pattern[x] \in Letters \cup {"close"}
          /\ fmt_status = 1 =>
                /\ fmt_begin = NameEnd(pattern, i) /\ pattern[fmt_begin] = "open"
                /\ str = Name(pattern, i)
                /\ \A x \in fmt_begin + 1..n - 1 : pattern[x] # "close"
    /\ pc = "item" =>
          /\ fmt_status = 0 /\ n <= Len(pattern) => NameEnds(pattern[n])
          /\ fmt_status = 1 => n = Len(pattern) + 1
          /\ fmt_status = 2 =>
                /\ Opens(pattern, i)
                /\ BraceEnd(pattern, i) <= Len(pattern) /\ n = BraceEnd(pattern, i) + 1
                /\ str = Name(pattern, i) /\ fmt = Format(pattern, i)

LEMMA InitScanned == Init => Scanned
BY DEF Init, Scanned

LEMMA OuterScanned ==
    ASSUME IndexInv, Scanned, Literal \/ Percent \/ BeginItem PROVE Scanned'
<1>1. CASE Literal
  BY <1>1 DEF Literal, Scanned, inner
<1>2. CASE Percent
  BY <1>2 DEF Percent, Scanned, inner
<1>3. CASE BeginItem
  <2>1. /\ pc' = "scan" /\ pattern' = pattern /\ i' = i /\ n' = i + 1
        /\ fmt_status' = 0 /\ fmt' = <<>>
    BY <1>3 DEF BeginItem, Goto, outer
  <2>2. ~IsText(pattern, i)
    BY <1>3 DEF BeginItem, IsText
  <2>3. i + 1..n' - 1 = {}
    BY <2>1 DEF IndexInv, TypeOK
  <2>4. ~IsText(pattern, i)'
    BY <2>1, <2>2 DEF IsText
  <2> QED BY <2>1, <2>3, <2>4 DEF Scanned
<1> QED BY <1>1, <1>2, <1>3

LEMMA EndScanned ==
    ASSUME IndexInv, Scanned, Finish \/ Build PROVE Scanned'
BY DEF Finish, Build, Goto, Scanned

LEMMA ItemScanned ==
    ASSUME IndexInv, Scanned, PlainItem \/ UnclosedItem \/ FormattedItem PROVE Scanned'
BY DEF PlainItem, UnclosedItem, FormattedItem, Goto, Scanned

\* The places init() works on, as the lemmas on FirstIn take them.
LEMMA ScanPlaces ==
    ASSUME IndexInv, pc \in {"scan", "item"}
    PROVE  /\ pattern \in Seq(Char) /\ Len(pattern) \in Nat /\ i \in 1..Len(pattern)
           /\ n \in (i + 1)..Len(pattern) + 1
           /\ fmt_status # 0 => fmt_begin \in (i + 1)..n - 1
BY DEF IndexInv, TypeOK, IndicesInside, Between

\* The end of the name is found where the inner loop stops in status 0.
LEMMA NameEndHere ==
    ASSUME IndexInv, pc \in {"scan", "item"},
           \A x \in i + 1..n - 1 : pattern[x] \in Letters \cup {"close"},
           n <= Len(pattern) => pattern[n] \notin Letters \cup {"close"}
    PROVE  NameEnd(pattern, i) = n
<1>1. /\ pattern \in Seq(Char) /\ Len(pattern) \in Nat /\ i \in 1..Len(pattern)
      /\ n \in (i + 1)..Len(pattern) + 1
  BY ScanPlaces
<1>2. IsFirst(pattern, i + 1, Char \ (Letters \cup {"close"}), n)
  <2>1. n <= Len(pattern) => pattern[n] \in Char
    BY <1>1
  <2> QED BY <1>1, <2>1 DEF IsFirst
<1>3. i + 1 \in Nat /\ 1 <= i + 1 /\ i + 1 <= Len(pattern) + 1
  BY <1>1
<1> QED BY <1>1, <1>2, <1>3, FirstInOnly DEF NameEnd

\* So is the closing brace, in status 1.
LEMMA BraceEndHere ==
    ASSUME IndexInv, pc \in {"scan", "item"}, fmt_status # 0,
           fmt_begin = NameEnd(pattern, i), NEW e \in fmt_begin + 1..Len(pattern) + 1,
           \A x \in fmt_begin + 1..e - 1 : pattern[x] # "close",
           e <= Len(pattern) => pattern[e] = "close"
    PROVE  BraceEnd(pattern, i) = e
<1>1. /\ pattern \in Seq(Char) /\ Len(pattern) \in Nat /\ i \in 1..Len(pattern)
      /\ n \in (i + 1)..Len(pattern) + 1 /\ fmt_begin \in (i + 1)..n - 1
  BY ScanPlaces
<1>2. IsFirst(pattern, fmt_begin + 1, {"close"}, e)
  BY <1>1 DEF IsFirst
<1>3. fmt_begin + 1 \in Nat /\ 1 <= fmt_begin + 1 /\ fmt_begin + 1 <= Len(pattern) + 1
  BY <1>1
<1> QED BY <1>1, <1>2, <1>3, FirstInOnly DEF BraceEnd

LEMMA ScanScanned ==
    ASSUME IndexInv, Scanned, ScanStops \/ ScanOpens \/ ScanCloses \/ ScanOn \/ ScanEnds
    PROVE  Scanned'
<1>0. /\ pc = "scan" /\ pattern' = pattern /\ i' = i
      /\ pattern \in Seq(Char) /\ Len(pattern) \in Nat /\ i \in 1..Len(pattern)
      /\ n \in (i + 1)..Len(pattern) + 1
      /\ fmt_status # 0 => fmt_begin \in (i + 1)..n - 1
      /\ fmt_status \in {0, 1}
  <2>1. pc = "scan" /\ pattern' = pattern /\ i' = i
    BY DEF ScanStops, ScanOpens, ScanCloses, ScanOn, ScanEnds, Scanning, Goto, outer
  <2>2. fmt_status \in {0, 1}
    BY <2>1 DEF IndexInv, IndicesInside, TypeOK
  <2> QED BY <2>1, <2>2, ScanPlaces
<1>1. /\ ~IsText(pattern, i) /\ fmt = <<>>
      /\ fmt_status = 0 => \A x \in i + 1..n - 1 : pattern[x] \in Letters \cup {"close"}
      /\ fmt_status = 1 =>
            /\ fmt_begin = NameEnd(pattern, i) /\ pattern[fmt_begin] = "open"
            /\ str = Name(pattern, i)
            /\ \A x \in fmt_begin + 1..n - 1 : pattern[x] # "close"
  BY <1>0 DEF Scanned
<1>2. CASE ScanStops
  BY <1>0, <1>1, <1>2 DEF ScanStops, Scanned, outer
<1>3. CASE ScanOpens
  <2>1. /\ n <= Len(pattern) /\ fmt_status = 0 /\ pattern[n] = "open" /\ pc' = "scan"
        /\ fmt' = fmt /\ str' = SubSeq(pattern, i + 1, n - 1)
        /\ fmt_status' = 1 /\ fmt_begin' = n /\ n' = n + 1
    BY <1>0, <1>3 DEF ScanOpens, Scanning
  <2>2. "open" \notin Letters \cup {"close"}
    BY FormatterAssumption
  <2>3. NameEnd(pattern, i) = n
    BY <1>0, <1>1, <2>1, <2>2, NameEndHere
  <2>4. str' = Name(pattern, i)
    BY <2>1, <2>3 DEF Name
  <2>5. fmt_begin' + 1..n' - 1 = {}
    BY <1>0, <2>1
  <2> QED BY <1>0, <1>1, <2>1, <2>3, <2>4, <2>5 DEF Scanned
<1>4. CASE ScanCloses
  <2>1. /\ n <= Len(pattern) /\ fmt_status = 1 /\ pattern[n] = "close" /\ pc' = "item"
        /\ str' = str /\ fmt' = SubSeq(pattern, fmt_begin + 1, n - 1)
        /\ fmt_status' = 2 /\ n' = n + 1
    BY <1>0, <1>4 DEF ScanCloses, Scanning
  <2>2. n \in fmt_begin + 1..Len(pattern) + 1 /\ pc \in {"scan", "item"} /\ fmt_status # 0
    BY <1>0, <2>1
  <2>5. /\ fmt_begin = NameEnd(pattern, i) /\ \A x \in fmt_begin + 1..n - 1 : pattern[x] # "close"
        /\ n <= Len(pattern) => pattern[n] = "close"
    BY <1>1, <2>1
  <2>3. BraceEnd(pattern, i) = n
    BY <2>2, <2>5, BraceEndHere
  <2>4. Opens(pattern, i) /\ fmt' = Format(pattern, i)
    <3>1. pattern[fmt_begin] = "open" /\ fmt_begin <= Len(pattern)
      BY <1>0, <1>1, <2>1
    <3>2. fmt' = SubSeq(pattern, NameEnd(pattern, i) + 1, BraceEnd(pattern, i) - 1)
      BY <2>1, <2>3, <2>5, Zenon
    <3> QED BY <2>5, <3>1, <3>2, Zenon DEF Opens, Format
  <2> QED BY <1>0, <1>1, <2>1, <2>3, <2>4 DEF Scanned
<1>5. CASE ScanOn
  <2>1. /\ n <= Len(pattern) /\ pc' = "scan" /\ fmt_status' = fmt_status
        /\ fmt_begin' = fmt_begin /\ str' = str /\ fmt' = fmt /\ n' = n + 1
        /\ fmt_status = 0 => ~NameEnds(pattern[n]) /\ pattern[n] # "open"
        /\ fmt_status = 1 => pattern[n] # "close"
    BY <1>0, <1>5 DEF ScanOn, Scanning
  <2>2. ASSUME fmt_status = 0, NEW x \in i + 1..n' - 1 PROVE pattern[x] \in Letters \cup {"close"}
    <3>1. x \in i + 1..n - 1 \/ x = n
      BY <1>0, <2>1
    <3> QED BY <1>1, <2>1, <2>2, <3>1 DEF NameEnds
  <2>3. ASSUME fmt_status = 1, NEW x \in fmt_begin + 1..n' - 1 PROVE pattern[x] # "close"
    <3>1. x \in fmt_begin + 1..n - 1 \/ x = n
      BY <1>0, <2>1, <2>3
    <3> QED BY <1>1, <2>1, <2>3, <3>1
  <2> QED BY <1>0, <1>1, <2>1, <2>2, <2>3 DEF Scanned
<1>6. CASE ScanEnds
  <2>1. /\ pc' = "item" /\ n = Len(pattern) + 1 /\ n' = n /\ fmt_status' = fmt_status
        /\ fmt_begin' = fmt_begin /\ str' = str /\ fmt' = fmt
    BY <1>0, <1>6 DEF ScanEnds, Goto, inner
  <2> QED BY <1>0, <1>1, <2>1 DEF Scanned
<1> QED BY <1>2, <1>3, <1>4, <1>5, <1>6

\* The token of an item is what the inner loop has made of it.
LEMMA ItemIs ==
    ASSUME IndexInv, Scanned, pc = "item"
    PROVE  /\ i \in 1..Len(pattern)
           /\ fmt_status = 0 =>
                 /\ TokenAt(pattern, i) = Token("plain", SubSeq(pattern, i + 1, n - 1), fmt)
                 /\ After(pattern, i) = n
           /\ fmt_status = 1 =>
                 /\ TokenAt(pattern, i) = Token("unclosed", <<>>, <<>>)
                 /\ After(pattern, i) = i + 1
           /\ fmt_status = 2 =>
                 /\ TokenAt(pattern, i) = Token("braced", str, fmt)
                 /\ After(pattern, i) = n
<1>0. /\ pattern \in Seq(Char) /\ Len(pattern) \in Nat /\ i \in 1..Len(pattern)
      /\ n \in (i + 1)..Len(pattern) + 1 /\ ~IsText(pattern, i)
      /\ fmt_status # 0 => fmt_begin \in (i + 1)..n - 1
  BY ScanPlaces DEF Scanned
<1>1. CASE fmt_status = 0
  <2>1. /\ \A x \in i + 1..n - 1 : pattern[x] \in Letters \cup {"close"}
        /\ fmt = <<>>
        /\ n <= Len(pattern) => NameEnds(pattern[n])
    BY <1>1 DEF Scanned
  <2>4. n <= Len(pattern) => pattern[n] \notin Letters \cup {"close"}
    BY <2>1 DEF NameEnds
  <2>2. NameEnd(pattern, i) = n
    BY <2>1, <2>4, NameEndHere
  <2>3. ~Opens(pattern, i)
    BY <2>1, <2>2 DEF Opens, NameEnds
  <2> QED BY <1>0, <1>1, <2>1, <2>2, <2>3 DEF TokenAt, After, Name
<1>2. CASE fmt_status = 1
  <2>1. /\ fmt_begin = NameEnd(pattern, i) /\ pattern[fmt_begin] = "open"
        /\ n = Len(pattern) + 1 /\ \A x \in fmt_begin + 1..n - 1 : pattern[x] # "close"
    BY <1>2 DEF Scanned
  <2>2. n \in fmt_begin + 1..Len(pattern) + 1
    BY <1>0, <1>2, <2>1
  <2>3. BraceEnd(pattern, i) = n
    BY <1>0, <1>2, <2>1, <2>2, BraceEndHere
  <2>4. Opens(pattern, i) /\ BraceEnd(pattern, i) > Len(pattern)
    BY <1>0, <1>2, <2>1, <2>3 DEF Opens
  <2> QED BY <1>0, <1>2, <2>4 DEF TokenAt, After
<1>3. CASE fmt_status = 2
  <2>1. /\ Opens(pattern, i) /\ BraceEnd(pattern, i) <= Len(pattern)
        /\ n = BraceEnd(pattern, i) + 1 /\ str = Name(pattern, i) /\ fmt = Format(pattern, i)
    BY <1>3 DEF Scanned
  <2>2. ~(BraceEnd(pattern, i) > Len(pattern))
    <3>1. BraceEnd(pattern, i) \in Nat
      BY <1>0, <2>1, BraceEndIs DEF Opens, IsFirst
    <3> QED BY <1>0, <2>1, <3>1
  <2> QED BY <1>0, <1>3, <2>1, <2>2 DEF TokenAt, After
<1>4. fmt_status \in {0, 1, 2}
  BY DEF IndexInv, TypeOK
<1> QED BY <1>0, <1>1, <1>2, <1>3, <1>4

\* The tuple of a token, and the tokens that make a pattern wrong.
Piece(t) == IF t.kind = "text" THEN TextTuple(t.str) ELSE ItemTuple(t.str, t.fmt)
Wrong(t) == t.kind = "unclosed" \/ Unknown(Piece(t))

\* What format() would write of vec and of the text in hand.
InHand == IF pc = "build" THEN <<>> ELSE Characters(nstr)
Out == Spelled(vec) \o InHand

\* The tokens the outer loop has behind it are those of the pattern before i.
Behind(done) == Tokens(pattern) = done \o TokensFrom(pattern)[i]

\* It has found what is wrong with them.
Faults(done) ==
    (m_error \/ \E k \in DOMAIN vec : Unknown(vec[k])) <=> \E k \in DOMAIN done : Wrong(done[k])

\* It has kept their characters and their items, each in its order.
Kept(done) ==
    ~m_error => \A t \in {0, 1} : OfType(t, Out) = OfType(t, Pieces(done))

\* It has kept their order, and there is text in hand behind a text only.
Ordered(done) ==
    ~m_error /\ ~TextBeforeBraces(done) =>
        /\ Out = Pieces(done)
        /\ nstr # <<>> /\ pc # "build" => done # <<>> /\ done[Len(done)].kind = "text"

Parsed(done) == Behind(done) /\ Faults(done) /\ Kept(done) /\ Ordered(done)

Progress ==
    /\ OfType(1, Characters(nstr)) = <<>>
    /\ pc # "done" => \E done \in Seq(TokenSet) : Parsed(done)

Results == ErrorsFound /\ NothingLost /\ InOrder

ParseInv == IndexInv /\ Scanned /\ Progress /\ Results

LEMMA AppendOne ==
    ASSUME NEW S, NEW s \in Seq(S), NEW x \in S
    PROVE  s \o <<x>> = Append(s, x) /\ s \o <<x>> \in Seq(S)
OBVIOUS

LEMMA PieceType ==
    ASSUME NEW t \in TokenSet PROVE Piece(t) \in Tuple
<1>1. t.str \in Seq(Char) /\ t.fmt \in Seq(Char)
  BY DEF TokenSet
<1> QED BY <1>1, TextTupleType, ItemTupleType DEF Piece

LEMMA PiecesType ==
    ASSUME NEW done \in Seq(TokenSet)
    PROVE  /\ Pieces(done) \in Seq(Tuple) /\ Len(Pieces(done)) = Len(done)
           /\ \A k \in 1..Len(done) : Pieces(done)[k] = Piece(done[k])
<1>1. DOMAIN done = 1..Len(done) /\ Len(done) \in Nat
  OBVIOUS
<1>2. \A k \in 1..Len(done) : Piece(done[k]) \in Tuple
  BY PieceType
<1>3. Pieces(done) = [k \in 1..Len(done) |-> Piece(done[k])]
  BY <1>1 DEF Pieces, Piece
<1> HIDE DEF Piece
<1> QED BY <1>1, <1>2, <1>3

LEMMA PiecesAppend ==
    ASSUME NEW done \in Seq(TokenSet), NEW t \in TokenSet
    PROVE  /\ Pieces(<<>>) = <<>>
           /\ Pieces(Append(done, t)) = Pieces(done) \o <<Piece(t)>>
<1>0. Pieces(<<>>) = <<>>
  <2>1. Len(Pieces(<<>>)) = 0 /\ Pieces(<<>>) \in Seq(Tuple)
    BY PiecesType, EmptySeq
  <2> QED BY <2>1
<1>1. PICK r : r = Append(done, t)
  OBVIOUS
<1>2. /\ r \in Seq(TokenSet) /\ Len(done) \in Nat /\ Len(r) = Len(done) + 1
      /\ r[Len(done) + 1] = t /\ \A k \in 1..Len(done) : r[k] = done[k]
  BY <1>1, AppendProperties
<1>3. PICK u, v, x : u = Pieces(done) /\ v = Pieces(r) /\ x = Piece(t)
  OBVIOUS
<1>4. u \in Seq(Tuple) /\ Len(u) = Len(done) /\ v \in Seq(Tuple) /\ Len(v) = Len(r) /\ x \in Tuple
  BY <1>2, <1>3, PiecesType, PieceType
<1>5. v[Len(done) + 1] = x
  <2>1. Len(done) + 1 \in 1..Len(r)
    BY <1>2
  <2> QED BY <1>2, <1>3, <2>1, PiecesType
<1>6. ASSUME NEW k \in 1..Len(done) PROVE v[k] = u[k]
  <2>1. k \in 1..Len(r) /\ r[k] = done[k]
    BY <1>2
  <2>2. v[k] = Piece(r[k])
    BY <1>2, <1>3, <2>1, PiecesType
  <2>3. u[k] = Piece(done[k])
    BY <1>3, PiecesType
  <2> QED BY <2>1, <2>2, <2>3
<1>7. v = Append(u, x)
  BY <1>2, <1>4, <1>5, <1>6
<1> QED BY <1>0, <1>1, <1>3, <1>4, <1>7, AppendOne

LEMMA WrongAppend ==
    ASSUME NEW done \in Seq(TokenSet), NEW t \in TokenSet
    PROVE  (\E k \in DOMAIN Append(done, t) : Wrong(Append(done, t)[k]))
              <=> Wrong(t) \/ \E k \in DOMAIN done : Wrong(done[k])
<1>1. PICK r : r = Append(done, t)
  OBVIOUS
<1>2. /\ Len(done) \in Nat /\ DOMAIN done = 1..Len(done) /\ DOMAIN r = 1..Len(done) + 1
      /\ r[Len(done) + 1] = t /\ \A k \in 1..Len(done) : r[k] = done[k]
  BY <1>1
<1>3. DOMAIN r = DOMAIN done \cup {Len(done) + 1}
  BY <1>2
<1> QED BY <1>1, <1>2, <1>3

LEMMA UnknownAppend ==
    ASSUME NEW v \in Seq(Tuple), NEW x \in Tuple
    PROVE  (\E k \in DOMAIN Append(v, x) : Unknown(Append(v, x)[k]))
              <=> Unknown(x) \/ \E k \in DOMAIN v : Unknown(v[k])
<1>1. PICK r : r = Append(v, x)
  OBVIOUS
<1>2. /\ Len(v) \in Nat /\ DOMAIN v = 1..Len(v) /\ DOMAIN r = 1..Len(v) + 1
      /\ r[Len(v) + 1] = x /\ \A k \in 1..Len(v) : r[k] = v[k]
  BY <1>1
<1>3. DOMAIN r = DOMAIN v \cup {Len(v) + 1}
  BY <1>2
<1> QED BY <1>1, <1>2, <1>3

LEMMA BracesAppend ==
    ASSUME NEW done \in Seq(TokenSet), NEW t \in TokenSet
    PROVE  TextBeforeBraces(Append(done, t))
              <=> \/ TextBeforeBraces(done)
                  \/ done # <<>> /\ done[Len(done)].kind = "text" /\ t.kind = "braced"
<1>1. PICK r : r = Append(done, t)
  OBVIOUS
<1>2. /\ Len(done) \in Nat /\ Len(r) = Len(done) + 1
      /\ r[Len(done) + 1] = t /\ \A k \in 1..Len(done) : r[k] = done[k]
  BY <1>1
<1>3. done # <<>> <=> Len(done) \in 1..Len(done)
  OBVIOUS
<1>4. ASSUME TextBeforeBraces(done) PROVE TextBeforeBraces(r)
  <2>1. PICK k \in 1..Len(done) - 1 : done[k].kind = "text" /\ done[k + 1].kind = "braced"
    BY <1>4 DEF TextBeforeBraces
  <2>2. k \in 1..Len(r) - 1 /\ k \in 1..Len(done) /\ k + 1 \in 1..Len(done)
    BY <1>2
  <2>3. r[k] = done[k] /\ r[k + 1] = done[k + 1]
    BY <1>2, <2>2
  <2> QED BY <2>1, <2>2, <2>3 DEF TextBeforeBraces
<1>5. ASSUME done # <<>>, done[Len(done)].kind = "text", t.kind = "braced"
      PROVE  TextBeforeBraces(r)
  <2>1. Len(done) \in 1..Len(r) - 1 /\ r[Len(done)] = done[Len(done)]
    BY <1>2, <1>3, <1>5
  <2> QED BY <1>2, <1>5, <2>1 DEF TextBeforeBraces
<1>6. ASSUME TextBeforeBraces(r), ~TextBeforeBraces(done)
      PROVE  done # <<>> /\ done[Len(done)].kind = "text" /\ t.kind = "braced"
  <2>1. PICK k \in 1..Len(r) - 1 : r[k].kind = "text" /\ r[k + 1].kind = "braced"
    BY <1>6 DEF TextBeforeBraces
  <2>2. k \in 1..Len(done) /\ r[k] = done[k]
    BY <1>2
  <2>3. k = Len(done)
    <3>1. SUFFICES ASSUME k # Len(done) PROVE FALSE
      OBVIOUS
    <3>2. k \in 1..Len(done) - 1 /\ k + 1 \in 1..Len(done)
      BY <1>2, <2>2, <3>1
    <3>3. r[k + 1] = done[k + 1]
      BY <1>2, <3>2
    <3> QED BY <1>6, <2>1, <2>2, <3>2, <3>3 DEF TextBeforeBraces
  <2> QED BY <1>2, <1>3, <2>1, <2>2, <2>3
<1> QED BY <1>1, <1>4, <1>5, <1>6

\* What is kept stays kept when a token and its tuple go behind.
LEMMA KeptAppend ==
    ASSUME NEW done \in Seq(TokenSet), NEW t \in TokenSet, NEW out \in Seq(Tuple), NEW k,
           OfType(k, out) = OfType(k, Pieces(done))
    PROVE  OfType(k, out \o <<Piece(t)>>) = OfType(k, Pieces(Append(done, t)))
<1>1. PICK u, x : u = Pieces(done) /\ x = <<Piece(t)>>
  OBVIOUS
<1>2. u \in Seq(Tuple) /\ x \in Seq(Tuple)
  BY <1>1, PiecesType, PieceType
<1>3. OfType(k, out \o x) = OfType(k, out) \o OfType(k, x)
  BY <1>2, OfTypeConcat
<1>4. OfType(k, u \o x) = OfType(k, u) \o OfType(k, x)
  BY <1>2, OfTypeConcat
<1> QED BY <1>1, <1>3, <1>4, PiecesAppend

\* A text that stays in hand behind an item is of the other type.
LEMMA HeldBack ==
    ASSUME NEW v \in Seq(Tuple), NEW c \in Seq(Tuple), NEW x \in Tuple, x.type = 1,
           OfType(1, c) = <<>>, NEW k \in {0, 1}
    PROVE  OfType(k, (v \o <<x>>) \o c) = OfType(k, (v \o c) \o <<x>>)
<1>1. PICK y : y = <<x>>
  OBVIOUS
<1>2. PICK vy, vc : vy = v \o y /\ vc = v \o c
  OBVIOUS
<1>10. y \in Seq(Tuple) /\ vy \in Seq(Tuple) /\ vc \in Seq(Tuple)
  BY <1>1, <1>2, ConcatProperties
<1>3. PICK p, q, r : p = OfType(k, v) /\ q = OfType(k, c) /\ r = OfType(k, y)
  OBVIOUS
<1>4. p \in Seq(Tuple) /\ q \in Seq(Tuple) /\ r \in Seq(Tuple)
  BY <1>10, <1>3, OfTypeConcat
<1>5. OfType(k, vy) = p \o r /\ OfType(k, vc) = p \o q
  <2>1. OfType(k, v \o y) = OfType(k, v) \o OfType(k, y)
    BY <1>10, OfTypeConcat
  <2>2. OfType(k, v \o c) = OfType(k, v) \o OfType(k, c)
    BY OfTypeConcat
  <2> QED BY <1>2, <1>3, <2>1, <2>2, Zenon
<1>6. OfType(k, vy \o c) = OfType(k, vy) \o q
  BY <1>10, <1>3, OfTypeConcat
<1>7. OfType(k, vc \o y) = OfType(k, vc) \o r
  BY <1>10, <1>3, OfTypeConcat
<1>8. r = <<>> \/ q = <<>>
  <2>1. CASE k = 0
    BY <1>1, <1>3, <2>1, OfTypeOne DEF Picked
  <2>2. CASE k = 1
    BY <1>3, <2>2
  <2> QED BY <2>1, <2>2
<1>9. (p \o r) \o q = (p \o q) \o r
  <2>1. \A z \in Seq(Tuple) : z \o <<>> = z
    BY ConcatEmptySeq
  <2>2. p \o q \in Seq(Tuple) /\ p \o r \in Seq(Tuple)
    BY <1>4, ConcatProperties
  <2>3. p \o <<>> = p /\ (p \o q) \o <<>> = p \o q /\ (p \o r) \o <<>> = p \o r
    BY <1>4, <2>1, <2>2
  <2> QED BY <1>8, <2>3
<1> QED BY <1>1, <1>2, <1>5, <1>6, <1>7, <1>9

\* A tuple behind the others is written behind them.
LEMMA SpelledAppend ==
    ASSUME NEW v \in Seq(Tuple), NEW x \in Tuple
    PROVE  Spelled(Append(v, x)) = Spelled(v) \o Spells(x)
<1>1. <<x>> \in Seq(Tuple) /\ Append(v, x) = v \o <<x>>
  BY AppendOne
<1>2. Spelled(v \o <<x>>) = Spelled(v) \o Spelled(<<x>>)
  BY <1>1, SpelledConcat
<1> QED BY <1>1, <1>2, SpelledOne

LEMMA TextSpells ==
    ASSUME NEW s \in Seq(Char)
    PROVE  /\ s \in Text /\ Characters(s) \in Seq(Tuple)
           /\ Spells(TextTuple(s)) = Characters(s)
           /\ Spells(TextTuple(<<>>)) = <<>>
<1>1. s \in Text
  BY SeqMonotonic DEF Text
<1>2. "%" \in Char
  BY DEF Char
<1>3. Characters(<<>>) = <<>>
  BY <1>1, <1>2, CharactersAppend
<1> QED BY <1>1, <1>3, CharactersType DEF Spells, TextTuple

-----------------------------------------------------------------------------

LEMMA InitProgress == Init => Progress /\ Results
<1> SUFFICES ASSUME Init PROVE Progress /\ Results
  OBVIOUS
<1>0. pattern \in Seq(Char)
  BY FormatterAssumption DEF Init
<1>1. "%" \in Char /\ <<>> \in Text /\ <<>> \in Seq(Char)
  BY DEF Char, Text
<1>2. Characters(<<>>) = <<>>
  BY <1>1, CharactersAppend
<1>3. \A k : OfType(k, <<>>) = <<>>
  <2>1. TextTuple(<<>>) \in Tuple
    BY <1>1, TextTupleType
  <2> QED BY <2>1, OfTypeOne
<1>4. Spelled(<<>>) = <<>>
  <2>1. TextTuple(<<>>) \in Tuple
    BY <1>1, TextTupleType
  <2> QED BY <2>1, SpelledOne
<1>5. Pieces(<<>>) = <<>>
  <2>1. Token("text", <<>>, <<>>) \in TokenSet
    BY <1>1 DEF Token, TokenSet
  <2>2. <<>> \in Seq(TokenSet)
    OBVIOUS
  <2> QED BY <2>1, <2>2, PiecesAppend
<1>6. /\ pc = "loop" /\ i = 1 /\ nstr = <<>> /\ vec = <<>> /\ m_error = FALSE
  BY Zenon DEF Init
<1>7. Out = <<>>
  BY <1>2, <1>4, <1>6 DEF Out, InHand
<1>8. Behind(<<>>)
  BY <1>0, <1>6, FirstToken DEF Behind
<1>9. Faults(<<>>)
  BY <1>6 DEF Faults
<1>10. Kept(<<>>) /\ Ordered(<<>>)
  BY <1>5, <1>6, <1>7 DEF Kept, Ordered
<1>11. <<>> \in Seq(TokenSet)
  OBVIOUS
<1>12. Progress
  BY <1>2, <1>3, <1>6, <1>8, <1>9, <1>10, <1>11 DEF Progress, Parsed
<1> QED BY <1>6, <1>12 DEF Results, ErrorsFound, NothingLost, InOrder

\* Nothing that the invariant is about changes.
LEMMA SameProgress ==
    ASSUME Progress, pc \in {"loop", "scan"}, pc' \in {"loop", "scan", "item"},
           UNCHANGED <<pattern, i, nstr, vec, m_error>>
    PROVE  Progress' /\ Results'
<1>1. PICK done \in Seq(TokenSet) : Parsed(done)
  BY DEF Progress
<1>2. Out' = Out
  BY DEF Out, InHand
<1>3. Parsed(done)'
  BY <1>1, <1>2 DEF Parsed, Behind, Faults, Kept, Ordered
<1>4. Progress'
  BY <1>1, <1>3 DEF Progress
<1> QED BY <1>4 DEF Results, ErrorsFound, NothingLost, InOrder

\* A step takes the token at i.
Takes(done, t, more) ==
    /\ done \in Seq(TokenSet) /\ t = TokenAt(pattern, i) /\ more = Append(done, t)
    /\ i \in 1..Len(pattern)
    /\ pattern' = pattern /\ i' = After(pattern, i)

LEMMA BehindTaken ==
    ASSUME IndexInv, NEW done, NEW t, NEW more, Takes(done, t, more), Behind(done)
    PROVE  /\ t \in TokenSet /\ more \in Seq(TokenSet)
           /\ Behind(more)'
<1>1. pattern \in Seq(Char) /\ i \in 1..Len(pattern) /\ done \in Seq(TokenSet)
  BY DEF IndexInv, TypeOK, Takes
<1>2. t \in TokenSet
  BY <1>1, TokenType DEF Takes
<1>3. /\ more \in Seq(TokenSet)
      /\ Tokens(pattern) = more \o TokensFrom(pattern)[After(pattern, i)]
  BY <1>1, NextToken DEF Takes, Behind
<1> QED BY <1>2, <1>3 DEF Takes, Behind

LEMMA FaultsTaken ==
    ASSUME NEW done, NEW t \in TokenSet, NEW more, Takes(done, t, more), Faults(done),
           (m_error \/ \E k \in DOMAIN vec : Unknown(vec[k]))'
              <=> Wrong(t) \/ m_error \/ \E k \in DOMAIN vec : Unknown(vec[k])
    PROVE  Faults(more)'
<1>1. (\E k \in DOMAIN more : Wrong(more[k])) <=> Wrong(t) \/ \E k \in DOMAIN done : Wrong(done[k])
  BY WrongAppend DEF Takes
<1> QED BY <1>1 DEF Faults

LEMMA KeptTaken ==
    ASSUME NEW done, NEW t \in TokenSet, NEW more, Takes(done, t, more), Kept(done),
           m_error' = m_error, Out \in Seq(Tuple),
           \A k \in {0, 1} : OfType(k, Out') = OfType(k, Out \o <<Piece(t)>>)
    PROVE  Kept(more)'
<1> SUFFICES ASSUME ~m_error, NEW k \in {0, 1} PROVE OfType(k, Out') = OfType(k, Pieces(more))
  BY DEF Kept
<1>1. OfType(k, Out) = OfType(k, Pieces(done))
  BY DEF Kept
<1>2. OfType(k, Out \o <<Piece(t)>>) = OfType(k, Pieces(more))
  BY <1>1, KeptAppend DEF Takes
<1> QED BY <1>2

LEMMA OutType ==
    ASSUME IndexInv
    PROVE  /\ vec \in Seq(Tuple) /\ nstr \in Seq(Char) /\ Spelled(vec) \in Seq(Tuple)
           /\ Characters(nstr) \in Seq(Tuple) /\ Out \in Seq(Tuple)
<1>1. vec \in Seq(Tuple) /\ nstr \in Seq(Char)
  BY DEF IndexInv, TypeOK
<1>2. Spelled(vec) \in Seq(Tuple) /\ Characters(nstr) \in Seq(Tuple)
  BY <1>1, SpelledConcat, TextSpells
<1>3. <<>> \in Seq(Tuple)
  OBVIOUS
<1> QED BY <1>1, <1>2, <1>3, ConcatProperties DEF Out, InHand

\* A character of the text.
LEMMA TextStep ==
    ASSUME IndexInv, Progress, pc = "loop", pc' = "loop", i \in 1..Len(pattern),
           IsText(pattern, i), nstr' = Append(nstr, pattern[i]), i' = i + 1,
           UNCHANGED <<pattern, vec, m_error>>
    PROVE  Progress' /\ Results'
<1>1. PICK done \in Seq(TokenSet) : Parsed(done)
  BY DEF Progress
<1>2. PICK t, more, c : t = TokenAt(pattern, i) /\ more = Append(done, t) /\ c = pattern[i]
  OBVIOUS
<1>3. c \in Char
  BY <1>2 DEF IndexInv, TypeOK
<1>4. /\ t = Token("text", <<c>>, <<>>) /\ Piece(t) = TextTuple(<<c>>) /\ ~Wrong(t)
      /\ t.kind = "text" /\ After(pattern, i) = i + 1
  BY <1>2 DEF TokenAt, After, Token, Piece, Wrong, Unknown, TextTuple
<1>5. Takes(done, t, more)
  BY <1>1, <1>2, <1>4 DEF Takes
<1>6. t \in TokenSet /\ more \in Seq(TokenSet) /\ Behind(more)'
  BY <1>1, <1>5, BehindTaken DEF Parsed
<1>7. Faults(more)'
  BY <1>1, <1>4, <1>5, <1>6, FaultsTaken DEF Parsed
<1>8. PICK x : x = Piece(t)
  OBVIOUS
<1>9. x \in Tuple /\ x.type = 0
  BY <1>4, <1>6, <1>8, PieceType DEF TextTuple
<1>10. Characters(nstr') = Characters(nstr) \o <<x>>
  <2>1. Characters(Append(nstr, c)) = Append(Characters(nstr), x)
    BY <1>3, <1>4, <1>8, OutType, TextSpells, CharactersAppend
  <2> QED BY <1>2, <1>9, <2>1, OutType, AppendOne
<1>11. Out' = Out \o <<x>>
  <2>1. PICK p, q : p = Spelled(vec) /\ q = Characters(nstr)
    OBVIOUS
  <2>2. p \in Seq(Tuple) /\ q \in Seq(Tuple)
    BY <2>1, OutType
  <2>3. p \o (q \o <<x>>) = (p \o q) \o <<x>>
    BY <1>9, <2>2
  <2> QED BY <1>10, <2>1, <2>3 DEF Out, InHand
<1>12. Kept(more)'
  BY <1>1, <1>5, <1>6, <1>8, <1>11, OutType, KeptTaken DEF Parsed
<1>13. Ordered(more)'
  <2> SUFFICES ASSUME ~m_error, ~TextBeforeBraces(more)
               PROVE  Out' = Pieces(more) /\ more # <<>> /\ more[Len(more)].kind = "text"
    BY DEF Ordered
  <2>1. ~TextBeforeBraces(done)
    BY <1>2, <1>6, BracesAppend
  <2>2. Out = Pieces(done)
    BY <1>1, <2>1 DEF Parsed, Ordered
  <2>3. Out' = Pieces(more)
    BY <1>2, <1>6, <1>8, <1>11, <2>2, PiecesAppend
  <2>4. more # <<>> /\ more[Len(more)] = t
    BY <1>2, <1>6, AppendProperties
  <2> QED BY <1>4, <2>3, <2>4
<1>14. OfType(1, Characters(nstr)) = <<>> /\ OfType(1, Characters(nstr)) \in Seq(Tuple)
  BY OutType, OfTypeConcat DEF Progress
<1>15. OfType(1, Characters(nstr')) = <<>>
  <2>1. <<x>> \in Seq(Tuple)
    BY <1>9
  <2>2. OfType(1, Characters(nstr) \o <<x>>) = OfType(1, Characters(nstr)) \o OfType(1, <<x>>)
    BY <2>1, OutType, OfTypeConcat
  <2>3. OfType(1, <<x>>) = <<>>
    BY <1>9, OfTypeOne DEF Picked
  <2>4. <<>> \o <<>> = <<>>
    BY ConcatEmptySeq, EmptySeq
  <2> QED BY <1>10, <1>14, <2>2, <2>3, <2>4, Zenon
<1>16. Progress'
  BY <1>6, <1>7, <1>12, <1>13, <1>15 DEF Progress, Parsed
<1> QED BY <1>16 DEF Results, ErrorsFound, NothingLost, InOrder

LEMMA NoCharacters == Characters(<<>>) = <<>>
<1>1. "%" \in Char /\ <<>> \in Text
  BY DEF Char, Text
<1> QED BY <1>1, CharactersAppend

\* Text tuples with the text in hand, or with none.
LEMMA TextFirst ==
    ASSUME IndexInv, NEW b \in BOOLEAN, NEW v, v = IF b THEN Append(vec, TextTuple(nstr)) ELSE vec
    PROVE  /\ v \in Seq(Tuple)
           /\ Spelled(v) = Spelled(vec) \o (IF b THEN Characters(nstr) ELSE <<>>)
           /\ (\E k \in DOMAIN v : Unknown(v[k])) <=> \E k \in DOMAIN vec : Unknown(vec[k])
<1>1. /\ vec \in Seq(Tuple) /\ TextTuple(nstr) \in Tuple /\ ~Unknown(TextTuple(nstr))
      /\ nstr \in Seq(Char) /\ Spelled(vec) \in Seq(Tuple)
  BY OutType, TextTupleType DEF Unknown, TextTuple
<1>2. CASE b
  <2>1. v = Append(vec, TextTuple(nstr))
    BY <1>2
  <2>2. Spelled(v) = Spelled(vec) \o Characters(nstr)
    BY <1>1, <2>1, SpelledAppend, TextSpells
  <2>3. (\E k \in DOMAIN v : Unknown(v[k])) <=> \E k \in DOMAIN vec : Unknown(vec[k])
    BY <1>1, <2>1, UnknownAppend
  <2> QED BY <1>1, <1>2, <2>1, <2>2, <2>3, AppendProperties
<1>3. CASE ~b
  <2>1. Spelled(vec) \o <<>> = Spelled(vec)
    BY <1>1, ConcatEmptySeq
  <2> QED BY <1>1, <1>3, <2>1
<1> QED BY <1>2, <1>3

\* An item, behind what is in v.
LEMMA ItemBehind ==
    ASSUME NEW v \in Seq(Tuple), NEW x \in Tuple, x.type = 1
    PROVE  /\ v \o <<x>> \in Seq(Tuple)
           /\ Spelled(v \o <<x>>) = Spelled(v) \o <<x>>
           /\ (\E k \in DOMAIN (v \o <<x>>) : Unknown((v \o <<x>>)[k]))
                 <=> Unknown(x) \/ \E k \in DOMAIN v : Unknown(v[k])
<1>1. v \o <<x>> = Append(v, x) /\ v \o <<x>> \in Seq(Tuple)
  BY AppendOne
<1>2. Spells(x) = <<x>>
  BY DEF Spells
<1> QED BY <1>1, <1>2, SpelledAppend, UnknownAppend

\* The tuple of an item is the one of its token.
LEMMA ItemPiece ==
    ASSUME NEW t, NEW kind \in {"plain", "braced"}, NEW s, NEW f, t = Token(kind, s, f)
    PROVE  /\ Piece(t) = ItemTuple(s, f) /\ Piece(t).type = 1 /\ t.kind = kind
           /\ Wrong(t) <=> Unknown(Piece(t))
BY DEF Token, Piece, Wrong, ItemTuple

LEMMA PlainStep ==
    ASSUME IndexInv, Scanned, Progress, PlainItem PROVE Progress' /\ Results'
<1>0. /\ pc = "item" /\ pc' = "loop" /\ fmt_status = 0 /\ pattern' = pattern
      /\ i' = n /\ nstr' = <<>> /\ m_error' = m_error
      /\ vec' = (IF nstr # <<>> THEN Append(vec, TextTuple(nstr)) ELSE vec)
                \o <<ItemTuple(SubSeq(pattern, i + 1, n - 1), fmt)>>
  BY DEF PlainItem, Goto, result
<1>1. PICK done \in Seq(TokenSet) : Parsed(done)
  BY <1>0 DEF Progress
<1>2. PICK t, more : t = TokenAt(pattern, i) /\ more = Append(done, t)
  OBVIOUS
<1>3. /\ i \in 1..Len(pattern) /\ After(pattern, i) = n
      /\ t = Token("plain", SubSeq(pattern, i + 1, n - 1), fmt)
  BY <1>0, <1>2, ItemIs
<1>4. Takes(done, t, more)
  BY <1>0, <1>1, <1>2, <1>3 DEF Takes
<1>5. t \in TokenSet /\ more \in Seq(TokenSet) /\ Behind(more)'
  BY <1>1, <1>4, BehindTaken DEF Parsed
<1>6. PICK x, v : x = Piece(t) /\ v = IF nstr # <<>> THEN Append(vec, TextTuple(nstr)) ELSE vec
  OBVIOUS
<1>7. /\ x = ItemTuple(SubSeq(pattern, i + 1, n - 1), fmt) /\ x.type = 1 /\ t.kind = "plain"
      /\ Wrong(t) <=> Unknown(x)
  BY <1>3, <1>6, ItemPiece
<1>8. x \in Tuple
  BY <1>5, <1>6, PieceType
<1>9. vec' = v \o <<x>>
  BY <1>0, <1>6, <1>7
<1>10. Characters(<<>>) = <<>>
  BY NoCharacters
<1>11. /\ v \in Seq(Tuple) /\ Spelled(v) = Spelled(vec) \o Characters(nstr)
       /\ (\E k \in DOMAIN v : Unknown(v[k])) <=> \E k \in DOMAIN vec : Unknown(vec[k])
  BY <1>6, <1>10, TextFirst
<1>12. Out' = Out \o <<x>>
  <2>1. Out = Spelled(v)
    BY <1>0, <1>11 DEF Out, InHand
  <2>2. Out' = Spelled(vec') \o <<>>
    BY <1>0, <1>10 DEF Out, InHand
  <2>3. Spelled(vec') = Spelled(v) \o <<x>> /\ Spelled(v) \o <<x>> \in Seq(Tuple)
    BY <1>7, <1>8, <1>9, <1>11, ItemBehind, SpelledConcat, AppendOne
  <2> QED BY <2>1, <2>2, <2>3, ConcatEmptySeq
<1>13. Faults(more)'
  <2>1. (\E k \in DOMAIN vec' : Unknown(vec'[k])) <=> Unknown(x) \/ \E k \in DOMAIN v : Unknown(v[k])
    <3>1. v \in Seq(Tuple) /\ x \in Tuple /\ x.type = 1
      BY <1>7, <1>8, <1>11
    <3>2. (\E k \in DOMAIN (v \o <<x>>) : Unknown((v \o <<x>>)[k]))
             <=> Unknown(x) \/ \E k \in DOMAIN v : Unknown(v[k])
      BY <3>1, ItemBehind
    <3> QED BY <1>9, <3>2
  <2>2. (m_error \/ \E k \in DOMAIN vec : Unknown(vec[k]))'
           <=> Wrong(t) \/ m_error \/ \E k \in DOMAIN vec : Unknown(vec[k])
    BY <1>0, <1>7, <1>11, <2>1
  <2> QED BY <1>1, <1>4, <1>5, <2>2, FaultsTaken DEF Parsed
<1>14. Kept(more)'
  BY <1>0, <1>1, <1>4, <1>5, <1>6, <1>12, OutType, KeptTaken DEF Parsed
<1>15. Ordered(more)'
  <2> SUFFICES ASSUME ~m_error, ~TextBeforeBraces(more) PROVE Out' = Pieces(more)
    BY <1>0 DEF Ordered
  <2>1. ~TextBeforeBraces(done)
    BY <1>2, <1>5, BracesAppend
  <2>2. Out = Pieces(done)
    BY <1>1, <2>1 DEF Parsed, Ordered
  <2> QED BY <1>2, <1>5, <1>6, <1>12, <2>2, PiecesAppend
<1>16. OfType(1, Characters(nstr')) = <<>>
  BY <1>0, <1>8, <1>10, OfTypeOne
<1>17. Progress'
  BY <1>5, <1>13, <1>14, <1>15, <1>16 DEF Progress, Parsed
<1> QED BY <1>0, <1>17 DEF Results, ErrorsFound, NothingLost, InOrder

LEMMA FormattedStep ==
    ASSUME IndexInv, Scanned, Progress, FormattedItem PROVE Progress' /\ Results'
<1>0. /\ pc = "item" /\ pc' = "loop" /\ fmt_status = 2 /\ pattern' = pattern
      /\ i' = n /\ nstr' = nstr /\ m_error' = m_error
      /\ vec' = (IF nstr = <<>> THEN Append(vec, TextTuple(nstr)) ELSE vec) \o <<ItemTuple(str, fmt)>>
  BY DEF FormattedItem, Goto, result
<1>1. PICK done \in Seq(TokenSet) : Parsed(done)
  BY <1>0 DEF Progress
<1>2. PICK t, more : t = TokenAt(pattern, i) /\ more = Append(done, t)
  OBVIOUS
<1>3. i \in 1..Len(pattern) /\ After(pattern, i) = n /\ t = Token("braced", str, fmt)
  BY <1>0, <1>2, ItemIs
<1>4. Takes(done, t, more)
  BY <1>0, <1>1, <1>2, <1>3 DEF Takes
<1>5. t \in TokenSet /\ more \in Seq(TokenSet) /\ Behind(more)'
  BY <1>1, <1>4, BehindTaken DEF Parsed
<1>6. PICK x, v : x = Piece(t) /\ v = IF nstr = <<>> THEN Append(vec, TextTuple(nstr)) ELSE vec
  OBVIOUS
<1>7. /\ x = ItemTuple(str, fmt) /\ x.type = 1 /\ t.kind = "braced"
      /\ Wrong(t) <=> Unknown(x)
  BY <1>3, <1>6, ItemPiece
<1>8. x \in Tuple
  BY <1>5, <1>6, PieceType
<1>9. vec' = v \o <<x>>
  BY <1>0, <1>6, <1>7
<1>10. Characters(<<>>) = <<>>
  BY NoCharacters
<1>11. /\ v \in Seq(Tuple) /\ Spelled(v) = Spelled(vec)
       /\ (\E k \in DOMAIN v : Unknown(v[k])) <=> \E k \in DOMAIN vec : Unknown(vec[k])
  <2>1. Spelled(vec) \o <<>> = Spelled(vec)
    BY OutType, ConcatEmptySeq
  <2> QED BY <1>6, <1>10, <2>1, TextFirst
<1>12. PICK p, q : p = Spelled(vec) /\ q = Characters(nstr)
  OBVIOUS
<1>13. p \in Seq(Tuple) /\ q \in Seq(Tuple) /\ Out = p \o q /\ Out' = (p \o <<x>>) \o q
  <2>1. Spelled(vec') = p \o <<x>>
    BY <1>7, <1>8, <1>9, <1>11, <1>12, ItemBehind
  <2> QED BY <1>0, <1>12, <2>1, OutType DEF Out, InHand
<1>14. Faults(more)'
  <2>1. (\E k \in DOMAIN vec' : Unknown(vec'[k])) <=> Unknown(x) \/ \E k \in DOMAIN v : Unknown(v[k])
    <3>1. v \in Seq(Tuple) /\ x \in Tuple /\ x.type = 1
      BY <1>7, <1>8, <1>11
    <3>2. (\E k \in DOMAIN (v \o <<x>>) : Unknown((v \o <<x>>)[k]))
             <=> Unknown(x) \/ \E k \in DOMAIN v : Unknown(v[k])
      BY <3>1, ItemBehind
    <3> QED BY <1>9, <3>2
  <2>2. (m_error \/ \E k \in DOMAIN vec : Unknown(vec[k]))'
           <=> Wrong(t) \/ m_error \/ \E k \in DOMAIN vec : Unknown(vec[k])
    BY <1>0, <1>7, <1>11, <2>1
  <2> QED BY <1>1, <1>4, <1>5, <2>2, FaultsTaken DEF Parsed
<1>15. Kept(more)'
  <2>1. OfType(1, q) = <<>>
    BY <1>12 DEF Progress
  <2>2. \A k \in {0, 1} : OfType(k, Out') = OfType(k, Out \o <<x>>)
    BY <1>7, <1>8, <1>13, <2>1, HeldBack
  <2> QED BY <1>0, <1>1, <1>4, <1>5, <1>6, <2>2, OutType, KeptTaken DEF Parsed
<1>16. Ordered(more)'
  <2> SUFFICES ASSUME ~m_error, ~TextBeforeBraces(more)
               PROVE  Out' = Pieces(more) /\ nstr = <<>>
    BY <1>0 DEF Ordered
  <2>1. ~TextBeforeBraces(done) /\ ~(done # <<>> /\ done[Len(done)].kind = "text")
    BY <1>2, <1>5, <1>7, BracesAppend
  <2>2. Out = Pieces(done) /\ nstr = <<>>
    BY <1>0, <1>1, <2>1 DEF Parsed, Ordered
  <2>3. Out' = Out \o <<x>>
    <3>1. q = <<>>
      BY <1>10, <1>12, <2>2
    <3> QED BY <1>8, <1>13, <3>1
  <2> QED BY <1>2, <1>5, <1>6, <2>2, <2>3, PiecesAppend
<1>17. Progress'
  BY <1>0, <1>5, <1>14, <1>15, <1>16 DEF Progress, Parsed
<1> QED BY <1>0, <1>17 DEF Results, ErrorsFound, NothingLost, InOrder

LEMMA UnclosedStep ==
    ASSUME IndexInv, Scanned, Progress, UnclosedItem PROVE Progress' /\ Results'
<1>0. /\ pc = "item" /\ pc' = "loop" /\ fmt_status = 1 /\ pattern' = pattern
      /\ i' = i + 1 /\ nstr' = nstr /\ m_error' = TRUE
  BY DEF UnclosedItem, Goto
<1>1. PICK done \in Seq(TokenSet) : Parsed(done)
  BY <1>0 DEF Progress
<1>2. PICK t, more : t = TokenAt(pattern, i) /\ more = Append(done, t)
  OBVIOUS
<1>3. i \in 1..Len(pattern) /\ After(pattern, i) = i + 1 /\ t = Token("unclosed", <<>>, <<>>)
  BY <1>0, <1>2, ItemIs
<1>4. Takes(done, t, more)
  BY <1>0, <1>1, <1>2, <1>3 DEF Takes
<1>5. t \in TokenSet /\ more \in Seq(TokenSet) /\ Behind(more)'
  BY <1>1, <1>4, BehindTaken DEF Parsed
<1>6. Faults(more)'
  <2>1. Wrong(t)
    BY <1>3 DEF Wrong, Token
  <2> QED BY <1>0, <1>1, <1>4, <1>5, <2>1, FaultsTaken DEF Parsed
<1>7. Kept(more)' /\ Ordered(more)'
  BY <1>0 DEF Kept, Ordered
<1>8. Progress'
  BY <1>0, <1>5, <1>6, <1>7 DEF Progress, Parsed
<1> QED BY <1>0, <1>8 DEF Results, ErrorsFound, NothingLost, InOrder

LEMMA FinishStep ==
    ASSUME IndexInv, Progress, Finish PROVE Progress' /\ Results'
<1>0. /\ pc = "loop" /\ pc' = "build" /\ pattern' = pattern /\ i' = i /\ nstr' = nstr
      /\ m_error' = m_error
      /\ vec' = IF nstr # <<>> THEN Append(vec, TextTuple(nstr)) ELSE vec
  BY DEF Finish, Goto, result
<1>1. PICK done \in Seq(TokenSet) : Parsed(done)
  BY <1>0 DEF Progress
<1>2. PICK v : v = IF nstr # <<>> THEN Append(vec, TextTuple(nstr)) ELSE vec
  OBVIOUS
<1>3. Characters(<<>>) = <<>>
  BY NoCharacters
<1>4. /\ v \in Seq(Tuple) /\ Spelled(v) = Spelled(vec) \o Characters(nstr)
      /\ (\E k \in DOMAIN v : Unknown(v[k])) <=> \E k \in DOMAIN vec : Unknown(vec[k])
  BY <1>2, <1>3, TextFirst
<1>5. Out' = Out
  <2>1. Out' = Spelled(v) \o <<>> /\ Out = Spelled(v)
    BY <1>0, <1>2, <1>4 DEF Out, InHand
  <2>2. Out \o <<>> = Out
    BY OutType, ConcatEmptySeq
  <2> QED BY <2>1, <2>2
<1>6. Parsed(done)'
  BY <1>0, <1>1, <1>2, <1>4, <1>5 DEF Parsed, Behind, Faults, Kept, Ordered
<1>7. Progress'
  BY <1>0, <1>1, <1>6 DEF Progress
<1> QED BY <1>0, <1>7 DEF Results, ErrorsFound, NothingLost, InOrder

LEMMA BuildStep ==
    ASSUME IndexInv, Progress, Build PROVE Progress' /\ Results'
<1>0. /\ pc = "build" /\ pc' = "done" /\ pattern' = pattern /\ i' = i /\ nstr' = nstr
      /\ m_items' = [k \in DOMAIN vec |->
             IF Unknown(vec[k]) THEN TextTuple(ErrorFormat(vec[k].str)) ELSE vec[k]]
      /\ m_error' = (m_error \/ \E k \in DOMAIN vec : Unknown(vec[k]))
  BY DEF Build, Goto, outer
<1>1. PICK done \in Seq(TokenSet) : Parsed(done)
  BY <1>0 DEF Progress
<1>2. pattern \in Seq(Char) /\ vec \in Seq(Tuple) /\ i = Len(pattern) + 1
  BY <1>0 DEF IndexInv, TypeOK, IndicesInside
<1>3. Tokens(pattern) = done
  BY <1>1, <1>2, LastToken DEF Parsed, Behind
<1>4. ErrorsFound'
  <2>1. m_error' <=> \E k \in DOMAIN done : Wrong(done[k])
    BY <1>0, <1>1 DEF Parsed, Faults
  <2>2. \A k \in DOMAIN done : Pieces(done)[k] = Piece(done[k])
    BY <1>1, PiecesType
  <2> QED BY <1>0, <1>3, <2>1, <2>2 DEF ErrorsFound, Wrong
<1>5. ASSUME ~m_error' PROVE ~m_error /\ m_items' = vec /\ Spelled(m_items') = Out
  <2>1. ~m_error /\ \A k \in DOMAIN vec : ~Unknown(vec[k])
    BY <1>0, <1>5
  <2>2. m_items' = [k \in DOMAIN vec |-> vec[k]]
    BY <1>0, <2>1
  <2>3. m_items' = vec
    BY <1>2, <2>2
  <2>4. Spelled(vec) \o <<>> = Spelled(vec)
    BY OutType, ConcatEmptySeq
  <2> QED BY <1>0, <2>1, <2>3, <2>4 DEF Out, InHand
<1>6. NothingLost'
  BY <1>0, <1>1, <1>3, <1>5 DEF NothingLost, Parsed, Kept
<1>7. InOrder'
  BY <1>0, <1>1, <1>3, <1>5 DEF InOrder, Parsed, Ordered
<1> QED BY <1>0, <1>4, <1>6, <1>7 DEF Progress, Results

LEMMA ParseStep == ParseInv /\ [Next]_vars => ParseInv'
<1> SUFFICES ASSUME IndexInv, Scanned, Progress, Results, [Next]_vars PROVE ParseInv'
  BY DEF ParseInv
<1> USE DEF ParseInv
<1>1. CASE Literal
  <2>1. /\ i \in 1..Len(pattern) /\ IsText(pattern, i)
        /\ pc = "loop" /\ pc' = "loop" /\ nstr' = Append(nstr, pattern[i]) /\ i' = i + 1
        /\ pattern' = pattern /\ vec' = vec /\ m_error' = m_error
    BY <1>1 DEF Literal, IsText, result, IndexInv, TypeOK, IndicesInside, Between
  <2> QED BY <1>1, <2>1, TextStep, OuterIndex, OuterScanned
<1>2. CASE Percent
  <2>1. /\ i \in 1..Len(pattern) /\ IsText(pattern, i)
        /\ pc = "loop" /\ pc' = "loop" /\ nstr' = Append(nstr, pattern[i]) /\ i' = i + 1
        /\ pattern' = pattern /\ vec' = vec /\ m_error' = m_error
    BY <1>2 DEF Percent, IsText, result, IndexInv, TypeOK, IndicesInside, Between
  <2> QED BY <1>2, <2>1, TextStep, OuterIndex, OuterScanned
<1>3. CASE BeginItem
  <2>1. /\ pc = "loop" /\ pc' = "scan"
        /\ UNCHANGED <<pattern, i, nstr, vec, m_error>>
    BY <1>3 DEF BeginItem, Goto, outer, result
  <2> QED BY <1>3, <2>1, SameProgress, OuterIndex, OuterScanned
<1>4. CASE ScanStops \/ ScanOpens \/ ScanCloses \/ ScanOn \/ ScanEnds
  <2>1. /\ pc = "scan" /\ pc' \in {"scan", "item"}
        /\ UNCHANGED <<pattern, i, nstr, vec, m_error>>
    BY <1>4 DEF ScanStops, ScanOpens, ScanCloses, ScanOn, ScanEnds, Scanning, Goto, outer, result
  <2> QED BY <1>4, <2>1, SameProgress, ScanIndex, ScanScanned
<1>5. CASE PlainItem
  BY <1>5, PlainStep, ItemIndex, ItemScanned
<1>6. CASE UnclosedItem
  BY <1>6, UnclosedStep, ItemIndex, ItemScanned
<1>7. CASE FormattedItem
  BY <1>7, FormattedStep, ItemIndex, ItemScanned
<1>8. CASE Finish
  BY <1>8, FinishStep, EndIndex, EndScanned
<1>9. CASE Build
  BY <1>9, BuildStep, EndIndex, EndScanned
<1>10. CASE UNCHANGED vars
  <2>1. /\ IndexInv' /\ Scanned'
    BY <1>10 DEF vars, outer, inner, result, IndexInv, TypeOK, IndicesInside, Scanned
  <2>2. UNCHANGED <<pc, pattern, i, nstr, vec, m_error, m_items>>
    BY <1>10 DEF vars, outer, result
  <2>3. Results'
    BY <2>2 DEF Results, ErrorsFound, NothingLost, InOrder
  <2>4. Progress'
    BY <2>2 DEF Progress, Parsed, Behind, Faults, Kept, Ordered, Out, InHand
  <2> QED BY <2>1, <2>3, <2>4
<1> QED BY <1>1, <1>2, <1>3, <1>4, <1>5, <1>6, <1>7, <1>8, <1>9, <1>10 DEF Next, Step, Returned

-----------------------------------------------------------------------------

\* For every pattern, what init() has made of the part behind it is what that part
\* means: the one fact that the three results below rest on (log.cc:431-535).
THEOREM ParseInvHolds == Spec => []ParseInv
<1>1. Init => ParseInv
  BY InitIndex, InitScanned, InitProgress DEF ParseInv
<1> QED BY <1>1, ParseStep, PTL DEF Spec

\* For every pattern, is_error() says no exactly when a brace is not closed or a
\* name is not in the table (log.cc:310-320, 485-535).
THEOREM ErrorsFoundHolds == Spec => []ErrorsFound
<1>1. ParseInv => ErrorsFound
  BY DEF ParseInv, Results
<1> QED BY <1>1, ParseInvHolds, PTL

\* For every pattern without error, what is rendered has every character of the
\* text and every item once, each of the two in its order (log.cc:480-500).
THEOREM NothingLostHolds == Spec => []NothingLost
<1>1. ParseInv => NothingLost
  BY DEF ParseInv, Results
<1> QED BY <1>1, ParseInvHolds, PTL

\* For every pattern without error and without text right before an item with
\* braces, text and items are rendered in the order of the pattern (log.cc:480, 492).
THEOREM InOrderHolds == Spec => []InOrder
<1>1. ParseInv => InOrder
  BY DEF ParseInv, Results
<1> QED BY <1>1, ParseInvHolds, PTL
=============================================================================
