------------------------- MODULE LexicalCastProofs -------------------------
(***************************************************************************)
(* The casts and load_from_yaml() are right for every document and every   *)
(* value of the variables.                                                 *)
(*                                                                         *)
(* In parts: what yaml-cpp reads and writes; the casts of containers, with *)
(* the order the elements of a set are written in; the two loops that read *)
(* the definitions of loggers, and the definitions written again; last the *)
(* invariant of load_from_yaml() and the three results.                    *)
(*                                                                         *)
(* Induction over the rounds of a loop, the prefixes of a list and the     *)
(* sizes of sets goes through NaturalsIn.                                  *)
(***************************************************************************)
EXTENDS LexicalCast, FiniteSetTheorems, SequenceTheorems, WellFoundedInduction, TLAPS

\* The nodes casts are called with.
AnyNode == Nodes \cup {Null} \cup Scalars
NodeSeq == Seq(Nodes)
PairSeq == Seq(Names \X Nodes)

\* The four kinds of nodes.
LEMMA KindIs ==
    /\ Null.kind = "null"
    /\ \A t : Scalar(t).kind = "scalar" /\ Scalar(t).text = t
    /\ \A s : List(s).kind = "seq" /\ List(s).items = s
    /\ \A p : Map(p).kind = "map" /\ Map(p).pairs = p
BY DEF Null, Scalar, List, Map

\* A node is of one of the kinds, and what is in it is made of nodes.
LEMMA AnyNodeIs ==
    ASSUME NEW n \in AnyNode
    PROVE  \/ n = Null
           \/ n \in Scalars
           \/ n.kind = "seq" /\ n = List(n.items) /\ n.items \in NodeSeq
           \/ n.kind = "map" /\ n = Map(n.pairs) /\ n.pairs \in PairSeq
BY NodeAssumption DEF NodeAssumption, AnyNode, NodeSeq, PairSeq

\* A scalar is its text.
LEMMA ScalarIs ==
    /\ \A n \in Scalars : n.kind = "scalar" /\ n.text \in Strings /\ n = Scalar(n.text)
    /\ \A t \in Strings : Scalar(t) \in Scalars
    /\ Scalar("~") \in Scalars /\ Scalar("") \in Scalars /\ Scalar(Quotes) \in Scalars
<1>1. \A n \in Scalars : n.kind = "scalar" /\ n.text \in Strings /\ n = Scalar(n.text)
  BY DEF Scalars, Scalar
<1>2. \A t \in Strings : Scalar(t) \in Scalars
  BY DEF Scalars, Scalar
<1>3. "~" \in Strings /\ "" \in Strings /\ Quotes \in Strings
  BY StringAssumption DEF StringAssumption
<1> QED BY <1>1, <1>2, <1>3

\* yaml-cpp makes nodes of nodes, and leaves sequences and maps alone.
LEMMA LoadType ==
    ASSUME NEW n \in AnyNode
    PROVE  /\ Load(n) \in AnyNode /\ Emit(n) \in AnyNode /\ TextOf(n) \in AnyNode
           /\ n.kind \in {"seq", "map"} => Load(n) = n /\ Emit(n) = n /\ TextOf(n) = n
<1>1. /\ Null \in AnyNode /\ Scalar("~") \in AnyNode /\ Scalar("") \in AnyNode
      /\ Scalar(Quotes) \in AnyNode
  BY ScalarIs DEF AnyNode
<1>2. Load(n) \in AnyNode /\ Emit(n) \in AnyNode
  BY <1>1, Zenon DEF Load, Emit
<1>3. TextOf(n) \in AnyNode
  BY <1>2, Zenon DEF TextOf
<1>4. ASSUME n.kind \in {"seq", "map"} PROVE Load(n) = n /\ Emit(n) = n /\ TextOf(n) = n
  <2>1. n # Null /\ n # Scalar("") /\ n.kind # "scalar"
    BY <1>4, KindIs
  <2> QED BY <2>1, Zenon DEF Load, Emit, TextOf
<1> QED BY <1>2, <1>3, <1>4

\* What is written of a node is read as a node that is written the same.
LEMMA Relist ==
    ASSUME NEW n \in AnyNode PROVE Emit(Load(Emit(n))) = Emit(n)
<1>1. CASE n = Null
  BY <1>1, KindIs DEF Emit, Load, Quotes
<1>2. CASE n = Scalar("")
  BY <1>2, KindIs DEF Emit, Load, Quotes
<1>3. CASE n # Null /\ n # Scalar("")
  <2>1. Emit(n) = n
    BY <1>3 DEF Emit
  <2>2. CASE n.kind # "scalar"
    BY <2>1, <2>2 DEF Load
  <2>3. CASE n.kind = "scalar"
    <3>1. n \in Scalars
      BY <2>3, AnyNodeIs, KindIs
    <3>2. n = Scalar(n.text) /\ n.text # ""
      BY <1>3, <3>1, ScalarIs
    <3>3. CASE n.text = "~"
      <4>1. Load(n) = Null
        BY <2>3, <3>3 DEF Load
      <4>2. Emit(Null) = n
        BY <3>2, <3>3 DEF Emit
      <4> QED BY <2>1, <4>1, <4>2
    <3>4. CASE n.text = Quotes
      <4>1. Load(n) = Scalar("")
        BY <2>3, <3>4 DEF Load, Quotes
      <4>2. Scalar("") # Null
        BY KindIs
      <4> QED BY <2>1, <3>2, <3>4, <4>1, <4>2 DEF Emit
    <3>5. CASE n.text \notin {"~", Quotes}
      BY <2>1, <2>3, <3>2, <3>5 DEF Load
    <3> QED BY <3>3, <3>4, <3>5
  <2> QED BY <2>2, <2>3
<1> QED BY <1>1, <1>2, <1>3

\* What is in a sequence or a map, and nothing in any other node.
LEMMA ItemsType ==
    ASSUME NEW n \in AnyNode PROVE Items(n) \in NodeSeq /\ Pairs(n) \in PairSeq
<1>1. <<>> \in NodeSeq /\ <<>> \in PairSeq
  BY DEF NodeSeq, PairSeq
<1> QED BY <1>1, AnyNodeIs, KindIs, ScalarIs DEF Items, Pairs

\* Sequences of nodes.
LEMMA NodeSeqIs ==
    ASSUME NEW s \in NodeSeq
    PROVE  /\ Len(s) \in Nat /\ DOMAIN s = 1..Len(s)
           /\ \A k \in DOMAIN s : s[k] \in Nodes
           /\ Range(s) = {s[k] : k \in 1..Len(s)} /\ Range(s) \subseteq Nodes
BY DEF NodeSeq, Range

\* Sequences of pairs.
LEMMA PairSeqIs ==
    ASSUME NEW s \in PairSeq
    PROVE  /\ Len(s) \in Nat /\ DOMAIN s = 1..Len(s)
           /\ \A k \in DOMAIN s :
                 s[k] = <<s[k][1], s[k][2]>> /\ s[k][1] \in Names /\ s[k][2] \in Nodes
           /\ Range(s) = {s[k] : k \in 1..Len(s)}
BY DEF PairSeq, Range

\* A sequence or a map is read as it was written, and no node as a null.
LEMMA Spelled ==
    /\ \A s : Load(List(s)) = List(s) /\ Items(List(s)) = s
    /\ \A p : Load(Map(p)) = Map(p) /\ Pairs(Map(p)) = p
    /\ Load(Emit(Null)) = Null /\ Items(Null) = <<>> /\ Pairs(Null) = <<>>
BY KindIs DEF Load, Items, Pairs, Emit, Quotes

\* The least number that is not in X cannot be there.
LEMMA NaturalsIn ==
    ASSUME NEW X, 0 \in X, \A m \in Nat : m \in X => m + 1 \in X
    PROVE  Nat \subseteq X
<1> SUFFICES ASSUME Nat \ X # {} PROVE FALSE
  OBVIOUS
<1>1. PICK m \in Nat \ X : \A y \in Nat \ X : ~(<<y, m>> \in OpToRel(<, Nat))
  BY NatLessThanWellFounded, WFMin
<1>2. ASSUME NEW y \in Nat, y < m PROVE y \in X
  BY <1>1, <1>2, Zenon DEF OpToRel
<1>3. m \in Nat /\ m \notin X /\ m # 0
  OBVIOUS
<1>4. m - 1 \in Nat /\ m - 1 < m /\ (m - 1) + 1 = m
  BY <1>3
<1>5. m - 1 \in X
  BY <1>2, <1>4
<1>6. (m - 1) + 1 \in X
  BY <1>4, <1>5, Zenon
<1> QED BY <1>3, <1>4, <1>6

\* A set of natural numbers has a least one.
LEMMA Least ==
    ASSUME NEW S \in SUBSET Nat, S # {}
    PROVE  \E m \in S : \A j \in Nat : j < m => j \notin S
<1>1. PICK m \in S : \A y \in S : ~(<<y, m>> \in OpToRel(<, Nat))
  BY NatLessThanWellFounded, WFMin
<1>2. ASSUME NEW j \in Nat, j < m PROVE j \notin S
  BY <1>1, <1>2, Zenon DEF OpToRel
<1> QED BY <1>2

\* A sequence has finitely many elements.
LEMMA RangeFinite ==
    ASSUME NEW n \in Nat, NEW f, DOMAIN f = 1..n PROVE IsFiniteSet({f[k] : k \in 1..n})
<1> DEFINE T == {f[k] : k \in 1..n}
<1>1. PICK g : g = [k \in 1..n |-> f[k]]
  OBVIOUS
<1>2. g \in Surjection(1..n, T)
  BY <1>1 DEF Surjection
<1>3. IsFiniteSet(1..n)
  BY FS_Interval
<1> QED BY <1>2, <1>3, FS_Surjection

\* An injective sequence of as many as there are in S has all of S.
LEMMA AllThere ==
    ASSUME NEW S, IsFiniteSet(S), NEW f \in [1..Cardinality(S) -> S],
           \A j, k \in 1..Cardinality(S) : f[j] = f[k] => j = k
    PROVE  \A x \in S : \E k \in 1..Cardinality(S) : f[k] = x
<1>1. Cardinality(S) \in Nat
  BY FS_CardinalityType
<1>2. IsFiniteSet(1..Cardinality(S)) /\ Cardinality(1..Cardinality(S)) = Cardinality(S)
  BY <1>1, FS_Interval
<1>3. f \in Injection(1..Cardinality(S), S)
  BY DEF Injection, IsInjective
<1>4. f \in Surjection(1..Cardinality(S), S)
  BY <1>2, <1>3, FS_Injection
<1> QED BY <1>4 DEF Surjection

\* A listing of S: each member once.
Lists(s, S) ==
    /\ IsFiniteSet(S) /\ Cardinality(S) \in Nat
    /\ s \in [1..Cardinality(S) -> S]
    /\ \A j, k \in 1..Cardinality(S) : s[j] = s[k] => j = k
    /\ \A x \in S : \E k \in 1..Cardinality(S) : s[k] = x

\* The elements of a std::map in the order the loop comes to them, each once.
LEMMA SetToSeqLists ==
    ASSUME NEW S, IsFiniteSet(S) PROVE Lists(SetToSeq(S), S)
<1>1. Cardinality(S) \in Nat /\ \E f \in [1..Cardinality(S) -> S] : IsInjective(f)
  BY FS_CardinalityType DEF ExistsBijection, Bijection, Injection
<1>2. SetToSeq(S) \in [1..Cardinality(S) -> S] /\ IsInjective(SetToSeq(S))
  BY <1>1 DEF SetToSeq
<1>3. \A j, k \in 1..Cardinality(S) : SetToSeq(S)[j] = SetToSeq(S)[k] => j = k
  BY <1>2 DEF IsInjective
<1> QED BY <1>1, <1>2, <1>3, AllThere DEF Lists

\* A finite set of integers has a greatest one.
LEMMA GreatestExists ==
    ASSUME NEW S, IsFiniteSet(S), S \subseteq Int, S # {}
    PROVE  \E m \in S : \A j \in S : j <= m
<1> DEFINE X == {n \in Nat : \A T \in SUBSET Int :
                    IsFiniteSet(T) /\ Cardinality(T) = n /\ T # {} =>
                        \E m \in T : \A j \in T : j <= m}
<1>1. 0 \in X
  BY FS_EmptySet
<1>2. ASSUME NEW n \in Nat, n \in X PROVE n + 1 \in X
  <2> SUFFICES ASSUME NEW T \in SUBSET Int, IsFiniteSet(T), Cardinality(T) = n + 1, T # {}
               PROVE  \E m \in T : \A j \in T : j <= m
    OBVIOUS
  <2>1. PICK x \in T : TRUE
    OBVIOUS
  <2>2. IsFiniteSet(T \ {x}) /\ Cardinality(T \ {x}) = n
    <3>1. IsFiniteSet(T \ {x}) /\ Cardinality(T \ {x}) = Cardinality(T) - 1
      BY <2>1, FS_RemoveElement
    <3> QED BY <3>1
  <2>3. CASE T \ {x} = {}
    BY <2>1, <2>3
  <2>4. CASE T \ {x} # {}
    <3>1. PICK m \in T \ {x} : \A j \in T \ {x} : j <= m
      BY <1>2, <2>2, <2>4
    <3>2. CASE x <= m
      BY <3>1, <3>2
    <3>3. CASE m <= x
      BY <3>1, <3>3
    <3> QED BY <2>1, <3>1, <3>2, <3>3
  <2> QED BY <2>3, <2>4
<1>3. Nat \subseteq X
  BY <1>1, <1>2, NaturalsIn
<1> QED BY <1>3, FS_CardinalityType

\* It can be put in ascending order.
LEMMA AscendingExists ==
    ASSUME NEW S, IsFiniteSet(S), S \subseteq Int
    PROVE  \E s \in [1..Cardinality(S) -> S] : \A j, k \in DOMAIN s : j < k => s[j] < s[k]
<1> DEFINE X == {n \in Nat : \A T \in SUBSET Int :
                    IsFiniteSet(T) /\ Cardinality(T) = n =>
                        \E s \in [1..n -> T] : \A j, k \in 1..n : j < k => s[j] < s[k]}
<1>1. 0 \in X
  <2>1. 1..0 = {}
    OBVIOUS
  <2>2. \A T : [k \in {} |-> k] \in [{} -> T]
    OBVIOUS
  <2> QED BY <2>1, <2>2
<1>2. ASSUME NEW n \in Nat, n \in X PROVE n + 1 \in X
  <2> SUFFICES ASSUME NEW T \in SUBSET Int, IsFiniteSet(T), Cardinality(T) = n + 1
               PROVE  \E s \in [1..n + 1 -> T] : \A j, k \in 1..n + 1 : j < k => s[j] < s[k]
    OBVIOUS
  <2>1. T # {}
    BY FS_EmptySet
  <2>2. PICK m \in T : \A j \in T : j <= m
    BY <2>1, GreatestExists
  <2>3. IsFiniteSet(T \ {m}) /\ Cardinality(T \ {m}) = n
    BY FS_RemoveElement
  <2>4. PICK s \in [1..n -> T \ {m}] : \A j, k \in 1..n : j < k => s[j] < s[k]
    BY <1>2, <2>3
  <2>5. PICK t : t = [k \in 1..n + 1 |-> IF k = n + 1 THEN m ELSE s[k]]
    OBVIOUS
  <2>6. \A k \in 1..n : s[k] \in T /\ s[k] < m
    <3> SUFFICES ASSUME NEW k \in 1..n PROVE s[k] \in T /\ s[k] < m
      OBVIOUS
    <3>1. s[k] \in T /\ s[k] # m /\ s[k] \in Int /\ m \in Int
      BY <2>2, <2>4
    <3> QED BY <2>2, <3>1
  <2>7. t \in [1..n + 1 -> T]
    BY <2>2, <2>5, <2>6
  <2>8. ASSUME NEW j \in 1..n + 1, NEW k \in 1..n + 1, j < k PROVE t[j] < t[k]
    BY <2>4, <2>5, <2>6, <2>8
  <2> QED BY <2>7, <2>8
<1>3. Nat \subseteq X
  BY <1>1, <1>2, NaturalsIn
<1>4. Cardinality(S) \in Nat
  BY FS_CardinalityType
<1>5. \E s \in [1..Cardinality(S) -> S] : \A j, k \in 1..Cardinality(S) : j < k => s[j] < s[k]
  BY <1>3, <1>4
<1> QED BY <1>5

\* The elements of a std::set in ascending order, each once.
LEMMA AscendingLists ==
    ASSUME NEW S, IsFiniteSet(S), S \subseteq Int PROVE Lists(Ascending(S), S)
<1>1. Cardinality(S) \in Nat
  BY FS_CardinalityType
<1>2. /\ Ascending(S) \in [1..Cardinality(S) -> S]
      /\ \A j, k \in DOMAIN Ascending(S) : j < k => Ascending(S)[j] < Ascending(S)[k]
  BY AscendingExists DEF Ascending
<1>3. ASSUME NEW j \in 1..Cardinality(S), NEW k \in 1..Cardinality(S),
             Ascending(S)[j] = Ascending(S)[k]
      PROVE  j = k
  <2>1. Ascending(S)[j] \in Int /\ Ascending(S)[k] \in Int
    BY <1>2
  <2>2. ~(j < k) /\ ~(k < j)
    BY <1>2, <1>3, <2>1
  <2> QED BY <2>2
<1>4. \A x \in S : \E k \in 1..Cardinality(S) : Ascending(S)[k] = x
  BY <1>2, <1>3, AllThere
<1> QED BY <1>1, <1>2, <1>3, <1>4 DEF Lists

-----------------------------------------------------------------------------

\* An integer comes back from its text, alone or as a node.
LEMMA IntTrip ==
    ASSUME NEW i \in Range(Ints)
    PROVE  /\ AsInt(Emit(Load(IntToText(i)))) = i /\ AsInt(IntToText(i)) = i
           /\ i \in Int /\ i # Throws
<1>1. PICK t \in DOMAIN Ints : Ints[t] = i
  BY DEF Range
<1>2. PICK u : u = CHOOSE w \in DOMAIN Ints : Ints[w] = i
  OBVIOUS
<1>3. u \in DOMAIN Ints /\ Ints[u] = i
  BY <1>1, <1>2
<1>4. IntToText(i) = Scalar(u)
  BY <1>2 DEF IntToText
<1>5. u \notin {"", "~", Quotes} /\ i \in Int
  BY <1>3, StringAssumption DEF StringAssumption
<1>6. Scalar(u).kind = "scalar" /\ Scalar(u).text = u
  BY KindIs
<1>7. Load(Scalar(u)) = Scalar(u)
  BY <1>5, <1>6 DEF Load
<1>8. Emit(Scalar(u)) = Scalar(u)
  <2>1. Scalar(u) # Null /\ Scalar(u) # Scalar("")
    BY <1>5, <1>6, KindIs
  <2> QED BY <2>1 DEF Emit
<1>9. AsInt(Scalar(u)) = i
  BY <1>3, <1>6 DEF AsInt
<1> QED BY <1>4, <1>5, <1>7, <1>8, <1>9, ThrowsAssumption DEF ThrowsAssumption

\* A text that is no integer throws.
LEMMA AsIntType == ASSUME NEW t PROVE AsInt(t) \in Range(Ints) \cup {Throws}
BY DEF AsInt, Range

\* A text is a string and never throws.
LEMMA AsStringType == ASSUME NEW t \in AnyNode PROVE AsString(t) = t /\ t # Throws
BY ThrowsAssumption DEF ThrowsAssumption, AnyNode, AsString

\* A sequence comes back from its text, the empty one too, which is written as a
\* null.
LEMMA SequenceRead ==
    ASSUME NEW s PROVE Items(Load(Sequence(s))) = s
<1>1. CASE s = <<>>
  BY <1>1, Spelled DEF Sequence
<1>2. CASE s # <<>>
  BY <1>2, Spelled DEF Sequence
<1> QED BY <1>1, <1>2

-----------------------------------------------------------------------------
(* vec *)
\* Each element of a vector is written and read once.
LEMMA VectorRead ==
    ASSUME NEW n \in Nat, NEW x, DOMAIN x = 1..n, \A k \in 1..n : x[k] \in AnyNode
    PROVE  AsVector(VectorToText(x, "string"), "string") = [k \in 1..n |-> Emit(Load(x[k]))]
<1> DEFINE s == [k \in 1..n |-> Load(x[k])]
<1>1. VectorToText(x, "string") = Sequence(s)
  <2>1. \A k : ToText("string", x[k]) = x[k]
    BY DEF ToText, StringToText
  <2> QED BY <2>1 DEF VectorToText
<1>2. Items(Load(VectorToText(x, "string"))) = s
  BY <1>1, SequenceRead
<1> HIDE DEF s
<1>3. DOMAIN s = 1..n /\ \A k \in 1..n : s[k] = Load(x[k])
  BY DEF s
<1>4. Cast(VectorToText(x, "string"), "string") = [k \in 1..n |-> As("string", Emit(s[k]))]
  BY <1>2, <1>3 DEF Cast
<1>5. \A k \in 1..n : As("string", Emit(s[k])) = Emit(Load(x[k])) /\ Emit(Load(x[k])) # Throws
  BY <1>3, LoadType, AsStringType DEF As
<1>6. PICK c : c = Cast(VectorToText(x, "string"), "string")
  OBVIOUS
<1>7. c = [k \in 1..n |-> Emit(Load(x[k]))]
  BY <1>4, <1>5, <1>6
<1>8. Throws \notin Range(c)
  BY <1>5, <1>7 DEF Range
<1> QED BY <1>6, <1>7, <1>8 DEF AsVector, Whole

\* A vector of what is written of nodes.
Written(x) ==
    \E n \in Nat : \E s \in [1..n -> AnyNode] : x = [k \in 1..n |-> Emit(s[k])]

\* A vector that was read comes back from its own text.
LEMMA WrittenTrip ==
    ASSUME NEW x, Written(x)
    PROVE  AsVector(VectorToText(x, "string"), "string") = x
<1>0. PICK n \in Nat : \E s \in [1..n -> AnyNode] : x = [k \in 1..n |-> Emit(s[k])]
  BY DEF Written
<1>1. PICK s \in [1..n -> AnyNode] : x = [k \in 1..n |-> Emit(s[k])]
  BY <1>0
<1>2. \A k \in 1..n : Emit(s[k]) \in AnyNode /\ Emit(Load(Emit(s[k]))) = Emit(s[k])
  BY LoadType, Relist
<1>3. DOMAIN x = 1..n /\ \A k \in 1..n : x[k] = Emit(s[k])
  BY <1>1
<1>4. \A k \in 1..n : x[k] \in AnyNode /\ Emit(Load(x[k])) = x[k]
  BY <1>2, <1>3
<1>5. AsVector(VectorToText(x, "string"), "string") = [k \in 1..n |-> Emit(Load(x[k]))]
  BY <1>3, <1>4, VectorRead
<1>6. [k \in 1..n |-> Emit(Load(x[k]))] = [k \in 1..n |-> x[k]]
  BY <1>4
<1>7. x = [k \in 1..n |-> x[k]]
  BY <1>1, <1>3
<1> QED BY <1>5, <1>6, <1>7

\* What is read is such a vector.
LEMMA VectorWritten ==
    ASSUME NEW t \in AnyNode PROVE Written(AsVector(t, "string"))
<1>1. PICK s : s = Items(Load(t))
  OBVIOUS
<1>2. s \in NodeSeq
  BY <1>1, LoadType, ItemsType
<1>3. Len(s) \in Nat /\ DOMAIN s = 1..Len(s) /\ \A k \in 1..Len(s) : s[k] \in Nodes
  BY <1>2, NodeSeqIs
<1>4. PICK c : c = Cast(t, "string")
  OBVIOUS
<1>5. \A k \in 1..Len(s) : As("string", Emit(s[k])) = Emit(s[k]) /\ Emit(s[k]) # Throws
  <2>1. \A k \in 1..Len(s) : Emit(s[k]) \in AnyNode
    BY <1>3, LoadType DEF AnyNode
  <2> QED BY <2>1, AsStringType DEF As
<1>6. c = [k \in 1..Len(s) |-> Emit(s[k])]
  BY <1>1, <1>3, <1>4, <1>5 DEF Cast
<1>7. Throws \notin Range(c)
  BY <1>5, <1>6 DEF Range
<1>8. AsVector(t, "string") = c
  BY <1>4, <1>7 DEF AsVector, Whole
<1>9. [k \in 1..Len(s) |-> s[k]] \in [1..Len(s) -> AnyNode]
  BY <1>3 DEF AnyNode
<1>10. c = [k \in 1..Len(s) |-> Emit([j \in 1..Len(s) |-> s[j]][k])]
  BY <1>6
<1> QED BY <1>3, <1>8, <1>9, <1>10 DEF Written

\* Any vector is one that was written once it has been read again.
LEMMA VectorOnceTrip ==
    ASSUME NEW x, NEW n \in Nat, DOMAIN x = 1..n, \A k \in 1..n : x[k] \in AnyNode
    PROVE  Written(AsVector(VectorToText(x, "string"), "string"))
<1>1. [k \in 1..n |-> Load(x[k])] \in [1..n -> AnyNode]
  BY LoadType
<1>2. [k \in 1..n |-> Emit(Load(x[k]))] = [k \in 1..n |-> Emit([j \in 1..n |-> Load(x[j])][k])]
  OBVIOUS
<1> QED BY <1>1, <1>2, VectorRead DEF Written

-----------------------------------------------------------------------------
(* set *)
\* A set of integers comes back from its text.
LEMMA SetTrip ==
    ASSUME NEW x, IsFiniteSet(x), x \subseteq Range(Ints)
    PROVE  AsSet(SetToText(x), "int") = x
<1>1. x \subseteq Int
  BY IntTrip
<1>2. PICK a : a = Ascending(x)
  OBVIOUS
<1>3. Lists(a, x)
  BY <1>1, <1>2, AscendingLists
<1>4. PICK n \in Nat : n = Cardinality(x)
  BY <1>3 DEF Lists
<1>5. DOMAIN a = 1..n /\ \A k \in 1..n : a[k] \in x
  BY <1>3, <1>4 DEF Lists
<1>6. \A i \in x : \E k \in 1..n : a[k] = i
  BY <1>3, <1>4 DEF Lists
<1> DEFINE s == [k \in 1..n |-> Load(IntToText(a[k]))]
<1>7. SetToText(x) = Sequence(s)
  <2>1. \A k : ToText("int", a[k]) = IntToText(a[k])
    BY DEF ToText
  <2> QED BY <1>2, <1>5, <2>1 DEF SetToText, VectorToText
<1>8. Items(Load(SetToText(x))) = s
  BY <1>7, SequenceRead
<1> HIDE DEF s
<1>9. DOMAIN s = 1..n /\ \A k \in 1..n : s[k] = Load(IntToText(a[k]))
  BY DEF s
<1>10. \A k \in 1..n : As("int", Emit(s[k])) = a[k] /\ a[k] # Throws
  <2>1. \A k \in 1..n : AsInt(Emit(Load(IntToText(a[k])))) = a[k] /\ a[k] # Throws
    BY <1>5, IntTrip
  <2> QED BY <1>9, <2>1 DEF As
<1>11. PICK c : c = Cast(SetToText(x), "int")
  OBVIOUS
<1>12. c = [k \in 1..n |-> a[k]]
  BY <1>8, <1>9, <1>10, <1>11 DEF Cast
<1>13. Range(c) = x
  BY <1>5, <1>6, <1>12 DEF Range
<1>14. Throws \notin x
  BY IntTrip
<1> QED BY <1>11, <1>13, <1>14 DEF AsSet, Whole

\* What is read into a set is a finite set of integers.
LEMMA SetType ==
    ASSUME NEW t \in AnyNode, AsSet(t, "int") # Throws
    PROVE  IsFiniteSet(AsSet(t, "int")) /\ AsSet(t, "int") \subseteq Range(Ints)
<1>1. PICK s : s = Items(Load(t))
  OBVIOUS
<1>2. s \in NodeSeq
  BY <1>1, LoadType, ItemsType
<1>3. Len(s) \in Nat /\ DOMAIN s = 1..Len(s)
  BY <1>2, NodeSeqIs
<1>4. PICK c : c = Cast(t, "int")
  OBVIOUS
<1>5. DOMAIN c = 1..Len(s) /\ \A k \in 1..Len(s) : c[k] \in Range(Ints) \cup {Throws}
  BY <1>1, <1>3, <1>4, AsIntType DEF Cast, As
<1>6. AsSet(t, "int") = Range(c) /\ Throws \notin Range(c)
  BY <1>4 DEF AsSet, Whole
<1>7. Range(c) = {c[k] : k \in 1..Len(s)}
  BY <1>5 DEF Range
<1>8. IsFiniteSet(Range(c))
  BY <1>3, <1>5, <1>7, RangeFinite
<1>9. Range(c) \subseteq Range(Ints)
  BY <1>5, <1>6, <1>7
<1> QED BY <1>6, <1>8, <1>9

\* The keys of the first n pairs.
Keys(p, n) == {p[k][1] : k \in 1..n}

\* The keys of a map with n pairs.
LEMMA KeysIs ==
    ASSUME NEW p, NEW n, NEW key
    PROVE  key \in Keys(p, n) <=> \E k \in 1..n : p[k][1] = key
BY DEF Keys

\* What a map with these pairs is read as: for each key the first of its values.
LEMMA MapMade ==
    ASSUME NEW t, NEW n \in Nat, NEW p, p = Pairs(Load(t)), DOMAIN p = 1..n,
           Items(Load(t)) = <<>>, \A k \in 1..n : AsInt(Emit(p[k][2])) # Throws
    PROVE  /\ AsMap(t, "int") = [key \in Keys(p, n) |-> AsMap(t, "int")[key]]
           /\ \A key \in Keys(p, n) :
                 \E k \in 1..n : p[k][1] = key /\ AsMap(t, "int")[key] = AsInt(Emit(p[k][2]))
<1> DEFINE value == [k \in DOMAIN p |-> As("int", Emit(p[k][2]))]
           first(key) == CHOOSE k \in DOMAIN p : p[k][1] = key /\ \A j \in 1..k - 1 : p[j][1] # key
           keys == {q[1] : q \in Range(p)}
<1>1. AsMap(t, "int") = Whole(value, [key \in keys |-> value[first(key)]])
  BY DEF AsMap
<1>2. keys = Keys(p, n)
  BY DEF Range, Keys
<1>3. \A k \in 1..n : value[k] = AsInt(Emit(p[k][2]))
  BY DEF As
<1>4. Throws \notin Range(value)
  BY <1>3 DEF Range
<1>5. AsMap(t, "int") = [key \in keys |-> value[first(key)]]
  BY <1>1, <1>4 DEF Whole
<1> HIDE DEF value, keys
<1>6. ASSUME NEW key \in keys PROVE first(key) \in 1..n /\ p[first(key)][1] = key
  <2> DEFINE S == {k \in 1..n : p[k][1] = key}
  <2>0. PICK k \in 1..n : p[k][1] = key
    BY <1>2, KeysIs
  <2>1. S \in SUBSET Nat /\ S # {}
    BY <2>0
  <2>2. PICK m \in S : \A j \in Nat : j < m => j \notin S
    BY <2>1, Least
  <2>3. m \in DOMAIN p /\ p[m][1] = key /\ \A j \in 1..m - 1 : p[j][1] # key
    BY <2>2
  <2> QED BY <2>3
<1> HIDE DEF first
<1>7. ASSUME NEW key \in keys
      PROVE  \E k \in 1..n : p[k][1] = key /\ AsMap(t, "int")[key] = AsInt(Emit(p[k][2]))
  BY <1>3, <1>5, <1>6
<1> QED BY <1>2, <1>5, <1>7

\* One value that throws takes the map with it.
LEMMA MapThrows ==
    ASSUME NEW t, NEW n \in Nat, NEW p, p = Pairs(Load(t)), DOMAIN p = 1..n,
           AsMap(t, "int") # Throws
    PROVE  Items(Load(t)) = <<>> /\ \A k \in 1..n : AsInt(Emit(p[k][2])) # Throws
<1> DEFINE value == [k \in DOMAIN p |-> As("int", Emit(p[k][2]))]
           first(key) == CHOOSE k \in DOMAIN p : p[k][1] = key /\ \A j \in 1..k - 1 : p[j][1] # key
           keys == {q[1] : q \in Range(p)}
<1>1. /\ Items(Load(t)) = <<>>
      /\ AsMap(t, "int") = Whole(value, [key \in keys |-> value[first(key)]])
  BY DEF AsMap
<1>2. \A k \in 1..n : value[k] = AsInt(Emit(p[k][2]))
  BY DEF As
<1> HIDE DEF first, keys
<1>3. Throws \notin Range(value)
  BY <1>1 DEF Whole
<1> QED BY <1>1, <1>2, <1>3 DEF Range

\* What is read into a map is a map of integers.
LEMMA MapType ==
    ASSUME NEW t \in AnyNode, AsMap(t, "int") # Throws PROVE IsMap(AsMap(t, "int"))
<1>1. PICK p : p = Pairs(Load(t))
  OBVIOUS
<1>2. p \in PairSeq
  BY <1>1, LoadType, ItemsType
<1>3. PICK n \in Nat : n = Len(p)
  BY <1>2, PairSeqIs
<1>4. DOMAIN p = 1..n
  BY <1>2, <1>3, PairSeqIs
<1>5. Items(Load(t)) = <<>> /\ \A k \in 1..n : AsInt(Emit(p[k][2])) # Throws
  BY <1>1, <1>4, MapThrows
<1>a. PICK x : x = AsMap(t, "int")
  OBVIOUS
<1>b. PICK keys : keys = Keys(p, n)
  OBVIOUS
<1>6. /\ x = [key \in keys |-> x[key]]
      /\ \A key \in keys : \E k \in 1..n : p[k][1] = key /\ x[key] = AsInt(Emit(p[k][2]))
  BY <1>1, <1>4, <1>5, <1>a, <1>b, MapMade
<1>7. IsFiniteSet(keys)
  <2>1. PICK f : f = [k \in 1..n |-> p[k][1]]
    OBVIOUS
  <2>2. keys = {f[k] : k \in 1..n} /\ DOMAIN f = 1..n
    BY <1>b, <2>1 DEF Keys
  <2> QED BY <2>2, RangeFinite
<1>8. \A key \in keys : x[key] \in Range(Ints)
  BY <1>5, <1>6, AsIntType
<1>9. DOMAIN x = keys
  BY <1>6
<1> QED BY <1>6, <1>7, <1>8, <1>9, <1>a DEF IsMap

\* A map comes back from its text, the empty one too, in whatever order the pairs
\* are written.
LEMMA MapTrip ==
    ASSUME NEW x, IsMap(x) PROVE AsMap(MapToText(x, "int"), "int") = x
<1>0. IsFiniteSet(DOMAIN x) /\ x \in [DOMAIN x -> Range(Ints)]
  BY DEF IsMap
<1>1. CASE x = <<>>
  <2>1. Pairs(Load(MapToText(x, "int"))) = <<>> /\ Items(Load(MapToText(x, "int"))) = <<>>
    BY <1>1, Spelled DEF MapToText
  <2>2. PICK p : p = Pairs(Load(MapToText(x, "int")))
    OBVIOUS
  <2>3. p = <<>> /\ DOMAIN p = 1..0 /\ \A k \in 1..0 : AsInt(Emit(p[k][2])) # Throws
    BY <2>1, <2>2
  <2>4. AsMap(MapToText(x, "int"), "int")
            = [key \in Keys(p, 0) |-> AsMap(MapToText(x, "int"), "int")[key]]
    BY <2>1, <2>2, <2>3, MapMade
  <2>5. Keys(p, 0) = {}
    BY DEF Keys
  <2>6. <<>> = [key \in {} |-> AsMap(MapToText(x, "int"), "int")[key]]
    OBVIOUS
  <2> QED BY <1>1, <2>4, <2>5, <2>6
<1>2. CASE x # <<>>
  <2>1. PICK keys : keys = SetToSeq(DOMAIN x)
    OBVIOUS
  <2>2. Lists(keys, DOMAIN x)
    BY <1>0, <2>1, SetToSeqLists
  <2>3. PICK n \in Nat : n = Cardinality(DOMAIN x)
    BY <2>2 DEF Lists
  <2>4. DOMAIN keys = 1..n /\ \A k \in 1..n : keys[k] \in DOMAIN x
    BY <2>2, <2>3 DEF Lists
  <2>5. \A key \in DOMAIN x : \E k \in 1..n : keys[k] = key
    BY <2>2, <2>3 DEF Lists
  <2>6. PICK p : p = [k \in 1..n |-> <<keys[k], Load(IntToText(x[keys[k]]))>>]
    OBVIOUS
  <2>7. MapToText(x, "int") = Map(p)
    <3>1. \A i : ToText("int", i) = IntToText(i)
      BY DEF ToText
    <3> QED BY <1>2, <2>1, <2>4, <2>6, <3>1 DEF MapToText
  <2>8. p = Pairs(Load(MapToText(x, "int"))) /\ Items(Load(MapToText(x, "int"))) = <<>>
    <3>1. Items(Map(p)) = <<>>
      BY KindIs DEF Items
    <3> QED BY <2>7, <3>1, Spelled
  <2>9. /\ DOMAIN p = 1..n
        /\ \A k \in 1..n : p[k][1] = keys[k] /\ p[k][2] = Load(IntToText(x[keys[k]]))
    BY <2>6
  <2>10. \A k \in 1..n : AsInt(Emit(p[k][2])) = x[keys[k]] /\ x[keys[k]] # Throws
    <3>1. \A k \in 1..n : x[keys[k]] \in Range(Ints)
      BY <1>0, <2>4
    <3> QED BY <2>9, <3>1, IntTrip
  <2>11. Keys(p, n) = DOMAIN x
    <3>1. ASSUME NEW key PROVE key \in Keys(p, n) <=> key \in DOMAIN x
      BY <2>4, <2>5, <2>9, KeysIs
    <3> QED BY <3>1
  <2>12. PICK y : y = AsMap(MapToText(x, "int"), "int")
    OBVIOUS
  <2>13. /\ y = [key \in DOMAIN x |-> y[key]]
         /\ \A key \in DOMAIN x : \E k \in 1..n : p[k][1] = key /\ y[key] = AsInt(Emit(p[k][2]))
    <3>1. \A k \in 1..n : AsInt(Emit(p[k][2])) # Throws
      BY <2>10
    <3> QED BY <2>8, <2>9, <2>11, <2>12, <3>1, MapMade
  <2>14. \A key \in DOMAIN x : y[key] = x[key]
    BY <2>9, <2>10, <2>13
  <2>15. x = [key \in DOMAIN x |-> x[key]]
    BY <1>0
  <2> QED BY <2>12, <2>13, <2>14, <2>15
<1> QED BY <1>1, <1>2

-----------------------------------------------------------------------------

\* A loop over n things, each step of it given by G, exists as a function.
IsStep(S, n, G) == \A k \in 1..n : \A x \in S : G[k][x] \in S
IsLoop(f, S, b, n, G) ==
    f \in [0..n -> S] /\ f[0] = b /\ \A k \in 1..n : f[k] = G[k][f[k - 1]]

\* A loop of n rounds, each of which takes a value in S to one in S, has its run of
\* values.
LEMMA LoopExists ==
    ASSUME NEW S, NEW b, NEW n, NEW G, b \in S, n \in Nat, IsStep(S, n, G)
    PROVE  \E f : IsLoop(f, S, b, n, G)
<1> DEFINE X == {m \in Nat : m <= n => \E f \in [0..n -> S] :
                                f[0] = b /\ \A k \in 1..m : f[k] = G[k][f[k - 1]]}
<1>1. 0 \in X
  <2>1. [k \in 0..n |-> b] \in [0..n -> S] /\ [k \in 0..n |-> b][0] = b
    OBVIOUS
  <2>2. 1..0 = {}
    OBVIOUS
  <2>3. \A k \in 1..0 : [j \in 0..n |-> b][k] = G[k][[j \in 0..n |-> b][k - 1]]
    BY <2>2
  <2> QED BY <2>1, <2>3
<1>2. ASSUME NEW m \in Nat, m \in X PROVE m + 1 \in X
  <2> SUFFICES ASSUME m + 1 <= n
               PROVE  \E f \in [0..n -> S] :
                          f[0] = b /\ \A k \in 1..m + 1 : f[k] = G[k][f[k - 1]]
    OBVIOUS
  <2>1. PICK f \in [0..n -> S] : f[0] = b /\ \A k \in 1..m : f[k] = G[k][f[k - 1]]
    BY <1>2
  <2>2. PICK y : y = G[m + 1][f[m]]
    OBVIOUS
  <2>3. y \in S
    <3>1. f[m] \in S /\ m + 1 \in 1..n
      BY <2>1
    <3> QED BY <2>2, <3>1 DEF IsStep
  <2>4. PICK g : g = [f EXCEPT ![m + 1] = y]
    OBVIOUS
  <2>5. /\ g \in [0..n -> S] /\ g[m + 1] = y
        /\ \A k \in 0..n : k # m + 1 => g[k] = f[k]
    BY <2>1, <2>3, <2>4
  <2>6. ASSUME NEW k \in 1..m + 1 PROVE g[k] = G[k][g[k - 1]]
    <3>1. k - 1 \in 0..n /\ k - 1 # m + 1
      OBVIOUS
    <3>2. g[k - 1] = f[k - 1]
      BY <2>5, <3>1
    <3>3. CASE k = m + 1
      <4>1. k - 1 = m
        BY <3>3
      <4> QED BY <2>2, <2>5, <3>2, <3>3, <4>1
    <3>4. CASE k # m + 1
      <4>1. k \in 1..m /\ k \in 0..n
        BY <3>4
      <4> QED BY <2>1, <2>5, <3>2, <3>4, <4>1
    <3> QED BY <3>3, <3>4
  <2>7. g[0] = b
    BY <2>1, <2>5
  <2> QED BY <2>5, <2>6, <2>7
<1>3. Nat \subseteq X
  <2> HIDE DEF X
  <2> QED BY <1>1, <1>2, NaturalsIn
<1>4. n \in X
  BY <1>3
<1> QED BY <1>4 DEF IsLoop

\* The loops of the cast of definitions, with what they have after each round.
AppendersBy(f, items, n) ==
    /\ f[0] = <<>> /\ AppenderDefines(items) = f[n]
    /\ \A k \in 1..n : f[k] = IF ValidAppender(items[k])
                              THEN Append(f[k - 1], AppenderDefine(items[k])) ELSE f[k - 1]

DefinesBy(f, items, n) ==
    /\ f[0] = {} /\ LogDefines(items) = f[n]
    /\ \A k \in 1..n : f[k] = IF IsDefined(items[k], "name")
                              THEN Insert(f[k - 1], LogDefine(items[k])) ELSE f[k - 1]

\* The loop over the appenders of a logger (log.cc:619-651).
LEMMA AppendersLoop ==
    ASSUME NEW items, NEW n \in Nat, n = Len(items) PROVE \E f : AppendersBy(f, items, n)
<1> DEFINE T == {AppenderDefine(items[k]) : k \in 1..n}
           S == Seq(T)
           Next1(k, x) == IF ValidAppender(items[k]) THEN Append(x, AppenderDefine(items[k])) ELSE x
           G == [k \in 1..n |-> [x \in S |-> Next1(k, x)]]
           g == CHOOSE g : g = [x \in 0..Len(items) |->
                    IF x = 0 THEN <<>>
                    ELSE IF ValidAppender(items[x])
                         THEN Append(g[x - 1], AppenderDefine(items[x])) ELSE g[x - 1]]
<1>1. AppenderDefines(items) = g[n]
  BY DEF AppenderDefines
<1>2. ASSUME NEW k \in 1..n, NEW x \in S PROVE Next1(k, x) \in S
  <2>1. AppenderDefine(items[k]) \in T
    OBVIOUS
  <2> QED BY <2>1
<1>3. \A k \in 1..n : \A x \in S : G[k][x] \in S /\ G[k][x] = Next1(k, x)
  BY <1>2
<1>4. <<>> \in S
  OBVIOUS
<1> HIDE DEF S, G
<1>b. \E f : IsLoop(f, S, <<>>, n, G)
  <2>1. IsStep(S, n, G)
    BY <1>3 DEF IsStep
  <2> QED BY <1>4, <2>1, LoopExists
<1>5. PICK f \in [0..n -> S] : f[0] = <<>> /\ \A k \in 1..n : f[k] = G[k][f[k - 1]]
  BY <1>b DEF IsLoop
<1>6. \A k \in 1..n : f[k] = Next1(k, f[k - 1])
  <2> SUFFICES ASSUME NEW k \in 1..n PROVE f[k] = Next1(k, f[k - 1])
    OBVIOUS
  <2>1. f[k - 1] \in S
    BY <1>5
  <2> QED BY <1>3, <1>5, <2>1
<1>7. f = [x \in 0..Len(items) |->
                    IF x = 0 THEN <<>>
                    ELSE IF ValidAppender(items[x])
                         THEN Append(f[x - 1], AppenderDefine(items[x])) ELSE f[x - 1]]
  <2>1. f = [x \in 0..n |-> f[x]]
    BY <1>5
  <2>2. ASSUME NEW x \in 0..n PROVE f[x] = IF x = 0 THEN <<>> ELSE Next1(x, f[x - 1])
    <3>1. x = 0 \/ x \in 1..n
      OBVIOUS
    <3> QED BY <1>5, <1>6, <3>1
  <2> QED BY <2>1, <2>2
<1>8. g = [x \in 0..Len(items) |->
                    IF x = 0 THEN <<>>
                    ELSE IF ValidAppender(items[x])
                         THEN Append(g[x - 1], AppenderDefine(items[x])) ELSE g[x - 1]]
  BY <1>7
<1> HIDE DEF g
<1>a. \A k \in 0..n : g[k] = IF k = 0 THEN <<>> ELSE Next1(k, g[k - 1])
  BY <1>8
<1>9. /\ g[0] = <<>>
      /\ \A k \in 1..n : g[k] = IF ValidAppender(items[k])
                               THEN Append(g[k - 1], AppenderDefine(items[k])) ELSE g[k - 1]
  <2>1. g[0] = <<>>
    BY <1>a
  <2>2. ASSUME NEW k \in 1..n PROVE g[k] = Next1(k, g[k - 1])
    <3>1. k \in 0..n /\ k # 0
      OBVIOUS
    <3> QED BY <1>a, <3>1
  <2> QED BY <2>1, <2>2
<1> QED BY <1>1, <1>9 DEF AppendersBy

\* The loop over the definitions (log.cc:602-655).
LEMMA DefinesLoop ==
    ASSUME NEW items, NEW n \in Nat, n = Len(items) PROVE \E f : DefinesBy(f, items, n)
<1> DEFINE S == SUBSET {LogDefine(items[k]) : k \in 1..n}
           Next1(k, x) == IF IsDefined(items[k], "name") THEN Insert(x, LogDefine(items[k])) ELSE x
           G == [k \in 1..n |-> [x \in S |-> Next1(k, x)]]
           g == CHOOSE g : g = [i \in 0..Len(items) |->
                    IF i = 0 THEN {}
                    ELSE IF IsDefined(items[i], "name")
                         THEN Insert(g[i - 1], LogDefine(items[i])) ELSE g[i - 1]]
<1>1. LogDefines(items) = g[n]
  BY DEF LogDefines
<1>2. ASSUME NEW k \in 1..n, NEW x \in S PROVE Next1(k, x) \in S
  BY DEF Insert
<1>3. \A k \in 1..n : \A x \in S : G[k][x] \in S /\ G[k][x] = Next1(k, x)
  BY <1>2
<1>4. {} \in S
  OBVIOUS
<1> HIDE DEF S, G
<1>b. \E f : IsLoop(f, S, {}, n, G)
  <2>1. IsStep(S, n, G)
    BY <1>3 DEF IsStep
  <2> QED BY <1>4, <2>1, LoopExists
<1>5. PICK f \in [0..n -> S] : f[0] = {} /\ \A k \in 1..n : f[k] = G[k][f[k - 1]]
  BY <1>b DEF IsLoop
<1>6. \A k \in 1..n : f[k] = Next1(k, f[k - 1])
  <2> SUFFICES ASSUME NEW k \in 1..n PROVE f[k] = Next1(k, f[k - 1])
    OBVIOUS
  <2>1. f[k - 1] \in S
    BY <1>5
  <2> QED BY <1>3, <1>5, <2>1
<1>7. f = [i \in 0..Len(items) |->
                    IF i = 0 THEN {}
                    ELSE IF IsDefined(items[i], "name")
                         THEN Insert(f[i - 1], LogDefine(items[i])) ELSE f[i - 1]]
  <2>1. f = [x \in 0..n |-> f[x]]
    BY <1>5
  <2>2. \A x \in 0..n : f[x] = IF x = 0 THEN {} ELSE Next1(x, f[x - 1])
    BY <1>5, <1>6
  <2> QED BY <2>1, <2>2
<1>8. g = [i \in 0..Len(items) |->
                    IF i = 0 THEN {}
                    ELSE IF IsDefined(items[i], "name")
                         THEN Insert(g[i - 1], LogDefine(items[i])) ELSE g[i - 1]]
  BY <1>7
<1> HIDE DEF g
<1>a. \A k \in 0..n : g[k] = IF k = 0 THEN {} ELSE Next1(k, g[k - 1])
  BY <1>8
<1>9. /\ g[0] = {}
      /\ \A k \in 1..n : g[k] = IF IsDefined(items[k], "name")
                               THEN Insert(g[k - 1], LogDefine(items[k])) ELSE g[k - 1]
  <2>1. g[0] = {}
    BY <1>a
  <2>2. ASSUME NEW k \in 1..n PROVE g[k] = Next1(k, g[k - 1])
    <3>1. k \in 0..n /\ k # 0
      OBVIOUS
    <3> QED BY <1>a, <3>1
  <2> QED BY <2>1, <2>2
<1> QED BY <1>1, <1>9 DEF DefinesBy

\* When every appender is valid, each gives one definition.
LEMMA AppenderDefinesAll ==
    ASSUME NEW items, NEW n \in Nat, n = Len(items), \A k \in 1..n : ValidAppender(items[k])
    PROVE  AppenderDefines(items) = [k \in 1..n |-> AppenderDefine(items[k])]
<1>0. PICK f : AppendersBy(f, items, n)
  BY AppendersLoop
<1>1. /\ f[0] = <<>> /\ AppenderDefines(items) = f[n]
      /\ \A k \in 1..n : f[k] = IF ValidAppender(items[k])
                                THEN Append(f[k - 1], AppenderDefine(items[k])) ELSE f[k - 1]
  BY <1>0 DEF AppendersBy
<1> DEFINE T == {AppenderDefine(items[k]) : k \in 1..n}
           X == {m \in Nat : m <= n => /\ f[m] \in Seq(T) /\ Len(f[m]) = m
                                       /\ \A k \in 1..m : f[m][k] = AppenderDefine(items[k])}
<1>2. 0 \in X
  <2>1. f[0] \in Seq(T) /\ Len(f[0]) = 0
    BY <1>1
  <2>2. 1..0 = {}
    OBVIOUS
  <2> QED BY <2>1, <2>2
<1>3. ASSUME NEW m \in Nat, m \in X PROVE m + 1 \in X
  <2> SUFFICES ASSUME m + 1 <= n
               PROVE  /\ f[m + 1] \in Seq(T) /\ Len(f[m + 1]) = m + 1
                      /\ \A k \in 1..m + 1 : f[m + 1][k] = AppenderDefine(items[k])
    OBVIOUS
  <2>1. PICK d : d = AppenderDefine(items[m + 1])
    OBVIOUS
  <2>2. m + 1 \in 1..n /\ (m + 1) - 1 = m
    OBVIOUS
  <2>3. d \in T
    BY <2>1, <2>2
  <2>4. f[m + 1] = Append(f[m], d)
    BY <1>1, <2>1, <2>2
  <2>5. f[m] \in Seq(T) /\ Len(f[m]) = m /\ \A k \in 1..m : f[m][k] = AppenderDefine(items[k])
    BY <1>3
  <2> HIDE DEF T
  <2>6. f[m + 1] \in Seq(T) /\ Len(f[m + 1]) = m + 1
    BY <2>3, <2>4, <2>5
  <2>7. ASSUME NEW k \in 1..m + 1 PROVE f[m + 1][k] = AppenderDefine(items[k])
    <3>1. CASE k = m + 1
      BY <2>1, <2>3, <2>4, <2>5, <3>1
    <3>2. CASE k # m + 1
      <4>1. k \in 1..m
        BY <3>2
      <4> QED BY <2>3, <2>4, <2>5, <4>1
    <3> QED BY <3>1, <3>2
  <2> QED BY <2>6, <2>7
<1> HIDE DEF X
<1>4. n \in X
  BY <1>2, <1>3, NaturalsIn
<1>5. /\ f[n] \in Seq(T) /\ Len(f[n]) = n
      /\ \A k \in 1..n : f[n][k] = AppenderDefine(items[k])
  BY <1>4 DEF X
<1> HIDE DEF T
<1>6. f[n] = [k \in 1..n |-> f[n][k]]
  BY <1>5
<1> QED BY <1>1, <1>5, <1>6

\* The definitions that were pushed are those of appenders.
LEMMA AppenderDefinesType ==
    ASSUME NEW items, NEW n \in Nat, n = Len(items), NEW T,
           \A k \in 1..n : ValidAppender(items[k]) => AppenderDefine(items[k]) \in T
    PROVE  AppenderDefines(items) \in Seq(T)
<1>0. PICK f : AppendersBy(f, items, n)
  BY AppendersLoop
<1>1. /\ f[0] = <<>> /\ AppenderDefines(items) = f[n]
      /\ \A k \in 1..n : f[k] = IF ValidAppender(items[k])
                                THEN Append(f[k - 1], AppenderDefine(items[k])) ELSE f[k - 1]
  BY <1>0 DEF AppendersBy
<1> DEFINE X == {m \in Nat : m <= n => f[m] \in Seq(T)}
<1>2. 0 \in X
  <2>1. <<>> \in Seq(T)
    OBVIOUS
  <2> QED BY <1>1, <2>1
<1>3. ASSUME NEW m \in Nat, m \in X PROVE m + 1 \in X
  <2> SUFFICES ASSUME m + 1 <= n PROVE f[m + 1] \in Seq(T)
    OBVIOUS
  <2>1. m + 1 \in 1..n /\ (m + 1) - 1 = m /\ f[m] \in Seq(T)
    BY <1>3
  <2>2. f[m + 1] = IF ValidAppender(items[m + 1])
                   THEN Append(f[m], AppenderDefine(items[m + 1])) ELSE f[m]
    BY <1>1, <2>1
  <2> QED BY <2>1, <2>2
<1> HIDE DEF X
<1>4. n \in X
  BY <1>2, <1>3, NaturalsIn
<1> QED BY <1>1, <1>4 DEF X

-----------------------------------------------------------------------------

\* The first k entries, and those of them that define a logger.
Firsts(items, m) == {j \in 1..m : j \in Defining(items)}

Named(items, k) == IsDefined(items[k], "name")
NameOf(items, k) == Get(items[k], "name")

\* An entry defines a logger if no entry before it has its name.
LEMMA DefiningIs ==
    ASSUME NEW items, NEW n \in Nat, DOMAIN items = 1..n, NEW k \in 1..n
    PROVE  k \in Defining(items) <=>
             /\ Named(items, k)
             /\ \A j \in 1..k - 1 : Named(items, j) => NameOf(items, j) # NameOf(items, k)
BY DEF Defining, Named, NameOf

\* The first entry of a name defines it.
LEMMA FirstOfName ==
    ASSUME NEW items, NEW n \in Nat, DOMAIN items = 1..n, NEW k \in 1..n, Named(items, k)
    PROVE  \E j \in 1..k : j \in Defining(items) /\ NameOf(items, j) = NameOf(items, k)
<1> DEFINE S == {j \in 1..n : Named(items, j) /\ NameOf(items, j) = NameOf(items, k)}
<1>1. S \in SUBSET Nat /\ k \in S
  OBVIOUS
<1>2. PICK m \in S : \A j \in Nat : j < m => j \notin S
  BY <1>1, Least
<1>3. m <= k /\ m \in 1..k
  <2>1. ~(k < m)
    BY <1>1, <1>2
  <2> QED BY <1>2, <2>1
<1>4. ASSUME NEW j \in 1..m - 1, Named(items, j) PROVE NameOf(items, j) # NameOf(items, m)
  <2>1. j \in Nat /\ j < m /\ j \in 1..n
    BY <1>2
  <2> QED BY <1>2, <1>4, <2>1
<1>5. m \in 1..n /\ Named(items, m) /\ NameOf(items, m) = NameOf(items, k)
  BY <1>2
<1> HIDE DEF S
<1>6. m \in Defining(items)
  BY <1>4, <1>5, DefiningIs
<1> QED BY <1>3, <1>5, <1>6

\* A definition has the name of its entry.
LEMMA LogDefineName == \A n : LogDefine(n).name = Get(n, "name")
BY DEF LogDefine

\* insert() in a loop: the set has the definition of the first entry of each name.
LEMMA LogDefinesIs ==
    ASSUME NEW items, NEW n \in Nat, n = Len(items), DOMAIN items = 1..n
    PROVE  LogDefines(items) = {LogDefine(items[k]) : k \in Defining(items)}
<1>0. PICK f : DefinesBy(f, items, n)
  BY DefinesLoop
<1>1. /\ f[0] = {} /\ LogDefines(items) = f[n]
      /\ \A k \in 1..n : f[k] = IF IsDefined(items[k], "name")
                                THEN Insert(f[k - 1], LogDefine(items[k])) ELSE f[k - 1]
  BY <1>0 DEF DefinesBy
<1> DEFINE X == {m \in Nat : m <= n => f[m] = {LogDefine(items[k]) : k \in Firsts(items, m)}}
<1>2. 0 \in X
  <2>1. Firsts(items, 0) = {}
    BY DEF Firsts
  <2> QED BY <1>1, <2>1
<1>3. ASSUME NEW m \in Nat, m \in X PROVE m + 1 \in X
  <2> SUFFICES ASSUME m + 1 <= n
               PROVE  f[m + 1] = {LogDefine(items[k]) : k \in Firsts(items, m + 1)}
    OBVIOUS
  <2>1. m + 1 \in 1..n /\ (m + 1) - 1 = m
    OBVIOUS
  <2>2. f[m] = {LogDefine(items[k]) : k \in Firsts(items, m)}
    BY <1>3
  <2>3. PICK d : d = LogDefine(items[m + 1])
    OBVIOUS
  <2>4. f[m + 1] = IF Named(items, m + 1) THEN Insert(f[m], d) ELSE f[m]
    BY <1>1, <2>1, <2>3 DEF Named
  <2>5. Firsts(items, m + 1) = IF m + 1 \in Defining(items) THEN Firsts(items, m) \cup {m + 1}
                               ELSE Firsts(items, m)
    BY DEF Firsts
  <2>6. CASE m + 1 \in Defining(items)
    <3>1. Named(items, m + 1)
      BY <2>1, <2>6, DefiningIs
    <3>2. ASSUME NEW e \in f[m] PROVE e.name # d.name
      <4>1. PICK k \in Firsts(items, m) : e = LogDefine(items[k])
        BY <2>2
      <4>2. k \in 1..(m + 1) - 1 /\ k \in 1..n /\ k \in Defining(items)
        BY <4>1 DEF Firsts
      <4>3. Named(items, k)
        BY <4>2, DefiningIs
      <4>4. NameOf(items, k) # NameOf(items, m + 1)
        BY <2>1, <2>6, <4>2, <4>3, DefiningIs
      <4> QED BY <2>3, <4>1, <4>4, LogDefineName DEF NameOf
    <3>3. f[m + 1] = f[m] \cup {d}
      BY <2>4, <3>1, <3>2 DEF Insert
    <3>4. Firsts(items, m + 1) = Firsts(items, m) \cup {m + 1}
      BY <2>5, <2>6
    <3> QED BY <2>2, <2>3, <3>3, <3>4
  <2>7. CASE m + 1 \notin Defining(items)
    <3>1. f[m + 1] = f[m]
      <4>1. CASE ~Named(items, m + 1)
        BY <2>4, <4>1
      <4>2. CASE Named(items, m + 1)
        <5>1. PICK j \in 1..m + 1 : /\ j \in Defining(items)
                                    /\ NameOf(items, j) = NameOf(items, m + 1)
          BY <2>1, <4>2, FirstOfName
        <5>2. j # m + 1 /\ j \in 1..m
          BY <2>7, <5>1
        <5>3. j \in Firsts(items, m)
          BY <5>1, <5>2 DEF Firsts
        <5>4. LogDefine(items[j]) \in f[m]
          BY <2>2, <5>3
        <5>5. LogDefine(items[j]).name = d.name
          BY <2>3, <5>1, LogDefineName DEF NameOf
        <5> QED BY <2>4, <4>2, <5>4, <5>5 DEF Insert
      <4> QED BY <4>1, <4>2
    <3> QED BY <2>2, <2>5, <2>7, <3>1
  <2> QED BY <2>6, <2>7
<1> HIDE DEF X
<1>4. n \in X
  BY <1>2, <1>3, NaturalsIn
<1>5. Firsts(items, n) = Defining(items)
  BY DEF Firsts, Defining
<1> QED BY <1>1, <1>4, <1>5 DEF X

\* Two entries that define loggers name different ones.
LEMMA DefiningOnce ==
    ASSUME NEW items, NEW n \in Nat, DOMAIN items = 1..n,
           NEW j \in Defining(items), NEW k \in Defining(items), NameOf(items, j) = NameOf(items, k)
    PROVE  j = k
<1>1. j \in 1..n /\ k \in 1..n
  BY DEF Defining
<1>2. Named(items, j) /\ Named(items, k)
  BY <1>1, DefiningIs
<1>3. ~(j < k)
  BY <1>1, <1>2, DefiningIs
<1>4. ~(k < j)
  BY <1>1, <1>2, DefiningIs
<1> QED BY <1>1, <1>3, <1>4

-----------------------------------------------------------------------------

\* The definitions of appenders and loggers that can be read.
AppenderDefs ==
    [type : {1}, level : {0}, formatter : Strings, file : Strings]
    \cup [type : {2}, level : {0}, formatter : {""}, file : {""}]
AppenderSeq == Seq(AppenderDefs)
Defines == [name : Strings, level : 0..5, formatter : Strings, appenders : AppenderSeq]

\* Definitions of loggers as a std::set has them.
IsDefines(x) ==
    /\ IsFiniteSet(x) /\ x \subseteq Defines
    /\ \A d, e \in x : d.name = e.name => d = e

\* The fields with a text.
Keywords == {"name", "level", "formatter", "type", "file"}

\* The fields of a definition are what as<std::string>() is called for.
LEMMA KeywordsFields == \A key \in Keywords : <<key>> \in FieldNames
BY DEF Keywords, FieldNames

\* What is in a map is a node.
LEMMA PairsType ==
    ASSUME NEW n \in Nodes, NEW p \in Range(Pairs(n)) PROVE p[2] \in Nodes
<1>1. Pairs(n) \in PairSeq
  BY ItemsType DEF AnyNode
<1>2. PICK k \in DOMAIN Pairs(n) : p = Pairs(n)[k]
  BY DEF Range
<1> QED BY <1>1, <1>2, PairSeqIs

\* A field is a string.
LEMMA FieldType ==
    ASSUME NEW n \in Nodes, NEW key \in Keywords
    PROVE  /\ IsDefined(n, key) => Get(n, key) \in Strings
           /\ Field(n, key) \in Strings
<1>1. ASSUME IsDefined(n, key) PROVE Get(n, key) \in Strings
  <2>1. PICK p : p = CHOOSE q \in Range(Pairs(n)) : q[1] = <<key>>
    OBVIOUS
  <2>2. p \in Range(Pairs(n)) /\ p[1] = <<key>>
    BY <1>1, <2>1 DEF IsDefined
  <2>3. p[2] \in Scalars
    BY <2>2, KeywordsFields, NodeAssumption DEF NodeAssumption
  <2>4. Get(n, key) = p[2].text
    BY <2>1 DEF Get
  <2> QED BY <2>3, <2>4, ScalarIs
<1>2. "" \in Strings
  BY StringAssumption DEF StringAssumption
<1> QED BY <1>1, <1>2 DEF Field

\* The appenders of a definition are a node.
LEMMA AppendersNodeType ==
    ASSUME NEW n \in Nodes, IsDefined(n, "appenders") PROVE AppendersNode(n) \in Nodes
<1>1. PICK p : p = CHOOSE q \in Range(Pairs(n)) : q[1] = <<"appenders">>
  OBVIOUS
<1>2. p \in Range(Pairs(n))
  BY <1>1 DEF IsDefined
<1> QED BY <1>1, <1>2, PairsType DEF AppendersNode

\* What an appender is read as.
LEMMA AppenderDefineType ==
    ASSUME NEW a \in Nodes, ValidAppender(a) PROVE AppenderDefine(a) \in AppenderDefs
<1>1. CASE Get(a, "type") = "FileLogAppender"
  <2>1. IsDefined(a, "file")
    BY <1>1 DEF ValidAppender
  <2>2. Field(a, "formatter") \in Strings /\ Get(a, "file") \in Strings
    BY <2>1, FieldType DEF Keywords
  <2> QED BY <1>1, <2>2 DEF AppenderDefine, AppenderDefs
<1>2. CASE Get(a, "type") # "FileLogAppender"
  BY <1>2 DEF AppenderDefine, AppenderDefs
<1> QED BY <1>1, <1>2

\* from_string() gives one of the five levels, or 0.
LEMMA LevelType == \A str : LevelFromString(str) \in 0..5
<1> SUFFICES ASSUME NEW str PROVE LevelFromString(str) \in 0..5
  OBVIOUS
<1>1. CASE \E l \in 1..5 : str \in {LevelNames[l], lowerNames[l]}
  <2>1. PICK l : l = CHOOSE j \in 1..5 : str \in {LevelNames[j], lowerNames[j]}
    OBVIOUS
  <2>2. l \in 1..5
    BY <1>1, <2>1
  <2>3. LevelFromString(str) = l
    BY <1>1, <2>1 DEF LevelFromString
  <2> QED BY <2>2, <2>3
<1>2. CASE ~\E l \in 1..5 : str \in {LevelNames[l], lowerNames[l]}
  <2>1. LevelFromString(str) = 0
    BY <1>2 DEF LevelFromString
  <2> QED BY <2>1
<1> QED BY <1>1, <1>2

\* What a definition is read as.
LEMMA LogDefineType ==
    ASSUME NEW n \in Nodes, IsDefined(n, "name") PROVE LogDefine(n) \in Defines
<1>1. /\ Get(n, "name") \in Strings
      /\ LevelFromString(Field(n, "level")) \in 0..5
      /\ Field(n, "formatter") \in Strings
  BY FieldType, LevelType DEF Keywords
<1>2. PICK app : app = IF ~IsDefined(n, "appenders") THEN <<>>
                       ELSE AppenderDefines(Items(AppendersNode(n)))
  OBVIOUS
<1>3. app \in AppenderSeq
  <2>1. CASE ~IsDefined(n, "appenders")
    BY <1>2, <2>1 DEF AppenderSeq
  <2>2. CASE IsDefined(n, "appenders")
    <3>1. PICK items : items = Items(AppendersNode(n))
      OBVIOUS
    <3>2. items \in NodeSeq
      BY <2>2, <3>1, AppendersNodeType, ItemsType DEF AnyNode
    <3>3. Len(items) \in Nat /\ \A k \in 1..Len(items) : items[k] \in Nodes
      BY <3>2, NodeSeqIs
    <3>4. \A k \in 1..Len(items) :
              ValidAppender(items[k]) => AppenderDefine(items[k]) \in AppenderDefs
      BY <3>3, AppenderDefineType
    <3>5. AppenderDefines(items) \in Seq(AppenderDefs)
      BY <3>3, <3>4, AppenderDefinesType
    <3> QED BY <1>2, <2>2, <3>1, <3>5 DEF AppenderSeq
  <2> QED BY <2>1, <2>2
<1>4. LogDefine(n) = [name |-> Get(n, "name"), level |-> LevelFromString(Field(n, "level")),
                      formatter |-> Field(n, "formatter"), appenders |-> app]
  BY <1>2 DEF LogDefine
<1> QED BY <1>1, <1>3, <1>4 DEF Defines

\* What a list of definitions is read as: each name once.
LEMMA LogsType ==
    ASSUME NEW t \in AnyNode, AsLogDefines(t) # Throws PROVE IsDefines(AsLogDefines(t))
<1>1. PICK items : items = Items(Load(t))
  OBVIOUS
<1>2. items \in NodeSeq
  BY <1>1, LoadType, ItemsType
<1>3. PICK n \in Nat : n = Len(items)
  BY <1>2, NodeSeqIs
<1>4. DOMAIN items = 1..n /\ \A k \in 1..n : items[k] \in Nodes
  BY <1>2, <1>3, NodeSeqIs
<1>5. AsLogDefines(t) = {LogDefine(items[k]) : k \in Defining(items)}
  BY <1>1, <1>3, <1>4, LogDefinesIs DEF AsLogDefines
<1>6. \A k \in Defining(items) : k \in 1..n /\ IsDefined(items[k], "name")
  BY <1>4 DEF Defining
<1>7. AsLogDefines(t) \subseteq Defines
  BY <1>4, <1>5, <1>6, LogDefineType
<1>8. ASSUME NEW d \in AsLogDefines(t), NEW e \in AsLogDefines(t), d.name = e.name PROVE d = e
  <2>1. PICK j \in Defining(items) : d = LogDefine(items[j])
    BY <1>5
  <2>2. PICK k \in Defining(items) : e = LogDefine(items[k])
    BY <1>5
  <2>3. NameOf(items, j) = NameOf(items, k)
    BY <1>8, <2>1, <2>2, LogDefineName DEF NameOf
  <2>4. j = k
    BY <1>4, <2>3, DefiningOnce
  <2> QED BY <2>1, <2>2, <2>4
<1>9. IsFiniteSet(AsLogDefines(t))
  <2>1. PICK f : f = [k \in 1..n |-> LogDefine(items[k])]
    OBVIOUS
  <2>2. IsFiniteSet({f[k] : k \in 1..n})
    BY <2>1, RangeFinite
  <2>3. AsLogDefines(t) \subseteq {f[k] : k \in 1..n}
    BY <1>5, <1>6, <2>1
  <2> QED BY <2>2, <2>3, FS_Subset
<1> QED BY <1>7, <1>8, <1>9 DEF IsDefines

-----------------------------------------------------------------------------

\* What pairs have for a key: one value, or none.
One(R, key, x) == <<<<key>>, x>> \in R /\ \A p \in R : p[1] = <<key>> => p[2] = x
None(R, key) == \A p \in R : p[1] # <<key>>

\* A key that is there once is found.
LEMMA OneIs ==
    ASSUME NEW n, NEW key, NEW x, One(Range(Pairs(n)), key, x)
    PROVE  /\ IsDefined(n, key)
           /\ (CHOOSE p \in Range(Pairs(n)) : p[1] = <<key>>)[2] = x
<1>1. PICK p : p = CHOOSE q \in Range(Pairs(n)) : q[1] = <<key>>
  OBVIOUS
<1>2. <<<<key>>, x>>[1] = <<key>>
  OBVIOUS
<1>3. p \in Range(Pairs(n)) /\ p[1] = <<key>>
  BY <1>1, <1>2 DEF One
<1>4. p[2] = x
  BY <1>3 DEF One
<1> QED BY <1>1, <1>3, <1>4 DEF IsDefined

\* So is the text of its scalar.
LEMMA OneText ==
    ASSUME NEW n, NEW key, NEW t, One(Range(Pairs(n)), key, Scalar(t))
    PROVE  IsDefined(n, key) /\ Get(n, key) = t /\ Field(n, key) = t
<1>1. Get(n, key) = Scalar(t).text
  BY OneIs DEF Get
<1> QED BY <1>1, OneIs, KindIs DEF Field

\* A key that is not there is not defined.
LEMMA NoneIs ==
    ASSUME NEW n, NEW key, None(Range(Pairs(n)), key)
    PROVE  ~IsDefined(n, key) /\ Field(n, key) = ""
BY DEF None, IsDefined, Field

\* A pair that may be there.
Opt(written, key, x) == IF written THEN {<<<<key>>, x>>} ELSE {}

\* A pair that may be there has one key.
LEMMA OptKeys ==
    ASSUME NEW w, NEW key, NEW x
    PROVE  /\ w => One(Opt(w, key, x), key, x)
           /\ ~w => None(Opt(w, key, x), key)
           /\ \A other : other # key => None(Opt(w, key, x), other)
<1>1. \A p \in Opt(w, key, x) : p[1] = <<key>> /\ p[2] = x
  BY DEF Opt
<1>2. \A other : other # key => <<other>> # <<key>>
  OBVIOUS
<1>3. w => <<<<key>>, x>> \in Opt(w, key, x)
  BY DEF Opt
<1>4. ~w => Opt(w, key, x) = {}
  BY DEF Opt
<1> HIDE DEF Opt
<1> QED BY <1>1, <1>2, <1>3, <1>4 DEF One, None

\* Keys of two sets of pairs.
LEMMA UnionKeys ==
    ASSUME NEW R, NEW Q, NEW key, NEW x
    PROVE  /\ One(R, key, x) /\ None(Q, key) => One(R \cup Q, key, x)
           /\ None(R, key) /\ One(Q, key, x) => One(R \cup Q, key, x)
           /\ None(R, key) /\ None(Q, key) => None(R \cup Q, key)
BY DEF One, None

\* Pair() makes such a pair.
LEMMA PairIs ==
    ASSUME NEW S, NEW w, NEW key, NEW t, <<<<key>>, Scalar(t)>> \in S
    PROVE  Pair(w, key, t) \in Seq(S) /\ Range(Pair(w, key, t)) = Opt(w, key, Scalar(t))
<1>1. CASE w
  <2>1. PICK p : p = <<<<key>>, Scalar(t)>>
    OBVIOUS
  <2>2. Pair(w, key, t) = <<p>> /\ Opt(w, key, Scalar(t)) = {p} /\ p \in S
    BY <1>1, <2>1 DEF Pair, Opt
  <2>3. <<p>> \in Seq(S) /\ Range(<<p>>) = {p}
    BY <2>2 DEF Range
  <2> QED BY <2>2, <2>3
<1>2. CASE ~w
  <2>1. Pair(w, key, t) = <<>> /\ Opt(w, key, Scalar(t)) = {}
    BY <1>2 DEF Pair, Opt
  <2>2. <<>> \in Seq(S) /\ Range(<<>>) = {}
    BY DEF Range
  <2> QED BY <2>1, <2>2
<1> QED BY <1>1, <1>2

\* The elements of four sequences one behind the other.
LEMMA Range4 ==
    ASSUME NEW S, NEW a \in Seq(S), NEW b \in Seq(S), NEW c \in Seq(S), NEW d \in Seq(S)
    PROVE  Range(a \o b \o c \o d) = ((Range(a) \cup Range(b)) \cup Range(c)) \cup Range(d)
<1>1. PICK ab : ab = a \o b
  OBVIOUS
<1>2. ab \in Seq(S) /\ Range(ab) = Range(a) \cup Range(b)
  BY <1>1, ConcatProperties, RangeConcatenation
<1>3. PICK abc : abc = ab \o c
  OBVIOUS
<1>4. abc \in Seq(S) /\ Range(abc) = Range(ab) \cup Range(c)
  BY <1>2, <1>3, ConcatProperties, RangeConcatenation
<1>5. Range(abc \o d) = Range(abc) \cup Range(d)
  BY <1>4, RangeConcatenation
<1> QED BY <1>1, <1>2, <1>3, <1>4, <1>5

\* Four pairs that may be there, each with a key of its own.
Four(w1, k1, x1, w2, k2, x2, w3, k3, x3, w4, k4, x4) ==
    ((Opt(w1, k1, x1) \cup Opt(w2, k2, x2)) \cup Opt(w3, k3, x3)) \cup Opt(w4, k4, x4)

\* Four pairs that may be there, with four keys.
LEMMA FourKeys ==
    ASSUME NEW w1, NEW k1, NEW x1, NEW w2, NEW k2, NEW x2,
           NEW w3, NEW k3, NEW x3, NEW w4, NEW k4, NEW x4,
           k1 # k2, k1 # k3, k1 # k4, k2 # k3, k2 # k4, k3 # k4,
           NEW R, R = Four(w1, k1, x1, w2, k2, x2, w3, k3, x3, w4, k4, x4)
    PROVE  /\ w1 => One(R, k1, x1)
           /\ ~w1 => None(R, k1)
           /\ w2 => One(R, k2, x2)
           /\ ~w2 => None(R, k2)
           /\ w3 => One(R, k3, x3)
           /\ ~w3 => None(R, k3)
           /\ w4 => One(R, k4, x4)
           /\ ~w4 => None(R, k4)
<1>1. PICK R1 : R1 = Opt(w1, k1, x1)
  OBVIOUS
<1>2. PICK R2 : R2 = Opt(w2, k2, x2)
  OBVIOUS
<1>3. PICK R3 : R3 = Opt(w3, k3, x3)
  OBVIOUS
<1>4. PICK R4 : R4 = Opt(w4, k4, x4)
  OBVIOUS
<1>5. R = ((R1 \cup R2) \cup R3) \cup R4
  BY <1>1, <1>2, <1>3, <1>4 DEF Four
<1>6. /\ w1 => One(R1, k1, x1)
      /\ ~w1 => None(R1, k1)
      /\ None(R1, k2) /\ None(R1, k3) /\ None(R1, k4)
  BY <1>1, OptKeys
<1>7. /\ w2 => One(R2, k2, x2)
      /\ ~w2 => None(R2, k2)
      /\ None(R2, k1) /\ None(R2, k3) /\ None(R2, k4)
  BY <1>2, OptKeys
<1>8. /\ w3 => One(R3, k3, x3)
      /\ ~w3 => None(R3, k3)
      /\ None(R3, k1) /\ None(R3, k2) /\ None(R3, k4)
  BY <1>3, OptKeys
<1>9. /\ w4 => One(R4, k4, x4)
      /\ ~w4 => None(R4, k4)
      /\ None(R4, k1) /\ None(R4, k2) /\ None(R4, k3)
  BY <1>4, OptKeys
<1>10. PICK P : P = R1 \cup R2
  OBVIOUS
<1>11. /\ w1 => One(P, k1, x1)
       /\ ~w1 => None(P, k1)
       /\ w2 => One(P, k2, x2)
       /\ ~w2 => None(P, k2)
       /\ None(P, k3) /\ None(P, k4)
  BY <1>6, <1>7, <1>10, UnionKeys
<1>12. PICK Q : Q = P \cup R3
  OBVIOUS
<1>13. /\ w1 => One(Q, k1, x1)
       /\ ~w1 => None(Q, k1)
       /\ w2 => One(Q, k2, x2)
       /\ ~w2 => None(Q, k2)
       /\ w3 => One(Q, k3, x3)
       /\ ~w3 => None(Q, k3)
       /\ None(Q, k4)
  BY <1>8, <1>11, <1>12, UnionKeys
<1>14. R = Q \cup R4
  BY <1>5, <1>10, <1>12
<1> QED BY <1>9, <1>13, <1>14, UnionKeys

\* Three pairs and what may be behind them, as a sequence and as a set.
LEMMA FourPairs ==
    ASSUME NEW w1, NEW k1, NEW t1, NEW w2, NEW k2, NEW t2, NEW w3, NEW k3, NEW t3,
           NEW w4, NEW k4, NEW x4, NEW q,
           q = IF w4 THEN <<<<<<k4>>, x4>>>> ELSE <<>>
    PROVE  Range(Pair(w1, k1, t1) \o Pair(w2, k2, t2) \o Pair(w3, k3, t3) \o q) =
             Four(w1, k1, Scalar(t1), w2, k2, Scalar(t2), w3, k3, Scalar(t3), w4, k4, x4)
<1>1. PICK S : S = {<<<<k1>>, Scalar(t1)>>, <<<<k2>>, Scalar(t2)>>, <<<<k3>>, Scalar(t3)>>,
                    <<<<k4>>, x4>>}
  OBVIOUS
<1>2. /\ <<<<k1>>, Scalar(t1)>> \in S /\ <<<<k2>>, Scalar(t2)>> \in S
      /\ <<<<k3>>, Scalar(t3)>> \in S /\ <<<<k4>>, x4>> \in S
  BY <1>1
<1>3. Pair(w1, k1, t1) \in Seq(S) /\ Range(Pair(w1, k1, t1)) = Opt(w1, k1, Scalar(t1))
  BY <1>2, PairIs
<1>4. Pair(w2, k2, t2) \in Seq(S) /\ Range(Pair(w2, k2, t2)) = Opt(w2, k2, Scalar(t2))
  BY <1>2, PairIs
<1>5. Pair(w3, k3, t3) \in Seq(S) /\ Range(Pair(w3, k3, t3)) = Opt(w3, k3, Scalar(t3))
  BY <1>2, PairIs
<1>6. q \in Seq(S) /\ Range(q) = Opt(w4, k4, x4)
  <2>1. PICK p : p = <<<<k4>>, x4>>
    OBVIOUS
  <2>2. <<p>> \in Seq(S) /\ Range(<<p>>) = {p} /\ <<>> \in Seq(S) /\ Range(<<>>) = {}
    BY <1>2, <2>1 DEF Range
  <2> QED BY <2>1, <2>2 DEF Opt
<1>7. PICK p1, p2, p3 :
        p1 = Pair(w1, k1, t1) /\ p2 = Pair(w2, k2, t2) /\ p3 = Pair(w3, k3, t3)
  OBVIOUS
<1>8. p1 \in Seq(S) /\ p2 \in Seq(S) /\ p3 \in Seq(S)
  BY <1>3, <1>4, <1>5, <1>7
<1>9. Range(p1 \o p2 \o p3 \o q) = ((Range(p1) \cup Range(p2)) \cup Range(p3)) \cup Range(q)
  <2>1. p1 \in Seq(S) /\ p2 \in Seq(S) /\ p3 \in Seq(S) /\ q \in Seq(S)
    BY <1>6, <1>8
  <2> QED BY ONLY <2>1, Range4
<1> QED BY <1>3, <1>4, <1>5, <1>6, <1>7, <1>9 DEF Four

TypeName(a) == IF a.type = 1 THEN "FileLogAppender" ELSE "StdoutLogAppender"
LevelName(l) == IF l = 0 THEN "" ELSE LevelNames[l]

\* The fields that are written of an appender.
LEMMA AppenderKeys ==
    ASSUME NEW a, NEW R, R = Range(Pairs(AppenderNode(a)))
    PROVE  /\ One(R, "type", Scalar(TypeName(a)))
           /\ a.type = 1 => One(R, "file", Scalar(a.file))
           /\ a.formatter # "" => One(R, "formatter", Scalar(a.formatter))
           /\ a.formatter = "" => None(R, "formatter")
<1>1. PICK w1, w2, w3, w4 : /\ w1 = TRUE /\ w2 = (a.type = 1) /\ w3 = (a.level # 0)
                            /\ w4 = (a.formatter # "")
  OBVIOUS
<1>2. PICK q : q = Pair(w4, "formatter", a.formatter)
  OBVIOUS
<1>3. q = IF w4 THEN <<<<<<"formatter">>, Scalar(a.formatter)>>>> ELSE <<>>
  BY <1>2 DEF Pair
<1>4. Pairs(AppenderNode(a)) =
        Pair(w1, "type", TypeName(a)) \o Pair(w2, "file", a.file)
        \o Pair(w3, "level", LevelName(a.level)) \o q
  BY <1>1, <1>2, Spelled DEF AppenderNode, TypeName, LevelName
<1>5. R = Four(w1, "type", Scalar(TypeName(a)), w2, "file", Scalar(a.file),
               w3, "level", Scalar(LevelName(a.level)), w4, "formatter", Scalar(a.formatter))
  BY <1>3, <1>4, FourPairs
<1>6. /\ w1 => One(R, "type", Scalar(TypeName(a)))
      /\ w2 => One(R, "file", Scalar(a.file))
      /\ w4 => One(R, "formatter", Scalar(a.formatter))
      /\ ~w4 => None(R, "formatter")
  BY <1>5, FourKeys
<1> QED BY <1>1, <1>6

\* An appender that was read comes back from its node (log.cc:619-651, 682-697).
LEMMA AppenderTrip ==
    ASSUME NEW a \in AppenderDefs
    PROVE  ValidAppender(AppenderNode(a)) /\ AppenderDefine(AppenderNode(a)) = a
<1>1. PICK n : n = AppenderNode(a)
  OBVIOUS
<1>2. PICK R : R = Range(Pairs(n))
  OBVIOUS
<1>3. /\ One(R, "type", Scalar(TypeName(a)))
      /\ a.type = 1 => One(R, "file", Scalar(a.file))
      /\ a.formatter # "" => One(R, "formatter", Scalar(a.formatter))
      /\ a.formatter = "" => None(R, "formatter")
  BY <1>1, <1>2, AppenderKeys
<1>4. Get(n, "type") = TypeName(a) /\ IsDefined(n, "type")
  BY <1>2, <1>3, OneText
<1>5. Field(n, "formatter") = a.formatter
  BY <1>2, <1>3, OneText, NoneIs
<1>6. CASE a.type = 1
  <2>1. Get(n, "file") = a.file /\ IsDefined(n, "file")
    BY <1>2, <1>3, <1>6, OneText
  <2>2. Get(n, "type") = "FileLogAppender"
    BY <1>4, <1>6 DEF TypeName
  <2>3. a = [type |-> 1, level |-> 0, formatter |-> a.formatter, file |-> a.file]
    BY <1>6 DEF AppenderDefs
  <2> QED BY <1>1, <1>4, <1>5, <2>1, <2>2, <2>3 DEF ValidAppender, AppenderDefine
<1>7. CASE a.type # 1
  <2>1. Get(n, "type") = "StdoutLogAppender"
    BY <1>4, <1>7 DEF TypeName
  <2>2. a = [type |-> 2, level |-> 0, formatter |-> "", file |-> ""]
    BY <1>7 DEF AppenderDefs
  <2> QED BY <1>1, <1>4, <2>1, <2>2 DEF ValidAppender, AppenderDefine
<1> QED BY <1>6, <1>7

AppendersList(d) == List([k \in DOMAIN d.appenders |-> AppenderNode(d.appenders[k])])

\* The fields that are written of a definition.
LEMMA DefineKeys ==
    ASSUME NEW d, NEW R, R = Range(Pairs(LogDefineNode(d)))
    PROVE  /\ One(R, "name", Scalar(d.name))
           /\ d.level # 0 => One(R, "level", Scalar(LevelName(d.level)))
           /\ d.level = 0 => None(R, "level")
           /\ d.formatter # "" => One(R, "formatter", Scalar(d.formatter))
           /\ d.formatter = "" => None(R, "formatter")
           /\ d.appenders # <<>> => One(R, "appenders", AppendersList(d))
           /\ d.appenders = <<>> => None(R, "appenders")
<1>1. PICK w1, w2, w3, w4 : /\ w1 = TRUE /\ w2 = (d.level # 0) /\ w3 = (d.formatter # "")
                            /\ w4 = (d.appenders # <<>>)
  OBVIOUS
<1>2. PICK q : q = IF d.appenders = <<>> THEN <<>> ELSE <<<<<<"appenders">>, AppendersList(d)>>>>
  OBVIOUS
<1>3. q = IF w4 THEN <<<<<<"appenders">>, AppendersList(d)>>>> ELSE <<>>
  BY <1>1, <1>2
<1>4. Pairs(LogDefineNode(d)) =
        Pair(w1, "name", d.name) \o Pair(w2, "level", LevelName(d.level))
        \o Pair(w3, "formatter", d.formatter) \o q
  BY <1>1, <1>2, Spelled DEF LogDefineNode, LevelName, AppendersList
<1>5. R = Four(w1, "name", Scalar(d.name), w2, "level", Scalar(LevelName(d.level)),
               w3, "formatter", Scalar(d.formatter), w4, "appenders", AppendersList(d))
  BY <1>3, <1>4, FourPairs
<1>6. /\ w1 => One(R, "name", Scalar(d.name))
      /\ w2 => One(R, "level", Scalar(LevelName(d.level)))
      /\ ~w2 => None(R, "level")
      /\ w3 => One(R, "formatter", Scalar(d.formatter))
      /\ ~w3 => None(R, "formatter")
      /\ w4 => One(R, "appenders", AppendersList(d))
      /\ ~w4 => None(R, "appenders")
  BY <1>5, FourKeys
<1> QED BY <1>1, <1>6

\* A level comes back from its name, and UNKNOW from none.
LEMMA LevelTrip ==
    ASSUME NEW l \in 0..5 PROVE LevelFromString(LevelName(l)) = l
<1>1. CASE l = 0
  <2>1. ASSUME NEW m \in 1..5 PROVE "" \notin {LevelNames[m], lowerNames[m]}
    <3>1. m = 1 \/ m = 2 \/ m = 3 \/ m = 4 \/ m = 5
      OBVIOUS
    <3>2. "" \notin {LevelNames[1], lowerNames[1]}
      BY DEF LevelNames, lowerNames
    <3>3. "" \notin {LevelNames[2], lowerNames[2]}
      BY DEF LevelNames, lowerNames
    <3>4. "" \notin {LevelNames[3], lowerNames[3]}
      BY DEF LevelNames, lowerNames
    <3>5. "" \notin {LevelNames[4], lowerNames[4]}
      BY DEF LevelNames, lowerNames
    <3>6. "" \notin {LevelNames[5], lowerNames[5]}
      BY DEF LevelNames, lowerNames
    <3> QED BY ONLY <3>1, <3>2, <3>3, <3>4, <3>5, <3>6, Zenon
  <2>2. LevelName(l) = ""
    BY <1>1 DEF LevelName
  <2> QED BY <1>1, <2>1, <2>2, Zenon DEF LevelFromString
<1>2. CASE l # 0
  <2>1. l \in 1..5 /\ LevelName(l) = LevelNames[l]
    BY <1>2 DEF LevelName
  <2>2. \A m \in 1..5 : m # l => LevelNames[l] \notin {LevelNames[m], lowerNames[m]}
    BY <2>1 DEF LevelNames, lowerNames
  <2>3. PICK m : m = CHOOSE j \in 1..5 : LevelNames[l] \in {LevelNames[j], lowerNames[j]}
    OBVIOUS
  <2>4. m \in 1..5 /\ LevelNames[l] \in {LevelNames[m], lowerNames[m]}
    BY <2>1, <2>3
  <2>5. m = l
    BY <2>2, <2>4
  <2>6. LevelFromString(LevelNames[l]) = m
    BY <2>1, <2>3 DEF LevelFromString
  <2> QED BY <2>1, <2>5, <2>6
<1> QED BY <1>1, <1>2

\* The appenders of a logger are a sequence.
LEMMA AppenderSeqIs ==
    ASSUME NEW s \in AppenderSeq
    PROVE  /\ Len(s) \in Nat /\ DOMAIN s = 1..Len(s) /\ s = [k \in 1..Len(s) |-> s[k]]
           /\ \A k \in 1..Len(s) : s[k] \in AppenderDefs
BY DEF AppenderSeq

\* A definition that was read comes back from its node (log.cc:602-655, 668-699).
LEMMA DefineTrip ==
    ASSUME NEW d \in Defines
    PROVE  IsDefined(LogDefineNode(d), "name") /\ LogDefine(LogDefineNode(d)) = d
<1>1. PICK n : n = LogDefineNode(d)
  OBVIOUS
<1>2. PICK R : R = Range(Pairs(n))
  OBVIOUS
<1>3. /\ One(R, "name", Scalar(d.name))
      /\ d.level # 0 => One(R, "level", Scalar(LevelName(d.level)))
      /\ d.level = 0 => None(R, "level")
      /\ d.formatter # "" => One(R, "formatter", Scalar(d.formatter))
      /\ d.formatter = "" => None(R, "formatter")
      /\ d.appenders # <<>> => One(R, "appenders", AppendersList(d))
      /\ d.appenders = <<>> => None(R, "appenders")
  BY <1>1, <1>2, DefineKeys
<1>4. /\ d.level \in 0..5 /\ d.appenders \in AppenderSeq
      /\ d = [name |-> d.name, level |-> d.level, formatter |-> d.formatter,
              appenders |-> d.appenders]
  BY DEF Defines
<1>5. Get(n, "name") = d.name /\ IsDefined(n, "name")
  BY <1>2, <1>3, OneText
<1>6. Field(n, "level") = LevelName(d.level)
  <2>1. CASE d.level = 0
    BY <1>2, <1>3, <2>1, NoneIs DEF LevelName
  <2>2. CASE d.level # 0
    BY <1>2, <1>3, <2>2, OneText
  <2> QED BY <2>1, <2>2
<1>7. Field(n, "formatter") = d.formatter
  BY <1>2, <1>3, OneText, NoneIs
<1>8. (IF ~IsDefined(n, "appenders") THEN <<>> ELSE AppenderDefines(Items(AppendersNode(n))))
        = d.appenders
  <2>1. CASE d.appenders = <<>>
    BY <1>2, <1>3, <2>1, NoneIs
  <2>2. CASE d.appenders # <<>>
    <3>1. IsDefined(n, "appenders") /\ AppendersNode(n) = AppendersList(d)
      BY <1>2, <1>3, <2>2, OneIs DEF AppendersNode
    <3>2. PICK s : s = d.appenders
      OBVIOUS
    <3>3. PICK m \in Nat : m = Len(s)
      BY <1>4, <3>2, AppenderSeqIs
    <3>4. DOMAIN s = 1..m /\ s = [k \in 1..m |-> s[k]] /\ \A k \in 1..m : s[k] \in AppenderDefs
      BY <1>4, <3>2, <3>3, AppenderSeqIs
    <3>5. PICK items : items = [k \in 1..m |-> AppenderNode(s[k])]
      OBVIOUS
    <3>6. Items(AppendersNode(n)) = items
      BY <3>1, <3>2, <3>4, <3>5, Spelled DEF AppendersList
    <3>7. Len(items) = m /\ \A k \in 1..m : items[k] = AppenderNode(s[k])
      BY <3>5
    <3>8. \A k \in 1..m : ValidAppender(items[k]) /\ AppenderDefine(items[k]) = s[k]
      BY <3>4, <3>7, AppenderTrip
    <3>9. AppenderDefines(items) = [k \in 1..m |-> AppenderDefine(items[k])]
      BY <3>7, <3>8, AppenderDefinesAll
    <3>10. AppenderDefines(items) = s
      BY <3>4, <3>8, <3>9
    <3> QED BY <3>1, <3>2, <3>6, <3>10
  <2> QED BY <2>1, <2>2
<1>9. LevelFromString(Field(n, "level")) = d.level
  BY <1>4, <1>6, LevelTrip
<1> QED BY <1>1, <1>4, <1>5, <1>7, <1>8, <1>9 DEF LogDefine

\* A definition is written as a map, and so are its appenders.
LEMMA DefineIsMap == ASSUME NEW d \in Defines PROVE ~BadSubscript(LogDefineNode(d))
<1>1. \E p : LogDefineNode(d) = Map(p)
  BY Zenon DEF LogDefineNode
<1>2. LogDefineNode(d).kind = "map"
  BY <1>1, KindIs
<1>3. PICK n : n = LogDefineNode(d)
  OBVIOUS
<1>4. PICK R : R = Range(Pairs(n))
  OBVIOUS
<1>5. /\ d.appenders # <<>> => One(R, "appenders", AppendersList(d))
      /\ d.appenders = <<>> => None(R, "appenders")
  BY <1>3, <1>4, DefineKeys
<1>6. ASSUME IsDefined(n, "appenders"), NEW a \in Range(Items(AppendersNode(n)))
      PROVE  a.kind = "map"
  <2>1. d.appenders # <<>>
    BY <1>4, <1>5, <1>6, NoneIs
  <2>2. AppendersNode(n) = AppendersList(d)
    BY <1>4, <1>5, <2>1, OneIs DEF AppendersNode
  <2>3. PICK s : s = d.appenders
    OBVIOUS
  <2>4. Items(AppendersNode(n)) = [k \in DOMAIN s |-> AppenderNode(s[k])]
    BY <2>2, <2>3, Spelled DEF AppendersList
  <2>5. PICK k \in DOMAIN s : a = AppenderNode(s[k])
    BY <1>6, <2>4 DEF Range
  <2>6. \E p : AppenderNode(s[k]) = Map(p)
    BY Zenon DEF AppenderNode
  <2> QED BY <2>5, <2>6, KindIs
<1> QED BY <1>2, <1>3, <1>6 DEF BadSubscript

\* Definitions come back from their text, in whatever order they are written.
LEMMA LogsTrip ==
    ASSUME NEW x, IsDefines(x) PROVE AsLogDefines(LogDefinesToText(x)) = x
<1>0. /\ IsFiniteSet(x) /\ \A d \in x : d \in Defines
      /\ \A d, e \in x : d.name = e.name => d = e
  BY DEF IsDefines
<1>1. PICK s : s = SetToSeq(x)
  OBVIOUS
<1>2. Lists(s, x)
  BY <1>0, <1>1, SetToSeqLists
<1>3. PICK n \in Nat : n = Cardinality(x)
  BY <1>2 DEF Lists
<1>4. /\ DOMAIN s = 1..n /\ \A k \in 1..n : s[k] \in x
      /\ \A j, k \in 1..n : s[j] = s[k] => j = k
      /\ \A d \in x : \E k \in 1..n : s[k] = d
  BY <1>2, <1>3 DEF Lists
<1>5. PICK items : items = [k \in 1..n |-> LogDefineNode(s[k])]
  OBVIOUS
<1>6. Items(Load(LogDefinesToText(x))) = items
  <2>1. LogDefinesToText(x) = Sequence(items)
    BY <1>1, <1>4, <1>5 DEF LogDefinesToText
  <2> QED BY <2>1, SequenceRead
<1>7. Len(items) = n /\ DOMAIN items = 1..n /\ \A k \in 1..n : items[k] = LogDefineNode(s[k])
  BY <1>5
<1>8. \A m \in Range(items) : ~BadSubscript(m)
  <2>1. \A k \in 1..n : ~BadSubscript(items[k])
    BY <1>0, <1>4, <1>7, DefineIsMap
  <2> QED BY <1>7, <2>1 DEF Range
<1>9. AsLogDefines(LogDefinesToText(x)) = {LogDefine(items[k]) : k \in Defining(items)}
  BY <1>6, <1>7, <1>8, LogDefinesIs DEF AsLogDefines
<1>10. \A k \in 1..n : /\ IsDefined(items[k], "name") /\ LogDefine(items[k]) = s[k]
                       /\ Get(items[k], "name") = s[k].name
  BY <1>0, <1>4, <1>7, DefineTrip, LogDefineName
<1>11. ASSUME NEW k \in 1..n PROVE k \in Defining(items)
  <2>1. ASSUME NEW j \in 1..k - 1 PROVE NameOf(items, j) # NameOf(items, k)
    <3>1. j \in 1..n /\ j # k
      OBVIOUS
    <3>2. s[j] # s[k]
      BY <1>4, <3>1
    <3>3. s[j].name # s[k].name
      BY <1>0, <1>4, <3>1, <3>2
    <3> QED BY <1>10, <3>1, <3>3 DEF NameOf
  <2> QED BY <1>7, <1>10, <2>1, DefiningIs DEF Named
<1>12. Defining(items) = 1..n
  BY <1>7, <1>11 DEF Defining
<1>13. \A d : d \in AsLogDefines(LogDefinesToText(x)) <=> \E k \in 1..n : d = s[k]
  BY <1>9, <1>10, <1>12
<1>14. \A d : d \in AsLogDefines(LogDefinesToText(x)) <=> d \in x
  BY <1>4, <1>13
<1> QED BY <1>14

-----------------------------------------------------------------------------

\* A vector of texts.
IsVector(x) == \E n \in Nat : DOMAIN x = 1..n /\ \A k \in 1..n : x[k] \in AnyNode

\* What the type of a variable says of its value.
IsValue(v, x) ==
    /\ v = system => IsMap(x)
    /\ v = port => x \in Range(Ints)
    /\ v = vec => IsVector(x)
    /\ v = set => IsFiniteSet(x) /\ x \subseteq Range(Ints)
    /\ v = logs => IsDefines(x)

\* Five variables.
LEMMA VarsDiffer ==
    /\ system # port /\ system # vec /\ system # set /\ system # logs
    /\ port # vec /\ port # set /\ port # logs
    /\ vec # set /\ vec # logs /\ set # logs
BY DEF system, port, vec, set, logs

\* The casts of each.
LEMMA CastsAre ==
    /\ \A t : FromStr(system, t) = AsMap(t, "int")
    /\ \A t : FromStr(port, t) = AsInt(t)
    /\ \A t : FromStr(vec, t) = AsVector(t, "string")
    /\ \A t : FromStr(set, t) = AsSet(t, "int")
    /\ \A t : FromStr(logs, t) = AsLogDefines(t)
    /\ \A x : ToStr(system, x) = MapToText(x, "int")
    /\ \A x : ToStr(port, x) = IntToText(x)
    /\ \A x : ToStr(vec, x) = VectorToText(x, "string")
    /\ \A x : ToStr(set, x) = SetToText(x)
    /\ \A x : ToStr(logs, x) = LogDefinesToText(x)
BY VarsDiffer, Zenon DEF FromStr, ToStr

\* A vector that was read is a vector of texts.
LEMMA WrittenIs == ASSUME NEW x, Written(x) PROVE IsVector(x)
<1>1. PICK n \in Nat : \E s \in [1..n -> AnyNode] : x = [k \in 1..n |-> Emit(s[k])]
  BY DEF Written
<1>2. PICK s \in [1..n -> AnyNode] : x = [k \in 1..n |-> Emit(s[k])]
  BY <1>1
<1>3. DOMAIN x = 1..n
  BY <1>2
<1>4. ASSUME NEW k \in 1..n PROVE x[k] \in AnyNode
  <2>1. s[k] \in AnyNode /\ x[k] = Emit(s[k])
    BY <1>2
  <2> QED BY <2>1, LoadType
<1> QED BY <1>3, <1>4 DEF IsVector

\* from_string() gives a value of the type, or throws.
LEMMA CastType ==
    ASSUME NEW v \in Vars, NEW t \in AnyNode, FromStr(v, t) # Throws
    PROVE  IsValue(v, FromStr(v, t)) /\ (v = vec => Written(FromStr(v, t)))
<1>1. CASE v = system
  BY <1>1, CastsAre, MapType, VarsDiffer DEF IsValue
<1>2. CASE v = port
  BY <1>2, CastsAre, AsIntType, VarsDiffer DEF IsValue
<1>3. CASE v = vec
  BY <1>3, CastsAre, VectorWritten, WrittenIs, VarsDiffer DEF IsValue
<1>4. CASE v = set
  BY <1>4, CastsAre, SetType, VarsDiffer DEF IsValue
<1>5. CASE v = logs
  BY <1>5, CastsAre, LogsType, VarsDiffer DEF IsValue
<1> QED BY <1>1, <1>2, <1>3, <1>4, <1>5 DEF Vars

\* A value comes back from its own text, and one of vec does if it was read from a text.
LEMMA Trip ==
    ASSUME NEW v \in Vars, NEW x, IsValue(v, x), v = vec => Written(x)
    PROVE  FromStr(v, ToStr(v, x)) = x
<1>1. CASE v = system
  BY <1>1, CastsAre, MapTrip DEF IsValue
<1>2. CASE v = port
  BY <1>2, CastsAre, IntTrip DEF IsValue
<1>3. CASE v = vec
  BY <1>3, CastsAre, WrittenTrip
<1>4. CASE v = set
  BY <1>4, CastsAre, SetTrip DEF IsValue
<1>5. CASE v = logs
  BY <1>5, CastsAre, LogsTrip DEF IsValue
<1> QED BY <1>1, <1>2, <1>3, <1>4, <1>5 DEF Vars

\* Any vector has gone through its text once after that.
LEMMA TripOfVector ==
    ASSUME NEW x, IsVector(x) PROVE Written(FromStr(vec, ToStr(vec, x)))
<1>1. PICK n \in Nat : DOMAIN x = 1..n /\ \A k \in 1..n : x[k] \in AnyNode
  BY DEF IsVector
<1> QED BY <1>1, CastsAre, VectorOnceTrip

-----------------------------------------------------------------------------
\* The calls of list_all_menmber(), and what they list.
Calls == Names \X Nodes
CallSeq == Seq(Calls)

\* Sequences of calls, or of listed nodes.
LEMMA CallSeqIs ==
    ASSUME NEW s \in CallSeq
    PROVE  /\ Len(s) \in Nat /\ DOMAIN s = 1..Len(s)
           /\ \A k \in 1..Len(s) : s[k] \in Calls
           /\ \A c : c \in Range(s) <=> \E k \in 1..Len(s) : c = s[k]
BY DEF CallSeq, Range

\* None.
LEMMA CallSeqEmpty == <<>> \in CallSeq /\ Len(<<>>) = 0 /\ Range(<<>>) = {}
BY DEF CallSeq, Range

\* One.
LEMMA CallSeqOne == ASSUME NEW c \in Calls PROVE <<c>> \in CallSeq
BY DEF CallSeq

\* One more.
LEMMA CallSeqAppend ==
    ASSUME NEW s \in CallSeq, NEW c \in Calls
    PROVE  /\ Append(s, c) \in CallSeq /\ Len(Append(s, c)) = Len(s) + 1
           /\ Range(Append(s, c)) = Range(s) \cup {c}
<1>1. Append(s, c) \in CallSeq /\ Len(Append(s, c)) = Len(s) + 1
  BY DEF CallSeq
<1>2. /\ Append(s, c)[Len(s) + 1] = c
      /\ \A k \in 1..Len(s) : Append(s, c)[k] = s[k]
  BY DEF CallSeq
<1>3. PICK n \in Nat : n = Len(s)
  BY CallSeqIs
<1>4. PICK a : a = Append(s, c)
  OBVIOUS
<1>5. \A x : x \in Range(a) <=> \E k \in 1..n + 1 : x = a[k]
  <2>1. a \in CallSeq /\ Len(a) = n + 1
    BY <1>1, <1>3, <1>4
  <2> QED BY <2>1, CallSeqIs
<1>6. \A x : x \in Range(s) <=> \E k \in 1..n : x = s[k]
  BY <1>3, CallSeqIs
<1>7. a[n + 1] = c /\ \A k \in 1..n : a[k] = s[k]
  BY <1>2, <1>3, <1>4
<1>8. \A x : x \in Range(a) <=> x \in Range(s) \/ x = c
  BY <1>5, <1>6, <1>7
<1> QED BY <1>1, <1>4, <1>8

\* One sequence before another.
LEMMA CallSeqJoin ==
    ASSUME NEW s \in CallSeq, NEW t \in CallSeq
    PROVE  s \o t \in CallSeq /\ Range(s \o t) = Range(s) \cup Range(t)
<1>1. PICK a : a = s \o t
  OBVIOUS
<1>2. PICK m \in Nat : m = Len(s)
  BY CallSeqIs
<1>3. PICK n \in Nat : n = Len(t)
  BY CallSeqIs
<1>4. a \in CallSeq /\ Len(a) = m + n
  BY <1>1, <1>2, <1>3 DEF CallSeq
<1>5. \A k \in 1..m + n : a[k] = IF k <= m THEN s[k] ELSE t[k - m]
  BY <1>1, <1>2, <1>3 DEF CallSeq
<1>6. \A x : x \in Range(a) <=> \E k \in 1..m + n : x = a[k]
  BY <1>4, CallSeqIs
<1>7. \A x : x \in Range(s) <=> \E k \in 1..m : x = s[k]
  BY <1>2, CallSeqIs
<1>8. \A x : x \in Range(t) <=> \E k \in 1..n : x = t[k]
  BY <1>3, CallSeqIs
<1>9. \A k \in 1..m : k \in 1..m + n /\ a[k] = s[k]
  BY <1>5
<1>10. \A k \in 1..n : m + k \in 1..m + n /\ a[m + k] = t[k]
  BY <1>5
<1>11. \A k \in 1..m + n : (k \in 1..m /\ a[k] = s[k]) \/ (k - m \in 1..n /\ a[k] = t[k - m])
  BY <1>5
<1>12. \A x : x \in Range(a) <=> x \in Range(s) \/ x \in Range(t)
  BY <1>6, <1>7, <1>8, <1>9, <1>10, <1>11
<1> QED BY <1>1, <1>4, <1>12

\* The first of a sequence and the others.
LEMMA CallSeqHead ==
    ASSUME NEW s \in CallSeq, s # <<>>
    PROVE  /\ Head(s) \in Calls /\ Tail(s) \in CallSeq
           /\ Range(s) = {Head(s)} \cup Range(Tail(s))
<1>1. Head(s) \in Calls /\ Tail(s) \in CallSeq /\ s = <<Head(s)>> \o Tail(s)
  BY DEF CallSeq
<1>2. Range(<<Head(s)>>) = {Head(s)}
  BY DEF Range
<1>3. Range(<<Head(s)>> \o Tail(s)) = Range(<<Head(s)>>) \cup Range(Tail(s))
  BY <1>1, CallSeqOne, CallSeqJoin
<1> QED BY <1>1, <1>2, <1>3

-----------------------------------------------------------------------------

\* Values are of their types; a vector from a document was written by yaml-cpp.
ValueInv ==
    /\ m_val = [v \in Vars |-> m_val[v]]
    /\ \A v \in Vars : IsValue(v, m_val[v])
    /\ vec \in assigned => Written(m_val[vec])

\* The loop begins when all is listed.
ListInv ==
    /\ calls \in CallSeq /\ all_nodes \in CallSeq
    /\ at \in Nat /\ at >= 1 /\ at <= Len(all_nodes) + 1
    /\ Listed \/ at = 1

\* The nodes in a node that is listed are, or will be.
Closed ==
    \A c \in Range(all_nodes) : Range(Members(c)) \subseteq Range(all_nodes) \cup Range(calls)

\* The nodes for a variable that the loop has come past.
Passed(v) == {c \in Calls : \E k \in 1..at - 1 : c = all_nodes[k] /\ ToLower(c[1]) = v}

\* A variable has the value of the one node there was for it.
Settled ==
    \A v \in Vars : \A n \in Passed(v) :
        Passed(v) = {n} /\ FromStr(v, TextOf(n[2])) # Throws =>
            Equal(v, FromStr(v, TextOf(n[2])), m_val[v])

LexInv == ValueInv /\ ListInv /\ Closed /\ Settled

\* A call has a prefix and a node.
LEMMA CallsAre == ASSUME NEW c \in Calls PROVE c[1] \in Names /\ c[2] \in Nodes
BY DEF Calls

\* list_all_menmber() is called for every pair of a map.
LEMMA MembersType ==
    ASSUME NEW c \in Calls
    PROVE  /\ Members(c) \in CallSeq
           /\ \A q \in Range(Pairs(c[2])) : <<c[1] \o q[1], q[2]>> \in Range(Members(c))
<1>1. PICK p : p = Pairs(c[2])
  OBVIOUS
<1>2. p \in PairSeq
  BY <1>1, CallsAre, ItemsType DEF AnyNode
<1>3. PICK n \in Nat : n = Len(p)
  BY <1>2, PairSeqIs
<1>4. /\ DOMAIN p = 1..n /\ Range(p) = {p[k] : k \in 1..n}
      /\ \A k \in 1..n : p[k][1] \in Names /\ p[k][2] \in Nodes
  BY <1>2, <1>3, PairSeqIs
<1>5. PICK m : m = Members(c)
  OBVIOUS
<1>6. m = [k \in 1..n |-> <<c[1] \o p[k][1], p[k][2]>>]
  BY <1>1, <1>4, <1>5 DEF Members
<1>7. ASSUME NEW k \in 1..n PROVE <<c[1] \o p[k][1], p[k][2]>> \in Calls
  <2>1. PICK a \in Names, b \in Names : a = c[1] /\ b = p[k][1]
    BY <1>4, CallsAre
  <2>2. a \o b \in Names
    BY DEF Names
  <2> QED BY <1>4, <2>1, <2>2 DEF Calls
<1>8. m \in [1..n -> Calls]
  BY <1>6, <1>7
<1>9. m \in CallSeq
  BY <1>8 DEF CallSeq
<1>10. DOMAIN m = 1..n
  BY <1>6
<1>11. ASSUME NEW q \in Range(p) PROVE <<c[1] \o q[1], q[2]>> \in Range(m)
  <2>1. PICK k \in 1..n : q = p[k]
    BY <1>4
  <2>2. m[k] = <<c[1] \o q[1], q[2]>>
    BY <1>6, <2>1
  <2> QED BY <1>10, <2>2 DEF Range
<1> QED BY <1>1, <1>5, <1>9, <1>11

\* The values the variables begin with are of their types.
LEMMA InitLex == Init => LexInv
<1> SUFFICES ASSUME Init PROVE LexInv
  OBVIOUS
<1>1. m_val = Default /\ calls = <<>> /\ all_nodes = <<>> /\ at = 1 /\ assigned = {}
  BY DEF Init
<1>2. ValueInv
  <2>1. m_val = [v \in Vars |-> m_val[v]]
    BY <1>1, DefaultAssumption DEF DefaultAssumption
  <2>2. IsVector(Default[vec])
    <3>1. PICK x \in Seq(Scalars) : x = Default[vec]
      BY DefaultAssumption DEF DefaultAssumption
    <3>2. Len(x) \in Nat /\ DOMAIN x = 1..Len(x) /\ \A k \in 1..Len(x) : x[k] \in Scalars
      OBVIOUS
    <3> QED BY <3>1, <3>2 DEF IsVector, AnyNode
  <2>3. IsDefines(Default[logs])
    <3>1. IsDefines({})
      BY FS_EmptySet DEF IsDefines
    <3> QED BY <3>1, DefaultAssumption DEF DefaultAssumption
  <2>4. \A v \in Vars : IsValue(v, Default[v])
    BY <2>2, <2>3, DefaultAssumption DEF IsValue, DefaultAssumption
  <2> QED BY <1>1, <2>1, <2>4 DEF ValueInv
<1>3. ListInv
  BY <1>1, CallSeqEmpty DEF ListInv, Listed
<1>4. Closed
  BY <1>1, CallSeqEmpty DEF Closed
<1>5. Settled
  <2>1. \A v : Passed(v) = {}
    BY <1>1 DEF Passed
  <2> QED BY <2>1 DEF Settled
<1> QED BY <1>2, <1>3, <1>4, <1>5 DEF LexInv

\* operator== holds of a value and itself.
LEMMA EqualSame == \A v, x : Equal(v, x, x)
BY DEF Equal

\* Before the loop nothing has been handed over.
LEMMA PassedNone == ASSUME at = 1 PROVE \A v : Passed(v) = {}
BY DEF Passed

\* load_from_yaml() begins with an empty list.
LEMMA StepLoad ==
    ASSUME LexInv, NEW root \in Documents, LoadFromYaml(root) PROVE LexInv'
<1>1. /\ calls' = <<<<<<>>, root>>>> /\ all_nodes' = <<>> /\ at' = 1
      /\ m_val' = m_val /\ assigned' = assigned
  BY DEF LoadFromYaml
<1>2. ValueInv'
  BY <1>1 DEF LexInv, ValueInv
<1>3. calls' \in CallSeq
  <2>1. root \in Nodes /\ <<>> \in Names
    BY NodeAssumption DEF NodeAssumption, Names
  <2> QED BY <1>1, <2>1, CallSeqOne DEF Calls
<1>4. ListInv'
  BY <1>1, <1>3, CallSeqEmpty DEF ListInv
<1>5. Closed'
  BY <1>1, CallSeqEmpty DEF Closed
<1>6. Settled'
  <2>1. \A v : Passed(v)' = {}
    BY <1>1 DEF Passed
  <2> QED BY <2>1 DEF Settled
<1> QED BY <1>2, <1>4, <1>5, <1>6 DEF LexInv

\* A call of list_all_menmber() lists its node and leaves calls for those in it.
LEMMA StepList ==
    ASSUME LexInv, list_all_menmber PROVE LexInv'
<1>1. /\ calls # <<>> /\ m_val' = m_val /\ assigned' = assigned /\ at' = at
      /\ all_nodes' = Append(all_nodes, Head(calls))
      /\ calls' = Members(Head(calls)) \o Tail(calls)
  BY DEF list_all_menmber, Listed
<1>2. /\ calls \in CallSeq /\ all_nodes \in CallSeq /\ at = 1
  BY <1>1 DEF LexInv, ListInv, Listed
<1>3. PICK h : h = Head(calls)
  OBVIOUS
<1>4. h \in Calls /\ Tail(calls) \in CallSeq /\ Range(calls) = {h} \cup Range(Tail(calls))
  BY <1>1, <1>2, <1>3, CallSeqHead
<1>5. Members(h) \in CallSeq
  BY <1>4, MembersType
<1>6. calls' \in CallSeq /\ Range(calls') = Range(Members(h)) \cup Range(Tail(calls))
  BY <1>1, <1>3, <1>4, <1>5, CallSeqJoin
<1>7. /\ all_nodes' \in CallSeq /\ Len(all_nodes') = Len(all_nodes) + 1
      /\ Range(all_nodes') = Range(all_nodes) \cup {h}
  BY <1>1, <1>2, <1>3, <1>4, CallSeqAppend
<1>8. ValueInv'
  BY <1>1 DEF LexInv, ValueInv
<1>9. ListInv'
  <2>1. Len(all_nodes) \in Nat
    BY <1>2, CallSeqIs
  <2> QED BY <1>1, <1>2, <1>6, <1>7, <2>1 DEF ListInv
<1>10. Closed'
  <2>1. ASSUME NEW c \in Range(all_nodes')
        PROVE  Range(Members(c)) \subseteq Range(all_nodes') \cup Range(calls')
    <3>1. CASE c = h
      BY <1>6, <3>1
    <3>2. CASE c \in Range(all_nodes)
      <4>1. Range(Members(c)) \subseteq Range(all_nodes) \cup Range(calls)
        BY <3>2 DEF LexInv, Closed
      <4> QED BY <1>4, <1>6, <1>7, <4>1
    <3> QED BY <1>7, <2>1, <3>1, <3>2
  <2>2. \A c : Members(c)' = Members(c)
    BY DEF Members
  <2> QED BY <2>1, <2>2 DEF Closed
<1>11. Settled'
  <2>1. \A v : Passed(v)' = {}
    BY <1>1, <1>2 DEF Passed
  <2> QED BY <2>1 DEF Settled
<1> QED BY <1>8, <1>9, <1>10, <1>11 DEF LexInv

\* The loop goes on by one node.
LEMMA PassedNext ==
    ASSUME LexInv, Listed, ~Loaded, at' = at + 1, all_nodes' = all_nodes, calls' = calls
    PROVE  /\ ListInv' /\ Closed'
           /\ \A c : c = all_nodes[at] =>
                /\ c \in Calls
                /\ \A v : ToLower(c[1]) # v => Passed(v)' = Passed(v)
                /\ \A v : ToLower(c[1]) = v => c \in Passed(v)'
<1>1. PICK n \in Nat : n = Len(all_nodes)
  BY CallSeqIs DEF LexInv, ListInv
<1>2. at \in Nat /\ at >= 1 /\ at <= n
  BY <1>1 DEF LexInv, ListInv, Loaded
<1>3. ListInv'
  BY <1>1, <1>2 DEF LexInv, ListInv, Listed
<1>4. Closed'
  BY DEF LexInv, Closed, Members
<1>5. PICK c : c = all_nodes[at]
  OBVIOUS
<1>6. c \in Calls
  BY <1>1, <1>2, <1>5, CallSeqIs DEF LexInv, ListInv
<1>7. ASSUME NEW v, ToLower(c[1]) # v PROVE Passed(v)' = Passed(v)
  <2>1. ASSUME NEW x
        PROVE  (\E k \in 1..at + 1 - 1 : x = all_nodes[k] /\ ToLower(x[1]) = v)
                 <=> (\E k \in 1..at - 1 : x = all_nodes[k] /\ ToLower(x[1]) = v)
    <3>1. ASSUME NEW k \in 1..at + 1 - 1, x = all_nodes[k], ToLower(x[1]) = v PROVE k \in 1..at - 1
      <4>1. k # at
        BY <1>5, <1>7, <3>1
      <4> QED BY <1>2, <4>1
    <3>2. ASSUME NEW k \in 1..at - 1 PROVE k \in 1..at + 1 - 1
      BY <1>2
    <3> QED BY <3>1, <3>2
  <2>2. Passed(v)' = {x \in Calls : \E k \in 1..at + 1 - 1 : x = all_nodes[k] /\ ToLower(x[1]) = v}
    BY <1>2 DEF Passed
  <2>3. Passed(v) = {x \in Calls : \E k \in 1..at - 1 : x = all_nodes[k] /\ ToLower(x[1]) = v}
    BY DEF Passed
  <2> QED BY ONLY <2>1, <2>2, <2>3, Zenon
<1>8. ASSUME NEW v, ToLower(c[1]) = v PROVE c \in Passed(v)'
  <2>1. at \in 1..at + 1 - 1
    BY <1>2
  <2> QED BY <1>5, <1>6, <1>8, <2>1 DEF Passed
<1> QED BY <1>3, <1>4, <1>5, <1>6, <1>7, <1>8

\* A name that is no variable changes nothing.
LEMMA StepSkip ==
    ASSUME LexInv, SkipNode PROVE LexInv'
<1>1. PICK c : c = all_nodes[at]
  OBVIOUS
<1>2. /\ Listed /\ ~Loaded /\ at' = at + 1 /\ all_nodes' = all_nodes /\ calls' = calls
      /\ m_val' = m_val /\ assigned' = assigned /\ ToLower(c[1]) \notin Vars
  BY <1>1 DEF SkipNode
<1>3. /\ ListInv' /\ Closed'
      /\ \A v : ToLower(c[1]) # v => Passed(v)' = Passed(v)
  BY <1>1, <1>2, PassedNext
<1>4. ValueInv'
  BY <1>2 DEF LexInv, ValueInv
<1>5. Settled'
  <2>1. \A v \in Vars : Passed(v)' = Passed(v)
    BY <1>2, <1>3
  <2> QED BY <1>2, <2>1 DEF LexInv, Settled
<1> QED BY <1>3, <1>4, <1>5 DEF LexInv

\* from_string() is called with a text.
LEMMA CallText == ASSUME NEW c \in Calls PROVE TextOf(c[2]) \in AnyNode
<1>1. c[2] \in AnyNode
  BY CallsAre DEF AnyNode
<1> QED BY <1>1, LoadType

\* A variable takes the value of its node, keeps one that is equal, or the one it
\* had when the conversion throws.
LEMMA StepAssign ==
    ASSUME LexInv, AssignNode PROVE LexInv'
<1>1. PICK c : c = all_nodes[at]
  OBVIOUS
<1>2. PICK w : w = ToLower(c[1])
  OBVIOUS
<1>3. PICK text : text = TextOf(c[2])
  OBVIOUS
<1>4. PICK new : new = FromStr(w, text)
  OBVIOUS
<1>5. /\ Listed /\ ~Loaded /\ at' = at + 1 /\ all_nodes' = all_nodes /\ calls' = calls
      /\ w \in Vars
      /\ m_val' = [m_val EXCEPT ![w] = FromString(w, text)]
      /\ assigned' = IF new = Throws THEN assigned ELSE assigned \cup {w}
  BY <1>1, <1>2, <1>3, <1>4 DEF AssignNode
<1>6. /\ ListInv' /\ Closed' /\ c \in Calls
      /\ \A v : w # v => Passed(v)' = Passed(v)
      /\ c \in Passed(w)'
  BY <1>1, <1>2, <1>5, PassedNext
<1>7. PICK value : value = FromString(w, text)
  OBVIOUS
<1>8. /\ new = Throws => value = m_val[w]
      /\ new # Throws /\ Equal(w, new, m_val[w]) => value = m_val[w]
      /\ new # Throws /\ ~Equal(w, new, m_val[w]) => value = new
  BY <1>4, <1>7 DEF FromString
<1>9. /\ m_val' = [v \in Vars |-> m_val'[v]]
      /\ m_val'[w] = value
      /\ \A v \in Vars : v # w => m_val'[v] = m_val[v]
  BY <1>5, <1>7 DEF LexInv, ValueInv
<1>10. text \in AnyNode
  BY <1>3, <1>6, CallText
<1>11. new # Throws => IsValue(w, new) /\ (w = vec => Written(new))
  BY <1>4, <1>5, <1>10, CastType
<1>12. ValueInv'
  <2>1. ASSUME NEW v \in Vars PROVE IsValue(v, m_val'[v])
    <3>1. IsValue(v, m_val[v])
      BY DEF LexInv, ValueInv
    <3> QED BY <1>8, <1>9, <1>11, <3>1
  <2>2. ASSUME vec \in assigned' PROVE Written(m_val'[vec])
    <3>1. CASE w # vec
      <4>1. vec \in assigned
        BY <1>5, <2>2, <3>1
      <4>2. vec \in Vars
        BY DEF Vars
      <4> QED BY <1>9, <3>1, <4>1, <4>2 DEF LexInv, ValueInv
    <3>2. CASE w = vec /\ new = Throws
      BY <1>5, <1>8, <1>9, <2>2, <3>2 DEF LexInv, ValueInv
    <3>3. CASE w = vec /\ new # Throws
      <4>1. value = new
        <5>1. Equal(w, new, m_val[w]) => new = m_val[w]
          BY <3>3, VarsDiffer DEF Equal
        <5> QED BY <1>8, <3>3, <5>1
      <4> QED BY <1>9, <1>11, <3>3, <4>1
    <3> QED BY <3>1, <3>2, <3>3
  <2> QED BY <1>9, <2>1, <2>2 DEF ValueInv, IsValue
<1>13. Settled'
  <2>1. ASSUME NEW v \in Vars, v # w, NEW n \in Passed(v), Passed(v) = {n},
               FromStr(v, TextOf(n[2])) # Throws
        PROVE  Equal(v, FromStr(v, TextOf(n[2])), m_val'[v])
    BY <1>9, <2>1 DEF LexInv, Settled
  <2>2. ASSUME new # Throws PROVE Equal(w, new, m_val'[w])
    BY <1>8, <1>9, <2>2, EqualSame
  <2>3. ASSUME NEW v \in Vars, NEW n \in Passed(v)', Passed(v)' = {n},
               FromStr(v, TextOf(n[2])) # Throws
        PROVE  Equal(v, FromStr(v, TextOf(n[2])), m_val'[v])
    <3>1. CASE v # w
      BY <1>6, <2>1, <2>3, <3>1
    <3>2. CASE v = w
      <4>1. n = c
        BY <1>6, <2>3, <3>2
      <4> QED BY <1>3, <1>4, <2>2, <2>3, <3>2, <4>1
    <3> QED BY <3>1, <3>2
  <2> QED BY <2>3 DEF Settled
<1> QED BY <1>6, <1>12, <1>13 DEF LexInv

\* Every step.
LEMMA LexStep == LexInv /\ [Next]_vars => LexInv'
<1> SUFFICES ASSUME LexInv, [Next]_vars PROVE LexInv'
  OBVIOUS
<1>1. CASE \E root \in Documents : LoadFromYaml(root)
  BY <1>1, StepLoad
<1>2. CASE list_all_menmber
  BY <1>2, StepList
<1>3. CASE SkipNode
  BY <1>3, StepSkip
<1>4. CASE AssignNode
  BY <1>4, StepAssign
<1>5. CASE UNCHANGED vars
  <2>1. /\ m_val' = m_val /\ calls' = calls /\ all_nodes' = all_nodes /\ at' = at
        /\ assigned' = assigned
    BY <1>5 DEF vars
  <2>2. ValueInv'
    BY <2>1 DEF LexInv, ValueInv
  <2>3. ListInv'
    BY <2>1 DEF LexInv, ListInv, Listed
  <2>4. Closed'
    BY <2>1 DEF LexInv, Closed, Members
  <2>5. \A v : Passed(v)' = Passed(v)
    BY <2>1 DEF Passed
  <2>6. Settled'
    BY <2>1, <2>5 DEF LexInv, Settled
  <2> QED BY <2>2, <2>3, <2>4, <2>6 DEF LexInv
<1> QED BY <1>1, <1>2, <1>3, <1>4, <1>5 DEF Next

\* The invariant behind the three results: values of their types, a list that is
\* complete when the loop begins, and variables that have the value of the one node
\* there was for them (config.cc:16-51).
THEOREM LexInvHolds == Spec => []LexInv
BY InitLex, LexStep, PTL DEF Spec

-----------------------------------------------------------------------------
\* What the invariant says of the casts.
LEMMA RoundTripInv == LexInv => RoundTrip
<1> SUFFICES ASSUME LexInv PROVE RoundTrip
  OBVIOUS
<1>1. ASSUME NEW v \in Vars
      PROVE  /\ v \in assigned => Recast(v) = m_val[v]
             /\ FromStr(v, ToStr(v, Recast(v))) = Recast(v)
  <2>1. PICK x : x = m_val[v]
    OBVIOUS
  <2>2. PICK y : y = FromStr(v, ToStr(v, x))
    OBVIOUS
  <2>3. IsValue(v, x) /\ (v = vec /\ v \in assigned => Written(x))
    BY <2>1 DEF LexInv, ValueInv
  <2>4. v \in assigned => y = x
    BY <2>2, <2>3, Trip
  <2>5. FromStr(v, ToStr(v, y)) = y
    <3>1. CASE v = vec
      <4>1. IsVector(x)
        BY <2>3, <3>1 DEF IsValue
      <4>2. Written(y)
        BY <2>2, <3>1, <4>1, TripOfVector
      <4>3. IsValue(v, y)
        BY <3>1, <4>2, WrittenIs, VarsDiffer DEF IsValue
      <4> QED BY <4>2, <4>3, Trip
    <3>2. CASE v # vec
      <4>1. y = x
        BY <2>2, <2>3, <3>2, Trip
      <4> QED BY <2>2, <4>1
    <3> QED BY <3>1, <3>2
  <2> QED BY <2>1, <2>2, <2>4, <2>5 DEF Recast
<1> QED BY <1>1 DEF RoundTrip

\* to_string() and from_string() belong together, for every document and every
\* value: a value that came from a document comes back from its own text, and any
\* value does after it went through once (config.h:54-262, log.cc:597-701).
THEOREM RoundTripHolds == Spec => []RoundTrip
BY LexInvHolds, RoundTripInv, PTL

\* When all is loaded, every node for a variable has been handed to it.
LEMMA AllPassed ==
    ASSUME LexInv, Loaded, NEW v, NEW n, NodesFor(v) = {n}
    PROVE  n \in Calls /\ Passed(v) = {n}
<1>1. PICK m \in Nat : m = Len(all_nodes)
  BY CallSeqIs DEF LexInv, ListInv
<1>2. at = m + 1
  BY <1>1 DEF LexInv, ListInv, Loaded
<1>3. /\ \A c : c \in Range(all_nodes) <=> \E k \in 1..m : c = all_nodes[k]
      /\ \A k \in 1..m : all_nodes[k] \in Calls
  BY <1>1, CallSeqIs DEF LexInv, ListInv
<1>4. \A c : c \in NodesFor(v) <=> c \in Range(all_nodes) /\ ToLower(c[1]) = v
  BY DEF NodesFor
<1>5. \A c : c \in Passed(v) <=>
               c \in Calls /\ \E k \in 1..m : c = all_nodes[k] /\ ToLower(c[1]) = v
  BY <1>2 DEF Passed
<1>6. \A c : c \in Passed(v) <=> c \in NodesFor(v)
  BY <1>3, <1>4, <1>5
<1>7. n \in Calls
  BY <1>3, <1>4
<1> QED BY <1>6, <1>7

-----------------------------------------------------------------------------

\* Names of one part and of two.
LEMMA LowerLength ==
    ASSUME NEW name \in Names
    PROVE  DOMAIN ToLower(name) = 1..Len(name) /\ Len(name) \in Nat
BY DEF ToLower, Names

\* The key of a map that makes the name of the inner variable is the last part of
\* that name, as the document spells it.
LEMMA NamesApart ==
    ASSUME NEW a \in Names, NEW b \in Names, NEW c \in Names,
           ToLower(a) = system, ToLower(b) = port, a \o c = b
    PROVE  c = SubSeq(b, 2, 2)
<1>1. DOMAIN system = 1..1 /\ DOMAIN port = 1..2
  BY DEF system, port
<1>2. Len(a) = 1 /\ Len(b) = 2
  <2>1. PICK m \in Nat, n \in Nat : m = Len(a) /\ n = Len(b)
    BY LowerLength
  <2>2. 1..m = 1..1 /\ 1..n = 1..2
    BY <1>1, <2>1, LowerLength
  <2> QED BY <2>1, <2>2
<1>3. a \in Seq(Strings) /\ b \in Seq(Strings) /\ c \in Seq(Strings)
  BY DEF Names
<1>4. Len(c) = 1 /\ b[2] = c[1]
  <2>1. /\ Len(c) \in Nat /\ Len(a \o c) = Len(a) + Len(c)
        /\ \A k \in 1..Len(a) + Len(c) :
              (a \o c)[k] = IF k <= Len(a) THEN a[k] ELSE c[k - Len(a)]
    BY ONLY <1>3, ConcatProperties, LenProperties
  <2>2. Len(c) = 1
    BY <1>2, <2>1
  <2>3. (a \o c)[2] = c[1]
    BY <1>2, <2>1, <2>2
  <2> QED BY <2>2, <2>3
<1>6. c = <<b[2]>>
  <2>1. c = [k \in 1..1 |-> c[k]]
    BY <1>3, <1>4, LenProperties
  <2> QED BY <1>4, <2>1
<1>7. SubSeq(b, 2, 2) = <<b[2]>>
  <2>1. /\ SubSeq(b, 2, 2) \in Seq(Strings) /\ Len(SubSeq(b, 2, 2)) = 1
        /\ SubSeq(b, 2, 2)[1] = b[2]
    <3>1. \A k \in 2..2 : b[k] \in Strings
      <4>1. b[2] \in Strings
        BY <1>2, <1>3, ElementOfSeq
      <4> QED BY <4>1
    <3> QED BY <3>1, SubSeqProperties
  <2>2. PICK d \in Seq(Strings) : d = SubSeq(b, 2, 2)
    BY <2>1
  <2>3. d = [k \in 1..1 |-> d[k]]
    BY <2>1, <2>2, LenProperties
  <2>4. d[1] = b[2]
    BY <2>1, <2>2
  <2>5. d = <<b[2]>>
    BY <2>3, <2>4
  <2> QED BY <2>2, <2>5
<1> QED BY <1>6, <1>7

\* An integer is the same in the text of its node and in its YAML.
LEMMA IntText ==
    ASSUME NEW n \in Nodes, AsInt(Emit(n)) # Throws PROVE AsInt(TextOf(n)) = AsInt(Emit(n))
<1>1. CASE n.kind = "scalar"
  <2>1. n # Null
    BY <1>1, KindIs
  <2>2. n # Scalar("")
    <3>1. AsInt(Scalar(Quotes)) = Throws
      BY StringAssumption, KindIs DEF StringAssumption, AsInt
    <3>2. Emit(Scalar("")) = Scalar(Quotes)
      <4>1. Scalar("") # Null
        BY KindIs
      <4> QED BY <4>1 DEF Emit
    <3> QED BY <3>1, <3>2
  <2>3. Emit(n) = n /\ TextOf(n) = n
    BY <1>1, <2>1, <2>2, Zenon DEF Emit, TextOf
  <2> QED BY <2>3
<1>2. CASE n.kind # "scalar"
  BY <1>2 DEF TextOf
<1> QED BY <1>1, <1>2

\* The items of a node are those of its text.
LEMMA ItemsText == ASSUME NEW n \in Nodes PROVE Items(Load(TextOf(n))) = Items(n)
<1>0. n \in AnyNode
  BY DEF AnyNode
<1>1. CASE n.kind \in {"seq", "map"}
  BY <1>0, <1>1, LoadType
<1>2. CASE n = Null
  <2>1. TextOf(n) = Emit(Null)
    BY <1>2, KindIs DEF TextOf
  <2> QED BY <1>2, <2>1, Spelled
<1>3. CASE n \in Scalars
  <2>1. n.kind = "scalar" /\ TextOf(n) = n
    BY <1>3, ScalarIs DEF TextOf
  <2>2. Load(n) = Null \/ Load(n) = Scalar("") \/ Load(n) = n
    BY DEF Load
  <2>3. Items(Scalar("")) = <<>> /\ Items(n) = <<>>
    BY <2>1, KindIs DEF Items
  <2> QED BY <2>1, <2>2, <2>3, Spelled
<1> QED BY <1>0, <1>1, <1>2, <1>3, AnyNodeIs

\* The pair of the map is listed and is the only node for the inner variable, so
\* both were read from one text.
LEMMA NestedAgreeInv == LexInv => NestedAgree
<1> SUFFICES ASSUME LexInv, Loaded,
                    NEW outer, NEW inner,
                    NodesFor(system) = {outer}, NodesFor(port) = {inner},
                    \E p \in Range(Pairs(outer[2])) : outer[1] \o p[1] = inner[1],
                    FromStr(system, TextOf(outer[2])) # Throws
             PROVE  m_val[system][SubSeq(inner[1], 2, 2)] = m_val[port]
  BY Zenon DEF NestedAgree
<1>1. PICK n : n = outer[2]
  OBVIOUS
<1>2. PICK p : p = Pairs(n)
  OBVIOUS
<1>3. /\ outer \in Calls /\ Passed(system) = {outer}
      /\ inner \in Calls /\ Passed(port) = {inner}
  BY AllPassed
<1>4. n \in Nodes /\ n \in AnyNode /\ p \in PairSeq
  <2>1. n \in Nodes
    BY <1>1, <1>3, CallsAre
  <2> QED BY <1>2, <2>1, ItemsType DEF AnyNode
<1>5. PICK len \in Nat : len = Len(p)
  BY <1>4, PairSeqIs
<1>6. /\ DOMAIN p = 1..len /\ \A q : q \in Range(p) <=> \E k \in 1..len : q = p[k]
      /\ \A k \in 1..len : p[k][1] \in Names /\ p[k][2] \in Nodes
  BY <1>4, <1>5, PairSeqIs
<1>7. PICK k \in 1..len : outer[1] \o p[k][1] = inner[1]
  <2>1. PICK q \in Range(p) : outer[1] \o q[1] = inner[1]
    BY <1>1, <1>2
  <2>2. PICK k \in 1..len : q = p[k]
    BY <1>6, <2>1
  <2> QED BY <2>1, <2>2
<1>8. PICK key : key = p[k][1]
  OBVIOUS
<1>9. key \in Names /\ key = SubSeq(inner[1], 2, 2)
  <2>1. ToLower(outer[1]) = system /\ ToLower(inner[1]) = port
    BY DEF NodesFor
  <2>2. outer[1] \in Names /\ inner[1] \in Names /\ key \in Names /\ outer[1] \o key = inner[1]
    BY <1>3, <1>6, <1>7, <1>8, CallsAre
  <2> QED BY <2>1, <2>2, NamesApart
<1>10. TextOf(n) = n /\ Load(n) = n
  <2>1. n.kind = "map"
    <3>1. p # <<>>
      BY <1>6
    <3> QED BY <1>2, <3>1 DEF Pairs
  <2> QED BY <1>4, <2>1, LoadType
<1>11. FromStr(system, n) # Throws /\ FromStr(system, n) = AsMap(n, "int")
  BY <1>1, <1>10, CastsAre
<1>12. m_val[system] = AsMap(n, "int")
  <2>1. Equal(system, FromStr(system, n), m_val[system])
    <3>1. system \in Vars
      BY DEF Vars
    <3> QED BY <1>1, <1>3, <1>10, <1>11, <3>1 DEF LexInv, Settled
  <2> QED BY <1>11, <2>1, VarsDiffer DEF Equal
<1>13. Items(Load(n)) = <<>> /\ \A j \in 1..len : AsInt(Emit(p[j][2])) # Throws
  BY <1>2, <1>6, <1>10, <1>11, MapThrows
<1>14. PICK j \in 1..len : p[j][1] = key /\ AsMap(n, "int")[key] = AsInt(Emit(p[j][2]))
  <2>1. key \in Keys(p, len)
    BY <1>8, KeysIs
  <2> QED BY <1>2, <1>6, <1>10, <1>13, <2>1, MapMade
<1>15. p[j][2] = inner[2]
  <2>1. p[j] \in Range(p)
    BY <1>6
  <2>2. PICK c : c = <<outer[1] \o p[j][1], p[j][2]>>
    OBVIOUS
  <2>3. c \in Range(Members(outer))
    BY <1>1, <1>2, <1>3, <2>1, <2>2, MembersType
  <2>4. outer \in Range(all_nodes)
    BY DEF NodesFor
  <2>5. c \in Range(all_nodes)
    <3>1. Range(calls) = {}
      BY CallSeqEmpty DEF Loaded, Listed
    <3> QED BY <2>3, <2>4, <3>1 DEF LexInv, Closed
  <2>6. c[1] = inner[1] /\ c[2] = p[j][2]
    BY <1>7, <1>8, <1>14, <2>2
  <2>7. ToLower(inner[1]) = port
    BY DEF NodesFor
  <2>8. c \in NodesFor(port)
    BY <2>5, <2>6, <2>7 DEF NodesFor
  <2> QED BY <2>6, <2>8
<1>16. m_val[port] = AsInt(Emit(inner[2]))
  <2>1. inner[2] \in Nodes /\ AsInt(Emit(inner[2])) # Throws
    BY <1>3, <1>13, <1>15, CallsAre
  <2>2. FromStr(port, TextOf(inner[2])) = AsInt(Emit(inner[2]))
    BY <2>1, CastsAre, IntText
  <2>3. port \in Vars
    BY DEF Vars
  <2>4. Equal(port, FromStr(port, TextOf(inner[2])), m_val[port])
    BY <1>3, <2>1, <2>2, <2>3 DEF LexInv, Settled
  <2> QED BY <2>2, <2>4, VarsDiffer DEF Equal
<1> QED BY <1>9, <1>12, <1>14, <1>15, <1>16

\* A map and a variable named after one of its keys agree after every document that
\* gives each once and converts, however deep it is and whatever else is in it
\* (config.cc:16-51).
THEOREM NestedAgreeHolds == Spec => []NestedAgree
BY LexInvHolds, NestedAgreeInv, PTL

\* The one node for the definitions has been read, and they are those of its
\* entries.
LEMMA FirstDefinitionInv == LexInv => FirstDefinition
<1> SUFFICES ASSUME LexInv, Loaded PROVE FirstDefinition
  BY DEF FirstDefinition
<1>1. IsDefines(m_val[logs])
  <2>1. logs \in Vars
    BY DEF Vars
  <2> QED BY <2>1 DEF LexInv, ValueInv, IsValue
<1>2. ASSUME NEW n, NEW items, items = Items(n[2]), NodesFor(logs) = {n},
             \A x \in Range(items) : ~BadSubscript(x)
      PROVE  {Head3(d) : d \in m_val[logs]} =
               {<<Get(items[k], "name"), LevelFromString(Field(items[k], "level")),
                  Field(items[k], "formatter")>> : k \in Defining(items)}
  <2>1. n \in Calls /\ Passed(logs) = {n}
    BY <1>2, AllPassed
  <2>2. n[2] \in Nodes /\ items \in NodeSeq
    <3>1. n[2] \in Nodes
      BY <2>1, CallsAre
    <3> QED BY <1>2, <3>1, ItemsType DEF AnyNode
  <2>3. PICK len \in Nat : len = Len(items)
    BY <2>2, NodeSeqIs
  <2>4. DOMAIN items = 1..len
    BY <2>2, <2>3, NodeSeqIs
  <2>5. PICK new : new = FromStr(logs, TextOf(n[2]))
    OBVIOUS
  <2>6. new = LogDefines(items)
    <3>1. Items(Load(TextOf(n[2]))) = items
      BY <1>2, <2>2, ItemsText
    <3>2. new = AsLogDefines(TextOf(n[2]))
      BY <2>5, CastsAre
    <3> QED BY <1>2, <3>1, <3>2 DEF AsLogDefines
  <2>7. new # Throws
    BY <1>2, <2>2, <2>6, ThrowsAssumption DEF ThrowsAssumption
  <2>8. Equal(logs, new, m_val[logs])
    <3>1. logs \in Vars
      BY DEF Vars
    <3> QED BY <2>1, <2>5, <2>7, <3>1 DEF LexInv, Settled
  <2>9. {Head3(d) : d \in m_val[logs]} = {Head3(d) : d \in new}
    BY <2>8 DEF Equal
  <2>10. new = {LogDefine(items[k]) : k \in Defining(items)}
    BY <2>3, <2>4, <2>6, LogDefinesIs
  <2>11. \A x : Head3(LogDefine(x)) =
                  <<Get(x, "name"), LevelFromString(Field(x, "level")), Field(x, "formatter")>>
    BY DEF Head3, LogDefine
  <2>12. {Head3(d) : d \in new} = {Head3(LogDefine(items[k])) : k \in Defining(items)}
    BY <2>10
  <2> QED BY <2>9, <2>11, <2>12
<1>3. \A d, e \in m_val[logs] : d.name = e.name => d = e
  BY <1>1 DEF IsDefines
<1>4. ASSUME NEW n, NodesFor(logs) = {n}, \A x \in Range(Items(n[2])) : ~BadSubscript(x)
      PROVE  {Head3(d) : d \in m_val[logs]} =
               {<<Get(Items(n[2])[k], "name"), LevelFromString(Field(Items(n[2])[k], "level")),
                  Field(Items(n[2])[k], "formatter")>> : k \in Defining(Items(n[2]))}
  BY <1>2, <1>4, Zenon
<1> QED BY <1>3, <1>4, Zenon DEF FirstDefinition

\* After every document with definitions each logger it names is defined once, by
\* its first entry (log.cc:597-658).
THEOREM FirstDefinitionHolds == Spec => []FirstDefinition
BY LexInvHolds, FirstDefinitionInv, PTL
=============================================================================
