----------------------------- MODULE LexicalCast -----------------------------
(***************************************************************************)
(* From YAML to the values of variables and back: the LexicalCast classes  *)
(* of wb_server/config.h, the two of wb_server/log.cc for the definitions  *)
(* of loggers, and Config::load_from_yaml, which hands the nodes of a      *)
(* document to the variables.  One thread loads documents here; what       *)
(* several threads do to a variable is in module Config.                   *)
(*                                                                         *)
(* A node is a null, a scalar with its text, a sequence of nodes or a map, *)
(* as a sequence of pairs.  A text in YAML is written as the node one sees *)
(* in it: the scalar of its characters, or the sequence or map it spells.  *)
(* A name such as "system.port" is the sequence of its parts.              *)
(***************************************************************************)
EXTENDS Integers, Sequences, FiniteSets, SequencesExt

CONSTANTS
    Strings,        \* the strings of characters
    Documents,      \* the documents that are loaded
    Nodes,          \* the nodes in them
    MaxLoads,       \* bound: how many documents
    Ints,           \* the texts of integers, each with its integer
    Lower,          \* the names in capitals, each in small letters
    Default,        \* the values the variables begin with
    Throws          \* the outcome of a conversion that throws

Null == [kind |-> "null"]
Scalar(t) == [kind |-> "scalar", text |-> t]
List(s) == [kind |-> "seq", items |-> s]
Map(p) == [kind |-> "map", pairs |-> p]

\* The characters "" between quotation marks.
Quotes == "quotes"

-----------------------------------------------------------------------------
(* yaml-cpp.                                                               *)

\* YAML::Load(text).
Load(text) ==
    IF text.kind # "scalar" THEN text
    ELSE IF text.text \in {"", "~"} THEN Null
    ELSE IF text.text = Quotes THEN Scalar("")
    ELSE text

\* ss << node: a null is "~", an empty scalar gets its quotation marks.
Emit(node) ==
    IF node = Null THEN Scalar("~")
    ELSE IF node = Scalar("") THEN Scalar(Quotes)
    ELSE node

\* size() and operator[] of a node that ought to be a sequence.
Items(node) == IF node.kind = "seq" THEN node.items ELSE <<>>

\* begin() and end() of a node that ought to be a map.
Pairs(node) == IF node.kind = "map" THEN node.pairs ELSE <<>>

IsDefined(node, key) == \E p \in Range(Pairs(node)) : p[1] = <<key>>
Get(node, key) == (CHOOSE p \in Range(Pairs(node)) : p[1] = <<key>>)[2].text

-----------------------------------------------------------------------------
(* LexicalCast<std::string, T>.                                            *)

\* boost::lexical_cast of a text to a string, which is the text, or to an int.
AsString(text) == text
AsInt(text) ==
    IF text.kind = "scalar" /\ text.text \in DOMAIN Ints THEN Ints[text.text] ELSE Throws

\* The cast of an element, for the type T of the container.
As(T, text) == IF T = "int" THEN AsInt(text) ELSE AsString(text)

\* An exception in one element leaves the loop, and the container with it.
Whole(seq, value) == IF Throws \in Range(seq) THEN Throws ELSE value

Cast(text, T) ==
    [k \in DOMAIN Items(Load(text)) |-> As(T, Emit(Items(Load(text))[k]))]

AsVector(text, T) == Whole(Cast(text, T), Cast(text, T))
AsSet(text, T) == Whole(Cast(text, T), Range(Cast(text, T)))

\* insert() keeps what is there: the first of two pairs with one key.  Elements of a
\* sequence have no key to ask for.
AsMap(text, T) ==
    LET pairs == Pairs(Load(text))
        value == [k \in DOMAIN pairs |-> As(T, Emit(pairs[k][2]))]
        first(key) == CHOOSE k \in DOMAIN pairs :
                        pairs[k][1] = key /\ \A j \in 1..k - 1 : pairs[j][1] # key
    IN  IF Items(Load(text)) # <<>> THEN Throws
        ELSE Whole(value, [key \in {p[1] : p \in Range(pairs)} |-> value[first(key)]])

(* LexicalCast<T, std::string>.                                            *)

IntToText(i) == Scalar(CHOOSE t \in DOMAIN Ints : Ints[t] = i)
StringToText(s) == s
ToText(T, x) == IF T = "int" THEN IntToText(x) ELSE StringToText(x)

\* push_back() makes a sequence of the null a new Node is, operator[] a map.
Sequence(nodes) == IF nodes = <<>> THEN Emit(Null) ELSE List(nodes)

VectorToText(v, T) == Sequence([k \in DOMAIN v |-> Load(ToText(T, v[k]))])

\* A std::set is in ascending order.
Ascending(v) ==
    CHOOSE s \in [1..Cardinality(v) -> v] : \A j, k \in DOMAIN s : j < k => s[j] < s[k]
SetToText(v) == VectorToText(Ascending(v), "int")

MapToText(v, T) ==
    IF v = <<>> THEN Emit(Null)
    ELSE LET keys == SetToSeq(DOMAIN v)
         IN  Map([k \in DOMAIN keys |-> <<keys[k], Load(ToText(T, v[keys[k]]))>>])

-----------------------------------------------------------------------------
(* The definitions of loggers.                                             *)

LevelNames == <<"DEBUG", "INFO", "WARN", "ERROR", "FATAL">>
lowerNames == <<"debug", "info", "warn", "error", "fatal">>

\* Mutant: the names LogLevel::to_string() writes are not read.
BugLevelFromString(str) ==
    IF \E l \in 1..5 : str = lowerNames[l]
    THEN CHOOSE l \in 1..5 : str = lowerNames[l] ELSE 0

\* LogLevel::from_string(): 0 is UNKNOW.
LevelFromString(str) ==
    IF \E l \in 1..5 : str \in {LevelNames[l], lowerNames[l]}
    THEN CHOOSE l \in 1..5 : str \in {LevelNames[l], lowerNames[l]} ELSE 0

\* A field that may be missing.
Field(node, key) == IF IsDefined(node, key) THEN Get(node, key) ELSE ""

\* Appenders without a type, with one nobody knows, or of a file without its name
\* are skipped; the level of an appender is never read.
ValidAppender(a) ==
    /\ IsDefined(a, "type")
    /\ \/ Get(a, "type") = "FileLogAppender" /\ IsDefined(a, "file")
       \/ Get(a, "type") = "StdoutLogAppender"

AppenderDefine(a) ==
    IF Get(a, "type") = "FileLogAppender"
    THEN [type |-> 1, level |-> 0, formatter |-> Field(a, "formatter"), file |-> Get(a, "file")]
    ELSE [type |-> 2, level |-> 0, formatter |-> "", file |-> ""]

AppenderDefines(items) ==
    LET appenders[x \in 0..Len(items)] ==
            IF x = 0 THEN <<>>
            ELSE IF ValidAppender(items[x])
                 THEN Append(appenders[x - 1], AppenderDefine(items[x]))
                 ELSE appenders[x - 1]
    IN  appenders[Len(items)]

AppendersNode(node) == (CHOOSE p \in Range(Pairs(node)) : p[1] = <<"appenders">>)[2]

LogDefine(n) ==
    [name |-> Get(n, "name"),
     level |-> LevelFromString(Field(n, "level")),
     formatter |-> Field(n, "formatter"),
     appenders |-> IF ~IsDefined(n, "appenders") THEN <<>>
                   ELSE AppenderDefines(Items(AppendersNode(n)))]

\* Mutant: two definitions of one name.
BugInsertBoth(S, d) == S \cup {d}

\* std::set::insert(): operator< compares the names only.
Insert(S, d) == IF \E e \in S : e.name = d.name THEN S ELSE S \cup {d}

\* An entry without a name is skipped.
LogDefines(items) ==
    LET defines[i \in 0..Len(items)] ==
            IF i = 0 THEN {}
            ELSE IF IsDefined(items[i], "name") THEN Insert(defines[i - 1], LogDefine(items[i]))
                 ELSE defines[i - 1]
    IN  defines[Len(items)]

\* operator[] of a scalar throws: of an entry, or of an appender if its entry has a name.
BadSubscript(n) ==
    \/ n.kind = "scalar"
    \/ /\ IsDefined(n, "name") /\ IsDefined(n, "appenders")
       /\ \E a \in Range(Items(AppendersNode(n))) : a.kind = "scalar"

AsLogDefines(text) ==
    IF \E n \in Range(Items(Load(text))) : BadSubscript(n) THEN Throws
    ELSE LogDefines(Items(Load(text)))

\* A pair of a map, if it is written at all.
Pair(written, key, text) == IF written THEN <<<<<<key>>, Scalar(text)>>>> ELSE <<>>

AppenderNode(a) ==
    Map(Pair(TRUE, "type", IF a.type = 1 THEN "FileLogAppender" ELSE "StdoutLogAppender")
        \o Pair(a.type = 1, "file", a.file)
        \o Pair(a.level # 0, "level", IF a.level = 0 THEN "" ELSE LevelNames[a.level])
        \o Pair(a.formatter # "", "formatter", a.formatter))

LogDefineNode(d) ==
    Map(Pair(TRUE, "name", d.name)
        \o Pair(d.level # 0, "level", IF d.level = 0 THEN "" ELSE LevelNames[d.level])
        \o Pair(d.formatter # "", "formatter", d.formatter)
        \o IF d.appenders = <<>> THEN <<>>
           ELSE <<<<<<"appenders">>,
                    List([k \in DOMAIN d.appenders |-> AppenderNode(d.appenders[k])])>>>>)

LogDefinesToText(v) ==
    LET defines == SetToSeq(v)
    IN  Sequence([k \in DOMAIN defines |-> LogDefineNode(defines[k])])

-----------------------------------------------------------------------------
(* The variables, one of each kind, and what their casts do.               *)

system == <<"system">>          \* a std::map<std::string, int>
port == <<"system", "port">>    \* an int
vec == <<"vec">>                \* a std::vector<std::string>
set == <<"set">>                \* a std::set<int>
logs == <<"logs">>              \* the definitions of loggers

Vars == {system, port, vec, set, logs}

FromStr(v, text) ==
    CASE v = system -> AsMap(text, "int")
      [] v = port -> AsInt(text)
      [] v = vec -> AsVector(text, "string")
      [] v = set -> AsSet(text, "int")
      [] v = logs -> AsLogDefines(text)

ToStr(v, value) ==
    CASE v = system -> MapToText(value, "int")
      [] v = port -> IntToText(value)
      [] v = vec -> VectorToText(value, "string")
      [] v = set -> SetToText(value)
      [] v = logs -> LogDefinesToText(value)

\* operator== of the values; that of LogDefine forgets the appenders.
Head3(d) == <<d.name, d.level, d.formatter>>
Equal(v, x, y) ==
    IF v = logs THEN {Head3(d) : d \in x} = {Head3(d) : d \in y} ELSE x = y

\* tolower() on a name.
ToLower(name) ==
    [k \in DOMAIN name |-> IF name[k] \in DOMAIN Lower THEN Lower[name[k]] ELSE name[k]]

\* The texts and values: a document is made of its nodes and the keys are names; what
\* as<std::string>() is called for is a scalar, and no list is given as a map, whose
\* elements operator[] would make up; the texts of integers are not those that YAML
\* gives a meaning.
Scalars == [kind : {"scalar"}, text : Strings]
Names == Seq(Strings)
FieldNames == {<<"name">>, <<"level">>, <<"formatter">>, <<"type">>, <<"file">>}
ListNames == {vec, set, logs, <<"appenders">>}

NodeAssumption ==
    /\ Documents \subseteq Nodes
    /\ \A n \in Nodes :
          \/ n = Null
          \/ n \in Scalars
          \/ n.kind = "seq" /\ n = List(n.items) /\ n.items \in Seq(Nodes)
          \/ n.kind = "map" /\ n = Map(n.pairs) /\ n.pairs \in Seq(Names \X Nodes)
    /\ \A n \in Nodes : \A p \in Range(Pairs(n)) :
          /\ p[1] # <<>>
          /\ p[1] \in FieldNames => p[2] \in Scalars
          /\ ToLower(p[1]) \in ListNames => p[2].kind # "map"
ASSUME NodeAssumption

StringAssumption ==
    /\ {"", "~", Quotes, "FileLogAppender", "StdoutLogAppender"} \subseteq Strings
    /\ Range(LevelNames) \subseteq Strings
    /\ Ints \in [DOMAIN Ints -> Int]
    /\ DOMAIN Ints \subseteq Strings \ {"", "~", Quotes}
    /\ Lower \in [DOMAIN Lower -> Strings]
    /\ MaxLoads \in Nat
ASSUME StringAssumption

ThrowsAssumption ==
    /\ Throws \notin Int \cup Nodes \cup Scalars \cup {Null}
    /\ \A n \in Nodes : Throws # LogDefines(Items(n))
ASSUME ThrowsAssumption

\* The values the program registers: g_log_defines has none.
IsMap(x) == IsFiniteSet(DOMAIN x) /\ x \in [DOMAIN x -> Range(Ints)]
DefaultAssumption ==
    /\ Default = [v \in Vars |-> Default[v]]
    /\ IsMap(Default[system])
    /\ Default[port] \in Range(Ints)
    /\ Default[vec] \in Seq(Scalars)
    /\ IsFiniteSet(Default[set]) /\ Default[set] \subseteq Range(Ints)
    /\ Default[logs] = {}
ASSUME DefaultAssumption

-----------------------------------------------------------------------------
(* Config::load_from_yaml.                                                 *)

VARIABLES
    m_val,          \* the values of the variables
    calls,          \* the calls of list_all_menmber to come: a prefix and a node each
    all_nodes,      \* output
    at,             \* the place of the loop in all_nodes
    assigned,       \* history: the variables that took a value from a document
    loads           \* counter behind the bound

vars == <<m_val, calls, all_nodes, at, assigned, loads>>

Init ==
    /\ m_val = Default
    /\ calls = <<>> /\ all_nodes = <<>> /\ at = 1
    /\ assigned = {}
    /\ loads = 0

Listed == calls = <<>>
Loaded == Listed /\ at > Len(all_nodes)

LoadFromYaml(root) ==
    /\ Loaded /\ loads < MaxLoads
    /\ loads' = loads + 1
    /\ calls' = <<<<<<>>, root>>>>
    /\ all_nodes' = <<>> /\ at' = 1
    /\ UNCHANGED <<m_val, assigned>>

\* The calls of list_all_menmber() for the nodes in a map.
Members(call) ==
    [k \in DOMAIN Pairs(call[2]) |-> <<call[1] \o Pairs(call[2])[k][1], Pairs(call[2])[k][2]>>]

\* One call: a node comes before the nodes in it, and they before what is behind it.
list_all_menmber ==
    /\ ~Listed
    /\ all_nodes' = Append(all_nodes, Head(calls))
    /\ calls' = Members(Head(calls)) \o Tail(calls)
    /\ UNCHANGED <<m_val, at, assigned, loads>>

\* The key of the next node: lookup_base() does not find it, and never "".
SkipNode ==
    /\ Listed /\ ~Loaded
    /\ ToLower(all_nodes[at][1]) \notin Vars
    /\ at' = at + 1
    /\ UNCHANGED <<m_val, calls, all_nodes, assigned, loads>>

\* What from_string() is called with: the characters of a scalar, or the node as YAML.
TextOf(node) == IF node.kind = "scalar" THEN node ELSE Emit(node)

\* from_string(): nothing happens if the conversion throws, or says the same again.
FromString(v, text) ==
    LET new == FromStr(v, text)
    IN  IF new = Throws THEN m_val[v] ELSE IF Equal(v, new, m_val[v]) THEN m_val[v] ELSE new

\* Mutant: the loop ends at the first name it finds.
BugAssignNodeStops ==
    /\ Listed /\ ~Loaded
    /\ LET v == ToLower(all_nodes[at][1])
           text == TextOf(all_nodes[at][2])
       IN  /\ v \in Vars
           /\ m_val' = [m_val EXCEPT ![v] = FromString(v, text)]
           /\ assigned' = IF FromStr(v, text) = Throws THEN assigned ELSE assigned \cup {v}
    /\ at' = Len(all_nodes) + 1
    /\ UNCHANGED <<calls, all_nodes, loads>>

AssignNode ==
    /\ Listed /\ ~Loaded
    /\ LET v == ToLower(all_nodes[at][1])
           text == TextOf(all_nodes[at][2])
       IN  /\ v \in Vars
           /\ m_val' = [m_val EXCEPT ![v] = FromString(v, text)]
           /\ assigned' = IF FromStr(v, text) = Throws THEN assigned ELSE assigned \cup {v}
    /\ at' = at + 1
    /\ UNCHANGED <<calls, all_nodes, loads>>

Next ==
    \/ \E root \in Documents : LoadFromYaml(root)
    \/ list_all_menmber \/ SkipNode \/ AssignNode

Spec == Init /\ [][Next]_vars

-----------------------------------------------------------------------------
(* Properties.                                                             *)

Recast(v) == FromStr(v, ToStr(v, m_val[v]))

\* to_string() and from_string() belong together: a value that came from a document
\* comes back from its own text, for containers, for nothing in them and for the
\* definitions of loggers; and any value does after it went through once
\* (config.h:54-262, log.cc:597-701).
RoundTrip ==
    \A v \in Vars :
        /\ v \in assigned => Recast(v) = m_val[v]
        /\ FromStr(v, ToStr(v, Recast(v))) = Recast(v)

\* The nodes of the document for a name, each with the name as the document spells it.
NodesFor(name) == {node \in Range(all_nodes) : ToLower(node[1]) = name}

\* A map and a variable named after one of its keys agree when a document has been
\* loaded that gives each once and converts: the map is assigned before what is in
\* it, and the key it has is the one the document spells (config.cc:16-51).
NestedAgree ==
    Loaded =>
        \A outer \in NodesFor(system) : \A inner \in NodesFor(port) :
            /\ NodesFor(system) = {outer} /\ NodesFor(port) = {inner}
            /\ \E p \in Range(Pairs(outer[2])) : outer[1] \o p[1] = inner[1]
            /\ FromStr(system, TextOf(outer[2])) # Throws
            => m_val[system][SubSeq(inner[1], 2, 2)] = m_val[port]

\* The entries of a list that define a logger: the first of each name.
Defining(items) ==
    {k \in DOMAIN items :
        /\ IsDefined(items[k], "name")
        /\ \A j \in 1..k - 1 : IsDefined(items[j], "name") =>
                                Get(items[j], "name") # Get(items[k], "name")}

\* After a document with definitions, each logger it names is defined once, with the
\* level and the pattern of the first entry of that name; entries without a name
\* define nothing.  A list with an entry that makes operator[] throw is not meant
\* (log.cc:597-658).
FirstDefinition ==
    Loaded =>
        /\ \A d, e \in m_val[logs] : d.name = e.name => d = e
        /\ \A n \in NodesFor(logs) :
              LET items == Items(n[2])
              IN  NodesFor(logs) = {n} /\ (\A x \in Range(items) : ~BadSubscript(x)) =>
                    {Head3(d) : d \in m_val[logs]} =
                    {<<Get(items[k], "name"), LevelFromString(Field(items[k], "level")),
                       Field(items[k], "formatter")>> : k \in Defining(items)}
=============================================================================
