----------------------------- MODULE Formatter -----------------------------
(***************************************************************************)
(* LogFormatter of wb_server/log.cc: how init() takes a pattern apart, and *)
(* what the items it makes render.                                         *)
(*                                                                         *)
(* init() walks over the pattern with two indices: i, the place of the     *)
(* outer loop, and n, the place of the inner one that looks for the end of *)
(* an item.  Here both count from 1.  There is an action for each way      *)
(* through the two loops, so that a behaviour is one call of init().       *)
(***************************************************************************)
EXTENDS Naturals, Sequences, SequencesExt

CONSTANTS
    Letters,        \* characters that isalpha() accepts
    ItemNames,      \* the names in s_format_items, each of one letter
    Others,         \* any other character but "%" and the braces
    Patterns        \* the patterns init() is called with

\* The braces are written "open" and "close".
Char == Letters \cup Others \cup {"%", "open", "close"}

ASSUME FormatterAssumption ==
    /\ ItemNames \subseteq Letters
    /\ Letters \cap (Others \cup {"%", "open", "close"}) = {}
    /\ Others \cap {"%", "open", "close"} = {}
    /\ Patterns \subseteq Seq(Char)

\* The texts that stand for an error in the output.
PatternError == <<"pattern_error">>
ErrorFormat(name) == <<"error_format">> \o name

Text == Seq(Char \cup {"pattern_error", "error_format"})

\* An element of vec: type 0 is text, type 1 an item with its name and format.
Tuple == [str : Text, fmt : Seq(Char), type : {0, 1}]
TextTuple(s) == [str |-> s, fmt |-> <<>>, type |-> 0]
ItemTuple(s, f) == [str |-> s, fmt |-> f, type |-> 1]

VARIABLES
    pattern,        \* m_pattern
    pc,
    i, nstr, vec,   \* locals of the outer loop
    n, fmt_status, fmt_begin, str, fmt,    \* locals of the inner one
    m_items, m_error

outer == <<i, nstr, vec>>
inner == <<n, fmt_status, fmt_begin, str, fmt>>
result == <<m_items, m_error>>
vars == <<pattern, pc, outer, inner, result>>

TypeOK ==
    /\ pattern \in Seq(Char)
    /\ pc \in {"loop", "scan", "item", "build", "done"}
    /\ i \in Nat /\ n \in Nat /\ fmt_begin \in Nat
    /\ fmt_status \in 0..2
    /\ nstr \in Seq(Char) /\ str \in Seq(Char) /\ fmt \in Seq(Char)
    /\ vec \in Seq(Tuple)
    /\ m_items \in Seq(Tuple)
    /\ m_error \in BOOLEAN

Init ==
    /\ pattern \in Patterns
    /\ pc = "loop"
    /\ i = 1 /\ nstr = <<>> /\ vec = <<>>
    /\ n = 1 /\ fmt_status = 0 /\ fmt_begin = 1 /\ str = <<>> /\ fmt = <<>>
    /\ m_items = <<>> /\ m_error = FALSE

Goto(from, to) == pc = from /\ pc' = to

-----------------------------------------------------------------------------
(* The outer loop.                                                         *)

Literal ==
    /\ pc = "loop" /\ i <= Len(pattern)
    /\ pattern[i] # "%"
    /\ nstr' = Append(nstr, pattern[i])
    /\ i' = i + 1
    /\ UNCHANGED <<pattern, pc, vec, inner, result>>

\* "%%": a percent sign, and the second one is looked at again.
Percent ==
    /\ pc = "loop" /\ i < Len(pattern)
    /\ pattern[i] = "%" /\ pattern[i + 1] = "%"
    /\ nstr' = Append(nstr, "%")
    /\ i' = i + 1
    /\ UNCHANGED <<pattern, pc, vec, inner, result>>

BeginItem ==
    /\ Goto("loop", "scan")
    /\ i <= Len(pattern)
    /\ pattern[i] = "%"
    /\ i < Len(pattern) => pattern[i + 1] # "%"
    /\ n' = i + 1
    /\ fmt_status' = 0 /\ fmt_begin' = 1
    /\ str' = <<>> /\ fmt' = <<>>
    /\ UNCHANGED <<pattern, outer, result>>

-----------------------------------------------------------------------------
(* The inner loop.                                                         *)

\* A character that cannot belong to the name.
NameEnds(c) == c \notin Letters \cup {"open", "close"}

Scanning == pc = "scan" /\ n <= Len(pattern)

ScanStops ==
    /\ Scanning /\ fmt_status = 0
    /\ NameEnds(pattern[n])
    /\ str' = SubSeq(pattern, i + 1, n - 1)
    /\ pc' = "item"
    /\ UNCHANGED <<pattern, outer, n, fmt_status, fmt_begin, fmt, result>>

ScanOpens ==
    /\ Scanning /\ fmt_status = 0
    /\ pattern[n] = "open"
    /\ str' = SubSeq(pattern, i + 1, n - 1)
    /\ fmt_status' = 1
    /\ fmt_begin' = n
    /\ n' = n + 1
    /\ UNCHANGED <<pattern, pc, outer, fmt, result>>

ScanCloses ==
    /\ Scanning /\ fmt_status = 1
    /\ pattern[n] = "close"
    /\ fmt' = SubSeq(pattern, fmt_begin + 1, n - 1)
    /\ fmt_status' = 2
    /\ n' = n + 1
    /\ pc' = "item"
    /\ UNCHANGED <<pattern, outer, fmt_begin, str, result>>

\* Mutant: the last line of the loop is missing.
BugScanOnStays ==
    /\ Scanning
    /\ fmt_status = 0 => ~NameEnds(pattern[n]) /\ pattern[n] # "open"
    /\ fmt_status = 1 => pattern[n] # "close"
    /\ UNCHANGED vars

ScanOn ==
    /\ Scanning
    /\ fmt_status = 0 => ~NameEnds(pattern[n]) /\ pattern[n] # "open"
    /\ fmt_status = 1 => pattern[n] # "close"
    /\ n' = n + 1
    /\ UNCHANGED <<pattern, pc, outer, fmt_status, fmt_begin, str, fmt, result>>

ScanEnds ==
    /\ Goto("scan", "item")
    /\ n > Len(pattern)
    /\ UNCHANGED <<pattern, outer, inner, result>>

-----------------------------------------------------------------------------
(* Behind the inner loop.                                                  *)

\* Mutant: the text before the item stays in hand.
BugPlainItemHolds ==
    /\ Goto("item", "loop")
    /\ fmt_status = 0
    /\ vec' = Append(vec, ItemTuple(SubSeq(pattern, i + 1, n - 1), fmt))
    /\ i' = n
    /\ UNCHANGED <<pattern, nstr, inner, result>>

\* An item without a format: the text before it goes first.
PlainItem ==
    /\ Goto("item", "loop")
    /\ fmt_status = 0
    /\ vec' = (IF nstr # <<>> THEN Append(vec, TextTuple(nstr)) ELSE vec)
              \o <<ItemTuple(SubSeq(pattern, i + 1, n - 1), fmt)>>
    /\ nstr' = <<>>
    /\ i' = n
    /\ UNCHANGED <<pattern, inner, result>>

\* Mutant: the outer loop goes on where the inner one ended, and one further.
BugUnclosedSkips ==
    /\ Goto("item", "loop")
    /\ fmt_status = 1
    /\ m_error' = TRUE
    /\ vec' = Append(vec, TextTuple(PatternError))
    /\ i' = n + 1
    /\ UNCHANGED <<pattern, nstr, inner, m_items>>

\* No closing brace: an error; the outer loop goes on behind the percent sign.
UnclosedItem ==
    /\ Goto("item", "loop")
    /\ fmt_status = 1
    /\ m_error' = TRUE
    /\ vec' = Append(vec, TextTuple(PatternError))
    /\ i' = i + 1
    /\ UNCHANGED <<pattern, nstr, inner, m_items>>

\* Mutant: the text in hand is dropped.
BugFormattedItemClears ==
    /\ Goto("item", "loop")
    /\ fmt_status = 2
    /\ vec' = Append(vec, ItemTuple(str, fmt))
    /\ nstr' = <<>>
    /\ i' = n
    /\ UNCHANGED <<pattern, inner, result>>

\* An item with a format: an empty text goes first, a text in hand stays in hand.
FormattedItem ==
    /\ Goto("item", "loop")
    /\ fmt_status = 2
    /\ vec' = (IF nstr = <<>> THEN Append(vec, TextTuple(nstr)) ELSE vec)
              \o <<ItemTuple(str, fmt)>>
    /\ i' = n
    /\ UNCHANGED <<pattern, nstr, inner, result>>

\* The end of the pattern: the text in hand is the last tuple.
Finish ==
    /\ Goto("loop", "build")
    /\ i > Len(pattern)
    /\ vec' = IF nstr # <<>> THEN Append(vec, TextTuple(nstr)) ELSE vec
    /\ UNCHANGED <<pattern, i, nstr, inner, result>>

\* The name of a tuple is one of s_format_items.
Known(t) == Len(t.str) = 1 /\ t.str[1] \in ItemNames
Unknown(t) == t.type = 1 /\ ~Known(t)

\* Mutant: a name that is not in the map is no error.
BugBuildLenient ==
    /\ Goto("build", "done")
    /\ m_items' = [k \in DOMAIN vec |->
           IF Unknown(vec[k]) THEN TextTuple(ErrorFormat(vec[k].str)) ELSE vec[k]]
    /\ UNCHANGED <<pattern, outer, inner, m_error>>

\* The loop over vec: an item whose name nobody knows becomes an error text.
Build ==
    /\ Goto("build", "done")
    /\ m_items' = [k \in DOMAIN vec |->
           IF Unknown(vec[k]) THEN TextTuple(ErrorFormat(vec[k].str)) ELSE vec[k]]
    /\ m_error' = (m_error \/ \E k \in DOMAIN vec : Unknown(vec[k]))
    /\ UNCHANGED <<pattern, outer, inner>>

-----------------------------------------------------------------------------

Step ==
    \/ Literal \/ Percent \/ BeginItem
    \/ ScanStops \/ ScanOpens \/ ScanCloses \/ ScanOn \/ ScanEnds
    \/ PlainItem \/ UnclosedItem \/ FormattedItem
    \/ Finish \/ Build

Returned == pc = "done" /\ UNCHANGED vars

Next == Step \/ Returned

Spec == Init /\ [][Next]_vars

\* The thread that calls init() runs.
FairSpec == Spec /\ WF_vars(Step)

-----------------------------------------------------------------------------
(* What a pattern means, read off its characters.                          *)

\* The first place from k on with a character of C, or the place behind s.
FirstIn(s, k, C) ==
    CHOOSE e \in k..Len(s) + 1 :
        /\ e <= Len(s) => s[e] \in C
        /\ \A x \in k..e - 1 : s[x] \notin C

Token(kind, s, f) == [kind |-> kind, str |-> s, fmt |-> f]

\* An item at k has the name between the percent sign and NameEnd.  A name ends at
\* the first character that is no letter and no "}".
NameEnd(s, k) == FirstIn(s, k + 1, Char \ (Letters \cup {"close"}))
Name(s, k) == SubSeq(s, k + 1, NameEnd(s, k) - 1)

\* Its format is between the braces behind the name, if there are any.
Opens(s, k) == NameEnd(s, k) <= Len(s) /\ s[NameEnd(s, k)] = "open"
BraceEnd(s, k) == FirstIn(s, NameEnd(s, k) + 1, {"close"})
Format(s, k) == SubSeq(s, NameEnd(s, k) + 1, BraceEnd(s, k) - 1)

\* The place k stands for itself: a percent sign does before another one, which
\* may begin an item all the same.
IsText(s, k) == s[k] # "%" \/ (k < Len(s) /\ s[k + 1] = "%")

TokenAt(s, k) ==
    IF IsText(s, k) THEN Token("text", <<s[k]>>, <<>>)
    ELSE IF ~Opens(s, k) THEN Token("plain", Name(s, k), <<>>)
    ELSE IF BraceEnd(s, k) > Len(s) THEN Token("unclosed", <<>>, <<>>)
    ELSE Token("braced", Name(s, k), Format(s, k))

\* Where the token behind that of k begins.
After(s, k) ==
    IF IsText(s, k) THEN k + 1
    ELSE IF ~Opens(s, k) THEN NameEnd(s, k)
    ELSE IF BraceEnd(s, k) > Len(s) THEN k + 1
    ELSE BraceEnd(s, k) + 1

\* The tokens from each place of s on.
TokensFrom(s) ==
    LET from[k \in 1..Len(s) + 1] ==
            IF k > Len(s) THEN <<>> ELSE <<TokenAt(s, k)>> \o from[After(s, k)]
    IN  from

\* The characters of the text of s, and its items without and with braces.
Tokens(s) == TokensFrom(s)[1]

Pieces(tokens) ==
    [k \in DOMAIN tokens |->
        IF tokens[k].kind = "text" THEN TextTuple(tokens[k].str)
                                   ELSE ItemTuple(tokens[k].str, tokens[k].fmt)]

\* The characters of a text, each a text of its own.
Characters(s) == [c \in DOMAIN s |-> TextTuple(<<s[c]>>)]

\* The characters and the items of m_items, in the order format() writes them.
Spelled(items) ==
    FlattenSeq([k \in DOMAIN items |->
        IF items[k].type = 1 THEN <<items[k]>> ELSE Characters(items[k].str)])

OfType(t, items) ==
    FlattenSeq([k \in DOMAIN items |-> IF items[k].type = t THEN <<items[k]>> ELSE <<>>])

\* There is text right before an item with braces.
TextBeforeBraces(tokens) ==
    \E k \in 1..Len(tokens) - 1 :
        tokens[k].kind = "text" /\ tokens[k + 1].kind = "braced"

-----------------------------------------------------------------------------
(* Properties.                                                             *)

Between(a, b, c) == a <= b /\ b <= c

\* The indices init() uses are those of characters of the pattern: each
\* m_pattern[...] is inside it, and each substr() begins inside it or at its end,
\* where it would throw otherwise (log.cc:452-472, 483).
IndicesInside ==
    /\ Between(1, i, Len(pattern) + 1)
    /\ pc \in {"scan", "item"} =>
          /\ i <= Len(pattern) /\ pattern[i] = "%"
          /\ Between(i + 1, n, Len(pattern) + 1)
          /\ fmt_status # 0 => Between(i + 1, fmt_begin, n - 1)
          /\ pc = "scan" => fmt_status # 2
    /\ pc \in {"build", "done"} => i = Len(pattern) + 1

IndexInv == TypeOK /\ IndicesInside

\* is_error() says no exactly of the patterns whose braces are closed and whose
\* items all have a name of the table: set_formatter() and the configuration
\* take a pattern on that word (log.cc:310-320, 485-535).
ErrorsFound ==
    pc = "done" =>
        (m_error <=> \E k \in DOMAIN Tokens(pattern) :
                        \/ Tokens(pattern)[k].kind = "unclosed"
                        \/ Unknown(Pieces(Tokens(pattern))[k]))

\* A pattern without error loses no character of its text and none of its items,
\* doubles none and leaves each of the two in its order (log.cc:480-500).
NothingLost ==
    pc = "done" /\ ~m_error =>
        \A t \in {0, 1} :
            OfType(t, Spelled(m_items)) = OfType(t, Pieces(Tokens(pattern)))

\* Text and items come out in the order of the pattern, unless there is text
\* right before an item with braces: that text is held back, behind the item
\* (log.cc:492 tests for an empty text where log.cc:480 tests for one that is not).
InOrder ==
    pc = "done" /\ ~m_error /\ ~TextBeforeBraces(Tokens(pattern)) =>
        Spelled(m_items) = Pieces(Tokens(pattern))

\* init() comes to its end for every pattern: no way through the loops leaves
\* both indices where they were (log.cc:435-499).
InitReturns == <>(pc = "done")
=============================================================================
