--------------------------- MODULE StoreNamespaces ---------------------------
(***************************************************************************)
(* Namespaces in the stores: what search finds under a prefix and what      *)
(* list_namespaces lists, in InMemoryStore, which compares namespaces label *)
(* by label, and in the SQL stores, which keep a namespace as its labels    *)
(* joined by dots and match it with LIKE. The same calls are made to both.  *)
(***************************************************************************)
EXTENDS Naturals, FiniteSets, Sequences, SequencesExt

CONSTANTS
    Labels,                \* what namespaces are made of: sequences of characters
    MaxDepth,              \* labels in a namespace
    Keys,
    FoldsCase,             \* LIKE does not tell "A" from "a" (SQLite)
    Star                   \* the wildcard in the path of a condition

Dot == "."
Percent == "%"
Underscore == "_"

VARIABLES
    data,                  \* InMemoryStore._data: the keys of each namespace it has
    rows                   \* the table store: prefix and key

vars == <<data, rows>>

SeqsUpTo(S, n) == UNION {[1 .. i -> S] : i \in 1 .. n}

Namespaces == SeqsUpTo(Labels, MaxDepth)

Take(s, n) == SubSeq(s, 1, IF n < Len(s) THEN n ELSE Len(s))

Init == data = <<>> /\ rows = {}

-----------------------------------------------------------------------------
(* The calls. _data is a defaultdict: a key that is looked up is made.      *)

Known == DOMAIN data

KeysOf(ns) == IF ns \in Known THEN data[ns] ELSE {}

Entry(ns, keys) == [n \in Known \cup {ns} |-> IF n = ns THEN keys ELSE data[n]]

Put(ns, k) ==
    /\ data' = Entry(ns, KeysOf(ns) \cup {k})
    /\ rows' = rows \cup {<<ns, k>>}

Delete(ns, k) ==
    /\ data' = Entry(ns, KeysOf(ns) \ {k})
    /\ rows' = rows \ {<<ns, k>>}

Get(ns) == data' = Entry(ns, KeysOf(ns)) /\ UNCHANGED rows

Next == \E ns \in Namespaces : (\E k \in Keys : Put(ns, k) \/ Delete(ns, k)) \/ Get(ns)

Spec == Init /\ [][Next]_vars

-----------------------------------------------------------------------------
(* InMemoryStore: _filter_items, _does_match, _handle_list_namespaces.      *)

MemorySearch(prefix) ==
    {r \in Known \X Keys : IsPrefix(prefix, r[1]) /\ r[2] \in data[r[1]]}

LabelMatches(label, pattern) == pattern = Star \/ label = pattern

MatchesPrefix(ns, path) ==
    Len(path) <= Len(ns) /\ \A i \in DOMAIN path : LabelMatches(ns[i], path[i])

MatchesSuffix(ns, path) == MatchesPrefix(Reverse(ns), Reverse(path))

Matches(ns, cond) ==
    IF cond.type = "prefix" THEN MatchesPrefix(ns, cond.path) ELSE MatchesSuffix(ns, cond.path)

\* What list_namespaces lists of a set of namespaces, before its page is cut.
ListOf(S, conds, depth) == {Take(ns, depth) : ns \in {n \in S : \A c \in conds : Matches(n, c)}}

-----------------------------------------------------------------------------
(* The SQL stores.                                                          *)

\* _namespace_to_text: "*" becomes "%" in the path of a condition.
LabelText(label) == IF label = Star THEN <<Percent>> ELSE label

Text(ns) ==
    LET upTo[n \in 0 .. Len(ns)] ==
          IF n = 0 THEN <<>>
          ELSE IF n = 1 THEN LabelText(ns[1])
          ELSE upTo[n - 1] \o <<Dot>> \o LabelText(ns[n])
    IN  upTo[Len(ns)]

Folded(c) == IF FoldsCase /\ c = "A" THEN "a" ELSE c

\* LIKE: "%" stands for any text, "_" for any character. matches[i, j]: what is left of
\* the text from i on is like what is left of the pattern from j on.
Like(text, pattern) ==
    LET matches[i \in 1 .. Len(text) + 1, j \in 1 .. Len(pattern) + 1] ==
          IF j > Len(pattern) THEN i > Len(text)
          ELSE IF pattern[j] = Percent
               THEN matches[i, j + 1] \/ (i <= Len(text) /\ matches[i + 1, j])
          ELSE /\ i <= Len(text)
               /\ pattern[j] = Underscore \/ Folded(pattern[j]) = Folded(text[i])
               /\ matches[i + 1, j + 1]
    IN  matches[1, 1]

\* Mutant: the pattern is compared with the text as it is.
PatternOfExact(cond) == Text(cond.path)

PatternOf(cond) ==
    IF cond.type = "prefix" THEN Text(cond.path) \o <<Percent>> ELSE <<Percent>> \o Text(cond.path)

SqlSearch(prefix) ==
    {r \in rows : Like(Text(r[1]), PatternOf([type |-> "prefix", path |-> prefix]))}

\* The recursive query split, and Postgres' array of the parts: the text up
\* to the dot that follows label number depth.
Truncated(text, depth) ==
    LET dots == {i \in DOMAIN text : text[i] = Dot}
        cut == {i \in dots : Cardinality({j \in dots : j <= i}) = depth}
    IN  IF cut = {} THEN text ELSE SubSeq(text, 1, (CHOOSE i \in cut : TRUE) - 1)

SqlList(conds, depth) ==
    {Truncated(Text(r[1]), depth) : r \in {x \in rows : \A c \in conds : Like(Text(x[1]), PatternOf(c))}}

-----------------------------------------------------------------------------
(* Properties.                                                              *)

TypeOK ==
    /\ rows \subseteq Namespaces \X Keys
    /\ Known \subseteq Namespaces /\ \A ns \in Known : data[ns] \subseteq Keys

InUse == {r[1] : r \in rows}

Scope(prefix) == {r \in rows : IsPrefix(prefix, r[1])}

\* [_filter_items, _prepare_batch_search_queries; SearchOp.namespace_prefix:
\* hierarchical path prefix defining the search scope] A search finds the
\* items of the namespaces under its prefix, in both kinds of store.
SearchIsScoped ==
    \A prefix \in Namespaces \cup {<<>>} :
        MemorySearch(prefix) = Scope(prefix) /\ SqlSearch(prefix) = Scope(prefix)

Conditions(paths) == [type : {"prefix", "suffix"}, path : paths]

\* Conditions whose wildcards are at the open end of the match.
OpenConditions ==
    Conditions(Namespaces) \cup {[type |-> "prefix", path |-> Append(<<l>>, Star)] : l \in Labels}
                           \cup {[type |-> "suffix", path |-> <<Star, l>>] : l \in Labels}

\* [_get_batch_list_namespaces_queries, split] With labels LIKE does not
\* confuse and wildcards at the end only, the SQL stores list the namespaces
\* in use that match, cut at the depth asked for, whatever was put and
\* deleted before.
SqlListsMatching ==
    \A c, d \in OpenConditions : \A depth \in 1 .. MaxDepth :
        SqlList({c, d}, depth) = {Text(ns) : ns \in ListOf(InUse, {c, d}, depth)}
=============================================================================
