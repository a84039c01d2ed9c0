------------------------------ MODULE StoreSearch ------------------------------
(***************************************************************************)
(* Search in the stores, within one namespace: the filters, the vectors     *)
(* that puts leave for semantic search, and the pages of its results, in    *)
(* InMemoryStore and in the SQL stores. The same calls are made to both.    *)
(* A key and a text are numbers; the similarity of a text to the query is   *)
(* its number, ties settled by the key.                                     *)
(***************************************************************************)
EXTENDS Naturals, FiniteSets, Sequences, SequencesExt

CONSTANTS
    Keys,
    Values,                \* items: a field score, maybe None, and texts to embed
    Numbers,               \* what filters compare with
    Indexes,               \* the index argument of put: FALSE for none
    Cascades,              \* deleting an item deletes its vectors (not in SQLite)
    TextOrder,             \* $gt and its like compare texts (Postgres)
    Expanded(_)            \* vectors a semantic search reads for a limit

None == 0                  \* the field is missing

VARIABLES
    memory,                \* InMemoryStore._data
    memoryVectors,         \* _vectors: the text of each path of a key
    rows,                  \* the table store
    vectors,               \* the table store_vectors
    refused                \* InMemoryStore.batch raised

vars == <<memory, memoryVectors, rows, vectors, refused>>

Absent == [score |-> None, texts |-> <<>>, stored |-> FALSE]
Stored(v) == [score |-> v.score, texts |-> v.texts, stored |-> TRUE]

NoVectors == <<>>

Init ==
    /\ memory = [k \in Keys |-> Absent] /\ rows = [k \in Keys |-> Absent]
    /\ memoryVectors = [k \in Keys |-> NoVectors] /\ vectors = [k \in Keys |-> NoVectors]
    /\ refused = FALSE

-----------------------------------------------------------------------------
(* Writing.                                                                 *)

Whole == 0

\* A field with one text is a path; with several, each has one of its own.
Paths(texts) ==
    IF Len(texts) = 1 THEN [p \in {Whole} |-> texts[1]] ELSE [i \in DOMAIN texts |-> texts[i]]

\* New vectors replace those of their paths: others stay.
Upsert(old, new) ==
    [p \in DOMAIN old \cup DOMAIN new |-> IF p \in DOMAIN new THEN new[p] ELSE old[p]]

\* _extract_texts groups by text: two equal texts are one embedding for two
\* places, and _insertinmem_store raises.
Embeddable(texts) == Cardinality(ToSet(texts)) = Len(texts)

Put(k, v, index) ==
    /\ rows' = [rows EXCEPT ![k] = Stored(v)]
    /\ vectors' = [vectors EXCEPT ![k] = IF index THEN Upsert(@, Paths(v.texts)) ELSE @]
    /\ IF index /\ ~Embeddable(v.texts)
       THEN refused' = TRUE /\ UNCHANGED <<memory, memoryVectors>>
       ELSE /\ memory' = [memory EXCEPT ![k] = Stored(v)]
            /\ memoryVectors' =
                 [memoryVectors EXCEPT ![k] = IF index THEN Upsert(@, Paths(v.texts)) ELSE @]
            /\ UNCHANGED refused

Delete(k) ==
    /\ memory' = [memory EXCEPT ![k] = Absent]
    /\ memoryVectors' = [memoryVectors EXCEPT ![k] = NoVectors]
    /\ rows' = [rows EXCEPT ![k] = Absent]
    /\ vectors' = [vectors EXCEPT ![k] = IF Cascades THEN NoVectors ELSE @]
    /\ UNCHANGED refused

Next ==
    \E k \in Keys : Delete(k) \/ \E v \in Values, index \in Indexes : Put(k, v, index)

Spec == Init /\ [][Next]_vars

-----------------------------------------------------------------------------
(* Filters.                                                                 *)

Operators == {"$eq", "$ne", "$gt", "$gte", "$lt", "$lte"}

Compare(op, less, greater) ==
    CASE op = "$eq" -> ~less /\ ~greater
      [] op = "$ne" -> less \/ greater
      [] op = "$gt" -> greater
      [] op = "$gte" -> ~less
      [] op = "$lt" -> less
      [] op = "$lte" -> ~greater

Digits(n) == IF n < 10 THEN <<n>> ELSE <<n \div 10, n % 10>>

\* The order of the decimal texts of numbers.
TextBefore(x, y) ==
    LET a == Digits(x)
        b == Digits(y)
    IN  a[1] < b[1] \/ (a[1] = b[1] /\ IF Len(a) = 2 /\ Len(b) = 2 THEN a[2] < b[2]
                                                                    ELSE Len(a) < Len(b))

CompareNumbers(op, x, y) == Compare(op, x < y, y < x)

\* _apply_operator. (Of a missing field, None, "$gt" and its like raise.)
MemoryKeeps(op, v, n) == CompareNumbers(op, v.score, n)

\* _get_filter_condition: a missing field is NULL, for which no comparison is true.
SqlKeeps(op, v, n) ==
    /\ v.score # None
    /\ IF TextOrder THEN Compare(op, TextBefore(v.score, n), TextBefore(n, v.score))
                    ELSE CompareNumbers(op, v.score, n)

-----------------------------------------------------------------------------
(* Semantic search.                                                         *)

\* Each vector of each item, best first.
Better(a, b) == a.text > b.text \/ (a.text = b.text /\ a.key < b.key)

Scored(items, vecs) ==
    SetToSortSeq(UNION {{[key |-> k, text |-> vecs[k][p], path |-> p] : p \in DOMAIN vecs[k]}
                          : k \in {j \in Keys : items[j].stored}}, Better)

\* The keys of a sequence of vectors, each where it comes first.
FirstOf(s) ==
    FoldLeft(LAMBDA keys, vector : IF Contains(keys, vector.key) THEN keys ELSE Append(keys, vector.key),
             <<>>, s)

PageOf(s, limit, offset) ==
    SubSeq(s, offset + 1, IF offset + limit < Len(s) THEN offset + limit ELSE Len(s))

\* _batch_search: the scored items from offset on; if the page is not full,
\* items without a vector.
Scoreless ==
    SetToSortSeq({k \in Keys : memory[k].stored /\ memoryVectors[k] = NoVectors}, <)

MemoryPage(limit, offset) ==
    LET kept == PageOf(FirstOf(Scored(memory, memoryVectors)), limit, offset)
    IN  kept \o PageOf(Scoreless, limit - Len(kept), 0)

\* Mutant: as many vectors are read as items are asked for.
SqlPageUnexpanded(limit, offset) ==
    PageOf(FirstOf(PageOf(Scored(rows, vectors), limit, 0)), limit, offset)

\* The queries scored, ranked: the best vectors, of these each item once, of
\* these the page.
SqlPage(limit, offset) ==
    PageOf(FirstOf(PageOf(Scored(rows, vectors), Expanded(limit), 0)), limit, offset)

-----------------------------------------------------------------------------
(* Properties.                                                              *)

TypeOK ==
    /\ \A k \in Keys : /\ memory[k] \in {Stored(v) : v \in Values} \cup {Absent}
                       /\ rows[k] \in {Stored(v) : v \in Values} \cup {Absent}
                       /\ DOMAIN memoryVectors[k] \subseteq Nat
    /\ refused \in BOOLEAN

\* [_apply_operator, _get_filter_condition] On the items that have the field,
\* the stores' filters keep those that compare as numbers do.
FiltersCompareNumbers ==
    \A k \in Keys, op \in Operators, n \in Numbers :
        rows[k].score # None =>
          LET kept == CompareNumbers(op, rows[k].score, n)
          IN  SqlKeeps(op, rows[k], n) = kept /\ MemoryKeeps(op, rows[k], n) = kept

Limits == 1 .. Cardinality(Keys)

\* [_prepare_batch_search_queries, _batch_search] However items were written
\* over and deleted, the first page of a semantic search holds the items of
\* the best vectors, one time each, as many as were asked for.
FirstPageIsBest ==
    \A limit \in Limits :
        /\ SqlPage(limit, 0) = PageOf(FirstOf(Scored(rows, vectors)), limit, 0)
        /\ Len(SqlPage(limit, 0)) <= Len(MemoryPage(limit, 0))
=============================================================================
