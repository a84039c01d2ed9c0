-------------------------------- MODULE PartsProofs --------------------------------
(***************************************************************************)
(* Proofs about the parts of MCParts. Over a database that rolls a failed   *)
(* transaction back, the store of BatchedStore is the store of              *)
(* KeyValueStore, for any number of callers, keys, calls and failures: what  *)
(* has to be shown of a batch is that _dedupe_ops loses no operation and     *)
(* deals every caller the result of its own (DedupeListens), and how far     *)
(* the transaction's rows are from the committed ones after each of its      *)
(* steps (TransactionInv). Those who share a database do not mix            *)
(* (DatabaseCallsProofs), channels outlive their checkpoints, a checkpoint  *)
(* of an older layout triggers what it did, and the four savers give back   *)
(* what was put.                                                            *)
(***************************************************************************)
EXTENDS MCParts, FunctionTheorems, SequenceTheorems, WellFoundedInduction,
        NaturalsInduction, TLAPS

-----------------------------------------------------------------------------
(* Facts about numbers and sequences                                        *)

\* A set of numbers that is not empty has a least one.
LEMMA LeastIsThere ==
  ASSUME NEW I \in SUBSET Nat, I # {}
  PROVE  \E x \in I : \A y \in I : x <= y
<1> DEFINE R == {ss \in Nat \X Nat : ss[1] < ss[2]}
<1>0. I \subseteq Nat /\ I # {}
  OBVIOUS
<1>1. IsWellFoundedOn(R, Nat)
  BY NatLessThanWellFounded DEF OpToRel
<1> HIDE DEF R
<1>2. PICK x \in I : \A y \in I : ~ (<<y, x>> \in R)
  BY <1>1, <1>0, WFMin
<1>3. \A y \in I : x <= y
  <2> SUFFICES ASSUME NEW y \in I PROVE x <= y
    OBVIOUS
  <2>1. x \in Nat /\ y \in Nat
    OBVIOUS
  <2>2. y < x => <<y, x>> \in R
    BY <2>1 DEF R
  <2> QED BY <1>2, <2>1, <2>2
<1> QED BY <1>3

LEMMA MinIsLeast ==
  ASSUME NEW I \in SUBSET Nat, I # {}
  PROVE  Min(I) \in I /\ \A y \in I : Min(I) <= y
BY LeastIsThere DEF Min

\* A set of numbers that holds zero and, with every number, the next, holds all.
LEMMA EveryNumber ==
  ASSUME NEW T, 0 \in T, \A n \in Nat : n \in T => n + 1 \in T
  PROVE  Nat \subseteq T
<1> SUFFICES ASSUME NEW m \in Nat, m \notin T PROVE FALSE
  OBVIOUS
<1> DEFINE I == Nat \ T
<1>1. PICK x \in I : \A y \in I : x <= y
  BY LeastIsThere
<1>2. x # 0 /\ x - 1 \in Nat /\ x - 1 \notin I
  BY <1>1
<1>3. (x - 1) + 1 \in T
  BY <1>2
<1> QED BY <1>1, <1>3

\* Where SelectInSeq finds an element of a sequence.
LEMMA PlaceIsFound ==
  ASSUME NEW S, NEW s \in Seq(S), NEW x \in ToSet(s)
  PROVE  /\ SelectInSeq(s, LAMBDA y : y = x) \in 1 .. Len(s)
         /\ s[SelectInSeq(s, LAMBDA y : y = x)] = x
<1> DEFINE I == {i \in 1 .. Len(s) : s[i] = x}
<1>1. I \subseteq Nat /\ I # {}
  BY LenProperties DEF ToSet
<1>2. Min(I) \in I
  BY <1>1, MinIsLeast
<1>3. SelectInSeq(s, LAMBDA y : y = x) = Min(I)
  BY <1>1 DEF SelectInSeq
<1> QED BY <1>2, <1>3

LEMMA SetOfSequence ==
  ASSUME NEW S, NEW s \in Seq(S)
  PROVE  /\ ToSet(s) \subseteq S
         /\ \A x \in S : ToSet(Append(s, x)) = ToSet(s) \cup {x}
         /\ ToSet(<<>>) = {}
         /\ s # <<>> => ToSet(s) # {}
<1>1. ToSet(s) \subseteq S
  BY LenProperties, ElementOfSeq DEF ToSet
<1>2. ASSUME NEW x \in S PROVE ToSet(Append(s, x)) = ToSet(s) \cup {x}
  <2>1. /\ DOMAIN Append(s, x) = 1 .. Len(s) + 1 /\ DOMAIN s = 1 .. Len(s)
        /\ Append(s, x)[Len(s) + 1] = x
        /\ \A i \in 1 .. Len(s) : Append(s, x)[i] = s[i]
    OBVIOUS
  <2>2. Len(s) \in Nat
    OBVIOUS
  <2>3. ToSet(Append(s, x)) \subseteq ToSet(s) \cup {x}
    <3> SUFFICES ASSUME NEW i \in 1 .. Len(s) + 1
                 PROVE  Append(s, x)[i] \in ToSet(s) \cup {x}
      BY <2>1 DEF ToSet
    <3>1. i = Len(s) + 1 \/ i \in 1 .. Len(s)
      BY <2>2
    <3> QED BY <3>1, <2>1 DEF ToSet
  <2>4. ToSet(s) \subseteq ToSet(Append(s, x))
    <3> SUFFICES ASSUME NEW i \in 1 .. Len(s) PROVE s[i] \in ToSet(Append(s, x))
      BY <2>1 DEF ToSet
    <3>1. i \in 1 .. Len(s) + 1
      BY <2>2
    <3> QED BY <3>1, <2>1 DEF ToSet
  <2>5. x \in ToSet(Append(s, x))
    BY <2>1, <2>2 DEF ToSet
  <2> QED BY <2>3, <2>4, <2>5
<1>3. ToSet(<<>>) = {}
  BY DEF ToSet
<1>4. s # <<>> => ToSet(s) # {}
  <2> SUFFICES ASSUME s # <<>> PROVE s[1] \in ToSet(s)
    OBVIOUS
  <2>1. 1 \in 1 .. Len(s)
    BY EmptySeq
  <2> QED BY <2>1, LenProperties DEF ToSet
<1> QED BY <1>1, <1>2, <1>3, <1>4

-----------------------------------------------------------------------------
(* _dedupe_ops                                                              *)

\* After n turns of its loop: every operation so far listens to a slot of its kind,
\* and every slot holds one of them.
Listens(S, ops, n, acc) ==
    /\ acc \in [ops : Seq(S), listen : Seq(Nat)]
    /\ Len(acc.listen) = n
    /\ \A i \in 1 .. n : /\ acc.listen[i] \in 1 .. Len(acc.ops)
                         /\ SameSlot(ops[i], acc.ops[acc.listen[i]])
    /\ \A j \in 1 .. Len(acc.ops) : \E i \in 1 .. n : acc.ops[j] = ops[i]

LEMMA SlotsAreShared ==
  ASSUME NEW a, NEW b, NEW c
  PROVE  /\ SameSlot(a, a)
         /\ SameSlot(a, b) /\ SameSlot(c, b) => SameSlot(a, c)
BY DEF SameSlot

LEMMA TurnListens ==
  ASSUME NEW S, NEW ops \in Seq(S), NEW n \in 0 .. (Len(ops) - 1), NEW acc,
         Listens(S, ops, n, acc)
  PROVE  Listens(S, ops, n + 1, Listened(acc, ops[n + 1]))
<1> DEFINE op == ops[n + 1]
           I == {i \in 1 .. Len(acc.ops) : SameSlot(op, acc.ops[i])}
           new == Listened(acc, op)
<1>1. Len(ops) \in Nat /\ n \in Nat /\ n + 1 \in 1 .. Len(ops) /\ op \in S
  BY LenProperties, ElementOfSeq
<1>2. acc.ops \in Seq(S) /\ acc.listen \in Seq(Nat) /\ Len(acc.listen) = n
  BY DEF Listens
<1>3. Len(acc.ops) \in Nat
  BY <1>2, LenProperties
<1>4. \A i \in 1 .. n : /\ acc.listen[i] \in 1 .. Len(acc.ops)
                        /\ SameSlot(ops[i], acc.ops[acc.listen[i]])
  BY DEF Listens
<1>5. \A j \in 1 .. Len(acc.ops) : \E i \in 1 .. n : acc.ops[j] = ops[i]
  BY DEF Listens
<1>6. CASE I = {}
  <2>1. new = [ops |-> Append(acc.ops, op), listen |-> Append(acc.listen, Len(acc.ops) + 1)]
    BY <1>6 DEF Listened, SelectInSeq
  <2> DEFINE o == Append(acc.ops, op)
             l == Append(acc.listen, Len(acc.ops) + 1)
  <2>2. /\ o \in Seq(S) /\ Len(o) = Len(acc.ops) + 1 /\ o[Len(acc.ops) + 1] = op
        /\ \A j \in 1 .. Len(acc.ops) : o[j] = acc.ops[j]
    BY <1>1, <1>2
  <2>3. /\ l \in Seq(Nat) /\ Len(l) = n + 1 /\ l[n + 1] = Len(acc.ops) + 1
        /\ \A i \in 1 .. n : l[i] = acc.listen[i]
    BY <1>2, <1>3
  <2> HIDE DEF o, l, op
  <2>4. ASSUME NEW i \in 1 .. n + 1
        PROVE  l[i] \in 1 .. Len(o) /\ SameSlot(ops[i], o[l[i]])
    <3>1. CASE i = n + 1
      BY <3>1, <1>3, <2>2, <2>3, SlotsAreShared DEF op
    <3>2. CASE i \in 1 .. n
      <4>1. l[i] = acc.listen[i] /\ l[i] \in 1 .. Len(acc.ops)
        BY <3>2, <2>3, <1>4
      <4>2. o[l[i]] = acc.ops[l[i]]
        BY <4>1, <2>2
      <4> QED BY <4>1, <4>2, <3>2, <1>4, <1>3, <2>2
    <3> QED BY <3>1, <3>2, <1>1
  <2>5. ASSUME NEW j \in 1 .. Len(o) PROVE \E i \in 1 .. n + 1 : o[j] = ops[i]
    <3>1. CASE j = Len(acc.ops) + 1
      BY <3>1, <1>1, <2>2 DEF op
    <3>2. CASE j \in 1 .. Len(acc.ops)
      <4>1. PICK i \in 1 .. n : acc.ops[j] = ops[i]
        BY <3>2, <1>5
      <4> QED BY <4>1, <3>2, <2>2, <1>1
    <3> QED BY <3>1, <3>2, <1>3, <2>2
  <2>6. new.ops = o /\ new.listen = l /\ new \in [ops : Seq(S), listen : Seq(Nat)]
    BY <2>1, <2>2, <2>3 DEF o, l
  <2> HIDE DEF new
  <2>7. Listens(S, ops, n + 1, new)
    BY <2>3, <2>4, <2>5, <2>6 DEF Listens
  <2> QED BY <2>7 DEF new, op
<1>7. CASE I # {}
  <2> DEFINE slot == Min(I)
             o == [acc.ops EXCEPT ![slot] = op]
             l == Append(acc.listen, slot)
  <2>1. slot \in 1 .. Len(acc.ops) /\ SameSlot(op, acc.ops[slot])
    <3>1. I \subseteq Nat
      BY <1>3
    <3> HIDE DEF I
    <3>2. slot \in I
      BY <3>1, <1>7, MinIsLeast
    <3> QED BY <3>2 DEF I
  <2>2. new = [ops |-> o, listen |-> l]
    BY <1>7, <2>1, <1>3 DEF Listened, SelectInSeq
  <2> HIDE DEF slot, op
  <2>3. /\ o \in Seq(S) /\ Len(o) = Len(acc.ops)
        /\ \A j \in 1 .. Len(acc.ops) : o[j] = IF j = slot THEN op ELSE acc.ops[j]
    BY <1>1, <1>2, <2>1, ExceptSeq DEF op
  <2>4. /\ l \in Seq(Nat) /\ Len(l) = n + 1 /\ l[n + 1] = slot
        /\ \A i \in 1 .. n : l[i] = acc.listen[i]
    BY <1>2, <1>3, <2>1
  <2>5. new.ops = o /\ new.listen = l /\ new \in [ops : Seq(S), listen : Seq(Nat)]
    BY <2>2, <2>3, <2>4
  <2> HIDE DEF o, l
  <2>6. ASSUME NEW i \in 1 .. n + 1
        PROVE  l[i] \in 1 .. Len(o) /\ SameSlot(ops[i], o[l[i]])
    <3>1. CASE i = n + 1
      BY <3>1, <2>1, <2>3, <2>4, SlotsAreShared DEF op
    <3>2. CASE i \in 1 .. n
      <4>1. l[i] = acc.listen[i] /\ l[i] \in 1 .. Len(acc.ops)
            /\ SameSlot(ops[i], acc.ops[l[i]])
        BY <3>2, <2>4, <1>4
      <4>2. CASE l[i] = slot
        <5>1. o[l[i]] = op
          BY <4>1, <4>2, <2>3
        <5>2. SameSlot(ops[i], op)
          BY <4>1, <4>2, <2>1, SlotsAreShared
        <5> QED BY <4>1, <5>1, <5>2, <2>3
      <4>3. CASE l[i] # slot
        BY <4>1, <4>3, <2>3
      <4> QED BY <4>2, <4>3
    <3> QED BY <3>1, <3>2, <1>1
  <2>7. ASSUME NEW j \in 1 .. Len(o) PROVE \E i \in 1 .. n + 1 : o[j] = ops[i]
    <3>1. CASE j = slot
      BY <3>1, <1>1, <2>3 DEF op
    <3>2. CASE j # slot
      <4>1. PICK i \in 1 .. n : acc.ops[j] = ops[i]
        BY <1>5, <2>3
      <4> QED BY <4>1, <3>2, <2>3, <1>1
    <3> QED BY <3>1, <3>2
  <2> HIDE DEF new
  <2>8. Listens(S, ops, n + 1, new)
    BY <2>4, <2>5, <2>6, <2>7 DEF Listens
  <2> QED BY <2>8 DEF new, op
<1> QED BY <1>6, <1>7

\* _dedupe_ops deals every operation a slot of its kind, and makes none up.
LEMMA DedupeListens ==
  ASSUME NEW S, NEW ops \in Seq(S)
  PROVE  Listens(S, ops, Len(ops), Dedupe(ops))
<1> DEFINE None == [ops |-> <<>>, listen |-> <<>>]
           Turns(m, h) ==
             h = [n \in 0 .. m |-> IF n = 0 THEN None ELSE Listened(h[n - 1], ops[n])]
           turn == CHOOSE h : Turns(Len(ops), h)
<1>1. Len(ops) \in Nat
  BY LenProperties
<1>2. \E h : Turns(Len(ops), h)
  <2> DEFINE T == {m \in Nat : \E h : Turns(m, h)}
  <2>1. 0 \in T
    <3> DEFINE h == [n \in 0 .. 0 |-> None]
    <3>1. \A n \in 0 .. 0 : n = 0
      OBVIOUS
    <3>2. h = [n \in 0 .. 0 |-> IF n = 0 THEN None ELSE Listened(h[n - 1], ops[n])]
      BY <3>1
    <3>3. Turns(0, h)
      BY <3>2
    <3> QED BY <3>3
  <2>2. ASSUME NEW m \in Nat, m \in T PROVE m + 1 \in T
    <3>1. PICK h : Turns(m, h)
      BY <2>2
    <3> DEFINE g == [n \in 0 .. m + 1 |-> IF n = m + 1 THEN Listened(h[m], ops[m + 1])
                                                       ELSE h[n]]
               next == [n \in 0 .. m + 1 |-> IF n = 0 THEN None ELSE Listened(g[n - 1], ops[n])]
    <3>2. ASSUME NEW n \in 0 .. m + 1 PROVE g[n] = next[n]
      <4>1. CASE n = m + 1
        <5>1. g[n] = Listened(h[m], ops[m + 1]) /\ g[m] = h[m] /\ n - 1 = m /\ n # 0
          BY <4>1
        <5> QED BY <5>1, <4>1
      <4>2. CASE n = 0
        <5>1. g[0] = h[0] /\ h[0] = None
          BY <3>1
        <5> QED BY <5>1, <4>2
      <4>3. CASE n \in 1 .. m
        <5>1. g[n] = h[n] /\ g[n - 1] = h[n - 1]
          BY <4>3
        <5>2. h[n] = Listened(h[n - 1], ops[n])
          BY <3>1, <4>3
        <5> QED BY <5>1, <5>2, <4>3
      <4> QED BY <4>1, <4>2, <4>3
    <3>3. g = next
      BY <3>2
    <3>4. Turns(m + 1, g)
      BY <3>3
    <3> HIDE DEF Turns, g
    <3> QED BY <3>4
  <2> HIDE DEF T
  <2>3. Len(ops) \in T
    BY <1>1, <2>1, <2>2, EveryNumber
  <2> HIDE DEF Turns
  <2> QED BY <2>3 DEF T
<1>3. Turns(Len(ops), turn)
  <2> HIDE DEF Turns
  <2> QED BY <1>2 DEF turn
<1>4. Dedupe(ops) = turn[Len(ops)]
  BY DEF Dedupe
<1> HIDE DEF turn
<1>5. \A n \in 0 .. Len(ops) : Listens(S, ops, n, turn[n])
  <2> DEFINE T == {n \in Nat : n <= Len(ops) => Listens(S, ops, n, turn[n])}
  <2>1. 0 \in T
    <3>1. turn[0] = None
      BY <1>1, <1>3
    <3>2. None \in [ops : Seq(S), listen : Seq(Nat)] /\ Len(<<>>) = 0
      BY EmptySeq
    <3>3. None.ops = <<>> /\ None.listen = <<>>
      OBVIOUS
    <3>4. \A i : i \notin 1 .. 0
      OBVIOUS
    <3> HIDE DEF None
    <3>5. Listens(S, ops, 0, None)
      BY <3>2, <3>3, <3>4 DEF Listens
    <3> QED BY <3>1, <3>5
  <2>2. ASSUME NEW n \in Nat, n \in T PROVE n + 1 \in T
    <3> SUFFICES ASSUME n + 1 <= Len(ops) PROVE Listens(S, ops, n + 1, turn[n + 1])
      OBVIOUS
    <3>1. Listens(S, ops, n, turn[n]) /\ n \in 0 .. (Len(ops) - 1)
      BY <1>1, <2>2
    <3>2. turn[n + 1] = Listened(turn[n], ops[n + 1])
      BY <1>1, <1>3
    <3> QED BY <3>1, <3>2, TurnListens
  <2> HIDE DEF T
  <2>3. Nat \subseteq T
    BY <2>1, <2>2, EveryNumber
  <2> QED BY <1>1, <2>3 DEF T
<1> QED BY <1>1, <1>4, <1>5

-----------------------------------------------------------------------------
(* The invariant                                                            *)

Ops == (UNION {KV!OpsOf(id) : id \in Ids}) \cup {KV!NoOp}
Outcomes == [Keys -> KV!Values] \cup KV!Values
Futures == {"none", "pending", "done", "failed", "cancelled"}

Shapes ==
    /\ data \in [Keys -> KV!Values] /\ work \in [Keys -> KV!Values]
    /\ calls \in [Ids -> [op : Ops, future : Futures, result : Outcomes]]
    /\ queue \in Seq(Ids) /\ batch \in Seq(Ids)
    /\ step \in {"idle", "read", "write", "vectors"}

\* A call that waits was made, and waits in one place; the task is busy with a
\* batch or idle.
QueueInv ==
    /\ \A id \in Todo : calls[id].future # "none" /\ calls[id].op \in KV!OpsOf(id)
    /\ ToSet(queue) \cap ToSet(batch) = {}
    /\ step = "idle" <=> batch = <<>>

\* The rows of the transaction: those committed; then without some that the batch
\* deletes; then with what it writes. Its reads saw the committed rows.
TransactionInv ==
    /\ step = "read" => work = data
    /\ step \in {"write", "vectors"} =>
         results = [i \in DOMAIN Deduped.ops |-> KV!ReadOf(data, Deduped.ops[i])]
    /\ step = "write" =>
         \A k \in Keys : \/ work[k] = data[k]
                         \/ work[k] = Nothing /\ \E op \in Deletes : op.key = k
    /\ step = "vectors" =>
         \A k \in Keys : \/ \E op \in Puts : op.key = k /\ work[k] = op.value
                         \/ work[k] = data[k] /\ \A op \in Puts : op.key # k

StoreInv == Shapes /\ QueueInv /\ TransactionInv

LEMMA OpsAreTyped ==
  ASSUME NEW id \in Ids, NEW op \in KV!OpsOf(id)
  PROVE  /\ op \in Ops
         /\ op.kind \in {"get", "search", "put"}
         /\ op.kind = "get" => op.key \in Keys
         /\ KV!IsPut(op) => op.key \in Keys /\ op.value \in KV!Values
BY DEF Ops, Ids, KV!OpsOf, KV!IsPut, KV!Values, KV!Nothing

LEMMA ReadsAreOutcomes ==
  ASSUME NEW id \in Ids, NEW op \in KV!OpsOf(id), data \in [Keys -> KV!Values]
  PROVE  KV!ReadOf(data, op) \in Outcomes
BY OpsAreTyped DEF KV!ReadOf, KV!IsPut, Outcomes, KV!Values

\* What the transaction of a batch works with.
LEMMA BatchIsDeduped ==
  ASSUME Shapes, QueueInv
  PROVE  /\ \A i \in 1 .. Len(batch) :
              /\ Deduped.listen[i] \in DOMAIN Deduped.ops
              /\ SameSlot(Op(batch[i]), Deduped.ops[Deduped.listen[i]])
         /\ \A op \in Puts : KV!IsPut(op) /\ \E id \in ToSet(batch) : op = Op(id)
         /\ \A id \in ToSet(batch) : KV!IsPut(Op(id)) => \E op \in Puts : op.key = Op(id).key
<1> DEFINE ops == [i \in DOMAIN batch |-> Op(batch[i])]
<1>1. batch \in Seq(Ids) /\ DOMAIN batch = 1 .. Len(batch) /\ Len(batch) \in Nat
  BY LenProperties DEF Shapes
<1>2. \A i \in 1 .. Len(batch) : batch[i] \in ToSet(batch) /\ batch[i] \in Ids
  BY <1>1, ElementOfSeq DEF ToSet
<1>3. \A i \in 1 .. Len(batch) : Op(batch[i]) \in Ops
  BY <1>2, OpsAreTyped DEF QueueInv, Todo, Op
<1>4. ops \in Seq(Ops) /\ Len(ops) = Len(batch)
  BY <1>1, <1>3
<1>5. Listens(Ops, ops, Len(ops), Dedupe(ops)) /\ Deduped = Dedupe(ops)
  BY <1>4, DedupeListens DEF Deduped
<1>6. Deduped.ops \in Seq(Ops) /\ DOMAIN Deduped.ops = 1 .. Len(Deduped.ops)
  BY <1>5, LenProperties DEF Listens
<1>7. \A i \in 1 .. Len(batch) : ops[i] = Op(batch[i])
  BY <1>1
<1> HIDE DEF ops
<1>8. ASSUME NEW i \in 1 .. Len(batch)
      PROVE  /\ Deduped.listen[i] \in DOMAIN Deduped.ops
             /\ SameSlot(Op(batch[i]), Deduped.ops[Deduped.listen[i]])
  BY <1>4, <1>5, <1>6, <1>7 DEF Listens
<1>9. ASSUME NEW op \in Puts PROVE KV!IsPut(op) /\ \E id \in ToSet(batch) : op = Op(id)
  <2>1. PICK j \in DOMAIN Deduped.ops : op = Deduped.ops[j] /\ KV!IsPut(op)
    BY <1>9 DEF Puts
  <2>2. PICK i \in 1 .. Len(batch) : Deduped.ops[j] = ops[i]
    BY <1>4, <1>5, <1>6 DEF Listens
  <2> QED BY <2>1, <2>2, <1>2, <1>7
<1>10. ASSUME NEW id \in ToSet(batch), KV!IsPut(Op(id))
       PROVE  \E op \in Puts : op.key = Op(id).key
  <2>1. PICK i \in 1 .. Len(batch) : batch[i] = id
    BY <1>1 DEF ToSet
  <2> DEFINE op == Deduped.ops[Deduped.listen[i]]
  <2>2. KV!IsPut(op) /\ op.key = Op(id).key
    BY <1>8, <1>10, <2>1 DEF SameSlot
  <2>3. op \in Puts
    BY <1>8, <2>2 DEF Puts
  <2> QED BY <2>2, <2>3
<1> QED BY <1>8, <1>9, <1>10

\* As long as its operations are the same, so is what a batch comes to.
LEMMA SameBatch ==
  ASSUME batch' = batch, \A id \in ToSet(batch) : Op(id)' = Op(id)
  PROVE  Deduped' = Deduped /\ Puts' = Puts /\ Deletes' = Deletes
<1>1. \A i \in DOMAIN batch : batch[i] \in ToSet(batch)
  BY DEF ToSet
<1>2. [i \in DOMAIN batch |-> Op(batch[i])]' = [i \in DOMAIN batch |-> Op(batch[i])]
  BY <1>1 DEF Op
<1>3. Deduped' = Deduped
  BY <1>2 DEF Deduped
<1>4. Puts' = Puts
  BY <1>3 DEF Puts
<1> QED BY <1>3, <1>4 DEF Deletes

\* A step that is none of the transaction's leaves it as it was.
LEMMA TransactionStays ==
  ASSUME TransactionInv, UNCHANGED <<data, batch, step, work, results>>,
         \A id \in ToSet(batch) : Op(id)' = Op(id)
  PROVE  TransactionInv'
<1>1. Deduped' = Deduped /\ Puts' = Puts /\ Deletes' = Deletes
  BY SameBatch
<1>2. Keys' = Keys /\ Nothing' = Nothing
  BY DEF Nothing
<1> QED BY <1>1, <1>2 DEF TransactionInv

-----------------------------------------------------------------------------
(* The steps                                                                *)

LEMMA StoreStarts == Init => StoreInv /\ KV!Init
<1> SUFFICES ASSUME Init PROVE StoreInv /\ KV!Init
  OBVIOUS
<1>1. ToSet(<<>>) = {}
  BY DEF ToSet
<1>2. Todo = {}
  BY <1>1 DEF Init, Todo
<1>3. KV!Init
  BY <1>2 DEF Init, KV!Init, Ids, Nothing
<1>4. Shapes
  <2>1. Nothing \in KV!Values /\ Nothing \in Outcomes
    BY DEF Outcomes, Nothing, KV!Values
  <2>2. KV!NoOp \in Ops
    BY DEF Ops
  <2>3. <<>> \in Seq(Ids)
    BY EmptySeq
  <2> QED BY <2>1, <2>2, <2>3 DEF Init, Shapes, Futures
<1>5. QueueInv /\ TransactionInv
  BY <1>1, <1>2 DEF Init, QueueInv, TransactionInv
<1> QED BY <1>3, <1>4, <1>5 DEF StoreInv

LEMMA CallInvokes ==
  ASSUME StoreInv, NEW c \in Callers, Call(c)
  PROVE  StoreInv' /\ KV!Invoke(c)
<1>1. PICK n \in 1 .. MaxCalls[c] :
        /\ \A m \in 1 .. MaxCalls[c] : (calls[<<c, m>>].future = "none") <=> (m >= n)
        /\ \E op \in KV!OpsOf(<<c, n>>) :
              calls' = [calls EXCEPT ![<<c, n>>].op = op, ![<<c, n>>].future = "pending"]
        /\ queue' = Append(queue, <<c, n>>)
  BY DEF Call
<1> DEFINE id == <<c, n>>
<1>2. PICK op \in KV!OpsOf(id) :
        calls' = [calls EXCEPT ![id].op = op, ![id].future = "pending"]
  BY <1>1
<1>3. UNCHANGED <<data, batch, step, work, results>>
  BY DEF Call, Running
<1>4. id \in Ids /\ calls[id].future = "none" /\ id \notin Todo
  BY <1>1 DEF StoreInv, QueueInv, Ids, KV!Ids
<1>5. queue \in Seq(Ids) /\ queue' \in Seq(Ids) /\ ToSet(queue') = ToSet(queue) \cup {id}
  <2> HIDE DEF id
  <2>1. queue \in Seq(Ids) /\ queue' = Append(queue, id)
    BY <1>1 DEF StoreInv, Shapes, id
  <2> QED BY <2>1, <1>4, SetOfSequence
<1>6. Todo' = Todo \cup {id}
  BY <1>3, <1>5 DEF Todo
<1>7. KV!Invoke(c)
  BY <1>1, <1>3, <1>6 DEF KV!Invoke, Call
<1> DEFINE Record == [op : Ops, future : Futures, result : Outcomes]
<1>8. /\ calls' \in [Ids -> Record]
      /\ calls'[id].op = op /\ calls'[id].future = "pending"
      /\ \A other \in Ids \ {id} : calls'[other] = calls[other]
  <2>1. op \in Ops /\ "pending" \in Futures /\ calls \in [Ids -> Record]
    BY <1>4, OpsAreTyped DEF StoreInv, Shapes, Futures
  <2> DEFINE r == [calls[id] EXCEPT !.op = op, !.future = "pending"]
  <2>2. r \in Record /\ r.op = op /\ r.future = "pending"
    BY <2>1, <1>4
  <2>3. calls' = [calls EXCEPT ![id] = r]
    BY <1>2, <2>1, <1>4
  <2> HIDE DEF r, Record, id
  <2> QED BY <2>1, <2>2, <2>3, <1>4
<1> HIDE DEF id
<1>9. Shapes'
  BY <1>3, <1>5, <1>8 DEF StoreInv, Shapes
<1>10. QueueInv'
  <2>1. \A other \in Todo : other \in Ids
    BY SetOfSequence DEF StoreInv, Shapes, Todo
  <2>2. \A other \in Todo' : calls'[other].future # "none" /\ calls'[other].op \in KV!OpsOf(other)
    BY <1>4, <1>6, <1>8, <2>1 DEF StoreInv, QueueInv
  <2>3. ToSet(queue') \cap ToSet(batch') = {}
    BY <1>3, <1>4, <1>5 DEF StoreInv, QueueInv, Todo
  <2> QED BY <2>2, <2>3, <1>3 DEF StoreInv, QueueInv
<1>11. TransactionInv'
  <2>1. \A other \in ToSet(batch) : other \in Ids /\ other # id
    BY <1>4, SetOfSequence DEF StoreInv, Shapes, Todo
  <2>2. \A other \in ToSet(batch) : Op(other)' = Op(other)
    BY <2>1, <1>8 DEF Op
  <2> QED BY <2>2, <1>3, TransactionStays DEF StoreInv
<1> QED BY <1>7, <1>9, <1>10, <1>11 DEF StoreInv

LEMMA CancelGivesUp ==
  ASSUME StoreInv, NEW id \in Ids, Cancel(id)
  PROVE  StoreInv' /\ KV!GiveUp(id)
<1>1. UNCHANGED <<data, queue, batch, step, work, results>>
  BY DEF Cancel, Running
<1>2. Todo' = Todo
  BY <1>1 DEF Todo
<1>3. KV!GiveUp(id)
  BY <1>1, <1>2 DEF Cancel, KV!GiveUp
<1> DEFINE Record == [op : Ops, future : Futures, result : Outcomes]
<1>4. /\ calls' \in [Ids -> Record]
      /\ \A other \in Ids : /\ calls'[other].op = calls[other].op
                            /\ calls[other].future # "none" => calls'[other].future # "none"
  <2>1. "cancelled" \in Futures /\ calls \in [Ids -> Record]
    BY DEF StoreInv, Shapes, Futures
  <2> DEFINE r == [calls[id] EXCEPT !.future = "cancelled"]
  <2>2. r \in Record /\ r.op = calls[id].op /\ r.future = "cancelled"
    BY <2>1
  <2>3. calls' = [calls EXCEPT ![id] = r]
    BY <2>1 DEF Cancel
  <2> HIDE DEF r, Record
  <2> QED BY <2>1, <2>2, <2>3
<1>5. \A other \in Todo : other \in Ids
  BY SetOfSequence DEF StoreInv, Shapes, Todo
<1>6. Shapes' /\ QueueInv'
  BY <1>1, <1>2, <1>4, <1>5 DEF StoreInv, Shapes, QueueInv
<1>7. \A other \in ToSet(batch) : Op(other)' = Op(other)
  BY <1>4, <1>5 DEF Op, Todo
<1> QED BY <1>1, <1>3, <1>6, <1>7, TransactionStays DEF StoreInv

LEMMA TakeIsSilent ==
  ASSUME StoreInv, Take
  PROVE  StoreInv' /\ UNCHANGED KV!vars
<1>1. batch = <<>> /\ ToSet(<<>>) = {} /\ <<>> \in Seq(Ids)
  BY EmptySeq DEF StoreInv, QueueInv, Take, ToSet
<1>2. Todo' = Todo /\ ToSet(queue') = {}
  BY <1>1 DEF Todo, Take
<1>3. Shapes'
  BY <1>1 DEF StoreInv, Shapes, Take
<1>4. QueueInv' /\ TransactionInv'
  BY <1>2 DEF StoreInv, QueueInv, TransactionInv, Take
<1> QED BY <1>2, <1>3, <1>4 DEF StoreInv, Take, KV!vars

LEMMA ReadIsSilent ==
  ASSUME StoreInv, Read
  PROVE  StoreInv' /\ UNCHANGED KV!vars
<1>1. UNCHANGED <<data, calls, queue, batch, work>> /\ work = data
  BY DEF StoreInv, TransactionInv, Read
<1>2. Todo' = Todo /\ Deduped' = Deduped
  BY <1>1, SameBatch DEF Todo, Op
<1>3. Shapes' /\ QueueInv'
  BY <1>1, <1>2 DEF StoreInv, Shapes, QueueInv, Read
<1>4. TransactionInv'
  <2>1. results' = [i \in DOMAIN Deduped.ops |-> KV!ReadOf(data, Deduped.ops[i])]
    BY <1>1 DEF Read
  <2> QED BY <1>1, <1>2, <2>1 DEF TransactionInv, Read
<1> QED BY <1>1, <1>2, <1>3, <1>4 DEF StoreInv, KV!vars

LEMMA WriteIsSilent ==
  ASSUME StoreInv, Write
  PROVE  StoreInv' /\ UNCHANGED KV!vars
<1>1. UNCHANGED <<data, calls, queue, batch, results>> /\ step = "write"
  BY DEF Write
<1>2. Todo' = Todo /\ Deduped' = Deduped /\ Puts' = Puts /\ Deletes' = Deletes
  BY <1>1, SameBatch DEF Todo, Op
<1>3. \A op \in Puts : op.key \in Keys /\ op.value \in KV!Values
  <2> SUFFICES ASSUME NEW op \in Puts PROVE op.key \in Keys /\ op.value \in KV!Values
    OBVIOUS
  <2>1. PICK id \in ToSet(batch) : op = Op(id) /\ KV!IsPut(op)
    BY BatchIsDeduped DEF StoreInv
  <2>2. id \in Ids /\ op \in KV!OpsOf(id)
    BY <2>1, SetOfSequence DEF StoreInv, Shapes, QueueInv, Todo, Op
  <2> QED BY <2>1, <2>2, OpsAreTyped
<1>4. Nothing \in KV!Values
  BY DEF Nothing, KV!Values
<1>5. results' = [i \in DOMAIN Deduped'.ops |-> KV!ReadOf(data', Deduped'.ops[i])]
  BY <1>1, <1>2 DEF StoreInv, TransactionInv
<1>6. CASE \E op \in Deletes : work[op.key] # Nothing
  <2>1. PICK op \in Deletes : /\ work' = [work EXCEPT ![op.key] = Nothing]
                              /\ UNCHANGED step
    BY <1>6 DEF Write
  <2>2. op.key \in Keys
    BY <1>3 DEF Deletes
  <2>3. work' \in [Keys -> KV!Values]
    BY <1>4, <2>1, <2>2 DEF StoreInv, Shapes
  <2>4. \A k \in Keys : \/ work'[k] = data[k]
                        \/ work'[k] = Nothing /\ \E o \in Deletes : o.key = k
    BY <1>1, <2>1, <2>2 DEF StoreInv, Shapes, TransactionInv
  <2>5. Shapes' /\ QueueInv'
    BY <1>1, <1>2, <2>1, <2>3 DEF StoreInv, Shapes, QueueInv
  <2>6. TransactionInv'
    BY <1>1, <1>2, <1>5, <2>1, <2>4 DEF TransactionInv, Nothing
  <2> QED BY <1>1, <1>2, <2>5, <2>6 DEF StoreInv, KV!vars
<1>7. CASE ~ \E op \in Deletes : work[op.key] # Nothing
  <2> DEFINE into(k) == {op \in Inserts : op.key = k}
  <2>1. /\ work' = [k \in Keys |-> IF \E op \in Inserts : op.key = k
                                   THEN (CHOOSE op \in Inserts : op.key = k).value
                                   ELSE work[k]]
        /\ step' = "vectors"
    BY <1>7 DEF Write
  <2>2. ASSUME NEW k \in Keys
        PROVE  /\ work'[k] \in KV!Values
               /\ \/ \E op \in Puts : op.key = k /\ work'[k] = op.value
                  \/ work'[k] = data[k] /\ \A op \in Puts : op.key # k
    <3>1. CASE \E op \in Inserts : op.key = k
      <4> DEFINE op == CHOOSE o \in Inserts : o.key = k
      <4>1. op \in Inserts /\ op.key = k
        BY <3>1
      <4>2. work'[k] = op.value
        BY <2>1, <3>1
      <4> HIDE DEF op
      <4> QED BY <4>1, <4>2, <1>3 DEF Inserts
    <3>2. CASE ~ \E op \in Inserts : op.key = k
      <4>1. work'[k] = work[k] /\ work[k] \in KV!Values
        BY <2>1, <3>2 DEF StoreInv, Shapes
      <4>2. CASE \E op \in Deletes : op.key = k
        BY <1>7, <4>1, <4>2 DEF Deletes
      <4>3. CASE ~ \E op \in Deletes : op.key = k
        <5>1. work[k] = data[k]
          BY <1>1, <4>3 DEF StoreInv, TransactionInv
        <5>2. \A op \in Puts : op.key # k
          BY <3>2, <4>3 DEF Inserts
        <5> QED BY <4>1, <5>1, <5>2
      <4> QED BY <4>2, <4>3
    <3> QED BY <3>1, <3>2
  <2>3. work' \in [Keys -> KV!Values]
    BY <2>1, <2>2
  <2>4. Shapes' /\ QueueInv'
    BY <1>1, <1>2, <2>1, <2>3 DEF StoreInv, Shapes, QueueInv
  <2>5. TransactionInv'
    BY <1>1, <1>2, <1>5, <2>1, <2>2 DEF TransactionInv
  <2> QED BY <1>1, <1>2, <2>4, <2>5 DEF StoreInv, KV!vars
<1> QED BY <1>6, <1>7

\* The end of a batch, however it ends.
LEMMA BatchIsAnswered ==
  ASSUME StoreInv, step # "idle", NEW future \in Futures \ {"none"}, NEW result,
         \A id \in ToSet(batch) : result[id] \in Outcomes,
         Resolve(future, result), work' \in [Keys -> KV!Values], data' \in [Keys -> KV!Values]
  PROVE  /\ StoreInv'
         /\ ToSet(batch) \in (SUBSET Todo) \ {{}}
         /\ Todo' = Todo \ ToSet(batch)
         /\ calls' = KV!Answered(ToSet(batch), future, result)
<1>1. queue' = queue /\ batch' = <<>> /\ step' = "idle" /\ <<>> \in Seq(Ids)
  BY EmptySeq DEF Resolve
<1>2. Todo' = Todo \ ToSet(batch) /\ ToSet(batch) \in (SUBSET Todo) \ {{}}
  <2>1. ToSet(<<>>) = {}
    BY <1>1, SetOfSequence
  <2>2. batch # <<>> /\ batch \in Seq(Ids) /\ ToSet(queue) \cap ToSet(batch) = {}
    BY DEF StoreInv, Shapes, QueueInv
  <2>3. ToSet(batch) # {}
    BY <2>2, SetOfSequence
  <2> QED BY <1>1, <2>1, <2>2, <2>3 DEF Todo
<1>3. calls' = KV!Answered(ToSet(batch), future, result)
  BY DEF Resolve, KV!Answered, Ids
<1> DEFINE Record == [op : Ops, future : Futures, result : Outcomes]
<1>4. ASSUME NEW id \in Ids
      PROVE  /\ calls'[id] \in Record
             /\ calls'[id].op = calls[id].op
             /\ calls[id].future # "none" => calls'[id].future # "none"
  <2>1. calls[id] \in Record
    BY DEF StoreInv, Shapes
  <2>2. CASE id \in ToSet(batch) /\ calls[id].future = "pending"
    <3>1. calls'[id] = [calls[id] EXCEPT !.future = future, !.result = result[id]]
      BY <2>2 DEF Resolve
    <3> QED BY <2>1, <2>2, <3>1
  <2>3. CASE ~ (id \in ToSet(batch) /\ calls[id].future = "pending")
    <3>1. calls'[id] = calls[id]
      BY <2>3 DEF Resolve
    <3> QED BY <2>1, <3>1
  <2> QED BY <2>2, <2>3
<1>5. calls' \in [Ids -> Record]
  <2>1. calls' = [id \in Ids |-> calls'[id]]
    BY DEF Resolve
  <2> HIDE DEF Record
  <2> QED BY <1>4, <2>1
<1>6. Shapes'
  BY <1>1, <1>5 DEF StoreInv, Shapes
<1>7. QueueInv'
  <2>1. \A id \in Todo' : id \in Todo /\ id \in Ids
    BY <1>2, SetOfSequence DEF StoreInv, Shapes, Todo
  <2>2. \A id \in Todo' : calls'[id].future # "none" /\ calls'[id].op \in KV!OpsOf(id)
    BY <1>4, <2>1 DEF StoreInv, QueueInv
  <2>3. ToSet(batch') = {}
    BY <1>1, SetOfSequence
  <2> QED BY <1>1, <2>2, <2>3 DEF QueueInv
<1>8. TransactionInv'
  BY <1>1 DEF TransactionInv
<1> QED BY <1>2, <1>3, <1>6, <1>7, <1>8 DEF StoreInv

LEMMA FinishServes ==
  ASSUME StoreInv, Finish
  PROVE  StoreInv' /\ \E S \in (SUBSET Todo) \ {{}} : KV!Serve(S)
<1> DEFINE B == ToSet(batch)
           dealt == [id \in B |->
                       results[Deduped.listen[SelectInSeq(batch, LAMBDA x : x = id)]]]
<1>1. step = "vectors" /\ data' = work /\ work' = work /\ Resolve("done", dealt)
  BY DEF Finish
<1>2. B \subseteq Ids /\ \A id \in B : Op(id) \in KV!OpsOf(id)
  BY SetOfSequence DEF StoreInv, Shapes, QueueInv, Todo, Op
<1>3. ASSUME NEW id \in B PROVE dealt[id] = KV!ReadOf(data, Op(id))
  <2> DEFINE i == SelectInSeq(batch, LAMBDA x : x = id)
             op == Deduped.ops[Deduped.listen[i]]
  <2>1. i \in 1 .. Len(batch) /\ batch[i] = id
    BY PlaceIsFound DEF StoreInv, Shapes
  <2>2. dealt[id] = results[Deduped.listen[i]]
    OBVIOUS
  <2> HIDE DEF i
  <2>3. Deduped.listen[i] \in DOMAIN Deduped.ops /\ SameSlot(Op(id), op)
    BY <2>1, BatchIsDeduped DEF StoreInv
  <2>4. results[Deduped.listen[i]] = KV!ReadOf(data, op)
    BY <1>1, <2>3 DEF StoreInv, TransactionInv
  <2> HIDE DEF op
  <2>5. KV!ReadOf(data, op) = KV!ReadOf(data, Op(id))
    <3>1. CASE KV!IsPut(Op(id))
      BY <3>1, <2>3 DEF SameSlot, KV!IsPut, KV!ReadOf
    <3>2. CASE ~ KV!IsPut(Op(id))
      BY <3>2, <2>3 DEF SameSlot
    <3> QED BY <3>1, <3>2
  <2> QED BY <2>2, <2>4, <2>5
<1>4. dealt = [id \in B |-> KV!ReadOf(data, calls[id].op)]
  BY <1>3 DEF Op
<1> HIDE DEF dealt
<1>5. \A id \in B : dealt[id] \in Outcomes
  BY <1>2, <1>3, ReadsAreOutcomes DEF StoreInv, Shapes
<1>6. data' \in [Keys -> KV!Values] /\ work' \in [Keys -> KV!Values] /\ "done" \in Futures \ {"none"}
  BY <1>1 DEF StoreInv, Shapes, Futures
<1>7. /\ StoreInv' /\ B \in (SUBSET Todo) \ {{}} /\ Todo' = Todo \ B
      /\ calls' = KV!Answered(B, "done", dealt)
  BY <1>1, <1>5, <1>6, BatchIsAnswered
<1>8. ASSUME NEW k \in Keys
      PROVE  IF KV!Written(B, k) = {} THEN data'[k] = data[k]
                                      ELSE data'[k] \in KV!Written(B, k)
  <2>1. CASE \E op \in Puts : op.key = k /\ work[k] = op.value
    <3>1. PICK op \in Puts : op.key = k /\ work[k] = op.value
      BY <2>1
    <3>2. PICK id \in B : op = Op(id) /\ KV!IsPut(op)
      BY BatchIsDeduped DEF StoreInv
    <3>3. work[k] \in KV!Written(B, k)
      BY <3>1, <3>2 DEF KV!Written, Op
    <3> QED BY <1>1, <3>3
  <2>2. CASE work[k] = data[k] /\ \A op \in Puts : op.key # k
    <3>1. \A id \in B : ~ (KV!IsPut(Op(id)) /\ Op(id).key = k)
      BY <2>2, BatchIsDeduped DEF StoreInv
    <3>2. KV!Written(B, k) = {}
      BY <3>1 DEF KV!Written, Op
    <3> QED BY <1>1, <2>2, <3>2
  <2> QED BY <1>1, <2>1, <2>2 DEF StoreInv, TransactionInv
<1>9. KV!Serve(B)
  BY <1>4, <1>6, <1>7, <1>8 DEF KV!Serve
<1> QED BY <1>7, <1>9

LEMMA FailRefuses ==
  ASSUME StoreInv, RollsBack, Fail
  PROVE  StoreInv' /\ \E S \in (SUBSET Todo) \ {{}} : KV!Refuse(S)
<1> DEFINE B == ToSet(batch)
           none == [id \in B |-> Nothing]
<1>1. step # "idle" /\ data' = data /\ work' = data /\ Resolve("failed", none)
  BY DEF Fail
<1>2. \A id \in B : none[id] \in Outcomes
  BY DEF Outcomes, Nothing, KV!Values
<1>3. data' \in [Keys -> KV!Values] /\ work' \in [Keys -> KV!Values] /\ "failed" \in Futures \ {"none"}
  BY <1>1 DEF StoreInv, Shapes, Futures
<1>4. /\ StoreInv' /\ B \in (SUBSET Todo) \ {{}} /\ Todo' = Todo \ B
      /\ calls' = KV!Answered(B, "failed", none)
  <2> HIDE DEF none
  <2> QED BY <1>1, <1>2, <1>3, BatchIsAnswered
<1>5. KV!Refuse(B)
  BY <1>1, <1>4 DEF KV!Refuse, Nothing
<1> QED BY <1>4, <1>5

-----------------------------------------------------------------------------
(* The theorem                                                              *)

\* Where a failed transaction is rolled back, the callers of the batched store
\* (store/base/batch.py) get what those of an unbatched one may get: every batch
\* is served at one instant, in full or not at all, each caller with the result
\* of its own operation, and no call is lost or served twice.
THEOREM BatchedStoreIsStore == RollsBack => (Spec => ImplementsKeyValueStore)
<1> SUFFICES ASSUME RollsBack PROVE Spec => KV!Spec
  BY DEF ImplementsKeyValueStore
<1>1. Init => StoreInv /\ KV!Init
  BY StoreStarts
<1>2. StoreInv /\ [Next]_vars => StoreInv' /\ [KV!Next]_(KV!vars)
  <2> SUFFICES ASSUME StoreInv, [Next]_vars PROVE StoreInv' /\ [KV!Next]_(KV!vars)
    OBVIOUS
  <2>1. ASSUME NEW c \in Callers, Call(c) PROVE StoreInv' /\ KV!Next
    BY <2>1, CallInvokes DEF KV!Next
  <2>2. ASSUME NEW id \in Ids, Cancel(id) PROVE StoreInv' /\ KV!Next
    BY <2>2, CancelGivesUp DEF KV!Next, Ids
  <2>3. CASE Take
    BY <2>3, TakeIsSilent
  <2>4. CASE Read
    BY <2>4, ReadIsSilent
  <2>5. CASE Write
    BY <2>5, WriteIsSilent
  <2>6. CASE Finish
    BY <2>6, FinishServes DEF KV!Next
  <2>7. CASE Fail
    BY <2>7, FailRefuses DEF KV!Next
  <2>8. CASE UNCHANGED vars
    <3>1. UNCHANGED <<data, calls, queue, batch, step, work, results>>
      BY <2>8 DEF vars
    <3>2. Todo' = Todo
      BY <3>1 DEF Todo
    <3>3. Shapes' /\ QueueInv'
      BY <3>1, <3>2 DEF StoreInv, Shapes, QueueInv
    <3>4. TransactionInv'
      BY <3>1, TransactionStays DEF StoreInv, Op
    <3> QED BY <3>1, <3>2, <3>3, <3>4 DEF StoreInv, KV!vars
  <2> QED BY <2>1, <2>2, <2>3, <2>4, <2>5, <2>6, <2>7, <2>8 DEF Next
<1> QED BY <1>1, <1>2, PTL DEF Spec, KV!Spec

-----------------------------------------------------------------------------
(* Those who share a database                                               *)

LEMMA DatabaseSteps == [PartsNext]_all => [Database!Next]_(Database!vars)
  <1>. SUFFICES ASSUME [PartsNext]_all PROVE [Database!Next]_(Database!vars)
    OBVIOUS
  <1>1. ASSUME UNCHANGED calling PROVE UNCHANGED Database!vars
    BY <1>1 DEF calling, Database!vars
  <1>2. Database!Next \/ UNCHANGED calling
    BY DEF PartsNext, Others, all
  <1>. QED BY <1>1, <1>2

\* [cursor, _cursor, put, put_writes, delete_thread, batch] Of the callers of any of the
\* savers and stores that keep a database, whatever the server refuses and whichever tasks
\* are cancelled: what a call saves is there at once and when it returns, and never are two
\* of them between the statements of one connection.
THEOREM DatabaseIsNotMixed ==
    ASSUME Database!ObjectsOK
    PROVE  PartsSpec => []DatabaseIsShared
  <1>1. PartsInit => Database!Init
    BY DEF PartsInit
  <1>2. Database!Spec => [](Database!CallsAreWhole /\ Database!ReturnedIsSaved
                              /\ Database!OneCursorAtATime)
    BY Database!CallersDoNotMix
  <1>. QED BY <1>1, <1>2, DatabaseSteps, PTL DEF PartsSpec, Database!Spec, DatabaseIsShared
-----------------------------------------------------------------------------
(* Channels                                                                 *)

\* What a reducer's channel may hold.
Reduced == ChannelValues \cup {"Overwrite", "zero"}

\* A channel that waits for the end of the run holds something when the run has ended; one
\* whose type has an empty value always holds a value.
ChannelInv ==
  /\ kind \in ChannelSetups
  /\ cFinished \in BOOLEAN
  /\ cFinished => kind.name \in Channel!After
  /\ kind.name = "after" /\ cFinished => cHeld # <<>>
  /\ kind.name = "binop" /\ kind.default => cHeld \in Seq(Reduced) \ {<<>>}
  /\ Channel!ReadOnce
  /\ Channel!OverwriteDecides

LEMMA ChannelFields ==
  ASSUME kind \in ChannelSetups
  PROVE  /\ kind.name \in {"last", "any", "after", "barrier", "barrier_after", "ephemeral",
                           "untracked", "topic", "binop"}
         /\ kind.name = "binop" => kind.default \in BOOLEAN
  BY DEF ChannelSetups

\* The writes of a step that are given to a reducer.
LEMMA ReducerWrites ==
  ASSUME NEW ws \in Channel!Writes, kind.name = "binop"
  PROVE  /\ Channel!ValuesOf(ws) \in Seq(Reduced)
         /\ \A i \in DOMAIN ws : ws[i].value \in Reduced
<1> DEFINE Of(n) == [1 .. n -> {Channel!Write(v) : v \in ChannelValues}
                               \cup {Channel!Overwrite(v) : v \in ChannelValues}]
<1>1. PICK n \in 0 .. 3 : ws \in Of(n)
  <2>1. ws \in UNION {Of(n) : n \in 0 .. 3}
    BY DEF Channel!Writes, Channel!Barriers
  <2> HIDE DEF Of
  <2> QED BY <2>1
<1>2. DOMAIN ws = 1 .. n
  BY <1>1
<1>3. ASSUME NEW i \in 1 .. n
      PROVE  ws[i].value \in ChannelValues /\ (ws[i].over = TRUE \/ ws[i].over = FALSE)
  <2>1. \/ \E v \in ChannelValues : ws[i] = Channel!Write(v)
        \/ \E v \in ChannelValues : ws[i] = Channel!Overwrite(v)
    BY <1>1
  <2>2. CASE \E v \in ChannelValues : ws[i] = Channel!Write(v)
    <3>1. PICK v \in ChannelValues : ws[i] = Channel!Write(v)
      BY <2>2
    <3>2. ws[i].value = v /\ ws[i].over = FALSE
      BY <3>1 DEF Channel!Write
    <3> QED BY <3>2
  <2>3. CASE \E v \in ChannelValues : ws[i] = Channel!Overwrite(v)
    <3>1. PICK v \in ChannelValues : ws[i] = Channel!Overwrite(v)
      BY <2>3
    <3>2. ws[i].value = v /\ ws[i].over = TRUE
      BY <3>1 DEF Channel!Overwrite
    <3> QED BY <3>2
  <2> QED BY <2>1, <2>2, <2>3
<1>4. \A i \in 1 .. n : Channel!Raw(ws[i]) \in Reduced
  BY <1>3 DEF Channel!Raw, Reduced
<1>5. Channel!ValuesOf(ws) = [i \in 1 .. n |-> Channel!Raw(ws[i])]
  BY <1>2 DEF Channel!ValuesOf
<1>6. Channel!ValuesOf(ws) \in [1 .. n -> Reduced]
  BY <1>4, <1>5
<1>7. Channel!ValuesOf(ws) \in Seq(Reduced)
  BY <1>6
<1>8. \A i \in DOMAIN ws : ws[i].value \in Reduced
  BY <1>2, <1>3 DEF Reduced
<1> QED BY <1>7, <1>8

\* An empty value stays a value, and one Overwrite alone decides.
LEMMA ReducerHolds ==
  ASSUME NEW ws \in Channel!Writes, kind.name = "binop",
         NEW h \in Seq(Reduced) \ {<<>>}, NEW f, NEW now, now = Channel!Update(h, f, ws)
  PROVE  /\ now.held \in Seq(Reduced) \ {<<>>} /\ now.finished = FALSE
         /\ now.outcome = "updated" /\ (\E w \in Channel!Range(ws) : w.over)
              => \E w \in Channel!Range(ws) : w.over /\ now.held = <<w.value>>
<1> DEFINE over == {i \in DOMAIN ws : ws[i].over}
           one == CHOOSE i \in over : TRUE
           many == Channel!Cardinality(over) > 1
<1>1. now = IF ws = <<>> THEN Channel!Same(h, FALSE) ELSE Channel!Fold(h, ws)
  BY DEF Channel!Update, Channel!UpdateBinop, Channel!Barriers
<1>2. Channel!Fold(h, ws) =
        IF many THEN Channel!Raises(h, FALSE)
        ELSE IF over = {} THEN Channel!Now(h \o Channel!ValuesOf(ws), FALSE)
        ELSE Channel!Now(<<ws[one].value>>, FALSE)
  BY DEF Channel!Fold
<1>3. over # {} => one \in over
  OBVIOUS
<1>4. \A i \in over : ws[i] \in Channel!Range(ws) /\ ws[i].over /\ ws[i].value \in Reduced
  BY ReducerWrites DEF Channel!Range
<1>5. over = {} => ~\E w \in Channel!Range(ws) : w.over
  BY DEF Channel!Range
<1> HIDE DEF over, one, many
<1>6. CASE ws = <<>>
  BY <1>1, <1>6 DEF Channel!Same
<1>7. CASE ws # <<>> /\ many
  BY <1>1, <1>2, <1>7 DEF Channel!Raises
<1>8. CASE ws # <<>> /\ ~many /\ over = {}
  <2>1. now.held = h \o Channel!ValuesOf(ws) /\ now.finished = FALSE
    BY <1>1, <1>2, <1>8 DEF Channel!Now
  <2>2. Channel!ValuesOf(ws) \in Seq(Reduced)
    BY ReducerWrites
  <2>3. h \o Channel!ValuesOf(ws) \in Seq(Reduced) \ {<<>>}
    BY <2>2
  <2> QED BY <1>5, <1>8, <2>1, <2>3
<1>9. CASE ws # <<>> /\ ~many /\ over # {}
  <2>1. now.held = <<ws[one].value>> /\ now.finished = FALSE
    BY <1>1, <1>2, <1>9 DEF Channel!Now
  <2>2. ws[one] \in Channel!Range(ws) /\ ws[one].over /\ ws[one].value \in Reduced
    BY <1>3, <1>4, <1>9
  <2>3. now.held \in Seq(Reduced) \ {<<>>}
    BY <2>1, <2>2
  <2> QED BY <2>1, <2>2, <2>3
<1> QED BY <1>6, <1>7, <1>8, <1>9
\* A flag is only kept by the channels that wait for the end of the run, and by them with
\* what they hold.
LEMMA FlagIsKept ==
  ASSUME kind \in ChannelSetups, NEW ws, NEW h, NEW f, NEW now, now = Channel!Update(h, f, ws)
  PROVE  \/ now.finished = FALSE
         \/ now.finished = f /\ kind.name \in Channel!Barriers
         \/ now.finished = f /\ now.held = h
<1> DEFINE vs == Channel!ValuesOf(ws)
<1>1. CASE kind.name = "last"
  <2>1. now = Channel!UpdateLast(h, vs)
    BY <1>1 DEF Channel!Update, Channel!Barriers
  <2> HIDE DEF vs
  <2> QED BY <2>1 DEF Channel!UpdateLast, Channel!Same, Channel!Now, Channel!Raises
<1>2. CASE kind.name = "untracked"
  <2>1. now = Channel!UpdateUntracked(h, vs)
    BY <1>2 DEF Channel!Update, Channel!Barriers
  <2> HIDE DEF vs
  <2> QED BY <2>1 DEF Channel!UpdateUntracked, Channel!Same, Channel!Now, Channel!Raises
<1>3. CASE kind.name = "ephemeral"
  <2>1. now = Channel!UpdateEphemeral(h, vs)
    BY <1>3 DEF Channel!Update, Channel!Barriers
  <2> HIDE DEF vs
  <2> QED BY <2>1 DEF Channel!UpdateEphemeral, Channel!Same, Channel!Now, Channel!Raises
<1>4. CASE kind.name = "any"
  <2>1. now = Channel!UpdateAny(h, vs)
    BY <1>4 DEF Channel!Update, Channel!Barriers
  <2> HIDE DEF vs
  <2> QED BY <2>1 DEF Channel!UpdateAny, Channel!Same, Channel!Now
<1>5. CASE kind.name = "topic"
  <2>1. now = Channel!UpdateTopic(h, vs)
    BY <1>5 DEF Channel!Update, Channel!Barriers
  <2> HIDE DEF vs
  <2> QED BY <2>1 DEF Channel!UpdateTopic, Channel!Same, Channel!Now
<1>6. CASE kind.name = "binop"
  <2>1. now = Channel!UpdateBinop(h, ws)
    BY <1>6 DEF Channel!Update, Channel!Barriers
  <2>2. ASSUME NEW g, NEW us PROVE Channel!Fold(g, us).finished = FALSE
    BY DEF Channel!Fold, Channel!Now, Channel!Raises
  <2>3. \/ now = Channel!Same(h, FALSE)
        \/ now = Channel!Fold(Channel!ValuesOf(<<ws[1]>>), Tail(ws))
        \/ now = Channel!Fold(h, ws)
    BY <2>1 DEF Channel!UpdateBinop
  <2>4. Channel!Same(h, FALSE).finished = FALSE
    BY DEF Channel!Same
  <2>5. now.finished = FALSE
    BY <2>2, <2>3, <2>4
  <2> QED BY <2>5
<1>7. CASE kind.name = "after"
  <2>1. now = Channel!UpdateAfter(h, f, vs)
    BY <1>7 DEF Channel!Update, Channel!Barriers
  <2> HIDE DEF vs
  <2> QED BY <2>1 DEF Channel!UpdateAfter, Channel!Same, Channel!Now
<1>8. CASE kind.name \in Channel!Barriers
  <2>1. now = Channel!UpdateBarrier(h, f, vs)
    BY <1>8 DEF Channel!Update, Channel!Barriers
  <2> HIDE DEF vs
  <2>2. now.finished = f
    BY <2>1 DEF Channel!UpdateBarrier, Channel!Same, Channel!Now, Channel!Raises
  <2> QED BY <1>8, <2>2
<1> QED BY <1>1, <1>2, <1>3, <1>4, <1>5, <1>6, <1>7, <1>8, ChannelFields DEF Channel!Barriers

LEMMA ChannelStep ==
  ASSUME JoinNames # {}, ChannelInv, Channel!Next
  PROVE  ChannelInv'
<1>1. PICK ws \in Channel!Writes : Channel!Step(ws)
  BY DEF Channel!Next
<1> DEFINE gone(r) == r /\ Channel!Consumes
           h(r) == IF gone(r) THEN <<>> ELSE cHeld
           f(r) == cFinished /\ ~gone(r)
           now(r) == IF ws # <<>> \/ Channel!IsAvailable(h(r), f(r))
                     THEN Channel!Update(h(r), f(r), ws) ELSE Channel!Same(h(r), f(r))
           ready(r) == IF kind.name \in Channel!Barriers
                       THEN Channel!Range(now(r).held) = JoinNames ELSE now(r).held # <<>>
<1>2. PICK reads \in BOOLEAN, ending \in BOOLEAN :
        /\ cHeld' = now(reads).held /\ cOutcome' = now(reads).outcome
        /\ cFinished' = (\/ now(reads).finished
                         \/ ending /\ kind.name \in Channel!After /\ ready(reads)
                              /\ now(reads).outcome # "raised")
        /\ cRead' = (reads /\ Channel!IsAvailable(cHeld, cFinished) /\ ws = <<>>)
  BY <1>1 DEF Channel!Step
<1>3. wrote' = ws /\ kind' = kind
  BY <1>1 DEF Channel!Step
<1> DEFINE g == gone(reads)
           hh == h(reads)
           ff == f(reads)
           n == now(reads)
<1>4. /\ hh = (IF g THEN <<>> ELSE cHeld) /\ ff = (cFinished /\ ~g) /\ ff \in BOOLEAN
      /\ g = (reads /\ Channel!Consumes)
      /\ n = IF ws # <<>> \/ Channel!IsAvailable(hh, ff)
             THEN Channel!Update(hh, ff, ws) ELSE Channel!Same(hh, ff)
  OBVIOUS
<1>5. /\ kind \in ChannelSetups /\ kind' \in ChannelSetups
      /\ cFinished \in BOOLEAN /\ (cFinished => kind.name \in Channel!After)
      /\ kind.name = "after" /\ cFinished => cHeld # <<>>
      /\ kind.name = "binop" /\ kind.default => cHeld \in Seq(Reduced) \ {<<>>}
  BY <1>3 DEF ChannelInv
<1>6. /\ cHeld' = n.held /\ cOutcome' = n.outcome
      /\ (cFinished' <=> \/ n.finished
                         \/ ending /\ kind.name \in Channel!After /\ ready(reads)
                              /\ n.outcome # "raised")
      /\ cFinished' \in BOOLEAN
      /\ (kind.name \notin Channel!Barriers => (ready(reads) <=> n.held # <<>>))
      /\ (cRead' <=> reads /\ Channel!IsAvailable(cHeld, cFinished) /\ ws = <<>>)
  BY <1>2
<1>7. \/ n.finished = FALSE
      \/ n.finished = ff /\ kind.name \in Channel!Barriers
      \/ n.finished = ff /\ n.held = hh
  <2>1. CASE n = Channel!Same(hh, ff)
    BY <2>1 DEF Channel!Same
  <2>2. CASE n = Channel!Update(hh, ff, ws)
    BY <1>5, <2>2, FlagIsKept
  <2> QED BY <1>4, <2>1, <2>2
<1> HIDE DEF g, hh, ff, n, gone, h, f, now, ready
<1>8. cFinished' => kind.name \in Channel!After
  BY <1>4, <1>5, <1>6, <1>7
<1>9. kind.name = "after" /\ cFinished' => cHeld' # <<>>
  BY <1>4, <1>5, <1>6, <1>7 DEF Channel!Barriers
<1>10. ASSUME kind.name = "binop", kind.default
       PROVE  /\ cHeld' \in Seq(Reduced) \ {<<>>}
              /\ cOutcome' = "updated" /\ (\E w \in Channel!Range(ws) : w.over)
                   => \E w \in Channel!Range(ws) : w.over /\ cHeld' = <<w.value>>
  <2>1. hh = cHeld /\ hh \in Seq(Reduced) \ {<<>>}
    BY <1>4, <1>5, <1>10 DEF Channel!Consumes, Channel!After, Channel!Barriers
  <2>2. CASE n = Channel!Same(hh, ff)
    BY <1>6, <2>1, <2>2 DEF Channel!Same
  <2>3. CASE n = Channel!Update(hh, ff, ws)
    BY <1>6, <1>10, <2>1, <2>3, ReducerHolds
  <2> QED BY <1>4, <2>2, <2>3
<1>11. ASSUME kind.name \in {"ephemeral", "after"} \cup Channel!Barriers, cRead'
       PROVE  ~Channel!IsAvailable(cHeld', cFinished')
  <2>1. reads /\ Channel!IsAvailable(cHeld, cFinished) /\ ws = <<>>
    BY <1>6, <1>11
  <2>2. Channel!Range(<<>>) # JoinNames
    BY DEF Channel!Range
  <2>3. CASE kind.name \in {"after"} \cup Channel!Barriers
    <3>1. g
      BY <1>4, <2>1, <2>3 DEF Channel!Consumes, Channel!After
    <3>2. hh = <<>> /\ ff = FALSE
      BY <1>4, <3>1
    <3>3. ~Channel!IsAvailable(hh, ff)
      BY <2>2, <2>3, <3>2 DEF Channel!IsAvailable, Channel!Barriers
    <3>4. n.held = <<>>
      BY <1>4, <2>1, <3>2, <3>3 DEF Channel!Same
    <3> QED BY <1>6, <2>2, <2>3, <3>4 DEF Channel!IsAvailable, Channel!Barriers
  <2>4. CASE kind.name = "ephemeral"
    <3>1. hh = cHeld /\ ff = cFinished
      BY <1>4, <1>5, <2>4 DEF Channel!Consumes, Channel!After, Channel!Barriers
    <3>2. n = Channel!Update(hh, ff, <<>>)
      BY <1>4, <2>1, <3>1
    <3>3. Channel!ValuesOf(<<>>) = <<>>
      BY DEF Channel!ValuesOf
    <3>4. n = Channel!UpdateEphemeral(hh, <<>>)
      BY <2>4, <3>2, <3>3 DEF Channel!Update, Channel!Barriers
    <3>5. n.held = <<>>
      BY <3>4 DEF Channel!UpdateEphemeral, Channel!Same, Channel!Now
    <3> QED BY <1>6, <2>4, <3>5 DEF Channel!IsAvailable, Channel!Barriers
  <2> QED BY <1>11, <2>3, <2>4
<1>12. Channel!ReadOnce'
  BY <1>3, <1>11 DEF Channel!ReadOnce, Channel!IsAvailable
<1>13. Channel!OverwriteDecides'
  BY <1>3, <1>10 DEF Channel!OverwriteDecides
<1> QED BY <1>3, <1>5, <1>6, <1>8, <1>9, <1>10, <1>12, <1>13 DEF ChannelInv
LEMMA ChannelInits == PartsInit => ChannelInv
<1> SUFFICES ASSUME PartsInit PROVE ChannelInv
  OBVIOUS
<1>1. /\ kind \in ChannelSetups /\ cHeld = Channel!Empty(kind) /\ cFinished = FALSE
      /\ cOutcome = "same" /\ cRead = FALSE
  BY DEF PartsInit, Channel!Init
<1>2. kind.name = "binop" /\ kind.default => cHeld \in Seq(Reduced) \ {<<>>}
  BY <1>1 DEF Channel!Empty, Reduced
<1> QED BY <1>1, <1>2 DEF ChannelInv, Channel!ReadOnce, Channel!OverwriteDecides

LEMMA ChannelSteps ==
  ASSUME JoinNames # {}, ChannelInv, [PartsNext]_all
  PROVE  ChannelInv'
<1>1. ASSUME UNCHANGED channels PROVE ChannelInv'
  BY <1>1 DEF channels, ChannelInv, Channel!ReadOnce, Channel!OverwriteDecides,
              Channel!IsAvailable
<1>2. Channel!Next \/ UNCHANGED channels
  BY DEF PartsNext, Others, all
<1> QED BY <1>1, <1>2, ChannelStep

\* What is loaded is what was saved: only a reducer without a value, and a channel that
\* waits for the end of the run and holds nothing, are loaded as they were made.
LEMMA ChannelIsReloaded == ChannelInv => Channel!ReloadChangesNothing
<1> SUFFICES ASSUME ChannelInv, kind.name # "untracked"
             PROVE  Channel!Loaded(Channel!Saved) = <<cHeld, cFinished>>
  BY DEF Channel!ReloadChangesNothing
<1>1. kind \in ChannelSetups /\ cFinished \in BOOLEAN
  BY DEF ChannelInv
<1>2. CASE kind.name = "after" /\ cHeld = <<>>
  <2>1. Channel!Saved = <<>> /\ Channel!Empty(kind) = <<>> /\ cFinished = FALSE
    BY <1>1, <1>2 DEF Channel!Saved, Channel!Empty, ChannelInv
  <2> QED BY <1>2, <2>1 DEF Channel!Loaded
<1>3. CASE ~(kind.name = "after" /\ cHeld = <<>>)
  <2>1. Channel!Saved = <<cHeld, cFinished>>
    BY <1>3 DEF Channel!Saved
  <2>2. CASE kind.name = "binop" /\ cHeld = <<>>
    <3>1. ~kind.default /\ cFinished = FALSE
      BY <1>1, <2>2 DEF ChannelInv, Channel!After
    <3>2. Channel!Empty(kind) = <<>>
      BY <3>1 DEF Channel!Empty
    <3> QED BY <2>1, <2>2, <3>1, <3>2 DEF Channel!Loaded
  <2>3. CASE ~(kind.name = "binop" /\ cHeld = <<>>)
    BY <2>1, <2>3 DEF Channel!Loaded
  <2> QED BY <2>2, <2>3
<1> QED BY <1>2, <1>3

\* [update, consume, finish, checkpoint, from_checkpoint] Of a channel of any kind, for any
\* values, joined nodes and number of steps: a graph that goes on from a checkpoint finds
\* in it what it would have without, what it triggers is triggered once, and one Overwrite
\* among the writes of a step decides its value. A join of no nodes (add_edge accepts an
\* empty list) is always ready and is not meant.
THEOREM ChannelsAreKept ==
  ASSUME JoinNames # {}
  PROVE  PartsSpec => []ChannelsKeep
<1>1. PartsInit => ChannelInv
  BY ChannelInits
<1>2. ChannelInv /\ [PartsNext]_all => ChannelInv'
  BY ChannelSteps
<1>3. ChannelInv => ChannelsKeep
  BY ChannelIsReloaded DEF ChannelInv, ChannelsKeep
<1> QED BY <1>1, <1>2, <1>3, PTL DEF PartsSpec
-----------------------------------------------------------------------------
(* Checkpoints of older layouts                                             *)

\* A bounded set of numbers that is not empty has a greatest one.
LEMMA MaxIsGreatest ==
  ASSUME NEW S \in SUBSET Nat, S # {}, NEW b \in Nat, \A x \in S : x <= b
  PROVE  Migration!Max(S) \in S /\ \A y \in S : Migration!Max(S) >= y
<1> DEFINE T == {b - x : x \in S}
<1>1. T \in SUBSET Nat /\ T # {}
  <2>1. \A x \in S : b - x \in Nat
    OBVIOUS
  <2>2. PICK x \in S : TRUE
    OBVIOUS
  <2> QED BY <2>1, <2>2
<1>2. PICK t \in T : \A u \in T : t <= u
  BY <1>1, LeastIsThere
<1>3. PICK x \in S : t = b - x
  BY <1>2
<1>4. ASSUME NEW y \in S PROVE x >= y
  <2>1. b - x <= b - y
    BY <1>2, <1>3
  <2> QED BY <2>1
<1>5. \E z \in S : \A y \in S : z >= y
  BY <1>4
<1> QED BY <1>5 DEF Migration!Max

\* The channels a graph of an older layout writes to.
OldChannels ==
  {Migration!EntryChannel(n) : n \in mSetup.entries}
    \cup (IF mSetup.layout = "to" THEN {Migration!BranchTo(e[2]) : e \in mSetup.edges}
          ELSE {Migration!Node(n) : n \in mSetup.nodes})
    \cup {Migration!BranchChannel(b[1], b[2]) : b \in mSetup.branches}

\* What holds a value has the greatest version, which none who runs has seen: who ran saw
\* what there was before the step was over.
OldInv ==
  /\ \A k \in DOMAIN versions : versions[k] \in Nat
  /\ \E b \in Nat : \A k \in DOMAIN versions : versions[k] <= b
  /\ values \subseteq DOMAIN versions /\ values \subseteq OldChannels
  /\ \A k \in values, j \in DOMAIN versions : versions[j] <= versions[k]
  /\ DOMAIN seen = mSetup.nodes \cup {Migration!INTERRUPT}
  /\ \A n \in mSetup.nodes :
       /\ DOMAIN seen[n] \subseteq DOMAIN versions
       /\ \A k \in DOMAIN seen[n] :
            /\ seen[n][k] \in Nat /\ seen[n][k] <= versions[k]
            /\ \A j \in values : seen[n][k] < versions[j]

MigrationInv ==
  /\ mSetup \in OldGraphs /\ pendingSends \in BOOLEAN
  /\ before = Migration!Nobody => OldInv
  /\ Migration!MigrationKeepsDue

LEMMA LatestIsGreatest ==
  ASSUME OldInv
  PROVE  /\ Migration!Latest \in Nat
         /\ \A k \in DOMAIN versions : versions[k] <= Migration!Latest
<1> DEFINE S == {versions[k] : k \in DOMAIN versions} \cup {0}
<1>1. S \in SUBSET Nat /\ S # {}
  BY DEF OldInv
<1>2. PICK b \in Nat : \A k \in DOMAIN versions : versions[k] <= b
  BY DEF OldInv
<1>3. \A x \in S : x <= b
  BY <1>2
<1>4. Migration!Max(S) \in S /\ \A y \in S : Migration!Max(S) >= y
  BY <1>1, <1>3, MaxIsGreatest
<1>5. \A k \in DOMAIN versions : versions[k] \in S
  OBVIOUS
<1>6. Migration!Latest = Migration!Max(S)
  BY DEF Migration!Latest
<1> HIDE DEF S
<1>7. Migration!Latest \in Nat
  BY <1>1, <1>4, <1>6
<1>8. ASSUME NEW k \in DOMAIN versions PROVE versions[k] <= Migration!Latest
  <2>1. versions[k] \in S /\ versions[k] \in Nat
    BY <1>1, <1>5
  <2> QED BY <1>4, <1>6, <1>7, <2>1
<1> QED BY <1>7, <1>8

LEMMA GraphFacts ==
  ASSUME mSetup \in OldGraphs
  PROVE  /\ mSetup.layout \in {"quadratic", "start", "to"}
         /\ mSetup.entries \subseteq mSetup.nodes
         /\ \A e \in mSetup.edges : e[1] \in mSetup.nodes /\ e[2] \in mSetup.nodes
         /\ \A b \in mSetup.branches : b[1] \in mSetup.nodes /\ b[2] \in mSetup.nodes
         /\ Migration!INTERRUPT \notin mSetup.nodes /\ "?" \notin mSetup.nodes
  BY OldGraphsAssumption DEF Migration!INTERRUPT
\* What is written gets a version greater than any.
LEMMA Bumped ==
  ASSUME OldInv, NEW written, written \subseteq OldChannels, Migration!Bump(written),
         mSetup' = mSetup, DOMAIN seen' = DOMAIN seen,
         \A n \in mSetup.nodes :
           /\ DOMAIN seen'[n] \subseteq DOMAIN versions
           /\ \A k \in DOMAIN seen'[n] : seen'[n][k] \in Nat /\ seen'[n][k] <= versions[k]
  PROVE  OldInv'
<1> DEFINE top == Migration!Latest
<1>1. top \in Nat /\ \A k \in DOMAIN versions : versions[k] \in Nat /\ versions[k] <= top
  BY LatestIsGreatest DEF OldInv
<1>2. /\ DOMAIN versions' = DOMAIN versions \cup written /\ values' = written
      /\ \A k \in DOMAIN versions' :
           versions'[k] = IF k \in written \cup values THEN top + 1 ELSE versions[k]
  BY DEF Migration!Bump
<1> HIDE DEF top
<1>3. \A k \in DOMAIN versions' :
        /\ versions'[k] \in Nat /\ versions'[k] <= top + 1
        /\ k \in written => versions'[k] = top + 1
        /\ k \in DOMAIN versions => versions[k] <= versions'[k]
  BY <1>1, <1>2
<1>4. OldChannels' = OldChannels
  BY DEF OldChannels, Migration!EntryChannel, Migration!BranchTo, Migration!Start,
         Migration!Node, Migration!BranchChannel, Migration!Branch
<1>5. top + 1 \in Nat
  BY <1>1
<1>6. ASSUME NEW n \in mSetup.nodes
      PROVE  /\ DOMAIN seen'[n] \subseteq DOMAIN versions'
             /\ \A k \in DOMAIN seen'[n] :
                  /\ seen'[n][k] \in Nat /\ seen'[n][k] <= versions'[k]
                  /\ \A j \in values' : seen'[n][k] < versions'[j]
  <2>1. DOMAIN seen'[n] \subseteq DOMAIN versions'
    BY <1>2
  <2>2. ASSUME NEW k \in DOMAIN seen'[n], NEW j \in values'
        PROVE  seen'[n][k] < versions'[j]
    <3>1. k \in DOMAIN versions /\ seen'[n][k] \in Nat /\ seen'[n][k] <= versions[k]
      OBVIOUS
    <3>2. versions'[j] = top + 1
      BY <1>2, <1>3
    <3>3. versions[k] \in Nat /\ versions[k] <= top
      BY <1>1, <3>1
    <3> QED BY <1>1, <3>1, <3>2, <3>3
  <2>3. ASSUME NEW k \in DOMAIN seen'[n]
        PROVE  seen'[n][k] \in Nat /\ seen'[n][k] <= versions'[k]
    <3>1. k \in DOMAIN versions /\ seen'[n][k] \in Nat /\ seen'[n][k] <= versions[k]
      OBVIOUS
    <3>2. versions[k] \in Nat /\ versions'[k] \in Nat /\ versions[k] <= versions'[k]
      BY <1>1, <1>2, <1>3, <3>1
    <3> QED BY <3>1, <3>2
  <2> QED BY <2>1, <2>2, <2>3
<1>7. \A k \in values', j \in DOMAIN versions' : versions'[j] <= versions'[k]
  BY <1>2, <1>3
<1>8. \E b \in Nat : \A k \in DOMAIN versions' : versions'[k] <= b
  BY <1>3, <1>5
<1> QED BY <1>2, <1>3, <1>4, <1>6, <1>7, <1>8 DEF OldInv, Migration!INTERRUPT
LEMMA OldStepsKeep ==
  ASSUME MigrationInv, Migration!OldInput \/ Migration!OldStep \/ Migration!OldResume
  PROVE  MigrationInv'
<1>1. /\ before = Migration!Nobody /\ before' = before /\ mSetup' = mSetup
      /\ mSetup \in OldGraphs /\ OldInv
  BY DEF MigrationInv, Migration!OldInput, Migration!OldStep, Migration!OldResume
<1>2. pendingSends' \in BOOLEAN
  BY DEF MigrationInv, Migration!OldInput, Migration!OldStep, Migration!OldResume
<1>3. \A n \in mSetup.nodes :
         /\ DOMAIN seen[n] \subseteq DOMAIN versions
         /\ \A k \in DOMAIN seen[n] : seen[n][k] \in Nat /\ seen[n][k] <= versions[k]
  BY <1>1 DEF OldInv
<1>4. CASE Migration!OldInput
  <2> DEFINE written == {Migration!EntryChannel(n) : n \in mSetup.entries}
  <2>1. Migration!Bump(written) /\ seen' = seen
    BY <1>4 DEF Migration!OldInput
  <2>2. written \subseteq OldChannels
    BY DEF OldChannels
  <2> HIDE DEF written
  <2>3. OldInv'
    BY <1>1, <1>3, <2>1, <2>2, Bumped
  <2> QED BY <1>1, <1>2, <2>3 DEF MigrationInv, Migration!MigrationKeepsDue, Migration!Nobody
<1>5. CASE Migration!OldStep
  <2>1. seen' = [r \in DOMAIN seen |->
                   IF r \notin Migration!OldDue THEN seen[r]
                   ELSE [k \in DOMAIN seen[r] \cup (Migration!OldTriggers(r) \cap DOMAIN versions) |->
                           IF k \in Migration!OldTriggers(r) /\ k \in DOMAIN versions
                           THEN versions[k] ELSE seen[r][k]]]
    BY <1>5 DEF Migration!OldStep
  <2> DEFINE Written(ran, led) ==
               (IF mSetup.layout = "to"
                THEN {Migration!BranchTo(e[2]) : e \in {e \in mSetup.edges : e[1] \in ran}}
                ELSE {Migration!Node(n) : n \in ran})
                 \cup {Migration!BranchChannel(b[1], b[2]) : b \in led}
  <2>2. PICK pushed \in IF pendingSends THEN mSetup.nodes ELSE {CHOOSE n \in mSetup.nodes : TRUE},
             led \in SUBSET mSetup.branches :
          Migration!Bump(Written(Migration!OldDue \cup IF pendingSends THEN {pushed} ELSE {}, led))
    BY <1>5 DEF Migration!OldStep
  <2> DEFINE ran == Migration!OldDue \cup IF pendingSends THEN {pushed} ELSE {}
             written == Written(ran, led)
  <2>3. ran \subseteq mSetup.nodes
    BY <2>2 DEF Migration!OldDue
  <2>4. written \subseteq OldChannels
    BY <2>2, <2>3 DEF OldChannels
  <2>5. Migration!Bump(written)
    BY <2>2
  <2> HIDE DEF written, ran, Written
  <2>6. DOMAIN seen' = DOMAIN seen
    BY <2>1
  <2>7. ASSUME NEW n \in mSetup.nodes
        PROVE  /\ DOMAIN seen'[n] \subseteq DOMAIN versions
               /\ \A k \in DOMAIN seen'[n] : seen'[n][k] \in Nat /\ seen'[n][k] <= versions[k]
    <3>1. n \in DOMAIN seen
      BY <1>1 DEF OldInv
    <3>2. \A k \in DOMAIN versions : versions[k] \in Nat /\ versions[k] <= versions[k]
      BY <1>1 DEF OldInv
    <3>3. CASE n \notin Migration!OldDue
      BY <1>3, <2>1, <3>1, <3>3
    <3>4. CASE n \in Migration!OldDue
      <4>1. seen'[n] = [k \in DOMAIN seen[n] \cup (Migration!OldTriggers(n) \cap DOMAIN versions) |->
                          IF k \in Migration!OldTriggers(n) /\ k \in DOMAIN versions
                          THEN versions[k] ELSE seen[n][k]]
        BY <2>1, <3>1, <3>4
      <4>2. DOMAIN seen'[n] = DOMAIN seen[n] \cup (Migration!OldTriggers(n) \cap DOMAIN versions)
        BY <4>1
      <4>3. ASSUME NEW k \in DOMAIN seen'[n]
            PROVE  \/ k \in DOMAIN versions /\ seen'[n][k] = versions[k]
                   \/ k \in DOMAIN seen[n] /\ seen'[n][k] = seen[n][k]
        BY <4>1, <4>2
      <4> QED BY <1>3, <3>2, <4>2, <4>3
    <3> QED BY <3>3, <3>4
  <2>8. OldInv'
    BY <1>1, <2>4, <2>5, <2>6, <2>7, Bumped
  <2> QED BY <1>1, <1>2, <2>8 DEF MigrationInv, Migration!MigrationKeepsDue, Migration!Nobody
<1>6. CASE Migration!OldResume
  <2>1. /\ seen' = [seen EXCEPT ![Migration!INTERRUPT] = versions]
        /\ UNCHANGED <<versions, values, pendingSends>>
    BY <1>6 DEF Migration!OldResume
  <2>2. \A n \in mSetup.nodes : seen'[n] = seen[n]
    BY <1>1, <2>1, GraphFacts DEF OldInv
  <2>3. DOMAIN seen' = DOMAIN seen
    BY <2>1
  <2>4. OldChannels' = OldChannels
    BY <1>1 DEF OldChannels, Migration!EntryChannel, Migration!BranchTo, Migration!Start,
                Migration!Node, Migration!BranchChannel, Migration!Branch
  <2>5. OldInv'
    BY <1>1, <2>1, <2>2, <2>3, <2>4 DEF OldInv, Migration!INTERRUPT
  <2> QED BY <1>1, <1>2, <2>5 DEF MigrationInv, Migration!MigrationKeepsDue, Migration!Nobody
<1> QED BY <1>4, <1>5, <1>6
\* The channels that become the channel of n are, of those there are, the ones that
\* triggered n.
LEMMA TriggersBecome ==
  ASSUME mSetup \in OldGraphs, NEW n \in mSetup.nodes, NEW k \in OldChannels
  PROVE  k \in Migration!OldTriggers(n) <=>
           \/ k \in {Migration!BranchTo(n), Migration!Start(n)}
                      \cup {Migration!Node(m) : m \in Migration!Sources(n)}
           \/ k[1] = "branch" /\ k[3] = n
<1> DEFINE Becomes == \/ k \in {Migration!BranchTo(n), Migration!Start(n)}
                                 \cup {Migration!Node(m) : m \in Migration!Sources(n)}
                      \/ k[1] = "branch" /\ k[3] = n
<1> USE DEF Migration!Start, Migration!BranchTo, Migration!Node, Migration!Branch
<1>1. ASSUME k \in Migration!OldTriggers(n) PROVE Becomes
  BY <1>1 DEF Migration!OldTriggers, Migration!EntryChannel, Migration!EdgeChannel,
              Migration!BranchChannel
<1>2. ASSUME Becomes PROVE k \in Migration!OldTriggers(n)
  <2>1. CASE \E m \in mSetup.entries : k = Migration!EntryChannel(m)
    <3>1. PICK m \in mSetup.entries : k = Migration!EntryChannel(m)
      BY <2>1
    <3>2. m = n
      BY <1>2, <3>1 DEF Migration!EntryChannel
    <3> QED BY <3>1, <3>2 DEF Migration!OldTriggers
  <2>2. CASE mSetup.layout = "to" /\ \E e \in mSetup.edges : k = Migration!BranchTo(e[2])
    <3>1. PICK e \in mSetup.edges : k = Migration!BranchTo(e[2])
      BY <2>2
    <3>2. e[2] = n
      BY <1>2, <3>1
    <3>3. e[1] \in Migration!Sources(n) /\ k = Migration!EdgeChannel(e[1], n)
      BY <2>2, <3>1, <3>2 DEF Migration!Sources, Migration!EdgeChannel
    <3> QED BY <3>3 DEF Migration!OldTriggers
  <2>3. CASE mSetup.layout # "to" /\ \E m \in mSetup.nodes : k = Migration!Node(m)
    <3>1. PICK m \in mSetup.nodes : k = Migration!Node(m)
      BY <2>3
    <3>2. m \in Migration!Sources(n)
      BY <1>2, <3>1
    <3>3. k = Migration!EdgeChannel(m, n)
      BY <2>3, <3>1 DEF Migration!EdgeChannel
    <3> QED BY <3>2, <3>3 DEF Migration!OldTriggers
  <2>4. CASE \E b \in mSetup.branches : k = Migration!BranchChannel(b[1], b[2])
    <3>1. PICK b \in mSetup.branches : k = Migration!BranchChannel(b[1], b[2])
      BY <2>4
    <3>2. b[2] = n
      BY <1>2, <3>1 DEF Migration!BranchChannel
    <3> QED BY <3>1, <3>2 DEF Migration!OldTriggers
  <2> QED BY <2>1, <2>2, <2>3, <2>4 DEF OldChannels
<1> QED BY <1>1, <1>2

\* Who was due are the nodes one of whose channels-to-be holds a value.
LEMMA DueByBecame ==
  ASSUME mSetup \in OldGraphs, OldInv, NEW n \in mSetup.nodes
  PROVE  n \in Migration!OldDue <=> Migration!Became(n) \cap values # {}
<1>1. ASSUME NEW k \in values
      PROVE  k \in Migration!OldTriggers(n) <=> k \in Migration!Became(n)
  <2>1. k \in OldChannels /\ k \in DOMAIN versions
    BY DEF OldInv
  <2> QED BY <2>1, TriggersBecome DEF Migration!Became
<1>2. ASSUME NEW k \in values PROVE Migration!Fresh(n, k)
  BY DEF OldInv, Migration!Fresh
<1>3. n \in Migration!OldDue <=> \E k \in Migration!OldTriggers(n) : k \in values
  BY <1>2 DEF Migration!OldDue, Migration!Fresh
<1> QED BY <1>1, <1>3

\* What a node has seen of its new channel is the last it has seen of those it stands for.
LEMMA SeenOnce ==
  ASSUME OldInv, mSetup \in OldGraphs, Migration!Migrate, NEW n \in mSetup.nodes,
         Migration!BranchTo(n) \in DOMAIN seen'[n]
  PROVE  /\ {seen[n][k] : k \in Migration!Became(n) \cap DOMAIN seen[n]} # {}
         /\ seen'[n][Migration!BranchTo(n)]
              = Migration!Max({seen[n][k] : k \in Migration!Became(n) \cap DOMAIN seen[n]})
<1> DEFINE to == Migration!BranchTo(n)
           held(x) == {seen[n][k] : k \in Migration!Became(x) \cap DOMAIN seen[n]}
           heldBy == {x \in mSetup.nodes : held(x) # {}}
           old == {k \in DOMAIN seen[n] : ~Migration!IsOld(k)} \ {Migration!BranchTo(x) : x \in heldBy}
<1>1. n \in DOMAIN seen /\ n # Migration!INTERRUPT /\ DOMAIN seen[n] \subseteq DOMAIN versions
  BY GraphFacts DEF OldInv
<1>2. seen'[n] = [k \in old \cup {Migration!BranchTo(x) : x \in heldBy} |->
                    IF k \in old THEN seen[n][k] ELSE Migration!Max(held(k[2]))]
  BY <1>1 DEF Migration!Migrate, Migration!SeenAs
<1>3. to \in DOMAIN versions => to \in Migration!Became(n)
  BY DEF Migration!Became
<1>4. to \in DOMAIN seen[n] => n \in heldBy
  BY <1>1, <1>3
<1>5. to \notin old
  BY <1>4
<1>6. to \in {Migration!BranchTo(x) : x \in heldBy}
  BY <1>2, <1>5
<1>7. n \in heldBy /\ to[2] = n
  BY <1>6 DEF Migration!BranchTo
<1>8. seen'[n][to] = Migration!Max(held(to[2]))
  BY <1>2, <1>5, <1>6
<1> QED BY <1>7, <1>8

\* After the migration a node is due by its channel when one of those it stands for held
\* a value: the greatest of their versions is newer than what the node has seen of any.
LEMMA DueByBranchTo ==
  ASSUME OldInv, mSetup \in OldGraphs, Migration!Migrate, NEW n \in mSetup.nodes
  PROVE  Migration!Fresh(n, Migration!BranchTo(n))' <=> Migration!Became(n) \cap values # {}
<1> DEFINE to == Migration!BranchTo(n)
           new == {x \in mSetup.nodes : Migration!Became(x) # {}}
           old == {k \in DOMAIN versions : ~Migration!IsOld(k)} \ {Migration!BranchTo(x) : x \in new}
           sent == IF pendingSends THEN {Migration!TASKS} ELSE {}
           held == {seen[n][k] : k \in Migration!Became(n) \cap DOMAIN seen[n]}
           dated == {versions[k] : k \in Migration!Became(n)}
<1>1. /\ versions' = [k \in old \cup sent \cup {Migration!BranchTo(x) : x \in new} |->
                        IF k \in old THEN versions[k]
                        ELSE IF k \in sent THEN Migration!Latest
                        ELSE Migration!Max({versions[j] : j \in Migration!Became(k[2])})]
      /\ values' = {k \in values : ~Migration!IsOld(k)} \cup sent
                     \cup {Migration!BranchTo(x) : x \in {x \in new : Migration!Became(x) \cap values # {}}}
  BY DEF Migration!Migrate, Migration!SeenAs
<1>2. \A x : Migration!BranchTo(x)[2] = x
  BY DEF Migration!BranchTo
<1>3. to # Migration!TASKS
  BY DEF Migration!BranchTo, Migration!TASKS
<1>4. to \in values => to \in Migration!Became(n)
  BY DEF OldInv, Migration!Became
<1>5. to \in values' <=> Migration!Became(n) \cap values # {}
  <2>1. \A x : to = Migration!BranchTo(x) => x = n
    BY <1>2
  <2> QED BY <1>1, <1>3, <1>4, <2>1
<1>6. ASSUME Migration!Became(n) \cap values # {}, to \in DOMAIN seen'[n]
      PROVE  versions'[to] > seen'[n][to]
  <2>1. PICK j \in Migration!Became(n) : j \in values
    BY <1>6
  <2>2. n \in new /\ to \in {Migration!BranchTo(x) : x \in new} /\ to \notin old /\ to \notin sent
    BY <1>3, <2>1
  <2>3. versions'[to] = Migration!Max(dated)
    BY <1>1, <1>2, <2>2
  <2>4. held # {} /\ seen'[n][to] = Migration!Max(held)
    BY <1>6, SeenOnce
  <2>5. Migration!Became(n) \subseteq DOMAIN versions
    BY DEF Migration!Became
  <2>6. PICK b \in Nat : \A k \in DOMAIN versions : versions[k] \in Nat /\ versions[k] <= b
    BY DEF OldInv
  <2>7. dated \in SUBSET Nat /\ versions[j] \in dated /\ \A x \in dated : x <= b
    BY <2>1, <2>5, <2>6
  <2>8. \A k \in DOMAIN seen[n] :
          /\ k \in DOMAIN versions /\ seen[n][k] \in Nat /\ seen[n][k] <= versions[k]
          /\ seen[n][k] < versions[j]
    BY <2>1 DEF OldInv
  <2>9. held \in SUBSET Nat /\ \A x \in held : x <= b /\ x < versions[j]
    BY <2>6, <2>8
  <2> HIDE DEF held, dated, to
  <2>10. Migration!Max(dated) \in Nat /\ Migration!Max(dated) >= versions[j]
    <3>1. dated # {}
      BY <2>7
    <3>2. Migration!Max(dated) \in dated /\ \A x \in dated : Migration!Max(dated) >= x
      BY <2>7, <3>1, MaxIsGreatest
    <3> QED BY <2>7, <3>2
  <2>11. Migration!Max(held) \in held
    <3>1. \A x \in held : x <= b
      BY <2>9
    <3> QED BY <2>4, <2>9, <3>1, MaxIsGreatest
  <2>12. Migration!Max(held) \in Nat /\ Migration!Max(held) < versions[j] /\ versions[j] \in Nat
    BY <2>7, <2>9, <2>11
  <2> QED BY <2>3, <2>4, <2>10, <2>12
<1> HIDE DEF to
<1>7. Migration!Fresh(n, Migration!BranchTo(n))'
        <=> to \in values' /\ (to \in DOMAIN seen'[n] => versions'[to] > seen'[n][to])
  BY DEF Migration!Fresh, to, Migration!BranchTo
<1> QED BY <1>5, <1>6, <1>7

LEMMA MigrateKeeps ==
  ASSUME MigrationInv, Migration!Migrate
  PROVE  MigrationInv'
<1>1. /\ before = Migration!Nobody /\ before' = Migration!OldDue
      /\ UNCHANGED <<mSetup, pendingSends>>
      /\ mSetup \in OldGraphs /\ OldInv /\ pendingSends \in BOOLEAN
  BY DEF MigrationInv, Migration!Migrate, Migration!SeenAs
<1>2. before' # Migration!Nobody
  BY <1>1, GraphFacts DEF Migration!OldDue, Migration!Nobody
<1>3. \A n \in mSetup.nodes :
         n \in Migration!OldDue <=> Migration!Fresh(n, Migration!BranchTo(n))'
  BY <1>1, DueByBecame, DueByBranchTo
<1>4. before' = {n \in mSetup.nodes : Migration!Fresh(n, Migration!BranchTo(n))'}
  BY <1>1, <1>3 DEF Migration!OldDue
<1>5. before' = {n \in mSetup'.nodes : Migration!Fresh(n, Migration!BranchTo(n))'}
  BY <1>1, <1>4
<1>6. Migration!TASKS \notin OldChannels
  BY DEF OldChannels, Migration!TASKS, Migration!EntryChannel, Migration!BranchTo,
         Migration!Start, Migration!Node, Migration!BranchChannel, Migration!Branch
<1>7. \E new \in SUBSET mSetup.nodes :
         values' = {k \in values : ~Migration!IsOld(k)}
                     \cup (IF pendingSends THEN {Migration!TASKS} ELSE {})
                     \cup {Migration!BranchTo(n) : n \in new}
  <2> DEFINE new == {n \in {n \in mSetup.nodes : Migration!Became(n) # {}} :
                       Migration!Became(n) \cap values # {}}
  <2>1. values' = {k \in values : ~Migration!IsOld(k)}
                     \cup (IF pendingSends THEN {Migration!TASKS} ELSE {})
                     \cup {Migration!BranchTo(n) : n \in new}
    BY DEF Migration!Migrate, Migration!SeenAs
  <2>2. new \in SUBSET mSetup.nodes
    OBVIOUS
  <2> HIDE DEF new
  <2> QED BY <2>1, <2>2
<1>8. pendingSends <=> Migration!TASKS \in values'
  <2>1. \A n : Migration!TASKS # Migration!BranchTo(n)
    BY DEF Migration!TASKS, Migration!BranchTo
  <2>2. Migration!TASKS \notin values
    BY <1>1, <1>6 DEF OldInv
  <2> QED BY <1>1, <1>7, <2>1, <2>2
<1>9. Migration!MigrationKeepsDue'
  BY <1>1, <1>5, <1>8 DEF Migration!MigrationKeepsDue, Migration!TASKS, Migration!BranchTo
<1> QED BY <1>1, <1>2, <1>9 DEF MigrationInv, Migration!Nobody

LEMMA MigrationInits == PartsInit => MigrationInv
<1> SUFFICES ASSUME PartsInit PROVE MigrationInv
  OBVIOUS
<1>1. /\ mSetup \in OldGraphs /\ versions = <<>> /\ values = {} /\ before = Migration!Nobody
      /\ pendingSends = FALSE
      /\ seen = [r \in mSetup.nodes \cup {Migration!INTERRUPT} |-> <<>>]
  BY DEF PartsInit, Migration!Init
<1>2. DOMAIN versions = {}
  BY <1>1
<1>3. \A n \in mSetup.nodes : DOMAIN seen[n] = {}
  BY <1>1
<1>4. OldInv
  BY <1>1, <1>2, <1>3 DEF OldInv
<1> QED BY <1>1, <1>4 DEF MigrationInv, Migration!MigrationKeepsDue

LEMMA MigrationSteps ==
  ASSUME MigrationInv, [PartsNext]_all
  PROVE  MigrationInv'
<1>1. ASSUME UNCHANGED migration PROVE MigrationInv'
  <2>1. /\ mSetup' = mSetup /\ versions' = versions /\ seen' = seen /\ values' = values
        /\ pendingSends' = pendingSends /\ before' = before
    BY <1>1 DEF migration
  <2>2. OldInv => OldInv'
    BY <2>1 DEF OldInv, OldChannels, Migration!EntryChannel, Migration!BranchTo,
                Migration!Start, Migration!Node, Migration!BranchChannel, Migration!Branch,
                Migration!INTERRUPT
  <2>3. Migration!MigrationKeepsDue => Migration!MigrationKeepsDue'
    BY <2>1 DEF Migration!MigrationKeepsDue, Migration!Fresh, Migration!BranchTo,
                Migration!TASKS, Migration!Nobody
  <2> QED BY <2>1, <2>2, <2>3 DEF MigrationInv, Migration!Nobody
<1>2. Migration!Next \/ UNCHANGED migration
  BY DEF PartsNext, Others, all
<1> QED BY <1>1, <1>2, OldStepsKeep, MigrateKeeps DEF Migration!Next

\* [_migrate_checkpoint] Whatever the graph, its runs and the layout its checkpoint was
\* saved in: the nodes that were due when it was saved, by the channels the older version
\* had for entries, edges and branches, are due by their one channel once it is migrated,
\* no other is, and the Sends that waited still do.
THEOREM MigratedAreDue == PartsSpec => []MigrationKeepsDue
<1>1. PartsInit => MigrationInv
  BY MigrationInits
<1>2. MigrationInv /\ [PartsNext]_all => MigrationInv'
  BY MigrationSteps
<1>3. MigrationInv => MigrationKeepsDue
  BY DEF MigrationInv, MigrationKeepsDue
<1> QED BY <1>1, <1>2, <1>3, PTL DEF PartsSpec

-----------------------------------------------------------------------------
(* Savers                                                                   *)

\* The savers are records; the rows are those of what was put.
RowsInv ==
  /\ DOMAIN memory = {"rows", "blobs", "writes"}
  /\ DOMAIN sqlite = {"rows", "writes"}
  /\ DOMAIN postgres = {"rows", "blobs", "writes"}
  /\ DOMAIN shallow = {"row", "blobs", "writes"}
  /\ DOMAIN memory.rows = DOMAIN made
  /\ DOMAIN sqlite.rows = DOMAIN made
  /\ DOMAIN postgres.rows = DOMAIN made
  /\ \A id \in DOMAIN made :
       /\ made[id] = [parent |-> made[id].parent, val |-> made[id].val]
       /\ sqlite.rows[id] = made[id]
       /\ memory.rows[id] = [parent |-> made[id].parent, ver |-> memory.rows[id].ver]
       /\ postgres.rows[id] =
            [parent |-> made[id].parent, ver |-> memory.rows[id].ver,
             inline |-> [c \in {d \in SavedChannels : Saving!Inline(made[id].val, d)} |->
                           made[id].val[c]]]

\* Versions and values of the checkpoints that the run has, or a saver, and of none.
Known ==
  {<<head.ver, head.val>>, <<Saving!Empty.ver, Saving!Empty.val>>}
    \cup {<<waiting[i].ver, waiting[i].val>> : i \in 1 .. Len(waiting)}
    \cup {<<memory.rows[id].ver, made[id].val>> : id \in DOMAIN made}

Dated(version) == version \in Nat \X Nat /\ version[1] <= sLastId /\ version[2] <= sLastId

\* A version of a channel says what its value is, wherever either is kept.
VersionsInv ==
  /\ \A k \in Known :
       /\ k[1] = [c \in SavedChannels |-> k[1][c]] /\ k[2] = [c \in SavedChannels |-> k[2][c]]
       /\ \A c \in SavedChannels : Dated(k[1][c])
  /\ \A k \in Known, l \in Known, c \in SavedChannels : k[1][c] = l[1][c] => k[2][c] = l[2][c]
  /\ \A k \in Known, c \in SavedChannels :
       /\ <<c, k[1][c]>> \in DOMAIN memory.blobs => memory.blobs[<<c, k[1][c]>>] = k[2][c]
       /\ <<c, k[1][c]>> \in DOMAIN postgres.blobs => postgres.blobs[<<c, k[1][c]>>] = k[2][c]
  /\ \A key \in DOMAIN memory.blobs \cup DOMAIN postgres.blobs : Dated(key[2])

\* The blob of a value is there, if it has one.
Stored(mem, post, ver, val, c) ==
  /\ val[c] # Saving!Missing => <<c, ver[c]>> \in DOMAIN mem
  /\ val[c] # Saving!Missing /\ ~Saving!Inline(val, c) => <<c, ver[c]>> \in DOMAIN post

\* It comes with one of the first n checkpoints that wait.
Coming(ks, ver, c, n) == \E j \in 1 .. n : c \in ks[j].new /\ ks[j].ver[c] = ver[c]

StoredInv ==
  /\ \A id \in DOMAIN made, c \in SavedChannels :
       Stored(memory.blobs, postgres.blobs, memory.rows[id].ver, made[id].val, c)
  /\ \A c \in SavedChannels :
       \/ Stored(memory.blobs, postgres.blobs, head.ver, head.val, c)
       \/ Coming(waiting, head.ver, c, Len(waiting))
  /\ \A i \in 1 .. Len(waiting) :
       /\ waiting[i].new \subseteq SavedChannels
       /\ \A c \in waiting[i].new : waiting[i].ver[c] # Saving!Unversioned
       /\ \A c \in SavedChannels \ waiting[i].new :
            \/ Stored(memory.blobs, postgres.blobs, waiting[i].ver, waiting[i].val, c)
            \/ Coming(waiting, waiting[i].ver, c, i - 1)

IdsInv ==
  /\ sLastId \in Nat
  /\ head.id \in 0 .. sLastId /\ shallow.row.id \in 0 .. sLastId
  /\ \A id \in DOMAIN made : id \in 0 .. sLastId
  /\ \E S : waiting \in Seq(S)
  /\ \A i \in 1 .. Len(waiting) : waiting[i].id \in 0 .. sLastId
  /\ \A key \in DOMAIN shallow.writes \cup DOMAIN postgres.writes : key[1] \in 0 .. sLastId

\* Pending writes differ only where a commit was mixed.
WritesInv ==
  /\ sqlite.writes = postgres.writes
  /\ \A key \in DOMAIN memory.writes \cup DOMAIN sqlite.writes :
       key[3] >= 0 \/ <<key[1], key[2]>> \notin odd.mixed =>
         /\ key \in DOMAIN memory.writes /\ key \in DOMAIN sqlite.writes
         /\ memory.writes[key] = sqlite.writes[key]

\* The checkpoints of a thread that is not forked, from the one row on.
Link(i) ==
  IF i = 0 THEN [id |-> shallow.row.id, ver |-> shallow.row.ver, val |-> Saving!GetShallow]
  ELSE [id |-> waiting[i].id, ver |-> waiting[i].ver, val |-> waiting[i].val]

SameWrites(ws, vs, id) ==
  \A key \in DOMAIN ws \cup DOMAIN vs : key[1] = id =>
    /\ key \in DOMAIN ws <=> key \in DOMAIN vs
    /\ ws[key] = vs[key]

NoWrites(ws, vs, id) == \A key \in DOMAIN ws \cup DOMAIN vs : key[1] # id

\* They follow each other, the head is the last, and what a task of one has written is in
\* the shallow saver if it came in time.
LinearInv ==
  /\ \A i \in 1 .. Len(waiting) :
       /\ waiting[i].parent = Link(i - 1).id /\ waiting[i].id > Link(i - 1).id
       /\ \A c \in SavedChannels \ waiting[i].new :
            waiting[i].ver[c] = Link(i - 1).ver[c] /\ waiting[i].val[c] = Link(i - 1).val[c]
  /\ head.id = Link(Len(waiting)).id /\ head.ver = Link(Len(waiting)).ver
  /\ head.val = Link(Len(waiting)).val
  /\ made # <<>> => shallow.row.id \in DOMAIN made
  /\ \A id \in DOMAIN made : id <= shallow.row.id
  /\ shallow.row.id \in DOMAIN made =>
       /\ memory.rows[shallow.row.id].ver = shallow.row.ver
       /\ made[shallow.row.id].val = Saving!GetShallow
  /\ \A i \in 0 .. Len(waiting) : Link(i).id \notin odd.early =>
       IF i <= 1 THEN SameWrites(shallow.writes, postgres.writes, Link(i).id)
       ELSE NoWrites(shallow.writes, postgres.writes, Link(i).id)

SaverInv ==
  /\ setup \in SaverSetups
  /\ DOMAIN odd = {"mixed", "early", "linear"}
  /\ RowsInv /\ VersionsInv /\ StoredInv /\ IdsInv /\ WritesInv
  /\ odd.linear => LinearInv

-----------------------------------------------------------------------------
(* A put                                                                    *)

\* Entries put over others.
LEMMA OverDomain ==
  ASSUME NEW old, NEW new
  PROVE  DOMAIN Saving!Over(old, new) = DOMAIN old \cup DOMAIN new
BY DEF Saving!Over

LEMMA RowDomain ==
  ASSUME NEW old, NEW id, NEW row
  PROVE  DOMAIN Saving!Over(old, Saving!One(id, row)) = DOMAIN old \cup {id}
BY DEF Saving!Over, Saving!One

LEMMA RowThere ==
  ASSUME NEW old, NEW id, NEW row
  PROVE  Saving!Over(old, Saving!One(id, row))[id] = row
BY DEF Saving!Over, Saving!One

LEMMA RowElse ==
  ASSUME NEW old, NEW id, NEW row, NEW x \in DOMAIN old \ {id}
  PROVE  Saving!Over(old, Saving!One(id, row))[x] = old[x]
BY DEF Saving!Over, Saving!One

\* A row is there; the others are as they were.
IsPut(rows, old, id, row) ==
  /\ DOMAIN rows = DOMAIN old \cup {id} /\ rows[id] = row
  /\ \A x \in DOMAIN old \ {id} : rows[x] = old[x]

LEMMA RowIsPut ==
  ASSUME NEW old, NEW id, NEW row
  PROVE  IsPut(Saving!Over(old, Saving!One(id, row)), old, id, row)
<1>1. DOMAIN Saving!Over(old, Saving!One(id, row)) = DOMAIN old \cup {id}
  BY RowDomain
<1>2. Saving!Over(old, Saving!One(id, row))[id] = row
  BY RowThere
<1>3. \A x \in DOMAIN old \ {id} : Saving!Over(old, Saving!One(id, row))[x] = old[x]
  BY RowElse
<1> QED BY <1>1, <1>2, <1>3 DEF IsPut

\* A value that is not empty and not plain.
Rich(val, c) == val[c] # Saving!Missing /\ ~Saving!Inline(val, c)

RowOf(k) ==
  [parent |-> k.parent, ver |-> k.ver,
   inline |-> [c \in {d \in SavedChannels : Saving!Inline(k.val, d)} |-> k.val[c]]]

\* put, saver by saver.
LEMMA PutIs ==
  ASSUME RowsInv, NEW k, Saving!PutAll(k)
  PROVE  /\ made' = Saving!Over(made, Saving!One(k.id, [parent |-> k.parent, val |-> k.val]))
         /\ memory'.rows =
              Saving!Over(memory.rows, Saving!One(k.id, [parent |-> k.parent, ver |-> k.ver]))
         /\ memory'.blobs = Saving!Over(memory.blobs, Saving!BlobsOf(k, k.new))
         /\ memory'.writes = memory.writes /\ DOMAIN memory' = DOMAIN memory
         /\ sqlite'.rows =
              Saving!Over(sqlite.rows, Saving!One(k.id, [parent |-> k.parent, val |-> k.val]))
         /\ sqlite'.writes = sqlite.writes /\ DOMAIN sqlite' = DOMAIN sqlite
         /\ postgres'.rows = Saving!Over(postgres.rows, Saving!One(k.id, RowOf(k)))
         /\ postgres'.blobs =
              Saving!Over(Saving!BlobsOf(k, {c \in k.new : Rich(k.val, c)}), postgres.blobs)
         /\ postgres'.writes = postgres.writes /\ DOMAIN postgres' = DOMAIN postgres
         /\ shallow'.row = [id |-> k.id, ver |-> k.ver]
         /\ shallow'.blobs = Saving!Over(shallow.blobs, [c \in k.new |-> k.val[c]])
         /\ shallow'.writes =
              [w \in {x \in DOMAIN shallow.writes : x[1] \in {k.id, k.parent}} |->
                 shallow.writes[w]]
         /\ DOMAIN shallow' = DOMAIN shallow
<1>1. /\ made' = Saving!Over(made, Saving!One(k.id, [parent |-> k.parent, val |-> k.val]))
      /\ memory' = Saving!PutMemory(memory, k) /\ sqlite' = Saving!PutSqlite(sqlite, k)
      /\ postgres' = Saving!PutPostgres(postgres, k)
      /\ shallow' = Saving!PutShallow(shallow, k)
  BY DEF Saving!PutAll
<1>2. /\ memory'.rows =
           Saving!Over(memory.rows, Saving!One(k.id, [parent |-> k.parent, ver |-> k.ver]))
      /\ memory'.blobs = Saving!Over(memory.blobs, Saving!BlobsOf(k, k.new))
      /\ memory'.writes = memory.writes /\ DOMAIN memory' = DOMAIN memory
  BY <1>1 DEF Saving!PutMemory, RowsInv
<1>3. /\ sqlite'.rows =
           Saving!Over(sqlite.rows, Saving!One(k.id, [parent |-> k.parent, val |-> k.val]))
      /\ sqlite'.writes = sqlite.writes /\ DOMAIN sqlite' = DOMAIN sqlite
  BY <1>1 DEF Saving!PutSqlite, RowsInv
<1>4. /\ postgres'.rows = Saving!Over(postgres.rows, Saving!One(k.id, RowOf(k)))
      /\ postgres'.blobs =
           Saving!Over(Saving!BlobsOf(k, {c \in k.new : Rich(k.val, c)}), postgres.blobs)
      /\ postgres'.writes = postgres.writes /\ DOMAIN postgres' = DOMAIN postgres
  BY <1>1 DEF Saving!PutPostgres, RowsInv, RowOf, Rich
<1>5. /\ shallow'.row = [id |-> k.id, ver |-> k.ver]
      /\ shallow'.blobs = Saving!Over(shallow.blobs, [c \in k.new |-> k.val[c]])
      /\ shallow'.writes =
           [w \in {x \in DOMAIN shallow.writes : x[1] \in {k.id, k.parent}} |->
              shallow.writes[w]]
      /\ DOMAIN shallow' = DOMAIN shallow
  BY <1>1 DEF Saving!PutShallow, RowsInv
<1> QED BY <1>1, <1>2, <1>3, <1>4, <1>5

\* The rows stay those of what was put.
LEMMA PutRows ==
  ASSUME RowsInv, NEW k, Saving!PutAll(k)
  PROVE  /\ RowsInv'
         /\ DOMAIN made' = DOMAIN made \cup {k.id}
         /\ made'[k.id].val = k.val /\ memory'.rows[k.id].ver = k.ver
         /\ \A id \in DOMAIN made \ {k.id} :
              made'[id] = made[id] /\ memory'.rows[id] = memory.rows[id]
<1> DEFINE named == [parent |-> k.parent, ver |-> k.ver]
           full == [parent |-> k.parent, val |-> k.val]
           id0 == k.id
           row0 == RowOf(k)
<1>a. /\ made' = Saving!Over(made, Saving!One(id0, full))
      /\ memory'.rows = Saving!Over(memory.rows, Saving!One(id0, named))
      /\ sqlite'.rows = Saving!Over(sqlite.rows, Saving!One(id0, full))
      /\ postgres'.rows = Saving!Over(postgres.rows, Saving!One(id0, row0))
      /\ DOMAIN memory' = DOMAIN memory /\ DOMAIN sqlite' = DOMAIN sqlite
      /\ DOMAIN postgres' = DOMAIN postgres
  BY PutIs
<1>b. /\ DOMAIN memory.rows = DOMAIN made /\ DOMAIN sqlite.rows = DOMAIN made
      /\ DOMAIN postgres.rows = DOMAIN made
  BY DEF RowsInv
<1> HIDE DEF named, full, id0, row0
<1>c. IsPut(made', made, id0, full) /\ IsPut(memory'.rows, memory.rows, id0, named)
  BY <1>a, RowIsPut
<1>d. /\ IsPut(sqlite'.rows, sqlite.rows, id0, full)
      /\ IsPut(postgres'.rows, postgres.rows, id0, row0)
  BY <1>a, RowIsPut
<1>1. /\ DOMAIN made' = DOMAIN made \cup {id0} /\ made'[id0] = full
      /\ \A id \in DOMAIN made \ {id0} : made'[id] = made[id]
  BY <1>c DEF IsPut
<1>2. /\ DOMAIN memory'.rows = DOMAIN made \cup {id0} /\ memory'.rows[id0] = named
      /\ \A id \in DOMAIN made \ {id0} : memory'.rows[id] = memory.rows[id]
  BY <1>c, <1>b DEF IsPut
<1>3. /\ DOMAIN sqlite'.rows = DOMAIN made \cup {id0} /\ sqlite'.rows[id0] = full
      /\ \A id \in DOMAIN made \ {id0} : sqlite'.rows[id] = sqlite.rows[id]
  BY <1>d, <1>b DEF IsPut
<1>4. /\ DOMAIN postgres'.rows = DOMAIN made \cup {id0} /\ postgres'.rows[id0] = row0
      /\ \A id \in DOMAIN made \ {id0} : postgres'.rows[id] = postgres.rows[id]
  BY <1>d, <1>b DEF IsPut
<1> USE DEF named, full, id0, row0
<1>5. DOMAIN shallow' = DOMAIN shallow
  BY PutIs
<1>6. ASSUME NEW id \in DOMAIN made'
      PROVE  /\ made'[id] = [parent |-> made'[id].parent, val |-> made'[id].val]
             /\ sqlite'.rows[id] = made'[id]
             /\ memory'.rows[id] = [parent |-> made'[id].parent, ver |-> memory'.rows[id].ver]
             /\ postgres'.rows[id] =
                  [parent |-> made'[id].parent, ver |-> memory'.rows[id].ver,
                   inline |-> [c \in {d \in SavedChannels : Saving!Inline(made'[id].val, d)} |->
                                 made'[id].val[c]]]
  <2>1. CASE id = k.id
    BY <2>1, <1>1, <1>2, <1>3, <1>4 DEF RowOf
  <2>2. CASE id # k.id
    <3>1. id \in DOMAIN made \ {k.id}
      BY <2>2, <1>1
    <3> QED BY <3>1, <1>1, <1>2, <1>3, <1>4 DEF RowsInv
  <2> QED BY <2>1, <2>2
<1>7. RowsInv'
  BY <1>a, <1>1, <1>2, <1>3, <1>4, <1>5, <1>6 DEF RowsInv, Saving!Inline, Saving!Missing
<1> QED BY <1>1, <1>2, <1>7

LEMMA PutChanges ==
  ASSUME RowsInv, NEW k, Saving!PutAll(k)
  PROVE  /\ DOMAIN made' = DOMAIN made \cup {k.id}
         /\ made'[k.id].val = k.val /\ memory'.rows[k.id].ver = k.ver
         /\ \A id \in DOMAIN made \ {k.id} :
              made'[id] = made[id] /\ memory'.rows[id] = memory.rows[id]
BY PutRows

\* Blobs of a checkpoint are added to others.
AddsBlobs(blobs, old, k, chans) ==
  /\ DOMAIN old \subseteq DOMAIN blobs
  /\ \A c \in chans : <<c, k.ver[c]>> \in DOMAIN blobs
  /\ \A key \in DOMAIN blobs :
       \/ key \in DOMAIN old /\ blobs[key] = old[key]
       \/ \E c \in chans : key = <<c, k.ver[c]>> /\ blobs[key] = k.val[c]

LEMMA BlobsAdded ==
  ASSUME NEW old, NEW k, NEW chans
  PROVE  /\ AddsBlobs(Saving!Over(old, Saving!BlobsOf(k, chans)), old, k, chans)
         /\ AddsBlobs(Saving!Over(Saving!BlobsOf(k, chans), old), old, k, chans)
<1> DEFINE new == Saving!BlobsOf(k, chans)
           over == Saving!Over(old, new)
           under == Saving!Over(new, old)
<1>1. \A key : key \in DOMAIN new <=> \E c \in chans : key = <<c, k.ver[c]>>
  BY DEF Saving!BlobsOf
<1>2. \A key \in DOMAIN new : \E c \in chans : key = <<c, k.ver[c]>> /\ new[key] = k.val[c]
  BY DEF Saving!BlobsOf
<1> HIDE DEF new
<1>3. DOMAIN over = DOMAIN old \cup DOMAIN new /\ DOMAIN under = DOMAIN old \cup DOMAIN new
  <2>1. DOMAIN over = DOMAIN old \cup DOMAIN new
    BY OverDomain
  <2>2. DOMAIN under = DOMAIN new \cup DOMAIN old
    BY OverDomain
  <2> QED BY <2>1, <2>2
<1>4. \A key \in DOMAIN over :
         \/ key \in DOMAIN old /\ over[key] = old[key]
         \/ key \in DOMAIN new /\ over[key] = new[key]
  BY DEF Saving!Over
<1>5. \A key \in DOMAIN under :
         \/ key \in DOMAIN old /\ under[key] = old[key]
         \/ key \in DOMAIN new /\ under[key] = new[key]
  BY DEF Saving!Over
<1> HIDE DEF over, under
<1>6. AddsBlobs(over, old, k, chans)
  BY <1>1, <1>2, <1>3, <1>4 DEF AddsBlobs
<1>7. AddsBlobs(under, old, k, chans)
  BY <1>1, <1>2, <1>3, <1>5 DEF AddsBlobs
<1> QED BY <1>6, <1>7 DEF over, under, new

\* The blobs that a put adds; those of Postgres are the values that are not inline.
LEMMA PutBlobs ==
  ASSUME RowsInv, NEW k, Saving!PutAll(k)
  PROVE  /\ AddsBlobs(memory'.blobs, memory.blobs, k, k.new)
         /\ AddsBlobs(postgres'.blobs, postgres.blobs, k, {c \in k.new : Rich(k.val, c)})
<1> DEFINE rich == {c \in k.new : Rich(k.val, c)}
           new == k.new
<1>1. /\ memory'.blobs = Saving!Over(memory.blobs, Saving!BlobsOf(k, new))
      /\ postgres'.blobs = Saving!Over(Saving!BlobsOf(k, rich), postgres.blobs)
  BY PutIs
<1> HIDE DEF rich, new
<1>2. AddsBlobs(memory'.blobs, memory.blobs, k, new)
  BY <1>1, BlobsAdded
<1>3. AddsBlobs(postgres'.blobs, postgres.blobs, k, rich)
  BY <1>1, BlobsAdded
<1> QED BY <1>2, <1>3 DEF rich, new

\* A blob is an old one, or the value of a checkpoint that was known.
OldOrKnown(blobs, old) ==
  \A key \in DOMAIN blobs :
    \/ key \in DOMAIN old /\ blobs[key] = old[key]
    \/ \E k \in Known, c \in SavedChannels : key = <<c, k[1][c]>> /\ blobs[key] = k[2][c]

\* Versions go on saying what values are while no new pair of them turns up.
LEMMA VersionsStay ==
  ASSUME VersionsInv, sLastId \in Nat, sLastId' \in Nat, sLastId <= sLastId',
         Known' \subseteq Known,
         OldOrKnown(memory'.blobs, memory.blobs), OldOrKnown(postgres'.blobs, postgres.blobs)
  PROVE  VersionsInv'
<1>1. \A version : Dated(version) => Dated(version)'
  BY DEF Dated
<1>2. ASSUME NEW k \in Known'
      PROVE  /\ k[1] = [c \in SavedChannels |-> k[1][c]]
             /\ k[2] = [c \in SavedChannels |-> k[2][c]]
             /\ \A c \in SavedChannels : Dated(k[1][c])'
  BY <1>1 DEF VersionsInv
<1>3. ASSUME NEW k \in Known', NEW l \in Known', NEW c \in SavedChannels, k[1][c] = l[1][c]
      PROVE  k[2][c] = l[2][c]
  BY <1>3 DEF VersionsInv
<1>4. ASSUME NEW k \in Known', NEW c \in SavedChannels,
             <<c, k[1][c]>> \in DOMAIN memory'.blobs
      PROVE  memory'.blobs[<<c, k[1][c]>>] = k[2][c]
  <2>1. CASE /\ <<c, k[1][c]>> \in DOMAIN memory.blobs
             /\ memory'.blobs[<<c, k[1][c]>>] = memory.blobs[<<c, k[1][c]>>]
    BY <2>1 DEF VersionsInv
  <2>2. ASSUME NEW l \in Known, NEW d \in SavedChannels, <<c, k[1][c]>> = <<d, l[1][d]>>,
               memory'.blobs[<<c, k[1][c]>>] = l[2][d]
        PROVE  memory'.blobs[<<c, k[1][c]>>] = k[2][c]
    BY <2>2 DEF VersionsInv
  <2> QED BY <1>4, <2>1, <2>2 DEF OldOrKnown
<1>5. ASSUME NEW k \in Known', NEW c \in SavedChannels,
             <<c, k[1][c]>> \in DOMAIN postgres'.blobs
      PROVE  postgres'.blobs[<<c, k[1][c]>>] = k[2][c]
  <2>1. CASE /\ <<c, k[1][c]>> \in DOMAIN postgres.blobs
             /\ postgres'.blobs[<<c, k[1][c]>>] = postgres.blobs[<<c, k[1][c]>>]
    BY <2>1 DEF VersionsInv
  <2>2. ASSUME NEW l \in Known, NEW d \in SavedChannels, <<c, k[1][c]>> = <<d, l[1][d]>>,
               postgres'.blobs[<<c, k[1][c]>>] = l[2][d]
        PROVE  postgres'.blobs[<<c, k[1][c]>>] = k[2][c]
    BY <2>2 DEF VersionsInv
  <2> QED BY <1>5, <2>1, <2>2 DEF OldOrKnown
<1>6. ASSUME NEW key \in DOMAIN memory'.blobs \cup DOMAIN postgres'.blobs
      PROVE  Dated(key[2])'
  <2>1. CASE key \in DOMAIN memory.blobs \cup DOMAIN postgres.blobs
    BY <2>1, <1>1 DEF VersionsInv
  <2>2. ASSUME NEW k \in Known, NEW c \in SavedChannels, key = <<c, k[1][c]>>
        PROVE  Dated(key[2])'
    BY <2>2, <1>1 DEF VersionsInv
  <2> QED BY <2>1, <2>2 DEF OldOrKnown
<1> QED BY <1>2, <1>3, <1>4, <1>5, <1>6 DEF VersionsInv

IsKnown(ver, val) == <<ver, val>> \in Known

NowStored(ver, val, c) == Stored(memory.blobs, postgres.blobs, ver, val, c)
ThenStored(ver, val, c) == Stored(memory'.blobs, postgres'.blobs, ver, val, c)

\* What is stored stays stored; what is put is.
LEMMA PutStores ==
  ASSUME RowsInv, VersionsInv, NEW k, Saving!PutAll(k), IsKnown(k.ver, k.val)
  PROVE  /\ \A ver, val, c : NowStored(ver, val, c) => ThenStored(ver, val, c)
         /\ \A ver, val, c :
              /\ IsKnown(ver, val) /\ c \in SavedChannels
              /\ c \in k.new /\ ver[c] = k.ver[c]
              => ThenStored(ver, val, c)
<1>1. /\ DOMAIN memory.blobs \subseteq DOMAIN memory'.blobs
      /\ DOMAIN postgres.blobs \subseteq DOMAIN postgres'.blobs
      /\ \A c \in k.new : <<c, k.ver[c]>> \in DOMAIN memory'.blobs
      /\ \A c \in k.new : Rich(k.val, c) => <<c, k.ver[c]>> \in DOMAIN postgres'.blobs
  BY PutBlobs DEF AddsBlobs
<1>2. \A ver, val, c : NowStored(ver, val, c) => ThenStored(ver, val, c)
  BY <1>1 DEF Stored, NowStored, ThenStored
<1>3. ASSUME NEW ver, NEW val, NEW c \in SavedChannels, IsKnown(ver, val),
             c \in k.new, ver[c] = k.ver[c]
      PROVE  ThenStored(ver, val, c)
  <2>1. PICK l, m : l = <<ver, val>> /\ m = <<k.ver, k.val>>
    OBVIOUS
  <2>2. l \in Known /\ m \in Known /\ l[1][c] = m[1][c]
    BY <1>3, <2>1 DEF IsKnown
  <2>3. l[2][c] = m[2][c]
    BY <2>2 DEF VersionsInv
  <2>4. val[c] = k.val[c]
    BY <2>1, <2>3
  <2> QED BY <1>1, <1>3, <2>4 DEF Stored, ThenStored, Rich, Saving!Inline
<1> QED BY <1>2, <1>3

LEMMA StoredStays ==
  ASSUME RowsInv, VersionsInv, NEW k, Saving!PutAll(k), IsKnown(k.ver, k.val),
         NEW ver, NEW val, NEW c, NowStored(ver, val, c)
  PROVE  ThenStored(ver, val, c)
BY PutStores

LEMMA NewIsStored ==
  ASSUME RowsInv, VersionsInv, NEW k, Saving!PutAll(k), IsKnown(k.ver, k.val),
         NEW ver, NEW val, IsKnown(ver, val), NEW c \in SavedChannels, c \in k.new,
         ver[c] = k.ver[c]
  PROVE  ThenStored(ver, val, c)
BY PutStores

\* What a put adds to the blobs was known.
LEMMA PutKeepsVersions ==
  ASSUME RowsInv, VersionsInv, NEW k, Saving!PutAll(k), IsKnown(k.ver, k.val),
         k.new \subseteq SavedChannels
  PROVE  OldOrKnown(memory'.blobs, memory.blobs) /\ OldOrKnown(postgres'.blobs, postgres.blobs)
<1>1. \A c : \A v : v = <<k.ver, k.val>> => v[1][c] = k.ver[c] /\ v[2][c] = k.val[c]
  OBVIOUS
<1>2. OldOrKnown(memory'.blobs, memory.blobs)
  BY PutBlobs, <1>1 DEF AddsBlobs, OldOrKnown, IsKnown
<1>3. OldOrKnown(postgres'.blobs, postgres.blobs)
  BY PutBlobs, <1>1 DEF AddsBlobs, OldOrKnown, IsKnown
<1> QED BY <1>2, <1>3

-----------------------------------------------------------------------------
(* Versions and blobs, action by action                                     *)

LEMMA TailIs ==
  ASSUME NEW S, NEW s \in Seq(S), s # <<>>
  PROVE  /\ Len(s) \in Nat \ {0} /\ Tail(s) \in Seq(S) /\ Len(Tail(s)) = Len(s) - 1
         /\ \A i \in 1 .. Len(s) - 1 : Tail(s)[i] = s[i + 1]
OBVIOUS

LEMMA AppendIs ==
  ASSUME NEW S, NEW s \in Seq(S), NEW e, NEW T, T = S \cup {e}
  PROVE  /\ Append(s, e) \in Seq(T) /\ Len(Append(s, e)) = Len(s) + 1 /\ Len(s) \in Nat
         /\ \A i \in 1 .. Len(s) : Append(s, e)[i] = s[i]
         /\ Append(s, e)[Len(s) + 1] = e
<1>1. s \in Seq(T) /\ e \in T
  OBVIOUS
<1> QED BY <1>1

\* A put saves a checkpoint that was known.
LEMMA PutIsKnown ==
  ASSUME RowsInv, NEW k, Saving!PutAll(k), IsKnown(k.ver, k.val)
  PROVE  \A id \in DOMAIN made' : IsKnown(memory'.rows[id].ver, made'[id].val)
<1>0. /\ DOMAIN made' = DOMAIN made \cup {k.id}
      /\ made'[k.id].val = k.val /\ memory'.rows[k.id].ver = k.ver
      /\ \A id \in DOMAIN made \ {k.id} :
           made'[id] = made[id] /\ memory'.rows[id] = memory.rows[id]
  BY PutChanges
<1>1. ASSUME NEW id \in DOMAIN made' PROVE IsKnown(memory'.rows[id].ver, made'[id].val)
  <2>1. CASE id = k.id
    BY <2>1, <1>0
  <2>2. CASE id # k.id
    <3>1. id \in DOMAIN made
      BY <2>2, <1>0
    <3>2. memory'.rows[id] = memory.rows[id] /\ made'[id] = made[id]
      BY <2>2, <3>1, <1>0
    <3>3. IsKnown(memory.rows[id].ver, made[id].val)
      BY <3>1 DEF Known, IsKnown
    <3> QED BY <3>2, <3>3
  <2> QED BY <2>1, <2>2
<1> QED BY <1>1

LEMMA KnownIs ==
  ASSUME \A id \in DOMAIN made' : IsKnown(memory'.rows[id].ver, made'[id].val),
         \A i \in 1 .. Len(waiting') : IsKnown(waiting'[i].ver, waiting'[i].val),
         IsKnown(head'.ver, head'.val), IsKnown(Saving!Empty.ver, Saving!Empty.val)
  PROVE  Known' \subseteq Known
<1> DEFINE K == Known
<1>1. /\ \A id \in DOMAIN made' : <<memory'.rows[id].ver, made'[id].val>> \in K
      /\ \A i \in 1 .. Len(waiting') : <<waiting'[i].ver, waiting'[i].val>> \in K
      /\ <<head'.ver, head'.val>> \in K /\ <<Saving!Empty.ver, Saving!Empty.val>> \in K
  BY DEF IsKnown
<1> HIDE DEF K
<1>2. Known' \subseteq K
  BY <1>1 DEF Known, Saving!Empty, Saving!Missing, Saving!Unversioned
<1> QED BY <1>2 DEF K

\* The oldest that waits is put.
LEMMA SaveIs ==
  ASSUME SaverInv, Saving!Save
  PROVE  \E k : /\ Saving!PutAll(k) /\ k = waiting[1] /\ IsKnown(k.ver, k.val)
                /\ k.new \subseteq SavedChannels /\ Len(waiting) \in Nat \ {0}
                /\ Len(waiting') = Len(waiting) - 1 /\ Len(waiting') \in Nat
                /\ \A i \in 1 .. Len(waiting') : waiting'[i] = waiting[i + 1]
                /\ \E S : waiting' \in Seq(S)
                /\ UNCHANGED <<setup, head, sLastId, commits, odd>>
<1>1. PICK S : waiting \in Seq(S)
  BY DEF SaverInv, IdsInv
<1>2. PICK k : k = waiting[1]
  OBVIOUS
<1>3. /\ waiting # <<>> /\ Saving!PutAll(k) /\ waiting' = Tail(waiting)
      /\ UNCHANGED <<setup, head, sLastId, commits, odd>>
  BY <1>2 DEF Saving!Save
<1>4. /\ Len(waiting) \in Nat \ {0} /\ Tail(waiting) \in Seq(S)
      /\ Len(Tail(waiting)) = Len(waiting) - 1
      /\ \A i \in 1 .. Len(waiting) - 1 : Tail(waiting)[i] = waiting[i + 1]
  BY <1>1, <1>3, TailIs
<1>5. IsKnown(waiting[1].ver, waiting[1].val) /\ waiting[1].new \subseteq SavedChannels
  <2>1. 1 \in 1 .. Len(waiting)
    BY <1>4
  <2> QED BY <2>1 DEF Known, IsKnown, SaverInv, StoredInv
<1> QED BY <1>2, <1>3, <1>4, <1>5

LEMMA SaveKeepsVersions ==
  ASSUME SaverInv, Saving!Save
  PROVE  VersionsInv'
<1>1. PICK k : /\ Saving!PutAll(k) /\ k = waiting[1] /\ IsKnown(k.ver, k.val)
               /\ k.new \subseteq SavedChannels /\ Len(waiting) \in Nat \ {0}
               /\ Len(waiting') = Len(waiting) - 1 /\ Len(waiting') \in Nat
               /\ \A i \in 1 .. Len(waiting') : waiting'[i] = waiting[i + 1]
               /\ UNCHANGED <<head, sLastId>>
  BY SaveIs
<1>2. Known' \subseteq Known
  <2>1. \A id \in DOMAIN made' : IsKnown(memory'.rows[id].ver, made'[id].val)
    <3>1. RowsInv
      BY DEF SaverInv
    <3> QED BY <1>1, <3>1, PutIsKnown
  <2>2. ASSUME NEW i \in 1 .. Len(waiting') PROVE IsKnown(waiting'[i].ver, waiting'[i].val)
    <3>1. i + 1 \in 1 .. Len(waiting) /\ waiting'[i] = waiting[i + 1]
      BY <1>1
    <3>2. IsKnown(waiting[i + 1].ver, waiting[i + 1].val)
      BY <3>1 DEF Known, IsKnown
    <3> QED BY <3>1, <3>2
  <2>3. IsKnown(head'.ver, head'.val) /\ IsKnown(Saving!Empty.ver, Saving!Empty.val)
    BY <1>1 DEF Known, IsKnown
  <2> QED BY <2>1, <2>2, <2>3, KnownIs
<1>3. OldOrKnown(memory'.blobs, memory.blobs) /\ OldOrKnown(postgres'.blobs, postgres.blobs)
  BY <1>1, PutKeepsVersions DEF SaverInv
<1>4. sLastId \in Nat /\ sLastId' = sLastId
  BY <1>1 DEF SaverInv, IdsInv
<1> QED BY <1>2, <1>3, <1>4, VersionsStay DEF SaverInv

\* What was to come with the checkpoint that is put is there now.
LEMMA SaveKeepsStored ==
  ASSUME SaverInv, Saving!Save
  PROVE  StoredInv'
<1>1. PICK k : /\ Saving!PutAll(k) /\ k = waiting[1] /\ IsKnown(k.ver, k.val)
               /\ k.new \subseteq SavedChannels /\ Len(waiting) \in Nat \ {0}
               /\ Len(waiting') = Len(waiting) - 1 /\ Len(waiting') \in Nat
               /\ \A i \in 1 .. Len(waiting') : waiting'[i] = waiting[i + 1]
               /\ UNCHANGED <<head, sLastId>>
  BY SaveIs
<1>0. RowsInv /\ VersionsInv /\ StoredInv
  BY DEF SaverInv
<1>2. /\ \A ver, val, c : NowStored(ver, val, c) => ThenStored(ver, val, c)
      /\ \A ver, val, c :
           /\ IsKnown(ver, val) /\ c \in SavedChannels
           /\ c \in k.new /\ ver[c] = k.ver[c]
           => ThenStored(ver, val, c)
  <2>1. Saving!PutAll(k) /\ IsKnown(k.ver, k.val)
    BY <1>1
  <2>2. \A ver, val, c : NowStored(ver, val, c) => ThenStored(ver, val, c)
    BY ONLY <1>0, <2>1, StoredStays
  <2>3. \A ver, val, c :
           /\ IsKnown(ver, val) /\ c \in SavedChannels
           /\ c \in k.new /\ ver[c] = k.ver[c]
           => ThenStored(ver, val, c)
    BY ONLY <1>0, <2>1, NewIsStored
  <2> QED BY <2>2, <2>3
<1>3. /\ \A id \in DOMAIN made, c \in SavedChannels :
           NowStored(memory.rows[id].ver, made[id].val, c)
      /\ \A c \in SavedChannels :
           NowStored(head.ver, head.val, c) \/ Coming(waiting, head.ver, c, Len(waiting))
      /\ \A i \in 1 .. Len(waiting) : \A c \in SavedChannels \ waiting[i].new :
           \/ NowStored(waiting[i].ver, waiting[i].val, c)
           \/ Coming(waiting, waiting[i].ver, c, i - 1)
      /\ \A i \in 1 .. Len(waiting) :
           /\ waiting[i].new \subseteq SavedChannels
           /\ \A c \in waiting[i].new : waiting[i].ver[c] # Saving!Unversioned
  BY <1>0 DEF StoredInv, NowStored
<1>4. ASSUME NEW ver, NEW val, IsKnown(ver, val), NEW c \in SavedChannels,
             NEW n \in 0 .. Len(waiting), NowStored(ver, val, c) \/ Coming(waiting, ver, c, n)
      PROVE  ThenStored(ver, val, c) \/ Coming(waiting', ver, c, n - 1)
  <2>1. CASE NowStored(ver, val, c)
    BY <2>1, <1>2
  <2>2. ASSUME NEW j \in 1 .. n, c \in waiting[j].new, waiting[j].ver[c] = ver[c]
        PROVE  ThenStored(ver, val, c) \/ Coming(waiting', ver, c, n - 1)
    <3>1. CASE j = 1
      BY <3>1, <2>2, <1>1, <1>2, <1>4
    <3>2. CASE j # 1
      <4>1. j - 1 \in 1 .. n - 1 /\ j - 1 \in 1 .. Len(waiting') /\ (j - 1) + 1 = j
        BY <3>2, <1>1
      <4>2. waiting'[j - 1] = waiting[j]
        BY <4>1, <1>1
      <4> QED BY <4>1, <4>2, <2>2 DEF Coming
    <3> QED BY <3>1, <3>2
  <2> QED BY <2>1, <2>2, <1>4 DEF Coming
<1>p. /\ DOMAIN made' = DOMAIN made \cup {k.id}
      /\ made'[k.id].val = k.val /\ memory'.rows[k.id].ver = k.ver
      /\ \A id \in DOMAIN made \ {k.id} :
           made'[id] = made[id] /\ memory'.rows[id] = memory.rows[id]
  BY <1>0, <1>1, PutChanges
<1>5. ASSUME NEW id \in DOMAIN made', NEW c \in SavedChannels
      PROVE  ThenStored(memory'.rows[id].ver, made'[id].val, c)
  <2>1. CASE id = k.id
    <3>1. made'[id].val = k.val /\ memory'.rows[id].ver = k.ver
      BY <2>1, <1>p
    <3>2. CASE c \in k.new
      BY <3>1, <3>2, <1>1, <1>2
    <3>3. CASE c \notin k.new
      <4>1. 1 \in 1 .. Len(waiting) /\ 1 - 1 = 0
        BY <1>1
      <4>2. NowStored(k.ver, k.val, c) \/ Coming(waiting, k.ver, c, 0)
        BY <3>3, <4>1, <1>1, <1>3
      <4>3. ~Coming(waiting, k.ver, c, 0)
        BY DEF Coming
      <4> QED BY <3>1, <4>2, <4>3, <1>2
    <3> QED BY <3>2, <3>3
  <2>2. CASE id # k.id
    <3>1. id \in DOMAIN made
      BY <2>2, <1>p
    <3>2. made'[id] = made[id] /\ memory'.rows[id] = memory.rows[id]
      BY <2>2, <3>1, <1>p
    <3> QED BY <3>1, <3>2, <1>2, <1>3
  <2> QED BY <2>1, <2>2
<1>6. ASSUME NEW c \in SavedChannels
      PROVE  ThenStored(head'.ver, head'.val, c) \/ Coming(waiting', head'.ver, c, Len(waiting'))
  <2>1. IsKnown(head.ver, head.val) /\ Len(waiting) \in 0 .. Len(waiting)
    BY <1>1 DEF Known, IsKnown
  <2>2. ThenStored(head.ver, head.val, c) \/ Coming(waiting', head.ver, c, Len(waiting) - 1)
    BY <2>1, <1>3, <1>4
  <2> QED BY <2>2, <1>1
<1>7. ASSUME NEW i \in 1 .. Len(waiting')
      PROVE  /\ waiting'[i].new \subseteq SavedChannels
             /\ \A c \in waiting'[i].new : waiting'[i].ver[c] # Saving!Unversioned
             /\ \A c \in SavedChannels \ waiting'[i].new :
                  \/ ThenStored(waiting'[i].ver, waiting'[i].val, c)
                  \/ Coming(waiting', waiting'[i].ver, c, i - 1)
  <2>1. i + 1 \in 1 .. Len(waiting) /\ waiting'[i] = waiting[i + 1] /\ (i + 1) - 1 = i
    BY <1>1
  <2>2. IsKnown(waiting[i + 1].ver, waiting[i + 1].val)
    BY <2>1 DEF Known, IsKnown
  <2>3. i \in 0 .. Len(waiting)
    BY <1>1
  <2>4. ASSUME NEW c \in SavedChannels \ waiting[i + 1].new
        PROVE  ThenStored(waiting[i + 1].ver, waiting[i + 1].val, c)
                 \/ Coming(waiting', waiting[i + 1].ver, c, i - 1)
    <3>1. NowStored(waiting[i + 1].ver, waiting[i + 1].val, c)
            \/ Coming(waiting, waiting[i + 1].ver, c, (i + 1) - 1)
      BY <2>1, <1>3
    <3> QED BY <3>1, <2>1, <2>2, <2>3, <1>4
  <2> QED BY <2>1, <2>4, <1>3
<1> QED BY <1>5, <1>6, <1>7 DEF StoredInv, ThenStored, Saving!Unversioned

\* A set of numbers with a bound has a greatest one.
LEMMA SavingMax ==
  ASSUME NEW S \in SUBSET Nat, S # {}, NEW b \in Nat, \A x \in S : x <= b
  PROVE  Saving!Max(S) \in S /\ \A y \in S : Saving!Max(S) >= y
<1>1. Saving!Max(S) = Migration!Max(S)
  BY DEF Saving!Max, Migration!Max
<1> QED BY <1>1, MaxIsGreatest

\* The version that a step gives is greater than those in hand, and nobody had it.
LEMMA VersionIsNext ==
  ASSUME SaverInv, NEW v, v = Saving!NextVersion(head.ver, sLastId + 1), SavedChannels # {}
  PROVE  /\ v \in Nat \X Nat /\ v[1] <= sLastId + 1 /\ v[2] = sLastId + 1
         /\ \A c \in SavedChannels : head.ver[c] \in Nat \X Nat /\ v[1] > head.ver[c][1]
<1> DEFINE S == {head.ver[c][1] : c \in SavedChannels}
<1>1. sLastId \in Nat
  BY DEF SaverInv, IdsInv
<1>2. ASSUME NEW c \in SavedChannels
      PROVE  head.ver[c] \in Nat \X Nat /\ head.ver[c][1] <= sLastId
  <2>1. PICK k : k = <<head.ver, head.val>>
    OBVIOUS
  <2>2. k \in Known /\ k[1] = head.ver
    BY <2>1 DEF Known
  <2> QED BY <2>2 DEF SaverInv, VersionsInv, Dated
<1>3. S \in SUBSET Nat /\ S # {} /\ \A x \in S : x <= sLastId
  BY <1>2
<1>4. Saving!Max(S) \in S /\ \A y \in S : Saving!Max(S) >= y
  BY <1>1, <1>3, SavingMax
<1>5. v = <<Saving!Max(S) + 1, sLastId + 1>>
  BY DEF Saving!NextVersion
<1>6. \A c \in SavedChannels : head.ver[c][1] \in S
  OBVIOUS
<1> HIDE DEF S
<1>7. PICK m \in Nat : m = Saving!Max(S) /\ m <= sLastId
  BY <1>3, <1>4
<1>8. \A y \in S : m >= y
  BY <1>4, <1>7
<1>9. v[1] = m + 1 /\ v[2] = sLastId + 1 /\ v \in Nat \X Nat
  BY <1>1, <1>5, <1>7
<1>10. \A c \in SavedChannels : head.ver[c][1] \in Nat
  BY <1>2
<1> QED BY <1>1, <1>2, <1>6, <1>7, <1>8, <1>9, <1>10

\* A step makes a checkpoint that has a version of its own where it has something new.
StepMakes(next) ==
  /\ head' = next /\ next.id = sLastId + 1 /\ next.parent = head.id
  /\ next.ver = [c \in SavedChannels |-> next.ver[c]]
  /\ next.val = [c \in SavedChannels |-> next.val[c]]
  /\ next.new \subseteq SavedChannels
  /\ \A c \in next.new :
       /\ next.ver[c] \in Nat \X Nat /\ next.ver[c][1] <= sLastId + 1
       /\ next.ver[c][2] = sLastId + 1
  /\ \A c \in SavedChannels \ next.new :
       next.ver[c] = head.ver[c] /\ next.val[c] = head.val[c]
  /\ sLastId' = sLastId + 1 /\ Len(waiting) \in Nat /\ Len(waiting') = Len(waiting) + 1
  /\ \A i \in 1 .. Len(waiting) : waiting'[i] = waiting[i]
  /\ waiting'[Len(waiting) + 1] = next
  /\ \E S : waiting' \in Seq(S)
  /\ UNCHANGED <<setup, made, memory, sqlite, postgres, shallow, commits, odd>>

LEMMA StepIs ==
  ASSUME SaverInv, NEW change, Saving!Step(change)
  PROVE  \E next : StepMakes(next)
<1> DEFINE v == Saving!NextVersion(head.ver, sLastId + 1)
           ver == [c \in SavedChannels |-> IF c \in DOMAIN change THEN v ELSE head.ver[c]]
           val == [c \in SavedChannels |->
                     IF c \notin DOMAIN change THEN head.val[c]
                     ELSE IF change[c] = "empty" THEN Saving!Missing
                     ELSE <<change[c], sLastId + 1>>]
           new == Saving!NewVersions(head.ver, ver)
           next == [id |-> sLastId + 1, parent |-> head.id, ver |-> ver, new |-> new,
                    val |-> val]
<1>1. /\ head' = next /\ waiting' = Append(waiting, next) /\ sLastId' = sLastId + 1
      /\ UNCHANGED <<setup, made, memory, sqlite, postgres, shallow, commits, odd>>
  BY DEF Saving!Step, Saving!savers
<1>2. new = {c \in SavedChannels : Saving!Newer(ver[c], head.ver[c])}
  BY DEF Saving!NewVersions
<1> HIDE DEF v, new
<1>3. /\ ver = [c \in SavedChannels |-> ver[c]] /\ val = [c \in SavedChannels |-> val[c]]
      /\ \A c \in SavedChannels : c \in DOMAIN change => ver[c] = v
      /\ \A c \in SavedChannels : c \notin DOMAIN change =>
           ver[c] = head.ver[c] /\ val[c] = head.val[c]
  OBVIOUS
<1> HIDE DEF ver, val
<1>4. ASSUME NEW c \in SavedChannels
      PROVE  /\ v \in Nat \X Nat /\ v[1] <= sLastId + 1 /\ v[2] = sLastId + 1
             /\ c \in new <=> c \in DOMAIN change
  <2>1. /\ v \in Nat \X Nat /\ v[1] <= sLastId + 1 /\ v[2] = sLastId + 1
        /\ head.ver[c] \in Nat \X Nat /\ v[1] > head.ver[c][1]
    BY VersionIsNext DEF v
  <2>2. CASE c \in DOMAIN change
    BY <2>1, <2>2, <1>2, <1>3 DEF Saving!Newer
  <2>3. CASE c \notin DOMAIN change
    BY <2>1, <2>3, <1>2, <1>3 DEF Saving!Newer
  <2> QED BY <2>1, <2>2, <2>3
<1>5. /\ next.id = sLastId + 1 /\ next.parent = head.id /\ next.ver = ver /\ next.val = val
      /\ next.new = new
  OBVIOUS
<1> HIDE DEF next
<1>6. PICK S : waiting \in Seq(S)
  BY DEF SaverInv, IdsInv
<1>7. PICK T : T = S \cup {next}
  OBVIOUS
<1>8. /\ Append(waiting, next) \in Seq(T) /\ Len(Append(waiting, next)) = Len(waiting) + 1
      /\ Len(waiting) \in Nat
      /\ \A i \in 1 .. Len(waiting) : Append(waiting, next)[i] = waiting[i]
      /\ Append(waiting, next)[Len(waiting) + 1] = next
  BY <1>6, <1>7, AppendIs
<1>9. new \subseteq SavedChannels
  BY <1>2
<1>10. \A c \in next.new :
         /\ next.ver[c] \in Nat \X Nat /\ next.ver[c][1] <= sLastId + 1
         /\ next.ver[c][2] = sLastId + 1
  BY <1>3, <1>4, <1>5, <1>9
<1>11. \A c \in SavedChannels \ next.new :
         next.ver[c] = head.ver[c] /\ next.val[c] = head.val[c]
  BY <1>3, <1>4, <1>5
<1> QED BY <1>1, <1>3, <1>5, <1>8, <1>9, <1>10, <1>11 DEF StepMakes

\* A step's versions are nobody else's, so what they say is new.
LEMMA StepKeepsVersions ==
  ASSUME SaverInv, NEW next, StepMakes(next)
  PROVE  VersionsInv'
<1>0. /\ sLastId \in Nat /\ sLastId' = sLastId + 1 /\ VersionsInv
      /\ next.new \subseteq SavedChannels
  BY DEF SaverInv, IdsInv, StepMakes
<1>1. PICK new : new = <<next.ver, next.val>>
  OBVIOUS
<1>2. ASSUME NEW k \in Known' PROVE k \in Known \/ k = new
  <2>1. CASE k = <<head'.ver, head'.val>>
    BY <2>1, <1>1 DEF StepMakes
  <2>2. CASE k = <<Saving!Empty.ver, Saving!Empty.val>>
    BY <2>2 DEF Known
  <2>3. ASSUME NEW i \in 1 .. Len(waiting'), k = <<waiting'[i].ver, waiting'[i].val>>
        PROVE  k \in Known \/ k = new
    <3>1. i \in 1 .. Len(waiting) \/ i = Len(waiting) + 1
      BY DEF StepMakes
    <3>2. i \in 1 .. Len(waiting) => waiting'[i] = waiting[i]
      BY DEF StepMakes
    <3>3. i = Len(waiting) + 1 => waiting'[i] = next
      BY DEF StepMakes
    <3> QED BY <2>3, <3>1, <3>2, <3>3, <1>1 DEF Known
  <2>4. ASSUME NEW id \in DOMAIN made', k = <<memory'.rows[id].ver, made'[id].val>>
        PROVE  k \in Known
    BY <2>4 DEF Known, StepMakes
  <2> QED BY <2>1, <2>2, <2>3, <2>4 DEF Known, Saving!Empty, Saving!Missing, Saving!Unversioned
<1>3. PICK old : old = <<head.ver, head.val>>
  OBVIOUS
<1>4. old \in Known
  BY <1>3 DEF Known
<1>5. ASSUME NEW c \in SavedChannels
      PROVE  \/ new[1][c] \in Nat \X Nat /\ new[1][c][1] <= sLastId + 1
                  /\ new[1][c][2] = sLastId + 1
             \/ new[1][c] = old[1][c] /\ new[2][c] = old[2][c]
  BY <1>1, <1>3 DEF StepMakes
<1>6. \A version : Dated(version) => Dated(version)' /\ version[2] # sLastId + 1
  BY <1>0 DEF Dated
<1>7. ASSUME NEW k \in Known, NEW c \in SavedChannels PROVE Dated(k[1][c])
  BY <1>0 DEF VersionsInv
<1>8. \A version : /\ version \in Nat \X Nat /\ version[1] <= sLastId + 1
                   /\ version[2] = sLastId + 1
                   => Dated(version)'
  BY <1>0 DEF Dated
<1>9. ASSUME NEW k \in Known'
      PROVE  /\ k[1] = [c \in SavedChannels |-> k[1][c]]
             /\ k[2] = [c \in SavedChannels |-> k[2][c]]
             /\ \A c \in SavedChannels : Dated(k[1][c])'
  <2>1. CASE k \in Known
    BY <2>1, <1>0, <1>6, <1>7 DEF VersionsInv
  <2>2. CASE k = new
    <3>1. k[1] = [c \in SavedChannels |-> k[1][c]] /\ k[2] = [c \in SavedChannels |-> k[2][c]]
      BY <2>2, <1>1 DEF StepMakes
    <3>2. \A c \in SavedChannels : Dated(k[1][c])'
      BY <2>2, <1>4, <1>5, <1>6, <1>7, <1>8
    <3> QED BY <3>1, <3>2
  <2> QED BY <2>1, <2>2, <1>2
<1>10. ASSUME NEW k \in Known, NEW c \in SavedChannels, k[1][c] = new[1][c]
       PROVE  k[2][c] = new[2][c]
  <2>1. new[1][c][2] # sLastId + 1
    BY <1>6, <1>7, <1>10
  <2>2. new[1][c] = old[1][c] /\ new[2][c] = old[2][c]
    BY <1>5, <2>1
  <2> QED BY <2>2, <1>0, <1>4, <1>10 DEF VersionsInv
<1>11. \A k \in Known', l \in Known', c \in SavedChannels :
         k[1][c] = l[1][c] => k[2][c] = l[2][c]
  <2>1. \A k \in Known, l \in Known, c \in SavedChannels :
          k[1][c] = l[1][c] => k[2][c] = l[2][c]
    BY <1>0 DEF VersionsInv
  <2> QED BY <2>1, <1>2, <1>10
<1>12. memory' = memory /\ postgres' = postgres
  BY DEF StepMakes
<1>13. ASSUME NEW key \in DOMAIN memory.blobs \cup DOMAIN postgres.blobs PROVE Dated(key[2])
  BY <1>0 DEF VersionsInv
<1>14. ASSUME NEW c \in SavedChannels,
              <<c, new[1][c]>> \in DOMAIN memory.blobs \cup DOMAIN postgres.blobs
       PROVE  new[1][c] = old[1][c] /\ new[2][c] = old[2][c]
  <2>1. Dated(new[1][c])
    BY <1>13, <1>14
  <2> QED BY <2>1, <1>5, <1>6
<1>15. ASSUME NEW k \in Known', NEW c \in SavedChannels
       PROVE  /\ <<c, k[1][c]>> \in DOMAIN memory.blobs =>
                   memory.blobs[<<c, k[1][c]>>] = k[2][c]
              /\ <<c, k[1][c]>> \in DOMAIN postgres.blobs =>
                   postgres.blobs[<<c, k[1][c]>>] = k[2][c]
  <2>1. \A l \in Known :
          /\ <<c, l[1][c]>> \in DOMAIN memory.blobs => memory.blobs[<<c, l[1][c]>>] = l[2][c]
          /\ <<c, l[1][c]>> \in DOMAIN postgres.blobs =>
               postgres.blobs[<<c, l[1][c]>>] = l[2][c]
    BY <1>0 DEF VersionsInv
  <2> QED BY <2>1, <1>2, <1>4, <1>14
<1> QED BY <1>6, <1>9, <1>11, <1>12, <1>13, <1>15 DEF VersionsInv

LEMMA StepKeepsStored ==
  ASSUME SaverInv, NEW next, StepMakes(next)
  PROVE  StoredInv'
<1>0. StoredInv /\ Len(waiting) \in Nat /\ Len(waiting') = Len(waiting) + 1
  BY DEF SaverInv, StepMakes
<1>1. memory' = memory /\ postgres' = postgres /\ made' = made /\ head' = next
  BY DEF StepMakes
<1>2. ASSUME NEW ver, NEW c, NEW n \in 0 .. Len(waiting), Coming(waiting, ver, c, n)
      PROVE  Coming(waiting', ver, c, n)
  <2>1. PICK j \in 1 .. n : c \in waiting[j].new /\ waiting[j].ver[c] = ver[c]
    BY <1>2 DEF Coming
  <2>2. waiting'[j] = waiting[j]
    BY <2>1, <1>0 DEF StepMakes
  <2> QED BY <2>1, <2>2 DEF Coming
<1>3. ASSUME NEW c \in SavedChannels \ next.new
      PROVE  NowStored(next.ver, next.val, c) \/ Coming(waiting', next.ver, c, Len(waiting))
  <2>1. next.ver[c] = head.ver[c] /\ next.val[c] = head.val[c]
    BY DEF StepMakes
  <2>2. NowStored(head.ver, head.val, c) \/ Coming(waiting, head.ver, c, Len(waiting))
    BY <1>0 DEF StoredInv, NowStored
  <2>3. NowStored(head.ver, head.val, c) => NowStored(next.ver, next.val, c)
    BY <2>1 DEF NowStored, Stored, Saving!Inline
  <2>4. Coming(waiting, head.ver, c, Len(waiting)) => Coming(waiting', head.ver, c, Len(waiting))
    BY <1>0, <1>2
  <2>5. Coming(waiting', head.ver, c, Len(waiting)) =>
          Coming(waiting', next.ver, c, Len(waiting))
    BY <2>1 DEF Coming
  <2> QED BY <2>2, <2>3, <2>4, <2>5
<1>4. ASSUME NEW c \in SavedChannels
      PROVE  NowStored(next.ver, next.val, c) \/ Coming(waiting', next.ver, c, Len(waiting) + 1)
  <2>1. CASE c \in next.new
    <3>1. waiting'[Len(waiting) + 1] = next /\ Len(waiting) + 1 \in 1 .. Len(waiting) + 1
      BY <1>0 DEF StepMakes
    <3> QED BY <2>1, <3>1 DEF Coming
  <2>2. CASE c \notin next.new
    <3>1. Coming(waiting', next.ver, c, Len(waiting)) =>
            Coming(waiting', next.ver, c, Len(waiting) + 1)
      BY <1>0 DEF Coming
    <3> QED BY <2>2, <3>1, <1>3
  <2> QED BY <2>1, <2>2
<1>5. ASSUME NEW i \in 1 .. Len(waiting')
      PROVE  /\ waiting'[i].new \subseteq SavedChannels
             /\ \A c \in waiting'[i].new : waiting'[i].ver[c] # Saving!Unversioned
             /\ \A c \in SavedChannels \ waiting'[i].new :
                  \/ NowStored(waiting'[i].ver, waiting'[i].val, c)
                  \/ Coming(waiting', waiting'[i].ver, c, i - 1)
  <2>1. CASE i \in 1 .. Len(waiting)
    <3>1. waiting'[i] = waiting[i] /\ i - 1 \in 0 .. Len(waiting)
      BY <2>1 DEF StepMakes
    <3>2. /\ waiting[i].new \subseteq SavedChannels
          /\ \A c \in waiting[i].new : waiting[i].ver[c] # Saving!Unversioned
          /\ \A c \in SavedChannels \ waiting[i].new :
               \/ NowStored(waiting[i].ver, waiting[i].val, c)
               \/ Coming(waiting, waiting[i].ver, c, i - 1)
      BY <2>1, <1>0 DEF StoredInv, NowStored
    <3> QED BY <3>1, <3>2, <1>2
  <2>2. CASE i = Len(waiting) + 1
    <3>1. waiting'[i] = next /\ i - 1 = Len(waiting)
      BY <2>2, <1>0 DEF StepMakes
    <3>2. next.new \subseteq SavedChannels /\ sLastId \in Nat
          /\ \A c \in next.new : next.ver[c][2] = sLastId + 1
      BY DEF StepMakes, SaverInv, IdsInv
    <3>3. \A c \in next.new : next.ver[c] # Saving!Unversioned
      BY <3>2 DEF Saving!Unversioned
    <3> QED BY <3>1, <3>2, <3>3, <1>3
  <2> QED BY <2>1, <2>2, <1>0
<1>6. \A id \in DOMAIN made, c \in SavedChannels :
        NowStored(memory.rows[id].ver, made[id].val, c)
  BY <1>0 DEF StoredInv, NowStored
<1> QED BY <1>0, <1>1, <1>4, <1>5, <1>6 DEF StoredInv, NowStored, Saving!Unversioned

StartIs(id) ==
  /\ id \in DOMAIN made /\ head'.id = id
  /\ head'.ver = memory.rows[id].ver /\ head'.val = made[id].val
  /\ waiting' = <<>>
  /\ DOMAIN odd' = DOMAIN odd /\ odd'.mixed = odd.mixed /\ odd'.early = odd.early
  /\ odd'.linear => odd.linear /\ id = Saving!Newest
  /\ UNCHANGED <<setup, made, memory, sqlite, postgres, shallow, sLastId, commits>>

LEMMA StartMakes ==
  ASSUME SaverInv, NEW id, Saving!Start(id)
  PROVE  StartIs(id)
<1>1. DOMAIN odd = {"mixed", "early", "linear"}
  BY DEF SaverInv
<1>2. head' = [Saving!Empty EXCEPT !.id = id, !.parent = made[id].parent, !.val = made[id].val,
                                   !.ver = memory.rows[id].ver]
  BY DEF Saving!Start
<1>3. head'.id = id /\ head'.ver = memory.rows[id].ver /\ head'.val = made[id].val
  <2>1. DOMAIN Saving!Empty = {"id", "parent", "ver", "val", "new"}
    BY DEF Saving!Empty
  <2> QED BY <1>2, <2>1
<1>4. /\ DOMAIN odd' = DOMAIN odd /\ odd'.mixed = odd.mixed /\ odd'.early = odd.early
      /\ odd'.linear <=> odd.linear /\ id = Saving!Newest
  BY <1>1 DEF Saving!Start
<1> QED BY <1>3, <1>4 DEF Saving!Start, Saving!savers, StartIs

LEMMA StartKeeps ==
  ASSUME SaverInv, NEW id, StartIs(id)
  PROVE  RowsInv' /\ VersionsInv' /\ StoredInv'
<1>0. /\ UNCHANGED <<made, memory, sqlite, postgres, shallow, sLastId>> /\ id \in DOMAIN made
      /\ head'.ver = memory.rows[id].ver /\ head'.val = made[id].val /\ Len(waiting') = 0
      /\ sLastId \in Nat
  BY DEF StartIs, SaverInv, IdsInv
<1>1. RowsInv'
  BY <1>0 DEF SaverInv, RowsInv, Saving!Inline, Saving!Missing
<1>2. Known' \subseteq Known
  <2>1. \A x \in DOMAIN made : IsKnown(memory.rows[x].ver, made[x].val)
    BY DEF Known, IsKnown
  <2>2. \A x \in DOMAIN made' : IsKnown(memory'.rows[x].ver, made'[x].val)
    BY <1>0, <2>1
  <2>3. IsKnown(head'.ver, head'.val)
    BY <1>0, <2>1
  <2>4. IsKnown(Saving!Empty.ver, Saving!Empty.val)
    BY DEF Known, IsKnown
  <2>5. \A i \in 1 .. Len(waiting') : IsKnown(waiting'[i].ver, waiting'[i].val)
    BY <1>0
  <2> QED BY <2>2, <2>3, <2>4, <2>5, KnownIs
<1>3. OldOrKnown(memory'.blobs, memory.blobs) /\ OldOrKnown(postgres'.blobs, postgres.blobs)
  BY <1>0 DEF OldOrKnown
<1>4. VersionsInv'
  BY <1>0, <1>2, <1>3, VersionsStay DEF SaverInv
<1>5. \A x \in DOMAIN made, c \in SavedChannels :
        NowStored(memory.rows[x].ver, made[x].val, c)
  BY DEF SaverInv, StoredInv, NowStored
<1>6. StoredInv'
  BY <1>0, <1>5 DEF StoredInv, NowStored
<1> QED BY <1>1, <1>4, <1>6

\* A copy of a checkpoint has its versions and values.
CopyIs(id, k) ==
  /\ id \in DOMAIN made /\ Saving!PutAll(k)
  /\ k.id = sLastId + 1 /\ k.ver = memory.rows[id].ver /\ k.val = made[id].val /\ k.new = {}
  /\ waiting = <<>> /\ waiting' = <<>> /\ sLastId' = sLastId + 1
  /\ DOMAIN odd' = DOMAIN odd /\ odd'.mixed = odd.mixed /\ odd'.linear = FALSE
  /\ UNCHANGED <<setup, head, commits>>

LEMMA CopyMakes ==
  ASSUME SaverInv, NEW id \in DOMAIN made, Saving!Copy(id)
  PROVE  \E k : CopyIs(id, k)
<1>1. PICK k : k = [id |-> sLastId + 1, parent |-> made[id].parent, val |-> made[id].val,
                    ver |-> memory.rows[id].ver, new |-> {}]
  OBVIOUS
<1>2. Saving!PutAll(k)
  BY <1>1 DEF Saving!Copy
<1>3. DOMAIN odd' = DOMAIN odd /\ odd'.mixed = odd.mixed /\ odd'.linear = FALSE
  BY DEF Saving!Copy, SaverInv
<1>4. /\ k.id = sLastId + 1 /\ k.ver = memory.rows[id].ver /\ k.val = made[id].val
      /\ k.new = {}
  BY <1>1
<1>5. /\ waiting = <<>> /\ waiting' = <<>> /\ sLastId' = sLastId + 1
      /\ UNCHANGED <<setup, head, commits>>
  BY DEF Saving!Copy
<1> QED BY <1>2, <1>3, <1>4, <1>5 DEF CopyIs

LEMMA CopyKeeps ==
  ASSUME SaverInv, NEW id, NEW k, CopyIs(id, k)
  PROVE  RowsInv' /\ VersionsInv' /\ StoredInv'
<1>0. /\ RowsInv /\ VersionsInv /\ Saving!PutAll(k) /\ id \in DOMAIN made
      /\ k.ver = memory.rows[id].ver /\ k.val = made[id].val /\ k.new = {}
      /\ Len(waiting) = 0 /\ Len(waiting') = 0 /\ head' = head
      /\ sLastId \in Nat /\ sLastId' = sLastId + 1
  BY DEF CopyIs, SaverInv, IdsInv
<1>1. RowsInv'
  BY ONLY <1>0, PutRows
<1>2. \A x \in DOMAIN made : IsKnown(memory.rows[x].ver, made[x].val)
  BY DEF Known, IsKnown
<1>3. IsKnown(k.ver, k.val)
  BY <1>0, <1>2
<1>4. Known' \subseteq Known
  <2>1. \A x \in DOMAIN made' : IsKnown(memory'.rows[x].ver, made'[x].val)
    BY ONLY <1>0, <1>3, PutIsKnown
  <2>2. IsKnown(head'.ver, head'.val) /\ IsKnown(Saving!Empty.ver, Saving!Empty.val)
    BY <1>0 DEF Known, IsKnown
  <2>3. \A i \in 1 .. Len(waiting') : IsKnown(waiting'[i].ver, waiting'[i].val)
    BY <1>0
  <2> QED BY <2>1, <2>2, <2>3, KnownIs
<1>5. OldOrKnown(memory'.blobs, memory.blobs) /\ OldOrKnown(postgres'.blobs, postgres.blobs)
  <2>1. k.new \subseteq SavedChannels
    BY <1>0
  <2> QED BY ONLY <1>0, <1>3, <2>1, PutKeepsVersions
<1>6. VersionsInv'
  <2>1. sLastId' \in Nat /\ sLastId <= sLastId'
    BY <1>0
  <2> QED BY <1>0, <1>4, <1>5, <2>1, VersionsStay
<1>7. \A ver, val, c : NowStored(ver, val, c) => ThenStored(ver, val, c)
  BY ONLY <1>0, <1>3, StoredStays
<1>8. /\ \A x \in DOMAIN made, c \in SavedChannels :
           NowStored(memory.rows[x].ver, made[x].val, c)
      /\ \A c \in SavedChannels : NowStored(head.ver, head.val, c)
  <2>1. \A ver, c : ~Coming(waiting, ver, c, 0)
    BY DEF Coming
  <2> QED BY <1>0, <2>1 DEF SaverInv, StoredInv, NowStored
<1>9. /\ DOMAIN made' = DOMAIN made \cup {k.id}
      /\ made'[k.id].val = k.val /\ memory'.rows[k.id].ver = k.ver
      /\ \A x \in DOMAIN made \ {k.id} :
           made'[x] = made[x] /\ memory'.rows[x] = memory.rows[x]
  BY ONLY <1>0, PutChanges
<1>10. ASSUME NEW x \in DOMAIN made', NEW c \in SavedChannels
       PROVE  ThenStored(memory'.rows[x].ver, made'[x].val, c)
  <2>1. CASE x = k.id
    BY <2>1, <1>0, <1>7, <1>8, <1>9
  <2>2. CASE x # k.id
    BY <2>2, <1>7, <1>8, <1>9
  <2> QED BY <2>1, <2>2
<1>11. StoredInv'
  BY <1>0, <1>7, <1>8, <1>10 DEF StoredInv, ThenStored
<1> QED BY <1>1, <1>6, <1>11

\* What a commit of a task leaves alone.
WritesAre(task, commit) ==
  /\ head.id # 0
  /\ memory'.writes =
       Saving!MemoryWrites(memory.writes, Saving!Entries(task, commit), commit)
  /\ sqlite'.writes = Saving!SqlWrites(sqlite.writes, Saving!Entries(task, commit), commit)
  /\ postgres'.writes = Saving!SqlWrites(postgres.writes, Saving!Entries(task, commit), commit)
  /\ shallow'.writes = Saving!SqlWrites(shallow.writes, Saving!Entries(task, commit), commit)
  /\ DOMAIN memory' = DOMAIN memory /\ DOMAIN sqlite' = DOMAIN sqlite
  /\ DOMAIN postgres' = DOMAIN postgres /\ DOMAIN shallow' = DOMAIN shallow
  /\ memory'.rows = memory.rows /\ memory'.blobs = memory.blobs
  /\ sqlite'.rows = sqlite.rows
  /\ postgres'.rows = postgres.rows /\ postgres'.blobs = postgres.blobs
  /\ shallow'.row = shallow.row /\ shallow'.blobs = shallow.blobs
  /\ DOMAIN odd' = DOMAIN odd /\ odd'.linear = odd.linear
  /\ odd'.mixed =
       IF {i \in DOMAIN commit : Saving!Special(commit[i])} \notin {{}, DOMAIN commit}
       THEN odd.mixed \cup {<<head.id, task>>} ELSE odd.mixed
  /\ odd'.early = IF Len(waiting) > 1 THEN odd.early \cup {head.id} ELSE odd.early
  /\ UNCHANGED <<setup, head, waiting, made, sLastId>>

LEMMA WritesMake ==
  ASSUME SaverInv, NEW task, NEW commit, Saving!PutWrites(task, commit)
  PROVE  WritesAre(task, commit)
<1>1. /\ DOMAIN memory = {"rows", "blobs", "writes"} /\ DOMAIN sqlite = {"rows", "writes"}
      /\ DOMAIN postgres = {"rows", "blobs", "writes"}
      /\ DOMAIN shallow = {"row", "blobs", "writes"}
      /\ DOMAIN odd = {"mixed", "early", "linear"}
  BY DEF SaverInv, RowsInv
<1> DEFINE entries == Saving!Entries(task, commit)
           special == {i \in DOMAIN commit : Saving!Special(commit[i])}
<1>2. /\ memory' = [memory EXCEPT !.writes = Saving!MemoryWrites(@, entries, commit)]
      /\ sqlite' = [sqlite EXCEPT !.writes = Saving!SqlWrites(@, entries, commit)]
      /\ postgres' = [postgres EXCEPT !.writes = Saving!SqlWrites(@, entries, commit)]
      /\ shallow' = [shallow EXCEPT !.writes = Saving!SqlWrites(@, entries, commit)]
      /\ odd' = [odd EXCEPT
           !.mixed = IF special \notin {{}, DOMAIN commit} THEN @ \cup {<<head.id, task>>}
                     ELSE @,
           !.early = IF Len(waiting) > 1 THEN @ \cup {head.id} ELSE @]
      /\ head.id # 0 /\ UNCHANGED <<setup, head, waiting, made, sLastId>>
  BY DEF Saving!PutWrites
<1> HIDE DEF entries, special
<1>3. /\ memory'.writes = Saving!MemoryWrites(memory.writes, entries, commit)
      /\ DOMAIN memory' = DOMAIN memory
      /\ memory'.rows = memory.rows /\ memory'.blobs = memory.blobs
  BY <1>1, <1>2
<1>4. /\ sqlite'.writes = Saving!SqlWrites(sqlite.writes, entries, commit)
      /\ DOMAIN sqlite' = DOMAIN sqlite /\ sqlite'.rows = sqlite.rows
  BY <1>1, <1>2
<1>5. /\ postgres'.writes = Saving!SqlWrites(postgres.writes, entries, commit)
      /\ DOMAIN postgres' = DOMAIN postgres
      /\ postgres'.rows = postgres.rows /\ postgres'.blobs = postgres.blobs
  BY <1>1, <1>2
<1>6. /\ shallow'.writes = Saving!SqlWrites(shallow.writes, entries, commit)
      /\ DOMAIN shallow' = DOMAIN shallow
      /\ shallow'.row = shallow.row /\ shallow'.blobs = shallow.blobs
  BY <1>1, <1>2
<1>7. /\ DOMAIN odd' = DOMAIN odd /\ odd'.linear = odd.linear
      /\ odd'.mixed = IF special \notin {{}, DOMAIN commit}
                      THEN odd.mixed \cup {<<head.id, task>>} ELSE odd.mixed
      /\ odd'.early = IF Len(waiting) > 1 THEN odd.early \cup {head.id} ELSE odd.early
  BY <1>1, <1>2
<1> QED BY <1>2, <1>3, <1>4, <1>5, <1>6, <1>7 DEF WritesAre, entries, special

LEMMA WritesKeep ==
  ASSUME SaverInv, NEW task, NEW commit, WritesAre(task, commit)
  PROVE  RowsInv' /\ VersionsInv' /\ StoredInv'
<1>1. RowsInv'
  BY DEF SaverInv, WritesAre, RowsInv, Saving!Inline, Saving!Missing
<1>2. Known' \subseteq Known
  BY DEF Known, WritesAre, Saving!Empty, Saving!Missing, Saving!Unversioned
<1>3. OldOrKnown(memory'.blobs, memory.blobs) /\ OldOrKnown(postgres'.blobs, postgres.blobs)
  BY DEF OldOrKnown, WritesAre
<1>4. sLastId \in Nat /\ sLastId' = sLastId
  BY DEF SaverInv, IdsInv, WritesAre
<1>5. VersionsInv'
  BY <1>2, <1>3, <1>4, VersionsStay DEF SaverInv
<1>6. StoredInv'
  BY DEF SaverInv, StoredInv, WritesAre, Saving!Unversioned
<1> QED BY <1>1, <1>5, <1>6

\* Nothing is left of a thread that is deleted.
NothingPut ==
  /\ made = <<>> /\ waiting = <<>> /\ head = Saving!Empty
  /\ memory = Saving!Bare /\ sqlite = [rows |-> <<>>, writes |-> <<>>]
  /\ postgres = Saving!Bare /\ shallow = Saving!BareShallow

LEMMA NothingIsStored == NothingPut /\ sLastId \in Nat => RowsInv /\ VersionsInv /\ StoredInv
<1> SUFFICES ASSUME NothingPut, sLastId \in Nat PROVE RowsInv /\ VersionsInv /\ StoredInv
  OBVIOUS
<1>1. /\ DOMAIN made = {} /\ Len(waiting) = 0 /\ DOMAIN memory.rows = {}
      /\ DOMAIN sqlite.rows = {} /\ DOMAIN postgres.rows = {} /\ DOMAIN memory.blobs = {}
      /\ DOMAIN postgres.blobs = {}
      /\ DOMAIN memory = {"rows", "blobs", "writes"} /\ DOMAIN sqlite = {"rows", "writes"}
      /\ DOMAIN postgres = {"rows", "blobs", "writes"}
      /\ DOMAIN shallow = {"row", "blobs", "writes"}
  BY DEF NothingPut, Saving!Bare, Saving!BareShallow
<1>2. RowsInv
  BY <1>1 DEF RowsInv
<1>3. PICK e : e = <<Saving!Empty.ver, Saving!Empty.val>>
  OBVIOUS
<1>4. ASSUME NEW k \in Known PROVE k = e
  BY <1>1, <1>3 DEF Known, NothingPut
<1>5. /\ e[1] = [c \in SavedChannels |-> <<0, 0>>] /\ e[2] = [c \in SavedChannels |-> <<>>]
  BY <1>3 DEF Saving!Empty, Saving!Unversioned, Saving!Missing
<1>6. Dated(<<0, 0>>)
  BY DEF Dated
<1>7. /\ e[1] = [c \in SavedChannels |-> e[1][c]] /\ e[2] = [c \in SavedChannels |-> e[2][c]]
      /\ \A c \in SavedChannels : Dated(e[1][c])
  BY <1>5, <1>6
<1>8. VersionsInv
  BY <1>1, <1>4, <1>7 DEF VersionsInv
<1>9. \A c \in SavedChannels : head.val[c] = Saving!Missing
  BY DEF NothingPut, Saving!Empty, Saving!Missing
<1>10. StoredInv
  BY <1>1, <1>9 DEF StoredInv, Stored
<1> QED BY <1>2, <1>8, <1>10

-----------------------------------------------------------------------------
(* Numbers and pending writes, action by action                             *)

\* What a commit puts where.
LEMMA EntriesAre ==
  ASSUME NEW task, NEW commit \in Seq(STRING), NEW key \in DOMAIN Saving!Entries(task, commit)
  PROVE  /\ key[1] = head.id /\ key[2] = task
         /\ \E i \in DOMAIN commit :
              IF Saving!Special(commit[i]) THEN key[3] < 0 ELSE key[3] \in Nat /\ key[3] >= 0
<1>1. PICK i \in DOMAIN commit : key = <<head.id, task, Saving!Position(commit, i)>>
  BY DEF Saving!Entries
<1>2. i \in Nat \ {0}
  OBVIOUS
<1>3. Saving!Special(commit[i]) => Saving!Position(commit, i) < 0
  BY DEF Saving!Special, Saving!Position, Saving!WRITES_IDX_MAP
<1>4. ~Saving!Special(commit[i]) => Saving!Position(commit, i) = i - 1
  BY DEF Saving!Position
<1> QED BY <1>1, <1>2, <1>3, <1>4

LEMMA SqlWritesDomain ==
  ASSUME NEW ws, NEW entries, NEW commit
  PROVE  DOMAIN Saving!SqlWrites(ws, entries, commit) = DOMAIN ws \cup DOMAIN entries
BY DEF Saving!SqlWrites, Saving!Over

LEMMA SqlWritesElse ==
  ASSUME NEW ws, NEW entries, NEW commit, NEW key \in DOMAIN ws \ DOMAIN entries
  PROVE  Saving!SqlWrites(ws, entries, commit)[key] = ws[key]
BY DEF Saving!SqlWrites, Saving!Over

LEMMA SqlWritesThere ==
  ASSUME NEW ws, NEW entries, NEW commit, NEW key \in DOMAIN entries
  PROVE  Saving!SqlWrites(ws, entries, commit)[key] =
           IF (\A i \in DOMAIN commit : Saving!Special(commit[i])) \/ key \notin DOMAIN ws
           THEN entries[key] ELSE ws[key]
BY DEF Saving!SqlWrites, Saving!Over

LEMMA MemoryWritesDomain ==
  ASSUME NEW ws, NEW entries, NEW commit
  PROVE  DOMAIN Saving!MemoryWrites(ws, entries, commit) = DOMAIN ws \cup DOMAIN entries
BY DEF Saving!MemoryWrites

LEMMA MemoryWritesElse ==
  ASSUME NEW ws, NEW entries, NEW commit, NEW key \in DOMAIN ws \ DOMAIN entries
  PROVE  Saving!MemoryWrites(ws, entries, commit)[key] = ws[key]
BY DEF Saving!MemoryWrites

LEMMA MemoryWritesThere ==
  ASSUME NEW ws, NEW entries, NEW commit, NEW key \in DOMAIN entries
  PROVE  Saving!MemoryWrites(ws, entries, commit)[key] =
           IF key[3] < 0 \/ key \notin DOMAIN ws THEN entries[key] ELSE ws[key]
BY DEF Saving!MemoryWrites

\* Entries are written to others, which stay where there is none.
Written(rows, ws, entries) ==
  /\ DOMAIN rows = DOMAIN ws \cup DOMAIN entries
  /\ \A key \in DOMAIN ws \ DOMAIN entries : rows[key] = ws[key]

SqlWritten(rows, ws, entries, commit) ==
  \A key \in DOMAIN entries :
    rows[key] = IF (\A i \in DOMAIN commit : Saving!Special(commit[i])) \/ key \notin DOMAIN ws
                THEN entries[key] ELSE ws[key]

MemoryWritten(rows, ws, entries) ==
  \A key \in DOMAIN entries :
    rows[key] = IF key[3] < 0 \/ key \notin DOMAIN ws THEN entries[key] ELSE ws[key]

LEMMA SqlWritesAre ==
  ASSUME NEW ws, NEW entries, NEW commit
  PROVE  /\ Written(Saving!SqlWrites(ws, entries, commit), ws, entries)
         /\ SqlWritten(Saving!SqlWrites(ws, entries, commit), ws, entries, commit)
<1>1. DOMAIN Saving!SqlWrites(ws, entries, commit) = DOMAIN ws \cup DOMAIN entries
  BY SqlWritesDomain
<1>2. \A key \in DOMAIN ws \ DOMAIN entries :
        Saving!SqlWrites(ws, entries, commit)[key] = ws[key]
  BY SqlWritesElse
<1>3. \A key \in DOMAIN entries :
        Saving!SqlWrites(ws, entries, commit)[key] =
          IF (\A i \in DOMAIN commit : Saving!Special(commit[i])) \/ key \notin DOMAIN ws
          THEN entries[key] ELSE ws[key]
  BY SqlWritesThere
<1>4. Written(Saving!SqlWrites(ws, entries, commit), ws, entries)
  BY <1>1, <1>2 DEF Written
<1>5. SqlWritten(Saving!SqlWrites(ws, entries, commit), ws, entries, commit)
  BY <1>3 DEF SqlWritten
<1> QED BY <1>4, <1>5

LEMMA MemoryWritesAre ==
  ASSUME NEW ws, NEW entries, NEW commit
  PROVE  /\ Written(Saving!MemoryWrites(ws, entries, commit), ws, entries)
         /\ MemoryWritten(Saving!MemoryWrites(ws, entries, commit), ws, entries)
<1>1. DOMAIN Saving!MemoryWrites(ws, entries, commit) = DOMAIN ws \cup DOMAIN entries
  BY MemoryWritesDomain
<1>2. \A key \in DOMAIN ws \ DOMAIN entries :
        Saving!MemoryWrites(ws, entries, commit)[key] = ws[key]
  BY MemoryWritesElse
<1>3. \A key \in DOMAIN entries :
        Saving!MemoryWrites(ws, entries, commit)[key] =
          IF key[3] < 0 \/ key \notin DOMAIN ws THEN entries[key] ELSE ws[key]
  BY MemoryWritesThere
<1>4. Written(Saving!MemoryWrites(ws, entries, commit), ws, entries)
  BY <1>1, <1>2 DEF Written
<1>5. MemoryWritten(Saving!MemoryWrites(ws, entries, commit), ws, entries)
  BY <1>3 DEF MemoryWritten
<1> QED BY <1>4, <1>5

\* A plain write stays where it was first put, in all of them; a special one is replaced in
\* all, or kept in the SQL ones only, where the commit is mixed.
LEMMA CommitKeepsWrites ==
  ASSUME SaverInv, NEW task, NEW commit \in Seq(STRING), WritesAre(task, commit)
  PROVE  WritesInv' /\ IdsInv'
<1> DEFINE entries == Saving!Entries(task, commit)
           special == {i \in DOMAIN commit : Saving!Special(commit[i])}
<1>1. /\ memory'.writes = Saving!MemoryWrites(memory.writes, entries, commit)
      /\ sqlite'.writes = Saving!SqlWrites(sqlite.writes, entries, commit)
      /\ postgres'.writes = Saving!SqlWrites(postgres.writes, entries, commit)
      /\ shallow'.writes = Saving!SqlWrites(shallow.writes, entries, commit)
      /\ odd'.mixed = IF special \notin {{}, DOMAIN commit}
                      THEN odd.mixed \cup {<<head.id, task>>} ELSE odd.mixed
  BY DEF WritesAre
<1>2. ASSUME NEW key \in DOMAIN entries
      PROVE  /\ key[1] = head.id /\ key[2] = task
             /\ key[3] < 0 <=> ~(key[3] >= 0)
             /\ key[3] < 0 => special # {}
             /\ key[3] >= 0 => special # DOMAIN commit
  <2>1. PICK i \in DOMAIN commit :
          IF Saving!Special(commit[i]) THEN key[3] < 0 ELSE key[3] \in Nat /\ key[3] >= 0
    BY EntriesAre
  <2>2. CASE Saving!Special(commit[i])
    <3>1. key[3] < 0 /\ i \in special
      BY <2>1, <2>2
    <3>2. ~(key[3] >= 0)
      <4>1. PICK j \in DOMAIN commit : key[3] = Saving!Position(commit, j)
        BY DEF Saving!Entries
      <4>2. Saving!Position(commit, j) \in Int
        BY DEF Saving!Position, Saving!Special, Saving!WRITES_IDX_MAP
      <4> QED BY <3>1, <4>1, <4>2
    <3> QED BY <3>1, <3>2, EntriesAre
  <2>3. CASE ~Saving!Special(commit[i])
    <3>1. key[3] \in Nat /\ i \notin special
      BY <2>1, <2>3
    <3> QED BY <3>1, EntriesAre
  <2> QED BY <2>2, <2>3
<1>3. (\A i \in DOMAIN commit : Saving!Special(commit[i])) <=> special = DOMAIN commit
  OBVIOUS
<1> HIDE DEF entries, special
<1>a. /\ Written(memory'.writes, memory.writes, entries)
      /\ MemoryWritten(memory'.writes, memory.writes, entries)
  BY <1>1, MemoryWritesAre
<1>b. /\ Written(sqlite'.writes, sqlite.writes, entries)
      /\ SqlWritten(sqlite'.writes, sqlite.writes, entries, commit)
  BY <1>1, SqlWritesAre
<1>c. Written(shallow'.writes, shallow.writes, entries)
  BY <1>1, SqlWritesAre
<1>4. /\ DOMAIN memory'.writes = DOMAIN memory.writes \cup DOMAIN entries
      /\ \A key \in DOMAIN memory.writes \ DOMAIN entries :
           memory'.writes[key] = memory.writes[key]
      /\ \A key \in DOMAIN entries :
           memory'.writes[key] = IF key[3] < 0 \/ key \notin DOMAIN memory.writes
                                 THEN entries[key] ELSE memory.writes[key]
  BY <1>a DEF Written, MemoryWritten
<1>5. /\ DOMAIN sqlite'.writes = DOMAIN sqlite.writes \cup DOMAIN entries
      /\ \A key \in DOMAIN sqlite.writes \ DOMAIN entries :
           sqlite'.writes[key] = sqlite.writes[key]
  BY <1>b DEF Written
<1>6. \A key \in DOMAIN entries :
        sqlite'.writes[key] = IF special = DOMAIN commit \/ key \notin DOMAIN sqlite.writes
                              THEN entries[key] ELSE sqlite.writes[key]
  BY <1>b, <1>3 DEF SqlWritten
<1>7. sqlite.writes = postgres.writes /\ sqlite'.writes = postgres'.writes
  BY <1>1 DEF SaverInv, WritesInv
<1>8. ASSUME NEW key \in DOMAIN memory'.writes \cup DOMAIN sqlite'.writes,
             key[3] >= 0 \/ <<key[1], key[2]>> \notin odd'.mixed
      PROVE  /\ key \in DOMAIN memory'.writes /\ key \in DOMAIN sqlite'.writes
             /\ memory'.writes[key] = sqlite'.writes[key]
  <2>1. key[3] >= 0 \/ <<key[1], key[2]>> \notin odd.mixed
    BY <1>1, <1>8
  <2>2. key \in DOMAIN memory.writes \cup DOMAIN sqlite.writes =>
          /\ key \in DOMAIN memory.writes /\ key \in DOMAIN sqlite.writes
          /\ memory.writes[key] = sqlite.writes[key]
    BY <2>1 DEF SaverInv, WritesInv
  <2>3. CASE key \notin DOMAIN entries
    BY <2>2, <2>3, <1>4, <1>5, <1>8
  <2>4. CASE key \in DOMAIN entries /\ special = DOMAIN commit
    BY <2>4, <1>2, <1>4, <1>5, <1>6
  <2>5. CASE key \in DOMAIN entries /\ special # DOMAIN commit
    <3>1. CASE key[3] < 0
      <4>1. <<key[1], key[2]>> \in odd'.mixed
        BY <2>5, <3>1, <1>1, <1>2
      <4>2. key[3] >= 0
        BY <4>1, <1>8
      <4> QED BY <2>5, <3>1, <4>2, <2>2, <1>2, <1>4, <1>5, <1>6
    <3>2. CASE ~(key[3] < 0)
      BY <2>2, <2>5, <3>2, <1>4, <1>5, <1>6
    <3> QED BY <3>1, <3>2
  <2> QED BY <2>3, <2>4, <2>5
<1>9. WritesInv'
  BY <1>7, <1>8 DEF WritesInv
<1>10. DOMAIN shallow'.writes = DOMAIN shallow.writes \cup DOMAIN entries
  BY <1>c DEF Written
<1>11. /\ head' = head /\ sLastId' = sLastId /\ waiting' = waiting /\ made' = made
       /\ shallow'.row = shallow.row /\ IdsInv
  BY DEF WritesAre, SaverInv
<1>12. ASSUME NEW key \in DOMAIN shallow'.writes \cup DOMAIN postgres'.writes
       PROVE  key[1] \in 0 .. sLastId
  <2>1. CASE key \in DOMAIN entries
    BY <2>1, <1>2, <1>11 DEF IdsInv
  <2>2. CASE key \notin DOMAIN entries
    <3>1. key \in DOMAIN shallow.writes \cup DOMAIN postgres.writes
      BY <2>2, <1>5, <1>7, <1>10
    <3> QED BY <3>1, <1>11 DEF IdsInv
  <2> QED BY <2>1, <2>2
<1>13. IdsInv'
  BY <1>11, <1>12 DEF IdsInv
<1> QED BY <1>9, <1>13

\* Other actions leave the writes, but for the shallow saver, which may forget some.
LEMMA WritesStay ==
  ASSUME SaverInv, memory'.writes = memory.writes, sqlite'.writes = sqlite.writes,
         postgres'.writes = postgres.writes, odd'.mixed = odd.mixed
  PROVE  WritesInv'
BY DEF SaverInv, WritesInv

LEMMA PutShallows ==
  ASSUME RowsInv, NEW k, Saving!PutAll(k)
  PROVE  /\ memory'.writes = memory.writes /\ sqlite'.writes = sqlite.writes
         /\ postgres'.writes = postgres.writes
         /\ shallow'.row.id = k.id /\ shallow'.row.ver = k.ver
         /\ \A key : key \in DOMAIN shallow'.writes <=>
                       key \in DOMAIN shallow.writes /\ key[1] \in {k.id, k.parent}
         /\ \A key \in DOMAIN shallow'.writes : shallow'.writes[key] = shallow.writes[key]
<1>1. /\ shallow'.row = [id |-> k.id, ver |-> k.ver]
      /\ shallow'.writes =
           [w \in {x \in DOMAIN shallow.writes : x[1] \in {k.id, k.parent}} |->
              shallow.writes[w]]
      /\ memory'.writes = memory.writes /\ sqlite'.writes = sqlite.writes
      /\ postgres'.writes = postgres.writes
  BY PutIs
<1> QED BY <1>1

LEMMA SaveKeepsIds ==
  ASSUME SaverInv, Saving!Save
  PROVE  RowsInv' /\ WritesInv' /\ IdsInv'
<1>1. PICK k : /\ Saving!PutAll(k) /\ k = waiting[1]
               /\ Len(waiting) \in Nat \ {0}
               /\ Len(waiting') = Len(waiting) - 1 /\ Len(waiting') \in Nat
               /\ \A i \in 1 .. Len(waiting') : waiting'[i] = waiting[i + 1]
               /\ \E S : waiting' \in Seq(S)
               /\ UNCHANGED <<setup, head, sLastId, commits, odd>>
  BY SaveIs
<1>2. RowsInv /\ IdsInv /\ Saving!PutAll(k)
  BY <1>1 DEF SaverInv
<1>3. RowsInv'
  BY ONLY <1>2, PutRows
<1>4. /\ memory'.writes = memory.writes /\ sqlite'.writes = sqlite.writes
      /\ postgres'.writes = postgres.writes
      /\ shallow'.row.id = k.id
      /\ \A key : key \in DOMAIN shallow'.writes => key \in DOMAIN shallow.writes
  BY ONLY <1>2, PutShallows
<1>5. WritesInv'
  BY <1>1, <1>4, WritesStay
<1>6. DOMAIN made' = DOMAIN made \cup {k.id}
  BY ONLY <1>2, PutChanges
<1>7. k.id \in 0 .. sLastId
  BY <1>1, <1>2 DEF IdsInv
<1>8. \A i \in 1 .. Len(waiting') : waiting'[i].id \in 0 .. sLastId
  <2>1. \A i \in 1 .. Len(waiting') : i + 1 \in 1 .. Len(waiting)
    BY <1>1
  <2> QED BY <2>1, <1>1, <1>2 DEF IdsInv
<1>9. \A key \in DOMAIN shallow'.writes \cup DOMAIN postgres'.writes : key[1] \in 0 .. sLastId
  BY <1>2, <1>4 DEF IdsInv
<1>10. \A id \in DOMAIN made' : id \in 0 .. sLastId
  BY <1>2, <1>6, <1>7 DEF IdsInv
<1>11. IdsInv'
  BY <1>1, <1>2, <1>4, <1>7, <1>8, <1>9, <1>10 DEF IdsInv
<1> QED BY <1>3, <1>5, <1>11

LEMMA StepKeepsIds ==
  ASSUME SaverInv, NEW next, StepMakes(next)
  PROVE  RowsInv' /\ WritesInv' /\ IdsInv'
<1>1. UNCHANGED <<made, memory, sqlite, postgres, shallow, odd>>
  BY DEF StepMakes
<1>2. RowsInv'
  BY <1>1 DEF SaverInv, RowsInv, Saving!Inline, Saving!Missing
<1>3. WritesInv'
  BY <1>1, WritesStay
<1>4. /\ IdsInv /\ sLastId' = sLastId + 1 /\ Len(waiting) \in Nat
      /\ Len(waiting') = Len(waiting) + 1 /\ head' = next /\ next.id = sLastId + 1
      /\ \A i \in 1 .. Len(waiting) : waiting'[i] = waiting[i]
      /\ waiting'[Len(waiting) + 1] = next /\ \E S : waiting' \in Seq(S)
  BY DEF SaverInv, StepMakes
<1>5. \A x : x \in 0 .. sLastId => x \in 0 .. sLastId + 1
  BY <1>4 DEF IdsInv
<1>6. sLastId + 1 \in 0 .. sLastId + 1
  BY <1>4 DEF IdsInv
<1>7. \A i \in 1 .. Len(waiting') : waiting'[i].id \in 0 .. sLastId + 1
  BY <1>4, <1>5, <1>6 DEF IdsInv
<1>8. IdsInv'
  BY <1>1, <1>4, <1>5, <1>6, <1>7 DEF IdsInv
<1> QED BY <1>2, <1>3, <1>8

LEMMA StartKeepsIds ==
  ASSUME SaverInv, NEW id, StartIs(id)
  PROVE  WritesInv' /\ IdsInv'
<1>1. /\ UNCHANGED <<made, memory, sqlite, postgres, shallow, sLastId>>
      /\ odd'.mixed = odd.mixed /\ id \in DOMAIN made /\ head'.id = id /\ waiting' = <<>>
      /\ IdsInv
  BY DEF StartIs, SaverInv
<1>2. WritesInv'
  BY <1>1, WritesStay
<1>3. waiting' \in Seq(Nat) /\ Len(waiting') = 0
  BY <1>1
<1>4. IdsInv'
  BY <1>1, <1>3 DEF IdsInv
<1> QED BY <1>2, <1>4

LEMMA CopyKeepsIds ==
  ASSUME SaverInv, NEW id, NEW k, CopyIs(id, k)
  PROVE  WritesInv' /\ IdsInv'
<1>1. /\ RowsInv /\ Saving!PutAll(k) /\ IdsInv
      /\ k.id = sLastId + 1 /\ waiting' = <<>> /\ sLastId' = sLastId + 1 /\ head' = head
      /\ odd'.mixed = odd.mixed
  BY DEF CopyIs, SaverInv
<1>2. /\ memory'.writes = memory.writes /\ sqlite'.writes = sqlite.writes
      /\ postgres'.writes = postgres.writes
      /\ shallow'.row.id = k.id
      /\ \A key : key \in DOMAIN shallow'.writes => key \in DOMAIN shallow.writes
  BY ONLY <1>1, PutShallows
<1>3. WritesInv'
  BY <1>1, <1>2, WritesStay
<1>4. DOMAIN made' = DOMAIN made \cup {k.id}
  BY ONLY <1>1, PutChanges
<1>5. waiting' \in Seq(Nat) /\ Len(waiting') = 0
  BY <1>1
<1>6. \A x : x \in 0 .. sLastId => x \in 0 .. sLastId + 1
  BY <1>1 DEF IdsInv
<1>7. sLastId + 1 \in 0 .. sLastId + 1 /\ sLastId + 1 \in Nat
  BY <1>1 DEF IdsInv
<1>8. \A x \in DOMAIN made' : x \in 0 .. sLastId + 1
  BY <1>1, <1>4, <1>6, <1>7 DEF IdsInv
<1>9. \A key \in DOMAIN shallow'.writes \cup DOMAIN postgres'.writes :
        key[1] \in 0 .. sLastId + 1
  BY <1>1, <1>2, <1>6 DEF IdsInv
<1>10. IdsInv'
  BY <1>1, <1>2, <1>5, <1>6, <1>7, <1>8, <1>9 DEF IdsInv
<1> QED BY <1>3, <1>10

LEMMA NothingIsWritten == NothingPut /\ sLastId \in Nat => WritesInv /\ IdsInv
<1> SUFFICES ASSUME NothingPut, sLastId \in Nat PROVE WritesInv /\ IdsInv
  OBVIOUS
<1>1. /\ DOMAIN made = {} /\ waiting \in Seq(Nat) /\ Len(waiting) = 0
      /\ DOMAIN memory.writes = {} /\ DOMAIN sqlite.writes = {}
      /\ DOMAIN postgres.writes = {} /\ DOMAIN shallow.writes = {}
      /\ head.id = 0 /\ shallow.row.id = 0 /\ sqlite.writes = postgres.writes
  BY DEF NothingPut, Saving!Bare, Saving!BareShallow, Saving!Empty
<1>2. WritesInv
  BY <1>1 DEF WritesInv
<1>3. IdsInv
  BY <1>1 DEF IdsInv
<1> QED BY <1>2, <1>3

-----------------------------------------------------------------------------
(* The shallow saver, action by action                                      *)

\* The chain, read in both states.
LEMMA LinkIs ==
  ASSUME NEW i
  PROVE  /\ i = 0 => /\ Link(i).id = shallow.row.id /\ Link(i).ver = shallow.row.ver
                     /\ Link(i).val = Saving!GetShallow
         /\ i # 0 => /\ Link(i).id = waiting[i].id /\ Link(i).ver = waiting[i].ver
                     /\ Link(i).val = waiting[i].val
BY DEF Link

LEMMA LinkThen ==
  ASSUME NEW i
  PROVE  /\ i = 0 => /\ Link(i)'.id = shallow'.row.id /\ Link(i)'.ver = shallow'.row.ver
                     /\ Link(i)'.val = Saving!GetShallow'
         /\ i # 0 => /\ Link(i)'.id = waiting'[i].id /\ Link(i)'.ver = waiting'[i].ver
                     /\ Link(i)'.val = waiting'[i].val
BY DEF Link

SameLink(k, l) == k.id = l.id /\ k.ver = l.ver /\ k.val = l.val

\* The new checkpoint follows the last of the chain.
LEMMA StepKeepsLinear ==
  ASSUME SaverInv, NEW next, StepMakes(next), odd'.linear
  PROVE  LinearInv'
<1>n. PICK n \in Nat : n = Len(waiting)
  BY DEF StepMakes
<1>0. /\ LinearInv /\ IdsInv
      /\ UNCHANGED <<made, memory, sqlite, postgres, shallow, odd>>
      /\ head' = next /\ next.id = sLastId + 1 /\ next.parent = head.id
      /\ \A c \in SavedChannels \ next.new :
           next.ver[c] = head.ver[c] /\ next.val[c] = head.val[c]
      /\ Len(waiting') = n + 1
      /\ \A i \in 1 .. n : waiting'[i] = waiting[i]
      /\ waiting'[n + 1] = next
  BY <1>n DEF SaverInv, StepMakes
<1>1. Saving!GetShallow' = Saving!GetShallow
  BY <1>0 DEF Saving!GetShallow, Saving!Unversioned, Saving!Missing
<1>2. \A i \in 0 .. n : SameLink(Link(i)', Link(i))
  BY <1>0, <1>1, LinkIs, LinkThen DEF SameLink
<1>3. SameLink(Link(n + 1)', next)
  BY <1>0, LinkThen DEF SameLink
<1>4. Link(n).id = head.id /\ Link(n).ver = head.ver /\ Link(n).val = head.val
  BY <1>n, <1>0 DEF LinearInv
<1>5. sLastId \in Nat /\ head.id \in 0 .. sLastId
  BY <1>0 DEF IdsInv
<1>6. ASSUME NEW i \in 1 .. n + 1
      PROVE  /\ waiting'[i].parent = Link(i - 1)'.id /\ waiting'[i].id > Link(i - 1)'.id
             /\ \A c \in SavedChannels \ waiting'[i].new :
                  /\ waiting'[i].ver[c] = Link(i - 1)'.ver[c]
                  /\ waiting'[i].val[c] = Link(i - 1)'.val[c]
  <2>1. CASE i \in 1 .. n
    <3>1. waiting'[i] = waiting[i] /\ i - 1 \in 0 .. n
      BY <2>1, <1>0
    <3>2. SameLink(Link(i - 1)', Link(i - 1))
      BY <3>1, <1>2
    <3>3. /\ waiting[i].parent = Link(i - 1).id /\ waiting[i].id > Link(i - 1).id
          /\ \A c \in SavedChannels \ waiting[i].new :
               /\ waiting[i].ver[c] = Link(i - 1).ver[c]
               /\ waiting[i].val[c] = Link(i - 1).val[c]
      BY <2>1, <1>n, <1>0 DEF LinearInv
    <3> QED BY <3>1, <3>2, <3>3 DEF SameLink
  <2>2. CASE i = n + 1
    <3>1. waiting'[i] = next /\ i - 1 = n /\ n \in 0 .. n
      BY <2>2, <1>0
    <3>2. SameLink(Link(i - 1)', Link(n))
      BY <3>1, <1>2
    <3>3. /\ next.parent = Link(n).id /\ next.id > Link(n).id
          /\ \A c \in SavedChannels \ next.new :
               next.ver[c] = Link(n).ver[c] /\ next.val[c] = Link(n).val[c]
      BY <1>0, <1>4, <1>5
    <3> QED BY <3>1, <3>2, <3>3 DEF SameLink
  <2> QED BY <2>1, <2>2, <1>0
<1>7. ASSUME NEW i \in 0 .. n + 1, Link(i)'.id \notin odd.early
      PROVE  IF i <= 1 THEN SameWrites(shallow.writes, postgres.writes, Link(i)'.id)
             ELSE NoWrites(shallow.writes, postgres.writes, Link(i)'.id)
  <2>1. CASE i \in 0 .. n
    <3>1. Link(i)'.id = Link(i).id
      BY <2>1, <1>2 DEF SameLink
    <3> QED BY <2>1, <3>1, <1>7, <1>n, <1>0 DEF LinearInv
  <2>2. CASE i = n + 1
    <3>1. Link(i)'.id = sLastId + 1
      BY <2>2, <1>0, <1>3 DEF SameLink
    <3>2. \A key \in DOMAIN shallow.writes \cup DOMAIN postgres.writes : key[1] # sLastId + 1
      BY <1>0, <1>5 DEF IdsInv
    <3> QED BY <3>1, <3>2 DEF SameWrites, NoWrites
  <2> QED BY <2>1, <2>2
<1>8. /\ made # <<>> => shallow.row.id \in DOMAIN made
      /\ \A id \in DOMAIN made : id <= shallow.row.id
      /\ shallow.row.id \in DOMAIN made =>
           /\ memory.rows[shallow.row.id].ver = shallow.row.ver
           /\ made[shallow.row.id].val = Saving!GetShallow
  BY <1>0 DEF LinearInv
<1>9. head'.id = Link(n + 1)'.id /\ head'.ver = Link(n + 1)'.ver /\ head'.val = Link(n + 1)'.val
  BY <1>0, <1>3 DEF SameLink
<1> QED BY <1>0, <1>1, <1>6, <1>7, <1>8, <1>9 DEF LinearInv

\* The newest checkpoint is the one row: the chain starts again there.
LEMMA StartKeepsLinear ==
  ASSUME SaverInv, NEW id, StartIs(id), odd'.linear
  PROVE  LinearInv'
<1>0. /\ LinearInv /\ IdsInv
      /\ UNCHANGED <<made, memory, sqlite, postgres, shallow>>
      /\ odd'.early = odd.early
      /\ id \in DOMAIN made /\ id = Saving!Newest
      /\ head'.id = id /\ head'.ver = memory.rows[id].ver /\ head'.val = made[id].val
      /\ Len(waiting') = 0
  BY DEF SaverInv, StartIs
<1>1. Saving!GetShallow' = Saving!GetShallow
  BY <1>0 DEF Saving!GetShallow, Saving!Unversioned, Saving!Missing
<1>2. /\ shallow.row.id \in DOMAIN made /\ \A x \in DOMAIN made : x <= shallow.row.id
      /\ memory.rows[shallow.row.id].ver = shallow.row.ver
      /\ made[shallow.row.id].val = Saving!GetShallow
  <2>1. made # <<>>
    BY <1>0
  <2> QED BY <2>1, <1>0 DEF LinearInv
<1>3. id = shallow.row.id
  <2>1. \A x \in DOMAIN made : x \in Nat
    BY <1>0 DEF IdsInv
  <2>2. Saving!Newest \in DOMAIN made /\ \A x \in DOMAIN made : Saving!Newest >= x
    BY <1>2, <2>1 DEF Saving!Newest, Saving!Max
  <2> QED BY <1>0, <1>2, <2>1, <2>2
<1>4. SameLink(Link(0)', Link(0))
  BY <1>0, <1>1, LinkIs, LinkThen DEF SameLink
<1>5. /\ Link(0)'.id = shallow.row.id /\ Link(0)'.ver = shallow.row.ver
      /\ Link(0)'.val = Saving!GetShallow
  BY <1>4, LinkIs DEF SameLink
<1>6. /\ head'.id = Link(0)'.id /\ head'.ver = Link(0)'.ver /\ head'.val = Link(0)'.val
  BY <1>0, <1>2, <1>3, <1>5
<1>7. Link(0)'.id \notin odd.early =>
        SameWrites(shallow.writes, postgres.writes, Link(0)'.id)
  <2>1. 0 \in 0 .. Len(waiting) /\ Link(0).id = Link(0)'.id
    BY <1>4 DEF SameLink, SaverInv, IdsInv
  <2> QED BY <2>1, <1>0 DEF LinearInv
<1>8. \A i \in 0 .. Len(waiting') : i = 0
  BY <1>0
<1> QED BY <1>0, <1>1, <1>2, <1>6, <1>7, <1>8 DEF LinearInv

\* The one row and the blobs are the checkpoint that was put.
LEMMA ShallowBecomes ==
  ASSUME SaverInv, odd.linear, Saving!Save, NEW k, Saving!PutAll(k), k = waiting[1],
         IsKnown(k.ver, k.val), Len(waiting) \in Nat \ {0}
  PROVE  Saving!GetShallow' = k.val
<1>0. RowsInv /\ StoredInv /\ LinearInv /\ 1 \in 1 .. Len(waiting) /\ 1 - 1 = 0
  BY DEF SaverInv
<1>1. /\ shallow'.row = [id |-> k.id, ver |-> k.ver]
      /\ shallow'.blobs = Saving!Over(shallow.blobs, [c \in k.new |-> k.val[c]])
  BY ONLY <1>0, Saving!PutAll(k) DEF Saving!PutAll, Saving!PutShallow, RowsInv
<1>2. \A c : c \in DOMAIN shallow'.blobs <=> c \in DOMAIN shallow.blobs \/ c \in k.new
  BY <1>1 DEF Saving!Over
<1>3. \A c \in k.new : shallow'.blobs[c] = k.val[c]
  BY <1>1 DEF Saving!Over
<1>4. \A c \in DOMAIN shallow.blobs \ k.new : shallow'.blobs[c] = shallow.blobs[c]
  BY <1>1 DEF Saving!Over
<1>5. \A c \in k.new : k.ver[c] # Saving!Unversioned
  BY <1>0 DEF StoredInv
<1>6. \A c \in SavedChannels \ k.new :
        k.ver[c] = shallow.row.ver[c] /\ k.val[c] = Saving!GetShallow[c]
  BY <1>0, LinkIs DEF LinearInv
<1>7. ASSUME NEW c \in SavedChannels
      PROVE  k.val[c] =
                        IF c \in DOMAIN shallow'.blobs /\ shallow'.row.ver[c] # Saving!Unversioned
                        THEN shallow'.blobs[c] ELSE Saving!Missing
  <2>1. CASE c \in k.new
    BY <2>1, <1>1, <1>2, <1>3, <1>5
  <2>2. CASE c \notin k.new
    <3>1. Saving!GetShallow[c] =
            IF c \in DOMAIN shallow.blobs /\ shallow.row.ver[c] # Saving!Unversioned
            THEN shallow.blobs[c] ELSE Saving!Missing
      BY DEF Saving!GetShallow
    <3>2. shallow'.row.ver[c] = shallow.row.ver[c]
      BY <2>2, <1>1, <1>6
    <3> QED BY <2>2, <3>1, <3>2, <1>2, <1>4, <1>6
  <2> QED BY <2>1, <2>2
<1>8. k.val = [c \in SavedChannels |-> k.val[c]]
  <2>1. PICK l : l = <<k.ver, k.val>>
    OBVIOUS
  <2>2. l \in Known /\ l[2] = k.val
    BY <2>1 DEF IsKnown
  <2>3. l[2] = [c \in SavedChannels |-> l[2][c]]
    BY <2>2 DEF SaverInv, VersionsInv
  <2> QED BY <2>2, <2>3
<1> QED BY <1>7, <1>8 DEF Saving!GetShallow, Saving!Unversioned, Saving!Missing

\* The chain loses its first link: the one row becomes the checkpoint after it.
LEMMA SaveKeepsLinear ==
  ASSUME SaverInv, Saving!Save, odd'.linear
  PROVE  LinearInv'
<1>1. PICK k : /\ Saving!PutAll(k) /\ k = waiting[1] /\ IsKnown(k.ver, k.val)
               /\ Len(waiting) \in Nat \ {0}
               /\ Len(waiting') = Len(waiting) - 1 /\ Len(waiting') \in Nat
               /\ \A i \in 1 .. Len(waiting') : waiting'[i] = waiting[i + 1]
               /\ UNCHANGED <<head, sLastId, odd>>
  BY SaveIs
<1>n. PICK n \in Nat : n = Len(waiting')
  BY <1>1
<1>0. /\ RowsInv /\ LinearInv /\ IdsInv /\ odd.linear /\ Len(waiting) = n + 1
      /\ \A i \in 1 .. n : waiting'[i] = waiting[i + 1]
  BY <1>1, <1>n DEF SaverInv
<1>2. Saving!GetShallow' = k.val
  BY <1>0, <1>1, ShallowBecomes
<1>3. /\ postgres'.writes = postgres.writes
      /\ shallow'.row.id = k.id /\ shallow'.row.ver = k.ver
      /\ \A key : key \in DOMAIN shallow'.writes <=>
                    key \in DOMAIN shallow.writes /\ key[1] \in {k.id, k.parent}
      /\ \A key \in DOMAIN shallow'.writes : shallow'.writes[key] = shallow.writes[key]
  <2>1. Saving!PutAll(k)
    BY <1>1
  <2> QED BY ONLY <1>0, <2>1, PutShallows
<1>4. /\ DOMAIN made' = DOMAIN made \cup {k.id}
      /\ made'[k.id].val = k.val /\ memory'.rows[k.id].ver = k.ver
  <2>1. Saving!PutAll(k)
    BY <1>1
  <2> QED BY ONLY <1>0, <2>1, PutChanges
<1>5. ASSUME NEW i \in 0 .. n PROVE SameLink(Link(i)', Link(i + 1))
  <2>1. CASE i = 0
    <3>1. /\ Link(0)'.id = k.id /\ Link(0)'.ver = k.ver /\ Link(0)'.val = k.val
      BY <1>2, <1>3, LinkThen
    <3>2. Link(1).id = k.id /\ Link(1).ver = k.ver /\ Link(1).val = k.val
      BY <1>1, LinkIs
    <3> QED BY <2>1, <3>1, <3>2 DEF SameLink
  <2>2. CASE i # 0
    <3>1. i \in 1 .. n /\ i + 1 # 0
      BY <2>2
    <3>2. waiting'[i] = waiting[i + 1]
      BY <3>1, <1>0
    <3>3. /\ Link(i)'.id = waiting'[i].id /\ Link(i)'.ver = waiting'[i].ver
          /\ Link(i)'.val = waiting'[i].val
      BY <2>2, LinkThen
    <3>4. /\ Link(i + 1).id = waiting[i + 1].id /\ Link(i + 1).ver = waiting[i + 1].ver
          /\ Link(i + 1).val = waiting[i + 1].val
      BY <3>1, LinkIs
    <3> QED BY <3>2, <3>3, <3>4 DEF SameLink
  <2> QED BY <2>1, <2>2
<1>6. ASSUME NEW i \in 1 .. n
      PROVE  /\ waiting'[i].parent = Link(i - 1)'.id /\ waiting'[i].id > Link(i - 1)'.id
             /\ \A c \in SavedChannels \ waiting'[i].new :
                  /\ waiting'[i].ver[c] = Link(i - 1)'.ver[c]
                  /\ waiting'[i].val[c] = Link(i - 1)'.val[c]
  <2>1. i + 1 \in 1 .. Len(waiting) /\ (i + 1) - 1 = i /\ i - 1 \in 0 .. n /\ (i - 1) + 1 = i
    BY <1>0
  <2>2. /\ waiting[i + 1].parent = Link(i).id /\ waiting[i + 1].id > Link(i).id
        /\ \A c \in SavedChannels \ waiting[i + 1].new :
             /\ waiting[i + 1].ver[c] = Link(i).ver[c]
             /\ waiting[i + 1].val[c] = Link(i).val[c]
    BY <2>1, <1>0 DEF LinearInv
  <2>3. SameLink(Link(i - 1)', Link(i))
    BY <2>1, <1>5
  <2>4. waiting'[i] = waiting[i + 1]
    BY <1>0
  <2> QED BY <2>2, <2>3, <2>4 DEF SameLink
<1>7. head'.id = Link(n)'.id /\ head'.ver = Link(n)'.ver /\ head'.val = Link(n)'.val
  <2>1. SameLink(Link(n)', Link(n + 1))
    BY <1>5
  <2>2. head.id = Link(n + 1).id /\ head.ver = Link(n + 1).ver /\ head.val = Link(n + 1).val
    BY <1>0 DEF LinearInv
  <2> QED BY <2>1, <2>2, <1>1 DEF SameLink
<1>8. \A id \in DOMAIN made' : id <= k.id
  <2>1. 1 \in 1 .. Len(waiting) /\ 1 - 1 = 0
    BY <1>1
  <2>2. k.id > shallow.row.id
    BY <2>1, <1>0, <1>1, LinkIs DEF LinearInv
  <2>3. \A id \in DOMAIN made : id <= shallow.row.id /\ id \in Nat
    BY <1>0 DEF LinearInv, IdsInv
  <2>4. k.id \in Nat /\ shallow.row.id \in Nat
    BY <2>1, <1>0, <1>1 DEF IdsInv
  <2> QED BY <2>2, <2>3, <2>4, <1>4
<1>9. ASSUME NEW i \in 0 .. n, Link(i)'.id \notin odd.early
      PROVE  IF i <= 1 THEN SameWrites(shallow'.writes, postgres'.writes, Link(i)'.id)
             ELSE NoWrites(shallow'.writes, postgres'.writes, Link(i)'.id)
  <2>1. PICK id : id = Link(i)'.id /\ id = Link(i + 1).id
    BY <1>5 DEF SameLink
  <2>2. i + 1 \in 0 .. Len(waiting) /\ id \notin odd.early
    BY <1>0, <1>9, <2>1
  <2>3. IF i + 1 <= 1 THEN SameWrites(shallow.writes, postgres.writes, id)
        ELSE NoWrites(shallow.writes, postgres.writes, id)
    BY <2>1, <2>2, <1>0 DEF LinearInv
  <2>4. CASE i = 0
    <3>1. id = k.id /\ SameWrites(shallow.writes, postgres.writes, id)
      BY <2>1, <2>3, <2>4, <1>1, LinkIs
    <3>2. SameWrites(shallow'.writes, postgres'.writes, id)
      BY <3>1, <1>3 DEF SameWrites
    <3> QED BY <2>1, <2>4, <3>2
  <2>5. CASE i # 0
    <3>1. NoWrites(shallow.writes, postgres.writes, id)
      BY <2>3, <2>5
    <3>2. NoWrites(shallow'.writes, postgres'.writes, id)
      BY <3>1, <1>3 DEF NoWrites
    <3>3. SameWrites(shallow'.writes, postgres'.writes, id)
      BY <3>2 DEF NoWrites, SameWrites
    <3> QED BY <2>1, <3>2, <3>3
  <2> QED BY <2>4, <2>5
<1>10. /\ shallow'.row.id \in DOMAIN made'
       /\ \A id \in DOMAIN made' : id <= shallow'.row.id
       /\ memory'.rows[shallow'.row.id].ver = shallow'.row.ver
       /\ made'[shallow'.row.id].val = Saving!GetShallow'
  BY <1>2, <1>3, <1>4, <1>8
<1>11. odd' = odd
  BY <1>1
<1> QED BY <1>n, <1>6, <1>7, <1>9, <1>10, <1>11 DEF LinearInv

\* What a commit of a task of the checkpoint hd makes of the writes in two tables.
CommitWritten(ws2, vs2, ws, vs, entries, commit, hd) ==
  /\ Written(ws2, ws, entries) /\ SqlWritten(ws2, ws, entries, commit)
  /\ Written(vs2, vs, entries) /\ SqlWritten(vs2, vs, entries, commit)
  /\ \A key \in DOMAIN entries : key[1] = hd

\* What those of the one in hand wrote is the same if it was.
LEMMA EntriesStaySame ==
  ASSUME NEW ws, NEW vs, NEW ws2, NEW vs2, NEW entries, NEW commit, NEW hd, NEW id,
         CommitWritten(ws2, vs2, ws, vs, entries, commit, hd), SameWrites(ws, vs, id)
  PROVE  SameWrites(ws2, vs2, id)
<1>1. ASSUME NEW key \in DOMAIN ws2 \cup DOMAIN vs2, key[1] = id
      PROVE  (key \in DOMAIN ws2 <=> key \in DOMAIN vs2) /\ ws2[key] = vs2[key]
  <2>1. key \in DOMAIN ws <=> key \in DOMAIN vs
    BY <1>1 DEF SameWrites
  <2>2. key \in DOMAIN ws => ws[key] = vs[key]
    BY <1>1 DEF SameWrites
  <2>3. CASE key \in DOMAIN entries
    BY <2>1, <2>2, <2>3 DEF CommitWritten, Written, SqlWritten
  <2>4. CASE key \notin DOMAIN entries
    BY <1>1, <2>1, <2>2, <2>4 DEF CommitWritten, Written
  <2> QED BY <2>3, <2>4
<1> QED BY <1>1 DEF SameWrites

\* What tasks of other checkpoints did not write they still have not written.
LEMMA OthersWriteNothing ==
  ASSUME NEW ws, NEW vs, NEW ws2, NEW vs2, NEW entries, NEW commit, NEW hd, NEW id,
         CommitWritten(ws2, vs2, ws, vs, entries, commit, hd), NoWrites(ws, vs, id), id # hd
  PROVE  NoWrites(ws2, vs2, id)
BY DEF NoWrites, CommitWritten, Written

\* A commit writes for the head: the last of the chain, early if more than one waits.
LEMMA CommitKeepsLinear ==
  ASSUME SaverInv, NEW task, NEW commit \in Seq(STRING), WritesAre(task, commit), odd'.linear
  PROVE  LinearInv'
<1> DEFINE entries == Saving!Entries(task, commit)
<1>n. PICK n \in Nat : n = Len(waiting)
  BY DEF SaverInv, IdsInv
<1>0. /\ LinearInv /\ odd.linear
      /\ UNCHANGED <<head, made, waiting>>
      /\ memory'.rows = memory.rows /\ shallow'.row = shallow.row
      /\ shallow'.blobs = shallow.blobs
      /\ odd'.early = IF n > 1 THEN odd.early \cup {head.id} ELSE odd.early
      /\ shallow'.writes = Saving!SqlWrites(shallow.writes, entries, commit)
      /\ postgres'.writes = Saving!SqlWrites(postgres.writes, entries, commit)
  BY <1>n DEF SaverInv, WritesAre
<1>1. \A key \in DOMAIN entries : key[1] = head.id
  BY EntriesAre
<1> HIDE DEF entries
<1>2. Saving!GetShallow' = Saving!GetShallow
  BY <1>0 DEF Saving!GetShallow, Saving!Unversioned, Saving!Missing
<1>3. \A i : SameLink(Link(i)', Link(i))
  BY <1>0, <1>2, LinkIs, LinkThen DEF SameLink
<1>4. /\ Written(shallow'.writes, shallow.writes, entries)
      /\ SqlWritten(shallow'.writes, shallow.writes, entries, commit)
      /\ Written(postgres'.writes, postgres.writes, entries)
      /\ SqlWritten(postgres'.writes, postgres.writes, entries, commit)
  BY <1>0, SqlWritesAre
<1>5. ASSUME NEW i \in 0 .. n, Link(i)'.id \notin odd'.early
      PROVE  IF i <= 1 THEN SameWrites(shallow'.writes, postgres'.writes, Link(i)'.id)
             ELSE NoWrites(shallow'.writes, postgres'.writes, Link(i)'.id)
  <2>1. PICK id : id = Link(i)'.id /\ id = Link(i).id
    BY <1>3 DEF SameLink
  <2>2. id \notin odd.early /\ (i > 1 => id # head.id)
    BY <2>1, <1>0, <1>5
  <2>3. IF i <= 1 THEN SameWrites(shallow.writes, postgres.writes, id)
        ELSE NoWrites(shallow.writes, postgres.writes, id)
    BY <2>1, <2>2, <1>n, <1>0 DEF LinearInv
  <2>4. CommitWritten(shallow'.writes, postgres'.writes, shallow.writes, postgres.writes,
                      entries, commit, head.id)
    BY ONLY <1>1, <1>4 DEF CommitWritten
  <2>5. SameWrites(shallow.writes, postgres.writes, id) =>
          SameWrites(shallow'.writes, postgres'.writes, id)
    BY ONLY <2>4, EntriesStaySame
  <2>6. NoWrites(shallow.writes, postgres.writes, id) /\ id # head.id =>
          NoWrites(shallow'.writes, postgres'.writes, id)
    BY ONLY <2>4, OthersWriteNothing
  <2> QED BY <2>1, <2>2, <2>3, <2>5, <2>6
<1>6. ASSUME NEW i \in 1 .. n
      PROVE  /\ waiting'[i].parent = Link(i - 1)'.id /\ waiting'[i].id > Link(i - 1)'.id
             /\ \A c \in SavedChannels \ waiting'[i].new :
                  /\ waiting'[i].ver[c] = Link(i - 1)'.ver[c]
                  /\ waiting'[i].val[c] = Link(i - 1)'.val[c]
  BY <1>n, <1>0, <1>3 DEF LinearInv, SameLink
<1>7. head'.id = Link(n)'.id /\ head'.ver = Link(n)'.ver /\ head'.val = Link(n)'.val
  BY <1>n, <1>0, <1>3 DEF LinearInv, SameLink
<1>8. Len(waiting') = n
  BY <1>n, <1>0
<1>9. /\ made' # <<>> => shallow'.row.id \in DOMAIN made'
      /\ \A id \in DOMAIN made' : id <= shallow'.row.id
      /\ shallow'.row.id \in DOMAIN made' =>
           /\ memory'.rows[shallow'.row.id].ver = shallow'.row.ver
           /\ made'[shallow'.row.id].val = Saving!GetShallow'
  BY <1>0, <1>2 DEF LinearInv
<1> QED BY <1>5, <1>6, <1>7, <1>8, <1>9 DEF LinearInv

LEMMA NothingIsLinear == NothingPut => LinearInv
<1> SUFFICES ASSUME NothingPut PROVE LinearInv
  OBVIOUS
<1>1. /\ DOMAIN made = {} /\ made = <<>> /\ Len(waiting) = 0
      /\ shallow.row = Saving!Empty /\ head = Saving!Empty
      /\ DOMAIN shallow.writes = {} /\ DOMAIN postgres.writes = {}
      /\ DOMAIN shallow.blobs = {}
  BY DEF NothingPut, Saving!Bare, Saving!BareShallow
<1>2. Saving!GetShallow = Saving!Empty.val
  BY <1>1 DEF Saving!GetShallow, Saving!Empty
<1>3. /\ Link(0).id = head.id /\ Link(0).ver = head.ver /\ Link(0).val = head.val
  BY <1>1, <1>2, LinkIs
<1>4. \A id : SameWrites(shallow.writes, postgres.writes, id)
  BY <1>1 DEF SameWrites
<1> QED BY <1>1, <1>3, <1>4 DEF LinearInv

\* What the savers give back is what was put.
LEMMA MemoryReads ==
  ASSUME SaverInv, NEW id \in DOMAIN made
  PROVE  made[id] = Saving!GetMemory(id)
<1>0. RowsInv /\ VersionsInv /\ StoredInv
  BY DEF SaverInv
<1>1. PICK k : k = <<memory.rows[id].ver, made[id].val>>
  OBVIOUS
<1>2. k \in Known /\ k[1] = memory.rows[id].ver /\ k[2] = made[id].val
  BY <1>1 DEF Known
<1>3. made[id].val = [c \in SavedChannels |-> made[id].val[c]]
  BY <1>0, <1>2 DEF VersionsInv
<1>4. ASSUME NEW c \in SavedChannels
      PROVE  made[id].val[c] =
               IF <<c, k[1][c]>> \in DOMAIN memory.blobs THEN memory.blobs[<<c, k[1][c]>>]
               ELSE Saving!Missing
  <2>1. <<c, k[1][c]>> \in DOMAIN memory.blobs => memory.blobs[<<c, k[1][c]>>] = k[2][c]
    BY <1>0, <1>2 DEF VersionsInv
  <2>2. made[id].val[c] # Saving!Missing => <<c, k[1][c]>> \in DOMAIN memory.blobs
    BY <1>0, <1>2 DEF StoredInv, Stored
  <2> QED BY <1>2, <2>1, <2>2
<1>5. Saving!LoadBlobs(memory.blobs, k[1]) = [c \in SavedChannels |-> made[id].val[c]]
  BY <1>4 DEF Saving!LoadBlobs, Saving!Missing
<1>6. Saving!LoadBlobs(memory.blobs, memory.rows[id].ver) = made[id].val
  BY <1>2, <1>3, <1>5
<1>7. memory.rows[id].parent = made[id].parent
  <2>1. memory.rows[id] = [parent |-> made[id].parent, ver |-> memory.rows[id].ver]
    BY <1>0 DEF RowsInv
  <2> QED BY ONLY <2>1
<1>8. made[id] = [parent |-> made[id].parent, val |-> made[id].val]
  BY <1>0 DEF RowsInv
<1> QED BY <1>6, <1>7, <1>8 DEF Saving!GetMemory

LEMMA PostgresReads ==
  ASSUME SaverInv, NEW id \in DOMAIN made
  PROVE  made[id] = Saving!GetPostgres(id)
<1>0. RowsInv /\ VersionsInv /\ StoredInv
  BY DEF SaverInv
<1>1. PICK k : k = <<memory.rows[id].ver, made[id].val>>
  OBVIOUS
<1>2. k \in Known /\ k[1] = memory.rows[id].ver /\ k[2] = made[id].val
  BY <1>1 DEF Known
<1>3. made[id].val = [c \in SavedChannels |-> made[id].val[c]]
  BY <1>0, <1>2 DEF VersionsInv
<1>4. PICK row : row = postgres.rows[id]
  OBVIOUS
<1>5. /\ row.parent = made[id].parent /\ row.ver = k[1]
      /\ row.inline = [c \in {d \in SavedChannels : Saving!Inline(made[id].val, d)} |->
                         made[id].val[c]]
  <2>1. row = [parent |-> made[id].parent, ver |-> memory.rows[id].ver,
               inline |-> [c \in {d \in SavedChannels : Saving!Inline(made[id].val, d)} |->
                             made[id].val[c]]]
    BY <1>0, <1>4 DEF RowsInv
  <2> QED BY ONLY <1>2, <2>1
<1>6. PICK loaded : loaded = Saving!LoadBlobs(postgres.blobs, row.ver)
  OBVIOUS
<1>7. \A c \in SavedChannels :
        loaded[c] = IF <<c, k[1][c]>> \in DOMAIN postgres.blobs
                    THEN postgres.blobs[<<c, k[1][c]>>] ELSE Saving!Missing
  BY <1>5, <1>6 DEF Saving!LoadBlobs, Saving!Missing
<1>8. ASSUME NEW c \in SavedChannels
      PROVE  made[id].val[c] =
               IF c \in DOMAIN row.inline /\ loaded[c] = Saving!Missing
               THEN row.inline[c] ELSE loaded[c]
  <2>1. <<c, k[1][c]>> \in DOMAIN postgres.blobs => postgres.blobs[<<c, k[1][c]>>] = k[2][c]
    BY <1>0, <1>2 DEF VersionsInv
  <2>2. made[id].val[c] # Saving!Missing /\ ~Saving!Inline(made[id].val, c) =>
          <<c, k[1][c]>> \in DOMAIN postgres.blobs
    BY <1>0, <1>2 DEF StoredInv, Stored
  <2>3. c \in DOMAIN row.inline <=> Saving!Inline(made[id].val, c)
    BY <1>5
  <2>4. c \in DOMAIN row.inline => row.inline[c] = made[id].val[c]
    BY <1>5
  <2> QED BY <1>2, <1>7, <2>1, <2>2, <2>3, <2>4
<1>9. Saving!GetPostgres(id) =
        [parent |-> row.parent,
         val |-> [c \in SavedChannels |->
                    IF c \in DOMAIN row.inline /\ loaded[c] = Saving!Missing
                    THEN row.inline[c] ELSE loaded[c]]]
  BY <1>4, <1>6 DEF Saving!GetPostgres, Saving!Missing
<1>10. [c \in SavedChannels |->
          IF c \in DOMAIN row.inline /\ loaded[c] = Saving!Missing
          THEN row.inline[c] ELSE loaded[c]] = [c \in SavedChannels |-> made[id].val[c]]
  BY <1>8
<1>11. made[id] = [parent |-> made[id].parent, val |-> made[id].val]
  BY <1>0 DEF RowsInv
<1> QED BY <1>3, <1>5, <1>9, <1>10, <1>11

LEMMA WhatWasPutIsRead == SaverInv => Saving!ReadsWhatWasPut
BY MemoryReads, PostgresReads DEF SaverInv, RowsInv, Saving!ReadsWhatWasPut, Saving!GetSqlite

\* The tables of the writes that are alike, of the three and of one checkpoint.
LEMMA WritesAgree == SaverInv => Saving!PendingWritesAgree
<1> SUFFICES ASSUME SaverInv PROVE Saving!PendingWritesAgree
  OBVIOUS
<1> DEFINE Counts(key) == key[3] >= 0 \/ <<key[1], key[2]>> \notin odd.mixed
<1>1. /\ sqlite.writes = postgres.writes
      /\ \A key \in DOMAIN memory.writes \cup DOMAIN sqlite.writes : Counts(key) =>
           /\ key \in DOMAIN memory.writes /\ key \in DOMAIN sqlite.writes
           /\ memory.writes[key] = sqlite.writes[key]
  BY DEF SaverInv, WritesInv
<1>2. {k \in DOMAIN memory.writes : Counts(k)} = {k \in DOMAIN sqlite.writes : Counts(k)}
  BY <1>1
<1>3. \A key \in {k \in DOMAIN memory.writes : Counts(k)} :
        memory.writes[key] = sqlite.writes[key]
  BY <1>1
<1>4. [key \in {k \in DOMAIN memory.writes : Counts(k)} |-> memory.writes[key]]
        = [key \in {k \in DOMAIN sqlite.writes : Counts(k)} |-> sqlite.writes[key]]
  BY <1>2, <1>3
<1> QED BY <1>1, <1>4 DEF Saving!PendingWritesAgree

LEMMA OneRowIsNewest == SaverInv => Saving!ShallowIsNewest
<1> SUFFICES ASSUME SaverInv, odd.linear, made # <<>>
             PROVE  /\ shallow.row.id = Saving!Newest
                    /\ Saving!GetShallow = made[Saving!Newest].val
                    /\ Saving!Newest \notin odd.early =>
                         Saving!PendingWrites(shallow.writes, Saving!Newest)
                           = Saving!PendingWrites(postgres.writes, Saving!Newest)
  BY DEF Saving!ShallowIsNewest
<1>0. LinearInv /\ IdsInv
  BY DEF SaverInv
<1>1. /\ shallow.row.id \in DOMAIN made /\ \A x \in DOMAIN made : x <= shallow.row.id
      /\ made[shallow.row.id].val = Saving!GetShallow
  BY <1>0 DEF LinearInv
<1>2. \A x \in DOMAIN made : x \in Nat
  BY <1>0 DEF IdsInv
<1>3. Saving!Newest \in DOMAIN made /\ \A x \in DOMAIN made : Saving!Newest >= x
  BY <1>1, <1>2 DEF Saving!Newest, Saving!Max
<1>4. Saving!Newest = shallow.row.id
  BY <1>1, <1>2, <1>3
<1>5. ASSUME shallow.row.id \notin odd.early
      PROVE  SameWrites(shallow.writes, postgres.writes, shallow.row.id)
  <2>1. 0 \in 0 .. Len(waiting) /\ Link(0).id = shallow.row.id
    BY <1>0, LinkIs DEF IdsInv
  <2> QED BY <1>0, <1>5, <2>1 DEF LinearInv
<1>6. ASSUME NEW ws, NEW vs, NEW id, SameWrites(ws, vs, id)
      PROVE  Saving!PendingWrites(ws, id) = Saving!PendingWrites(vs, id)
  <2>1. {k \in DOMAIN ws : k[1] = id} = {k \in DOMAIN vs : k[1] = id}
    BY <1>6 DEF SameWrites
  <2>2. \A k \in {j \in DOMAIN ws : j[1] = id} : ws[k] = vs[k]
    BY <1>6 DEF SameWrites
  <2> QED BY <2>1, <2>2 DEF Saving!PendingWrites
<1> QED BY <1>1, <1>4, <1>5, <1>6

-----------------------------------------------------------------------------
(* The savers keep what was put                                             *)

LEMMA SaverInits == PartsInit => SaverInv
<1> SUFFICES ASSUME PartsInit PROVE SaverInv
  OBVIOUS
<1>1. NothingPut /\ sLastId \in Nat
  BY DEF PartsInit, Saving!Init, NothingPut
<1>2. setup \in SaverSetups /\ odd = [mixed |-> {}, early |-> {}, linear |-> TRUE]
  BY DEF PartsInit, Saving!Init
<1>3. DOMAIN odd = {"mixed", "early", "linear"}
  BY <1>2
<1>4. RowsInv /\ VersionsInv /\ StoredInv
  BY ONLY <1>1, NothingIsStored
<1>5. WritesInv /\ IdsInv
  BY ONLY <1>1, NothingIsWritten
<1>6. LinearInv
  BY ONLY <1>1, NothingIsLinear
<1> QED BY <1>2, <1>3, <1>4, <1>5, <1>6 DEF SaverInv

LEMMA StepKeepsSavers ==
  ASSUME SaverInv, NEW change, Saving!Step(change)
  PROVE  SaverInv'
<1>1. PICK next : StepMakes(next)
  BY StepIs
<1>2. VersionsInv' /\ StoredInv' /\ RowsInv' /\ WritesInv' /\ IdsInv'
  BY <1>1, StepKeepsVersions, StepKeepsStored, StepKeepsIds
<1>3. odd'.linear => LinearInv'
  BY <1>1, StepKeepsLinear
<1>4. setup' = setup /\ odd' = odd
  BY <1>1 DEF StepMakes
<1> QED BY <1>2, <1>3, <1>4 DEF SaverInv

LEMMA SaveKeepsSavers ==
  ASSUME SaverInv, Saving!Save
  PROVE  SaverInv'
<1>1. VersionsInv' /\ StoredInv' /\ RowsInv' /\ WritesInv' /\ IdsInv'
  BY SaveKeepsVersions, SaveKeepsStored, SaveKeepsIds
<1>2. odd'.linear => LinearInv'
  BY SaveKeepsLinear
<1>3. setup' = setup /\ odd' = odd
  BY DEF Saving!Save
<1> QED BY <1>1, <1>2, <1>3 DEF SaverInv

LEMMA PutWritesKeepsSavers ==
  ASSUME SaverInv, NEW task, NEW commit \in setup.lists, Saving!PutWrites(task, commit)
  PROVE  SaverInv'
<1>1. commit \in Seq(STRING)
  BY SaversAssumption DEF SaverInv
<1>2. WritesAre(task, commit)
  BY WritesMake
<1>3. RowsInv' /\ VersionsInv' /\ StoredInv'
  BY <1>2, WritesKeep
<1>4. WritesInv' /\ IdsInv'
  BY <1>1, <1>2, CommitKeepsWrites
<1>5. odd'.linear => LinearInv'
  BY <1>1, <1>2, CommitKeepsLinear
<1>6. setup' = setup /\ DOMAIN odd' = DOMAIN odd
  BY <1>2 DEF WritesAre
<1> QED BY <1>3, <1>4, <1>5, <1>6 DEF SaverInv

LEMMA StartKeepsSavers ==
  ASSUME SaverInv, NEW id, Saving!Start(id)
  PROVE  SaverInv'
<1>1. StartIs(id)
  BY StartMakes
<1>2. RowsInv' /\ VersionsInv' /\ StoredInv' /\ WritesInv' /\ IdsInv'
  BY <1>1, StartKeeps, StartKeepsIds
<1>3. odd'.linear => LinearInv'
  BY <1>1, StartKeepsLinear
<1>4. setup' = setup /\ DOMAIN odd' = DOMAIN odd
  BY <1>1 DEF StartIs
<1> QED BY <1>2, <1>3, <1>4 DEF SaverInv

LEMMA CopyKeepsSavers ==
  ASSUME SaverInv, NEW id \in DOMAIN made, Saving!Copy(id)
  PROVE  SaverInv'
<1>1. PICK k : CopyIs(id, k)
  BY CopyMakes
<1>2. RowsInv' /\ VersionsInv' /\ StoredInv' /\ WritesInv' /\ IdsInv'
  BY <1>1, CopyKeeps, CopyKeepsIds
<1>3. setup' = setup /\ DOMAIN odd' = DOMAIN odd /\ odd'.linear = FALSE
  BY <1>1 DEF CopyIs
<1> QED BY <1>2, <1>3 DEF SaverInv

LEMMA DeleteKeepsSavers ==
  ASSUME SaverInv, Saving!DeleteThread
  PROVE  SaverInv'
<1>1. /\ waiting' = <<>> /\ made' = <<>> /\ head' = Saving!Empty
      /\ memory' = Saving!Bare /\ sqlite' = [rows |-> <<>>, writes |-> <<>>]
      /\ postgres' = Saving!Bare /\ shallow' = Saving!BareShallow
      /\ setup' = setup /\ sLastId' = sLastId
      /\ DOMAIN odd' = DOMAIN odd
  BY DEF Saving!DeleteThread
<1>2. (NothingPut /\ sLastId \in Nat)'
  BY <1>1 DEF NothingPut, SaverInv, IdsInv, Saving!Empty, Saving!Bare, Saving!BareShallow,
              Saving!Unversioned, Saving!Missing
<1>3. (RowsInv /\ VersionsInv /\ StoredInv)'
  BY <1>2, NothingIsStored, PTL
<1>4. (WritesInv /\ IdsInv)'
  BY <1>2, NothingIsWritten, PTL
<1>5. LinearInv'
  BY <1>2, NothingIsLinear, PTL
<1> QED BY <1>1, <1>3, <1>4, <1>5 DEF SaverInv

\* Steps of the other parts.
LEMMA SaversStutter ==
  ASSUME SaverInv, UNCHANGED checkpoints
  PROVE  SaverInv'
<1>1. /\ setup' = setup /\ head' = head /\ waiting' = waiting /\ made' = made
      /\ memory' = memory /\ sqlite' = sqlite /\ postgres' = postgres /\ shallow' = shallow
      /\ sLastId' = sLastId /\ commits' = commits /\ odd' = odd
  BY DEF checkpoints
<1>2. Saving!GetShallow' = Saving!GetShallow
  BY <1>1 DEF Saving!GetShallow, Saving!Unversioned, Saving!Missing
<1>3. Known' = Known
  BY <1>1 DEF Known, Saving!Empty, Saving!Unversioned, Saving!Missing
<1>4. \A i : Link(i)' = Link(i)
  BY <1>1, <1>2 DEF Link
<1>5. RowsInv' /\ VersionsInv' /\ StoredInv'
  BY <1>1, <1>3 DEF SaverInv, RowsInv, VersionsInv, StoredInv, Dated, Stored, Coming,
                    Saving!Inline, Saving!Missing, Saving!Unversioned
<1>6. IdsInv' /\ WritesInv'
  BY <1>1 DEF SaverInv, IdsInv, WritesInv
<1>7. odd'.linear => LinearInv'
  BY <1>1, <1>2, <1>4 DEF SaverInv, LinearInv, SameWrites, NoWrites
<1> QED BY <1>1, <1>5, <1>6, <1>7 DEF SaverInv

LEMMA SaverSteps ==
  ASSUME SaverInv, [PartsNext]_all
  PROVE  SaverInv'
<1>1. Saving!Next \/ UNCHANGED checkpoints
  BY DEF PartsNext, Others, all
<1>2. ASSUME Saving!Next PROVE SaverInv'
  BY <1>2, StepKeepsSavers, SaveKeepsSavers, PutWritesKeepsSavers, StartKeepsSavers,
     CopyKeepsSavers, DeleteKeepsSavers DEF Saving!Next
<1> QED BY <1>1, <1>2, SaversStutter

\* [put, put_writes, get_tuple of the four savers] Whatever a thread went through -
\* branches, copies, deletions, crashes with puts that waited - and whatever its values
\* are: every saver gives back of each checkpoint what was put, the pending writes are the
\* same but for those of mixed commits, and while the thread is not forked the shallow
\* saver holds its newest checkpoint.
THEOREM SaversKeepWhatWasPut == PartsSpec => []SaversAgree
<1>1. PartsInit => SaverInv
  BY SaverInits
<1>2. SaverInv /\ [PartsNext]_all => SaverInv'
  BY SaverSteps
<1>3. SaverInv => SaversAgree
  BY WhatWasPutIsRead, WritesAgree, OneRowIsNewest DEF SaversAgree
<1> QED BY <1>1, <1>2, <1>3, PTL DEF PartsSpec

=====================================================================================
