------------------------- MODULE DatabaseCallsProofs -------------------------
(***************************************************************************)
(* Proofs about the callers of a saver or store that keeps a database       *)
(* (DatabaseCalls), for any number of threads and tasks, any methods of the  *)
(* shape DatabasePrograms describes, any errors of the server and any        *)
(* cancelled tasks: what a call saves is saved at once or not at all, and no *)
(* two callers are ever between the statements of one connection.           *)
(***************************************************************************)
EXTENDS DatabaseCalls, FiniteSetTheorems, TLAPS

\* The methods of every object have their shape (DatabasePrograms).
ObjectsOK ==
    /\ Nobody \notin Callers
    /\ \A o \in Objects : ObjectOK(o)

-----------------------------------------------------------------------------
(* Counting.                                                                *)

\* How many of the first n steps of s are of S.
CountIn(s, n, S) == Cardinality({i \in 1 .. n : s[i] \in S})

LEMMA CountFacts ==
    ASSUME NEW s, NEW S, NEW n \in Nat
    PROVE  /\ CountIn(s, n, S) \in Nat
           /\ n = 0 => CountIn(s, n, S) = 0
           /\ CountIn(s, n + 1, S) = IF s[n + 1] \in S THEN CountIn(s, n, S) + 1
                                     ELSE CountIn(s, n, S)
           /\ CountIn(s, n, S) = 0 <=> \A i \in 1 .. n : s[i] \notin S
  <1>. DEFINE Such(m) == {i \in 1 .. m : s[i] \in S}
  <1>1. ASSUME NEW m \in Nat
        PROVE  IsFiniteSet(Such(m)) /\ CountIn(s, m, S) = Cardinality(Such(m))
    <2>1. IsFiniteSet(1 .. m)
      BY FS_Interval
    <2>2. IsFiniteSet(Such(m))
      BY <2>1, FS_Subset
    <2>. QED BY <2>2 DEF CountIn
  <1>2. CountIn(s, n, S) \in Nat
    BY <1>1, FS_CardinalityType
  <1>3. CountIn(s, n, S) = 0 <=> Such(n) = {}
    BY <1>1, FS_EmptySet
  <1>4. CountIn(s, n + 1, S) = IF s[n + 1] \in S THEN CountIn(s, n, S) + 1
                               ELSE CountIn(s, n, S)
    <2>1. CountIn(s, n + 1, S) = Cardinality(Such(n + 1))
      BY <1>1
    <2>2. Such(n + 1) = IF s[n + 1] \in S THEN Such(n) \cup {n + 1} ELSE Such(n)
      OBVIOUS
    <2>3. n + 1 \notin Such(n)
      OBVIOUS
    <2>4. Cardinality(Such(n) \cup {n + 1}) = Cardinality(Such(n)) + 1
      BY <1>1, <2>3, FS_AddElement
    <2>. QED BY <1>1, <2>1, <2>2, <2>4
  <1>5. CountIn(s, n, S) = 0 <=> \A i \in 1 .. n : s[i] \notin S
    BY <1>3
  <1>6. n = 0 => CountIn(s, n, S) = 0
    BY <1>5
  <1>. QED BY <1>2, <1>4, <1>5, <1>6

LEMMA CountStep ==
    ASSUME NEW s, NEW S, NEW n \in Nat \ {0}
    PROVE  /\ CountIn(s, n - 1, S) \in Nat
           /\ CountIn(s, n, S) = IF s[n] \in S THEN CountIn(s, n - 1, S) + 1
                                 ELSE CountIn(s, n - 1, S)
  <1>. DEFINE p == n - 1
  <1>1. p \in Nat /\ p + 1 = n
    OBVIOUS
  <1>. HIDE DEF p
  <1>2. /\ CountIn(s, p, S) \in Nat
        /\ CountIn(s, p + 1, S) = IF s[p + 1] \in S THEN CountIn(s, p, S) + 1
                                  ELSE CountIn(s, p, S)
    BY <1>1, CountFacts
  <1>3. /\ CountIn(s, p, S) \in Nat
        /\ CountIn(s, n, S) = IF s[n] \in S THEN CountIn(s, p, S) + 1 ELSE CountIn(s, p, S)
    BY <1>1, <1>2
  <1>. QED BY <1>3 DEF p

LEMMA CountMonotone ==
    ASSUME NEW s, NEW S, NEW n \in Nat, NEW m \in 0 .. n
    PROVE  /\ CountIn(s, m, S) <= CountIn(s, n, S)
           /\ (\A i \in m + 1 .. n : s[i] \notin S) => CountIn(s, m, S) = CountIn(s, n, S)
  <1>. DEFINE Such(k) == {i \in 1 .. k : s[i] \in S}
  <1>1. IsFiniteSet(Such(n))
    <2>1. IsFiniteSet(1 .. n)
      BY FS_Interval
    <2>. QED BY <2>1, FS_Subset
  <1>2. Such(m) \subseteq Such(n)
    OBVIOUS
  <1>3. Cardinality(Such(m)) <= Cardinality(Such(n))
    BY <1>1, <1>2, FS_Subset
  <1>4. (\A i \in m + 1 .. n : s[i] \notin S) => Such(m) = Such(n)
    OBVIOUS
  <1>. QED BY <1>3, <1>4 DEF CountIn

\* Only the first n steps count.
LEMMA CountSame ==
    ASSUME NEW s, NEW u, NEW S, NEW n \in Nat, \A i \in 1 .. n : s[i] = u[i]
    PROVE  CountIn(s, n, S) = CountIn(u, n, S)
  <1>1. {i \in 1 .. n : s[i] \in S} = {i \in 1 .. n : u[i] \in S}
    OBVIOUS
  <1>. QED BY <1>1 DEF CountIn

-----------------------------------------------------------------------------
(* The invariant.                                                           *)

TypeInv ==
    /\ object \in Objects
    /\ call \in [Callers -> object.calls \cup object.onLoop]
    /\ block \in [Callers -> Nat] /\ at \in [Callers -> Nat]
    /\ \A c \in Callers : block[c] \in 1 .. Len(call[c]) /\ at[c] \in 1 .. Len(Method(c)) + 1
    /\ open \in [Callers -> Seq(Contexts)] /\ conns \in [Callers -> Seq(Connections)]
    /\ holder \in Callers \cup {Nobody}
    /\ pending \in [Connections -> SUBSET (Callers \X Nat)] /\ aborted \subseteq Connections
    /\ committed \in [Callers -> SUBSET Nat] /\ wrote \in [Callers -> Nat]
    /\ end \in [Callers -> {"no", "error", "cancelled"}]
    /\ outcome \in [Callers -> {"no", "ok", "error", "cancelled"}]

\* The with-blocks that are open are those that have been opened, but for the innermost
\* that have been left.
StackInv(c) ==
    LET m == Method(c)
        n == Len(open[c])
    IN  /\ n <= CountIn(m, at[c] - 1, Contexts)
        /\ ~Over(c) => n = CountIn(m, at[c] - 1, Contexts)
        /\ \A i \in 1 .. at[c] - 1 :
             m[i] \in Contexts /\ CountIn(m, i, Contexts) <= n
               => open[c][CountIn(m, i, Contexts)] = m[i]
        /\ \A k \in 1 .. n :
             \E i \in 1 .. at[c] - 1 : m[i] \in Contexts /\ CountIn(m, i, Contexts) = k
        /\ outcome[c] # "no" => n = 0

\* The lock and the connections a caller has are those of its open with-blocks.
HoldInv(c) ==
    /\ CountIn(open[c], Len(open[c]), {"lock"}) = IF holder = c THEN 1 ELSE 0
    /\ CountIn(open[c], Len(open[c]), {"connect"}) = Len(conns[c])

PoolInv ==
    object.pooled =>
      \A c, d \in Callers : c # d =>
        \A i \in DOMAIN conns[c], j \in DOMAIN conns[d] : conns[c][i] # conns[d][j]

\* Alone on its connection.
Guarded(c) == IF object.pooled THEN conns[c] # <<>> ELSE holder = c

HasBlock(c) == \E k \in 1 .. Len(open[c]) : open[c][k] \in Committing

\* A connection the server aborted is that of a caller who has yet to leave its block.
AbortInv ==
    \A k \in aborted : \E c \in Callers :
        Guarded(c) /\ Conn(c) = k /\ end[c] = "error" /\ HasBlock(c)

\* Nothing of c is executed and not committed, or all it wrote is, on its connection.
NothingPends(c) == \A k \in Connections : \A v \in pending[k] : v[1] # c
AllPends(c) ==
    /\ \A k \in Connections : \A v \in pending[k] :
         v[1] = c => k = Conn(c) /\ v[2] \in 1 .. wrote[c]
    /\ \A n \in 1 .. wrote[c] : <<c, n>> \in pending[Conn(c)]

\* The commit is still to come, and will save all or, after an error, nothing.
Unsaved(c) ==
    /\ committed[c] = {} /\ AllPends(c) /\ Guarded(c)
    /\ \/ HasBlock(c) /\ (end[c] = "error" => Conn(c) \in aborted)
       \/ end[c] = "no" /\ \E i \in at[c] .. Len(Method(c)) : Method(c)[i] = "commit"

Nothing(c) == committed[c] = {} /\ NothingPends(c)

AllSaved(c) ==
    /\ committed[c] = 1 .. wrote[c] /\ NothingPends(c) /\ end[c] = "no"
    /\ \A i \in at[c] .. Len(Method(c)) : Method(c)[i] # "write"

DataInv(c) ==
    /\ wrote[c] = CountIn(Method(c), at[c] - 1, {"write"})
    /\ end[c] # "cancelled" =>
         \/ Nothing(c) /\ (wrote[c] = 0 \/ end[c] = "error")
         \/ Unsaved(c) /\ wrote[c] > 0
         \/ AllSaved(c) /\ wrote[c] > 0
    /\ outcome[c] = "ok" => end[c] = "no" /\ at[c] = Len(Method(c)) + 1

CallsInv ==
    /\ TypeInv /\ PoolInv /\ AbortInv
    /\ \A c \in Callers : StackInv(c) /\ HoldInv(c) /\ DataInv(c)

-----------------------------------------------------------------------------
(* What the invariant says of a state.                                      *)

LEMMA MethodFacts ==
    ASSUME ObjectsOK, TypeInv, NEW c \in Callers
    PROVE  /\ object.connections \in Nat \ {0}
           /\ call[c] \in Seq(Seq(Steps))
           /\ \A b \in 1 .. Len(call[c]) : call[c][b] \in Seq(Steps)
           /\ Method(c) \in Seq(Steps)
           /\ MethodOK(object, Method(c))
           /\ Len(call[c]) > 1 => \A b \in 1 .. Len(call[c]) : Reads(call[c][b])
  <1>1. object \in Objects /\ call[c] \in object.calls \cup object.onLoop
    BY DEF TypeInv
  <1>2. CallOK(object, call[c]) /\ object.connections \in Nat \ {0}
    BY <1>1 DEF ObjectsOK, ObjectOK
  <1>3. call[c] \in Seq(Seq(Steps))
    BY <1>2 DEF CallOK
  <1>4. block[c] \in 1 .. Len(call[c])
    BY DEF TypeInv
  <1>5. DOMAIN call[c] = 1 .. Len(call[c])
    BY <1>3
  <1>6. \A b \in 1 .. Len(call[c]) : call[c][b] \in Seq(Steps)
    BY <1>3
  <1>7. \A b \in 1 .. Len(call[c]) :
           MethodOK(object, call[c][b]) /\ (Len(call[c]) > 1 => Reads(call[c][b]))
    BY <1>2, <1>5 DEF CallOK
  <1>. QED BY <1>2, <1>3, <1>4, <1>6, <1>7 DEF Method

\* What a method is made of, in the words the proofs use.
LEMMA MethodShape ==
    ASSUME ObjectsOK, TypeInv, NEW c \in Callers
    PROVE  LET m == Method(c) IN
             /\ \A i, j \in 1 .. Len(m) :
                  i < j /\ m[i] \in Touching \cup Committing => m[j] \notin Contexts
             /\ \A j \in 1 .. Len(m) :
                  m[j] \in Touching \cup Committing => \E i \in 1 .. j - 1 : m[i] = Guard(object)
             /\ \A i, j \in 1 .. Len(m) : i < j /\ m[j] = "refuse" => m[i] # "write"
             /\ InBlock(object, m) \/ ByCommit(object, m) \/ Alone(object, m) \/ Reads(m)
             /\ DOMAIN m = 1 .. Len(m) /\ Len(m) \in Nat
             /\ \A i \in 1 .. Len(m) : m[i] \in Steps
  <1>1. Method(c) \in Seq(Steps) /\ MethodOK(object, Method(c))
    BY MethodFacts
  <1>2. DOMAIN Method(c) = 1 .. Len(Method(c)) /\ Len(Method(c)) \in Nat
    BY <1>1
  <1>3. \A i \in 1 .. Len(Method(c)) : Method(c)[i] \in Steps
    BY <1>1
  <1>. QED BY <1>1, <1>2, <1>3 DEF MethodOK

\* Two who are alone on a connection are one.
LEMMA OneGuard ==
    ASSUME TypeInv, PoolInv, NEW c \in Callers, NEW d \in Callers, Guarded(c), Guarded(d),
           Conn(c) = Conn(d)
    PROVE  c = d
  <1>1. CASE ~object.pooled
    BY <1>1 DEF Guarded
  <1>2. CASE object.pooled
    <2>1. conns[c] \in Seq(Connections) /\ conns[d] \in Seq(Connections)
      BY DEF TypeInv
    <2>2. conns[c] # <<>> /\ conns[d] # <<>>
      BY <1>2 DEF Guarded
    <2>3. /\ Len(conns[c]) \in DOMAIN conns[c] /\ Conn(c) = conns[c][Len(conns[c])]
          /\ Len(conns[d]) \in DOMAIN conns[d] /\ Conn(d) = conns[d][Len(conns[d])]
      BY <2>1, <2>2 DEF Conn, Last
    <2>. QED BY <1>2, <2>3 DEF PoolInv
  <1>. QED BY <1>1, <1>2

LEMMA GuardIsContext == \A o \in Objects : Guard(o) \in Contexts
  BY DEF Guard, Contexts

\* Who has opened its guard and not left it is alone.
LEMMA GuardHolds ==
    ASSUME ObjectsOK, TypeInv, NEW c \in Callers, StackInv(c), HoldInv(c),
           NEW i \in 1 .. at[c] - 1, Method(c)[i] = Guard(object),
           CountIn(Method(c), i, Contexts) <= Len(open[c])
    PROVE  Guarded(c)
  <1>. DEFINE k == CountIn(Method(c), i, Contexts)
              G == {Guard(object)}
  <1>1. Method(c)[i] \in Contexts
    BY GuardIsContext DEF TypeInv
  <1>2. open[c][k] = Guard(object)
    BY <1>1 DEF StackInv
  <1>3. at[c] \in Nat /\ open[c] \in Seq(Contexts) /\ Len(open[c]) \in Nat
    BY DEF TypeInv
  <1>4. k \in 1 .. Len(open[c])
    <2>1. i \in Nat /\ i \in 1 .. i
      BY <1>3
    <2>2. k \in Nat /\ (k = 0 <=> \A j \in 1 .. i : Method(c)[j] \notin Contexts)
      BY <2>1, CountFacts
    <2>. QED BY <1>1, <1>3, <2>1, <2>2
  <1>5. CountIn(open[c], Len(open[c]), G) # 0
    <2>1. CountIn(open[c], Len(open[c]), G) = 0
            <=> \A j \in 1 .. Len(open[c]) : open[c][j] \notin G
      BY <1>3, CountFacts
    <2>. QED BY <1>2, <1>4, <2>1
  <1>6. CASE object.pooled
    <2>1. CountIn(open[c], Len(open[c]), {"connect"}) # 0
      BY <1>5, <1>6 DEF Guard
    <2>2. Len(conns[c]) # 0
      BY <2>1 DEF HoldInv
    <2>. QED BY <1>6, <2>2 DEF Guarded
  <1>7. CASE ~object.pooled
    <2>1. CountIn(open[c], Len(open[c]), {"lock"}) # 0
      BY <1>5, <1>7 DEF Guard
    <2>2. holder = c
      BY <2>1 DEF HoldInv
    <2>. QED BY <1>7, <2>2 DEF Guarded
  <1>. QED BY <1>6, <1>7

\* Everything a method does with a connection it does alone.
LEMMA TouchGuarded ==
    ASSUME ObjectsOK, TypeInv, NEW c \in Callers, StackInv(c), HoldInv(c),
           NEW j \in 1 .. Len(Method(c)), j <= at[c],
           Method(c)[j] \in Touching \cup Committing,
           CountIn(Method(c), j - 1, Contexts) <= Len(open[c])
    PROVE  Guarded(c)
  <1>1. PICK i \in 1 .. j - 1 : Method(c)[i] = Guard(object)
    BY MethodShape
  <1>2. at[c] \in Nat /\ Len(open[c]) \in Nat /\ j \in Nat
    <2>1. open[c] \in Seq(Contexts) /\ at[c] \in Nat
      BY DEF TypeInv
    <2>. QED BY <2>1
  <1>3. i \in 1 .. at[c] - 1 /\ i \in 0 .. j - 1 /\ j - 1 \in Nat
    BY <1>2
  <1>4. CountIn(Method(c), i, Contexts) <= CountIn(Method(c), j - 1, Contexts)
    BY <1>3, CountMonotone
  <1>5. CountIn(Method(c), i, Contexts) \in Nat /\ CountIn(Method(c), j - 1, Contexts) \in Nat
    <2>1. i \in Nat
      BY <1>3
    <2>2. CountIn(Method(c), i, Contexts) \in Nat
      BY <2>1, CountFacts
    <2>3. CountIn(Method(c), j - 1, Contexts) \in Nat
      BY <1>3, CountFacts
    <2>. QED BY <2>2, <2>3
  <1>6. CountIn(Method(c), i, Contexts) <= Len(open[c])
    BY <1>2, <1>4, <1>5
  <1>. QED BY <1>1, <1>3, <1>6, GuardHolds

LEMMA StepGuarded ==
    ASSUME ObjectsOK, TypeInv, NEW c \in Callers, StackInv(c), HoldInv(c), ~Over(c),
           Step(c) \in Touching \cup Committing
    PROVE  Guarded(c)
  <1>1. at[c] \in 1 .. Len(Method(c)) + 1 /\ ~(at[c] > Len(Method(c)))
    BY DEF TypeInv, Over
  <1>2. Len(Method(c)) \in Nat
    BY MethodShape
  <1>3. at[c] \in 1 .. Len(Method(c)) /\ Step(c) = Method(c)[at[c]]
    BY <1>1, <1>2 DEF Step
  <1>4. CountIn(Method(c), at[c] - 1, Contexts) <= Len(open[c])
    <2>1. Len(open[c]) = CountIn(Method(c), at[c] - 1, Contexts)
      BY DEF StackInv
    <2>2. at[c] - 1 \in Nat
      BY <1>3
    <2>3. CountIn(Method(c), at[c] - 1, Contexts) \in Nat
      BY <2>2, CountFacts
    <2>. QED BY <2>1, <2>3
  <1>. QED BY <1>3, <1>4, TouchGuarded

\* A block that commits is inside its guard.
LEMMA BlockGuarded ==
    ASSUME ObjectsOK, TypeInv, NEW c \in Callers, StackInv(c), HoldInv(c), HasBlock(c)
    PROVE  Guarded(c)
  <1>1. PICK k \in 1 .. Len(open[c]) : open[c][k] \in Committing
    BY DEF HasBlock
  <1>2. PICK i \in 1 .. at[c] - 1 :
           Method(c)[i] \in Contexts /\ CountIn(Method(c), i, Contexts) = k
    BY DEF StackInv
  <1>3. /\ at[c] \in Nat /\ at[c] \in 1 .. Len(Method(c)) + 1 /\ Len(Method(c)) \in Nat
        /\ Len(open[c]) \in Nat
    <2>1. open[c] \in Seq(Contexts) /\ at[c] \in Nat /\ at[c] \in 1 .. Len(Method(c)) + 1
      BY DEF TypeInv
    <2>2. Len(Method(c)) \in Nat
      BY MethodShape
    <2>. QED BY <2>1, <2>2
  <1>4. i \in 1 .. Len(Method(c)) /\ i <= at[c] /\ i - 1 \in Nat /\ i - 1 \in 0 .. i /\ i \in Nat
    BY <1>3
  <1>5. CountIn(Method(c), i, Contexts) <= Len(open[c])
    BY <1>2, <1>3
  <1>6. open[c][k] = Method(c)[i]
    BY <1>2, <1>5 DEF StackInv
  <1>7. CountIn(Method(c), i - 1, Contexts) <= CountIn(Method(c), i, Contexts)
    BY <1>4, CountMonotone
  <1>8. CountIn(Method(c), i - 1, Contexts) \in Nat /\ CountIn(Method(c), i, Contexts) \in Nat
    BY <1>4, CountFacts
  <1>9. CountIn(Method(c), i - 1, Contexts) <= Len(open[c])
    BY <1>3, <1>5, <1>7, <1>8
  <1>10. Method(c)[i] \in Touching \cup Committing
    BY <1>1, <1>6
  <1>. QED BY <1>4, <1>9, <1>10, TouchGuarded

\* It is the innermost.
LEMMA TopIsBlock ==
    ASSUME ObjectsOK, TypeInv, NEW c \in Callers, StackInv(c), HasBlock(c)
    PROVE  open[c] # <<>> /\ Last(open[c]) \in Committing
  <1>. DEFINE n == Len(open[c])
  <1>1. PICK k \in 1 .. n : open[c][k] \in Committing
    BY DEF HasBlock
  <1>2. /\ at[c] \in Nat /\ at[c] \in 1 .. Len(Method(c)) + 1 /\ Len(Method(c)) \in Nat
        /\ n \in Nat /\ open[c] \in Seq(Contexts)
    <2>1. open[c] \in Seq(Contexts) /\ at[c] \in Nat /\ at[c] \in 1 .. Len(Method(c)) + 1
      BY DEF TypeInv
    <2>2. Len(Method(c)) \in Nat
      BY MethodShape
    <2>. QED BY <2>1, <2>2
  <1>3. PICK i \in 1 .. at[c] - 1 :
           Method(c)[i] \in Contexts /\ CountIn(Method(c), i, Contexts) = k
    BY DEF StackInv
  <1>4. PICK j \in 1 .. at[c] - 1 :
           Method(c)[j] \in Contexts /\ CountIn(Method(c), j, Contexts) = n
    <2>1. n \in 1 .. n
      BY <1>2
    <2>. QED BY <2>1 DEF StackInv
  <1>5. open[c][k] = Method(c)[i]
    <2>1. CountIn(Method(c), i, Contexts) <= n
      BY <1>2, <1>3
    <2>. QED BY <1>3, <2>1 DEF StackInv
  <1>6. i \in 1 .. Len(Method(c)) /\ j \in 1 .. Len(Method(c))
    BY <1>2
  <1>7. ~(i < j)
    BY <1>1, <1>4, <1>5, <1>6, MethodShape
  <1>8. n <= k
    <2>1. j \in 0 .. i /\ i \in Nat
      BY <1>2, <1>6, <1>7
    <2>2. CountIn(Method(c), j, Contexts) <= CountIn(Method(c), i, Contexts)
      BY <2>1, CountMonotone
    <2>. QED BY <1>3, <1>4, <2>2
  <1>9. n = k /\ n # 0
    BY <1>2, <1>8
  <1>. QED BY <1>1, <1>2, <1>9 DEF Last

\* A caller that has opened a block of its method and is not over is in it.
LEMMA BlockOpen ==
    ASSUME ObjectsOK, TypeInv, NEW c \in Callers, StackInv(c), ~Over(c),
           NEW i \in 1 .. at[c] - 1, Method(c)[i] \in Contexts
    PROVE  \E k \in 1 .. Len(open[c]) : open[c][k] = Method(c)[i]
  <1>1. at[c] - 1 \in Nat /\ i \in Nat /\ i \in 0 .. at[c] - 1 /\ i \in 1 .. i
    <2>1. at[c] \in Nat
      BY DEF TypeInv
    <2>. QED BY <2>1
  <1>2. CountIn(Method(c), i, Contexts) <= CountIn(Method(c), at[c] - 1, Contexts)
    BY <1>1, CountMonotone
  <1>3. /\ CountIn(Method(c), i, Contexts) \in Nat
        /\ CountIn(Method(c), i, Contexts) = 0
             <=> \A j \in 1 .. i : Method(c)[j] \notin Contexts
    BY <1>1, CountFacts
  <1>4. Len(open[c]) = CountIn(Method(c), at[c] - 1, Contexts)
    BY DEF StackInv
  <1>5. CountIn(Method(c), at[c] - 1, Contexts) \in Nat
    BY <1>1, CountFacts
  <1>6. CountIn(Method(c), i, Contexts) \in 1 .. Len(open[c])
    BY <1>1, <1>2, <1>3, <1>4, <1>5
  <1>7. open[c][CountIn(Method(c), i, Contexts)] = Method(c)[i]
    BY <1>2, <1>4 DEF StackInv
  <1>. QED BY <1>6, <1>7

-----------------------------------------------------------------------------
(* A step of one caller, seen by the others.                                *)

\* What a caller has for itself stays.
Kept(d) ==
    /\ object' = object /\ call' = call
    /\ block'[d] = block[d] /\ at'[d] = at[d] /\ open'[d] = open[d] /\ conns'[d] = conns[d]
    /\ wrote'[d] = wrote[d] /\ end'[d] = end[d] /\ outcome'[d] = outcome[d]
    /\ holder' = d <=> holder = d

LEMMA KeptViews ==
    ASSUME NEW d \in Callers, Kept(d)
    PROVE  /\ Method(d)' = Method(d) /\ Conn(d)' = Conn(d) /\ Connections' = Connections
           /\ Over(d)' <=> Over(d)
           /\ HasBlock(d)' <=> HasBlock(d)
           /\ Guarded(d)' <=> Guarded(d)
  <1>1. Method(d)' = Method(d)
    BY DEF Kept, Method
  <1>2. Conn(d)' = Conn(d) /\ Connections' = Connections
    BY DEF Kept, Conn, Connections
  <1>3. Over(d)' <=> Over(d)
    BY <1>1 DEF Kept, Over
  <1>4. HasBlock(d)' <=> HasBlock(d)
    BY DEF Kept, HasBlock
  <1>5. Guarded(d)' <=> Guarded(d)
    BY DEF Kept, Guarded
  <1>. QED BY <1>1, <1>2, <1>3, <1>4, <1>5

LEMMA ElsewhereStack ==
    ASSUME NEW d \in Callers, Kept(d), StackInv(d), HoldInv(d)
    PROVE  StackInv(d)' /\ HoldInv(d)'
  <1>1. Method(d)' = Method(d) /\ (Over(d)' <=> Over(d))
    BY KeptViews
  <1>2. StackInv(d)'
    BY <1>1 DEF Kept, StackInv
  <1>3. HoldInv(d)'
    BY DEF Kept, HoldInv
  <1>. QED BY <1>2, <1>3

LEMMA ElsewhereData ==
    ASSUME NEW d \in Callers, Kept(d), DataInv(d),
           end[d] # "cancelled" =>
             /\ committed'[d] = committed[d]
             /\ \A k \in Connections : \A v :
                  v[1] = d => (v \in pending'[k] <=> v \in pending[k]),
           Conn(d) \in aborted /\ Guarded(d) /\ end[d] = "error" => Conn(d) \in aborted',
           Conn(d) \in Connections
    PROVE  DataInv(d)'
  <1>1. /\ Method(d)' = Method(d) /\ Conn(d)' = Conn(d) /\ Connections' = Connections
        /\ HasBlock(d)' <=> HasBlock(d)
        /\ Guarded(d)' <=> Guarded(d)
    BY KeptViews
  <1>2. wrote'[d] = CountIn(Method(d), at'[d] - 1, {"write"})
    BY DEF Kept, DataInv
  <1>3. ASSUME end[d] # "cancelled", NothingPends(d)
        PROVE  NothingPends(d)'
    BY <1>1, <1>3 DEF NothingPends
  <1>4. ASSUME end[d] # "cancelled", AllPends(d)
        PROVE  AllPends(d)'
    <2>1. \A k \in Connections : \A v \in pending'[k] :
             v[1] = d => k = Conn(d) /\ v[2] \in 1 .. wrote[d]
      BY <1>4 DEF AllPends
    <2>2. \A n \in 1 .. wrote[d] : <<d, n>> \in pending[Conn(d)]
      BY <1>4 DEF AllPends
    <2>3. \A n : <<d, n>>[1] = d
      OBVIOUS
    <2>4. \A n \in 1 .. wrote[d] : <<d, n>> \in pending'[Conn(d)]
      BY <1>4, <2>2, <2>3
    <2>5. wrote'[d] = wrote[d]
      BY DEF Kept
    <2>. QED BY <1>1, <2>1, <2>4, <2>5 DEF AllPends
  <1>5. ASSUME end[d] # "cancelled", Nothing(d), wrote[d] = 0 \/ end[d] = "error"
        PROVE  DataInv(d)'
    BY <1>1, <1>2, <1>3, <1>5 DEF Kept, DataInv, Nothing
  <1>6. ASSUME end[d] # "cancelled", Unsaved(d), wrote[d] > 0
        PROVE  DataInv(d)'
    <2>1. AllPends(d)' /\ committed'[d] = {} /\ Guarded(d)'
      BY <1>1, <1>4, <1>6 DEF Unsaved
    <2>2. \/ HasBlock(d)' /\ (end'[d] = "error" => Conn(d)' \in aborted')
          \/ end'[d] = "no" /\ \E i \in at'[d] .. Len(Method(d)') : Method(d)'[i] = "commit"
      BY <1>1, <1>6 DEF Unsaved, Kept
    <2>3. Unsaved(d)'
      BY <2>1, <2>2 DEF Unsaved
    <2>. QED BY <1>1, <1>2, <1>6, <2>3 DEF Kept, DataInv
  <1>7. ASSUME end[d] # "cancelled", AllSaved(d), wrote[d] > 0
        PROVE  DataInv(d)'
    <2>1. AllSaved(d)'
      BY <1>1, <1>3, <1>7 DEF AllSaved, Kept
    <2>. QED BY <1>1, <1>2, <1>7, <2>1 DEF Kept, DataInv
  <1>8. ASSUME end[d] = "cancelled"
        PROVE  DataInv(d)'
    BY <1>1, <1>2, <1>8 DEF Kept, DataInv
  <1>. QED BY <1>5, <1>6, <1>7, <1>8 DEF DataInv

\* Nobody else has what was aborted.
LEMMA AbortKept ==
    ASSUME NEW c \in Callers, AbortInv, aborted' \subseteq aborted,
           \A d \in Callers \ {c} : Kept(d),
           ~(end[c] = "error" /\ HasBlock(c))
    PROVE  AbortInv'
  <1>. SUFFICES ASSUME NEW k \in aborted'
                PROVE  \E d \in Callers :
                         Guarded(d)' /\ Conn(d)' = k /\ end'[d] = "error" /\ HasBlock(d)'
    BY DEF AbortInv
  <1>1. PICK d \in Callers : Guarded(d) /\ Conn(d) = k /\ end[d] = "error" /\ HasBlock(d)
    BY DEF AbortInv
  <1>2. Kept(d)
    BY <1>1
  <1>3. Conn(d)' = Conn(d) /\ (HasBlock(d)' <=> HasBlock(d)) /\ (Guarded(d)' <=> Guarded(d))
    BY <1>2, KeptViews
  <1>. QED BY <1>1, <1>2, <1>3 DEF Kept

LEMMA ConnType ==
    ASSUME ObjectsOK, TypeInv, NEW c \in Callers
    PROVE  Conn(c) \in Connections
  <1>1. object.connections \in Nat \ {0} /\ conns[c] \in Seq(Connections)
    BY MethodFacts DEF TypeInv
  <1>2. 1 \in Connections
    BY <1>1 DEF Connections
  <1>3. CASE conns[c] = <<>>
    BY <1>2, <1>3 DEF Conn
  <1>4. CASE conns[c] # <<>>
    <2>1. Len(conns[c]) \in DOMAIN conns[c]
      BY <1>1, <1>4
    <2>. QED BY <1>1, <1>4, <2>1 DEF Conn, Last
  <1>. QED BY <1>3, <1>4

-----------------------------------------------------------------------------
(* A step of a caller, seen by itself: its with-blocks.                     *)

LEMMA StepIs ==
    ASSUME ObjectsOK, TypeInv, NEW c \in Callers
    PROVE  /\ Step(c) = "close" <=> Over(c)
           /\ ~Over(c) => /\ at[c] \in 1 .. Len(Method(c)) /\ Step(c) = Method(c)[at[c]]
                          /\ end[c] = "no"
           /\ Over(c) /\ end[c] = "no" => at[c] = Len(Method(c)) + 1
           /\ at[c] \in Nat /\ at[c] - 1 \in Nat /\ Len(Method(c)) \in Nat
  <1>1. /\ at[c] \in 1 .. Len(Method(c)) + 1 /\ at[c] \in Nat
        /\ Len(Method(c)) \in Nat /\ (\A i \in 1 .. Len(Method(c)) : Method(c)[i] \in Steps)
    BY MethodShape DEF TypeInv
  <1>2. "close" \notin Steps
    BY DEF Steps, Contexts, Touching
  <1>3. ~Over(c) => at[c] \in 1 .. Len(Method(c)) /\ Step(c) = Method(c)[at[c]] /\ end[c] = "no"
    BY <1>1 DEF Over, Step
  <1>4. Step(c) = "close" <=> Over(c)
    BY <1>1, <1>2, <1>3 DEF Step
  <1>5. Over(c) /\ end[c] = "no" => at[c] = Len(Method(c)) + 1
    BY <1>1 DEF Over
  <1>. QED BY <1>1, <1>3, <1>4, <1>5

LEMMA AdvanceStack ==
    ASSUME ObjectsOK, TypeInv, NEW c \in Callers, StackInv(c), HoldInv(c), Runs(c), ~Over(c),
           Step(c) \notin Contexts, Advance(c),
           UNCHANGED <<object, call, block, open, conns, holder, outcome>>
    PROVE  StackInv(c)' /\ HoldInv(c)'
  <1>. DEFINE m == Method(c)
              n == Len(open[c])
              p == at[c]
  <1>1. /\ p \in 1 .. Len(m) /\ m[p] \notin Contexts /\ p - 1 \in Nat /\ p \in Nat
        /\ Method(c)' = m /\ at'[c] = p + 1 /\ open'[c] = open[c] /\ outcome'[c] = "no"
    BY StepIs DEF Advance, Method, Runs, TypeInv
  <1>2. CountIn(m, p, Contexts) = CountIn(m, p - 1, Contexts)
    <2>1. p \in Nat \ {0}
      BY <1>1
    <2>. QED BY <1>1, <2>1, CountStep
  <1>3. n = CountIn(m, p - 1, Contexts) /\ n \in Nat
    <2>1. n = CountIn(m, p - 1, Contexts)
      BY DEF StackInv
    <2>2. CountIn(m, p - 1, Contexts) \in Nat
      BY <1>1, CountFacts
    <2>. QED BY <2>1, <2>2
  <1>4. \A i \in 1 .. p : m[i] \in Contexts => i \in 1 .. p - 1
    BY <1>1
  <1>5. /\ n <= CountIn(m, p, Contexts)
        /\ n = CountIn(m, p, Contexts)
    BY <1>2, <1>3
  <1>6. \A i \in 1 .. p : m[i] \in Contexts /\ CountIn(m, i, Contexts) <= n
                            => open[c][CountIn(m, i, Contexts)] = m[i]
    BY <1>4 DEF StackInv
  <1>7. \A k \in 1 .. n : \E i \in 1 .. p : m[i] \in Contexts /\ CountIn(m, i, Contexts) = k
    <2>1. 1 .. p - 1 \subseteq 1 .. p
      BY <1>1
    <2>2. \A k \in 1 .. n :
            \E i \in 1 .. p - 1 : m[i] \in Contexts /\ CountIn(m, i, Contexts) = k
      BY DEF StackInv
    <2>. QED BY <2>1, <2>2
  <1>8. at'[c] - 1 = p
    BY <1>1
  <1>9. StackInv(c)'
    <2>. HIDE DEF m, n, p
    <2>1. Method(c)' = m /\ Len(open'[c]) = n /\ open'[c] = open[c] /\ outcome'[c] = "no"
      BY <1>1 DEF n
    <2>. QED BY <1>5, <1>6, <1>7, <1>8, <2>1 DEF StackInv
  <1>10. HoldInv(c)'
    BY DEF HoldInv
  <1>. QED BY <1>9, <1>10

\* Nothing but the end has changed.
LEMMA EndStack ==
    ASSUME NEW c \in Callers, StackInv(c), HoldInv(c), Runs(c), Over(c)',
           UNCHANGED <<object, call, block, at, open, conns, holder, outcome>>
    PROVE  StackInv(c)' /\ HoldInv(c)'
  <1>1. Method(c)' = Method(c) /\ outcome'[c] = "no"
    BY DEF Method, Runs
  <1>2. StackInv(c)'
    BY <1>1 DEF StackInv
  <1>3. HoldInv(c)'
    BY DEF HoldInv
  <1>. QED BY <1>2, <1>3

LEMMA OpenStack ==
    ASSUME ObjectsOK, TypeInv, NEW c \in Callers, StackInv(c), HoldInv(c), Open(c)
    PROVE  StackInv(c)' /\ HoldInv(c)'
  <1>. DEFINE m == Method(c)
              n == Len(open[c])
              p == at[c]
              s == Step(c)
  <1>1. ~Over(c)
    BY StepIs DEF Open, Contexts
  <1>2. /\ p \in 1 .. Len(m) /\ m[p] = s /\ s \in Contexts /\ p - 1 \in Nat /\ p \in Nat
        /\ Method(c)' = m /\ at'[c] = p + 1 /\ open'[c] = Append(open[c], s)
        /\ outcome'[c] = "no"
    BY <1>1, StepIs DEF Open, Advance, Method, Runs, TypeInv
  <1>3. open[c] \in Seq(Contexts) /\ n \in Nat
    BY DEF TypeInv
  <1>4. CountIn(m, p, Contexts) = n + 1 /\ CountIn(m, p - 1, Contexts) = n
    <2>1. p \in Nat \ {0}
      BY <1>2
    <2>2. CountIn(m, p, Contexts) = CountIn(m, p - 1, Contexts) + 1
      BY <1>2, <2>1, CountStep
    <2>3. CountIn(m, p - 1, Contexts) = n
      BY <1>1 DEF StackInv
    <2>. QED BY <2>2, <2>3
  <1>5. /\ Len(open'[c]) = n + 1 /\ open'[c][n + 1] = s
        /\ \A i \in 1 .. n : open'[c][i] = open[c][i]
    BY <1>2, <1>3
  <1>6. ASSUME NEW i \in 1 .. p, m[i] \in Contexts
        PROVE  open'[c][CountIn(m, i, Contexts)] = m[i]
    <2>1. CASE i = p
      BY <1>2, <1>4, <1>5, <2>1
    <2>2. CASE i # p
      <3>1. i \in 1 .. p - 1 /\ i \in Nat /\ i \in 0 .. p - 1 /\ i \in 1 .. i
        BY <1>2, <2>2
      <3>2. CountIn(m, i, Contexts) <= n
        BY <1>2, <1>4, <3>1, CountMonotone
      <3>3. open[c][CountIn(m, i, Contexts)] = m[i]
        BY <1>6, <3>1, <3>2 DEF StackInv
      <3>4. CountIn(m, i, Contexts) \in Nat /\ CountIn(m, i, Contexts) # 0
        BY <1>6, <3>1, CountFacts
      <3>5. CountIn(m, i, Contexts) \in 1 .. n
        BY <1>3, <3>2, <3>4
      <3>. QED BY <1>5, <3>3, <3>5
    <2>. QED BY <2>1, <2>2
  <1>7. ASSUME NEW k \in 1 .. n + 1
        PROVE  \E i \in 1 .. p : m[i] \in Contexts /\ CountIn(m, i, Contexts) = k
    <2>1. CASE k = n + 1
      <3>1. p \in 1 .. p
        BY <1>2
      <3>. QED BY <1>2, <1>4, <2>1, <3>1
    <2>2. CASE k # n + 1
      <3>1. k \in 1 .. n
        BY <1>3, <2>2
      <3>2. PICK i \in 1 .. p - 1 : m[i] \in Contexts /\ CountIn(m, i, Contexts) = k
        BY <3>1 DEF StackInv
      <3>3. i \in 1 .. p
        BY <1>2
      <3>. QED BY <3>2, <3>3
    <2>. QED BY <2>1, <2>2
  <1>8. StackInv(c)'
    <2>1. at'[c] - 1 = p
      BY <1>2
    <2>2. n + 1 <= CountIn(m, p, Contexts)
      BY <1>3, <1>4
    <2>. HIDE DEF m, n, p, s
    <2>3. Method(c)' = m /\ Len(open'[c]) = n + 1 /\ outcome'[c] = "no"
      BY <1>2, <1>5
    <2>. QED BY <1>4, <1>6, <1>7, <2>1, <2>2, <2>3 DEF StackInv
  <1>9. ASSUME NEW S
        PROVE  CountIn(open'[c], n + 1, S)
                 = IF s \in S THEN CountIn(open[c], n, S) + 1 ELSE CountIn(open[c], n, S)
    <2>1. CountIn(open'[c], n, S) = CountIn(open[c], n, S)
      BY <1>3, <1>5, CountSame
    <2>2. CountIn(open'[c], n + 1, S)
            = IF open'[c][n + 1] \in S THEN CountIn(open'[c], n, S) + 1
              ELSE CountIn(open'[c], n, S)
      BY <1>3, CountFacts
    <2>. QED BY <1>5, <2>1, <2>2
  <1>10. CountIn(open'[c], n + 1, {"lock"}) = IF holder' = c THEN 1 ELSE 0
    <2>1. CountIn(open'[c], n + 1, {"lock"})
            = IF s = "lock" THEN CountIn(open[c], n, {"lock"}) + 1
              ELSE CountIn(open[c], n, {"lock"})
      <3>1. s \in {"lock"} <=> s = "lock"
        OBVIOUS
      <3>. HIDE DEF s
      <3>. QED BY <1>9, <3>1
    <2>2. CountIn(open[c], n, {"lock"}) = IF holder = c THEN 1 ELSE 0
      BY DEF HoldInv
    <2>3. s = "lock" => holder = Nobody /\ holder' = c
      BY DEF Open
    <2>4. s # "lock" => holder' = holder
      BY DEF Open
    <2>5. Nobody # c
      BY DEF ObjectsOK
    <2>. HIDE DEF s, n
    <2>. QED BY <2>1, <2>2, <2>3, <2>4, <2>5
  <1>11. CountIn(open'[c], n + 1, {"connect"}) = Len(conns'[c])
    <2>1. CountIn(open'[c], n + 1, {"connect"})
            = IF s = "connect" THEN CountIn(open[c], n, {"connect"}) + 1
              ELSE CountIn(open[c], n, {"connect"})
      <3>1. s \in {"connect"} <=> s = "connect"
        OBVIOUS
      <3>. HIDE DEF s
      <3>. QED BY <1>9, <3>1
    <2>2. CountIn(open[c], n, {"connect"}) = Len(conns[c])
      BY DEF HoldInv
    <2>3. CASE s = "connect"
      <3>1. PICK k \in Connections : conns' = [conns EXCEPT ![c] = Append(@, k)]
        BY <2>3 DEF Open
      <3>2. conns'[c] = Append(conns[c], k) /\ conns[c] \in Seq(Connections)
        BY <3>1 DEF TypeInv
      <3>3. Len(conns'[c]) = Len(conns[c]) + 1
        BY <3>2
      <3>. HIDE DEF s, n
      <3>. QED BY <2>1, <2>2, <2>3, <3>3
    <2>4. CASE s # "connect"
      <3>1. conns' = conns
        BY <2>4 DEF Open
      <3>. HIDE DEF s, n
      <3>. QED BY <2>1, <2>2, <2>4, <3>1
    <2>. QED BY <2>3, <2>4
  <1>12. HoldInv(c)'
    <2>. HIDE DEF n
    <2>. QED BY <1>5, <1>10, <1>11 DEF HoldInv
  <1>. QED BY <1>8, <1>12

LEMMA CloseStack ==
    ASSUME ObjectsOK, TypeInv, NEW c \in Callers, StackInv(c), HoldInv(c), Close(c)
    PROVE  StackInv(c)' /\ HoldInv(c)'
  <1>. DEFINE m == Method(c)
              n == Len(open[c])
              p == at[c] - 1
              s == Last(open[c])
  <1>1. Over(c)
    BY StepIs DEF Close
  <1>2. /\ Method(c)' = m /\ at'[c] = at[c] /\ open'[c] = Front(open[c]) /\ outcome'[c] = "no"
        /\ Over(c)' /\ p \in Nat
    BY <1>1, StepIs DEF Close, Method, Runs, TypeInv, Over
  <1>3. open[c] \in Seq(Contexts) /\ n \in Nat /\ n # 0 /\ n - 1 \in Nat /\ s = open[c][n]
    <2>1. open[c] \in Seq(Contexts) /\ open[c] # <<>>
      BY DEF TypeInv, Close
    <2>. QED BY <2>1 DEF Last
  <1>4. /\ Len(open'[c]) = n - 1
        /\ \A i \in 1 .. n - 1 : open'[c][i] = open[c][i]
    BY <1>2, <1>3 DEF Front
  <1>5. n <= CountIn(m, p, Contexts) /\ CountIn(m, p, Contexts) \in Nat
    <2>1. n <= CountIn(m, p, Contexts)
      BY DEF StackInv
    <2>2. CountIn(m, p, Contexts) \in Nat
      BY <1>2, CountFacts
    <2>. QED BY <2>1, <2>2
  <1>6. ASSUME NEW i \in 1 .. p, m[i] \in Contexts, CountIn(m, i, Contexts) <= n - 1
        PROVE  open'[c][CountIn(m, i, Contexts)] = m[i]
    <2>1. i \in Nat /\ i \in 1 .. i
      BY <1>2
    <2>2. CountIn(m, i, Contexts) \in Nat /\ CountIn(m, i, Contexts) # 0
      BY <1>6, <2>1, CountFacts
    <2>3. CountIn(m, i, Contexts) \in 1 .. n - 1 /\ CountIn(m, i, Contexts) <= n
      BY <1>3, <1>6, <2>2
    <2>4. open[c][CountIn(m, i, Contexts)] = m[i]
      BY <1>6, <2>3 DEF StackInv
    <2>. QED BY <1>4, <2>3, <2>4
  <1>7. \A k \in 1 .. n - 1 :
           \E i \in 1 .. p : m[i] \in Contexts /\ CountIn(m, i, Contexts) = k
    <2>1. 1 .. n - 1 \subseteq 1 .. n
      BY <1>3
    <2>2. \A k \in 1 .. n :
           \E i \in 1 .. p : m[i] \in Contexts /\ CountIn(m, i, Contexts) = k
      BY DEF StackInv
    <2>. QED BY <2>1, <2>2
  <1>8. StackInv(c)'
    <2>1. at'[c] - 1 = p
      BY <1>2
    <2>2. n - 1 <= CountIn(m, p, Contexts)
      BY <1>3, <1>5
    <2>. HIDE DEF m, n, p, s
    <2>3. Method(c)' = m /\ Len(open'[c]) = n - 1 /\ outcome'[c] = "no" /\ Over(c)'
      BY <1>2, <1>4
    <2>. QED BY <1>6, <1>7, <2>1, <2>2, <2>3 DEF StackInv
  <1>9. ASSUME NEW S
        PROVE  /\ CountIn(open[c], n, S)
                    = IF s \in S THEN CountIn(open'[c], n - 1, S) + 1
                      ELSE CountIn(open'[c], n - 1, S)
               /\ CountIn(open'[c], n - 1, S) \in Nat
    <2>1. CountIn(open'[c], n - 1, S) = CountIn(open[c], n - 1, S)
      <3>. DEFINE q == n - 1
      <3>1. q \in Nat /\ \A i \in 1 .. q : open'[c][i] = open[c][i]
        BY <1>3, <1>4
      <3>. HIDE DEF q
      <3>2. CountIn(open'[c], q, S) = CountIn(open[c], q, S)
        BY <3>1, CountSame
      <3>. QED BY <3>2 DEF q
    <2>2. n \in Nat \ {0}
      BY <1>3
    <2>3. /\ CountIn(open[c], n, S)
            = IF open[c][n] \in S THEN CountIn(open[c], n - 1, S) + 1
              ELSE CountIn(open[c], n - 1, S)
          /\ CountIn(open[c], n - 1, S) \in Nat
      BY <2>2, CountStep
    <2>. QED BY <1>3, <2>1, <2>3
  <1>10. CountIn(open'[c], n - 1, {"lock"}) = IF holder' = c THEN 1 ELSE 0
    <2>1. /\ CountIn(open[c], n, {"lock"})
               = IF s = "lock" THEN CountIn(open'[c], n - 1, {"lock"}) + 1
                 ELSE CountIn(open'[c], n - 1, {"lock"})
          /\ CountIn(open'[c], n - 1, {"lock"}) \in Nat
      <3>1. s \in {"lock"} <=> s = "lock"
        OBVIOUS
      <3>. HIDE DEF s
      <3>. QED BY <1>9, <3>1
    <2>2. CountIn(open[c], n, {"lock"}) = IF holder = c THEN 1 ELSE 0
      BY DEF HoldInv
    <2>3. s = "lock" => holder' = Nobody
      BY DEF Close
    <2>4. s # "lock" => holder' = holder
      BY DEF Close
    <2>5. Nobody # c
      BY DEF ObjectsOK
    <2>. HIDE DEF s, n
    <2>. QED BY <2>1, <2>2, <2>3, <2>4, <2>5
  <1>11. CountIn(open'[c], n - 1, {"connect"}) = Len(conns'[c])
    <2>1. /\ CountIn(open[c], n, {"connect"})
               = IF s = "connect" THEN CountIn(open'[c], n - 1, {"connect"}) + 1
                 ELSE CountIn(open'[c], n - 1, {"connect"})
          /\ CountIn(open'[c], n - 1, {"connect"}) \in Nat
      <3>1. s \in {"connect"} <=> s = "connect"
        OBVIOUS
      <3>. HIDE DEF s
      <3>. QED BY <1>9, <3>1
    <2>2. CountIn(open[c], n, {"connect"}) = Len(conns[c])
      BY DEF HoldInv
    <2>3. CASE s = "connect"
      <3>1. conns' = [conns EXCEPT ![c] = Front(@)]
        BY <2>3 DEF Close
      <3>2. conns'[c] = Front(conns[c]) /\ conns[c] \in Seq(Connections)
        BY <3>1 DEF TypeInv
      <3>3. Len(conns[c]) = CountIn(open'[c], n - 1, {"connect"}) + 1
        <4>. HIDE DEF s, n
        <4>. QED BY <2>1, <2>2, <2>3
      <3>4. Len(conns[c]) # 0 /\ Len(conns[c]) \in Nat
        <4>1. Len(conns[c]) \in Nat
          BY <3>2
        <4>. QED BY <2>1, <3>3, <4>1
      <3>5. Len(conns'[c]) = Len(conns[c]) - 1
        BY <3>2, <3>4 DEF Front
      <3>. HIDE DEF s, n
      <3>. QED BY <2>1, <3>3, <3>5
    <2>4. CASE s # "connect"
      <3>1. conns' = conns
        BY <2>4 DEF Close
      <3>. HIDE DEF s, n
      <3>. QED BY <2>1, <2>2, <2>4, <3>1
    <2>. QED BY <2>3, <2>4
  <1>12. HoldInv(c)'
    <2>. HIDE DEF n
    <2>. QED BY <1>4, <1>10, <1>11 DEF HoldInv
  <1>. QED BY <1>8, <1>12

LEMMA ReturnStack ==
    ASSUME ObjectsOK, TypeInv, NEW c \in Callers, StackInv(c), HoldInv(c), Return(c)
    PROVE  StackInv(c)' /\ HoldInv(c)'
  <1>1. open[c] = <<>> /\ open' = open /\ holder' = holder /\ conns' = conns
    BY DEF Return
  <1>2. Len(open'[c]) = 0
    BY <1>1
  <1>3. HoldInv(c)'
    BY <1>1 DEF HoldInv
  <1>4. CASE end[c] = "no" /\ block[c] < Len(call[c])
    <2>1. at'[c] = 1 /\ outcome'[c] = "no"
      BY <1>4 DEF Return, TypeInv, Runs
    <2>2. CountIn(Method(c)', 0, Contexts) = 0
      BY CountFacts
    <2>3. at'[c] - 1 = 0 /\ (\A i \in 1 .. 0 : FALSE)
      BY <2>1
    <2>. QED BY <1>2, <1>3, <2>2, <2>3 DEF StackInv
  <1>5. CASE ~(end[c] = "no" /\ block[c] < Len(call[c]))
    <2>1. UNCHANGED <<object, call, block, at, open, end>>
      BY <1>5 DEF Return
    <2>2. Method(c)' = Method(c) /\ (Over(c)' <=> Over(c)) /\ at'[c] = at[c] /\ open'[c] = open[c]
      BY <2>1 DEF Method, Over
    <2>3. StackInv(c)'
      BY <1>2, <2>2 DEF StackInv
    <2>. QED BY <1>3, <2>3
  <1>. QED BY <1>4, <1>5

-----------------------------------------------------------------------------
(* A step of one caller leaves the others what they have, and types alone.   *)

Does(c) == Acts(c) \/ Fail(c) \/ Cancel(c)

LEMMA LockTop ==
    ASSUME TypeInv, NEW c \in Callers, HoldInv(c), open[c] # <<>>, Last(open[c]) = "lock"
    PROVE  holder = c
  <1>1. Len(open[c]) \in Nat /\ Len(open[c]) \in 1 .. Len(open[c]) /\ open[c][Len(open[c])] = "lock"
    <2>1. open[c] \in Seq(Contexts)
      BY DEF TypeInv
    <2>. QED BY <2>1 DEF Last
  <1>2. CountIn(open[c], Len(open[c]), {"lock"}) # 0
    <2>1. CountIn(open[c], Len(open[c]), {"lock"}) = 0
            <=> \A i \in 1 .. Len(open[c]) : open[c][i] \notin {"lock"}
      BY <1>1, CountFacts
    <2>. QED BY <1>1, <2>1
  <1>. QED BY <1>2 DEF HoldInv

LEMMA ConnectTop ==
    ASSUME TypeInv, NEW c \in Callers, HoldInv(c), open[c] # <<>>, Last(open[c]) = "connect"
    PROVE  conns[c] # <<>>
  <1>1. Len(open[c]) \in Nat /\ Len(open[c]) \in 1 .. Len(open[c]) /\ open[c][Len(open[c])] = "connect"
    <2>1. open[c] \in Seq(Contexts)
      BY DEF TypeInv
    <2>. QED BY <2>1 DEF Last
  <1>2. CountIn(open[c], Len(open[c]), {"connect"}) # 0
    <2>1. CountIn(open[c], Len(open[c]), {"connect"}) = 0
            <=> \A i \in 1 .. Len(open[c]) : open[c][i] \notin {"connect"}
      BY <1>1, CountFacts
    <2>. QED BY <1>1, <2>1
  <1>. QED BY <1>2 DEF HoldInv

LEMMA StepKeeps ==
    ASSUME ObjectsOK, TypeInv, NEW c \in Callers, HoldInv(c), Does(c)
    PROVE  \A d \in Callers \ {c} : Kept(d)
  <1>. SUFFICES ASSUME NEW d \in Callers \ {c}
                PROVE  Kept(d)
    OBVIOUS
  <1>. USE DEF Kept, TypeInv
  <1>1. CASE Refuse(c)
    BY <1>1 DEF Refuse, Advance
  <1>2. CASE Go(c)
    BY <1>2 DEF Go, Advance
  <1>3. CASE Open(c)
    <2>1. holder' = d <=> holder = d
      <3>1. CASE Step(c) = "lock"
        BY <1>3, <3>1 DEF Open, ObjectsOK
      <3>2. CASE Step(c) # "lock"
        BY <1>3, <3>2 DEF Open
      <3>. QED BY <3>1, <3>2
    <2>2. conns'[d] = conns[d]
      BY <1>3 DEF Open
    <2>. QED BY <1>3, <2>1, <2>2 DEF Open, Advance
  <1>4. CASE Write(c)
    BY <1>4 DEF Write, Advance
  <1>5. CASE Commit(c)
    BY <1>5 DEF Commit, Advance
  <1>6. CASE Close(c)
    <2>1. holder' = d <=> holder = d
      <3>1. CASE Last(open[c]) = "lock"
        <4>1. holder = c /\ holder' = Nobody
          BY <1>6, <3>1, LockTop DEF Close
        <4>2. Nobody # d
          BY DEF ObjectsOK
        <4>. QED BY <4>1, <4>2
      <3>2. CASE Last(open[c]) # "lock"
        BY <1>6, <3>2 DEF Close
      <3>. QED BY <3>1, <3>2
    <2>2. conns'[d] = conns[d]
      BY <1>6 DEF Close
    <2>. QED BY <1>6, <2>1, <2>2 DEF Close
  <1>7. CASE Return(c)
    <2>1. block'[d] = block[d] /\ at'[d] = at[d] /\ outcome'[d] = outcome[d]
      BY <1>7 DEF Return
    <2>. QED BY <1>7, <2>1 DEF Return
  <1>8. CASE Fail(c)
    BY <1>8 DEF Fail
  <1>9. CASE Cancel(c)
    BY <1>9 DEF Cancel
  <1>. QED BY <1>1, <1>2, <1>3, <1>4, <1>5, <1>6, <1>7, <1>8, <1>9 DEF Does, Acts

LEMMA CommitTypes ==
    ASSUME TypeInv, NEW k \in Connections, CommitAll(k) \/ Rollback(k)
    PROVE  /\ pending' \in [Connections -> SUBSET (Callers \X Nat)] /\ aborted' \subseteq Connections
           /\ committed' \in [Callers -> SUBSET Nat]
  <1>1. pending' \in [Connections -> SUBSET (Callers \X Nat)] /\ aborted' \subseteq Connections
    BY DEF CommitAll, Rollback, TypeInv
  <1>2. CASE Rollback(k)
    BY <1>1, <1>2 DEF Rollback, TypeInv
  <1>3. CASE CommitAll(k)
    <2>1. \A c \in Callers : {w[2] : w \in {v \in pending[k] : v[1] = c}} \subseteq Nat
      <3>1. pending[k] \subseteq Callers \X Nat
        BY DEF TypeInv
      <3>2. \A w \in pending[k] : w[2] \in Nat
        BY <3>1
      <3>. QED BY <3>2
    <2>2. \A c \in Callers :
             (committed[c] \cup IF k \in aborted THEN {}
                                ELSE {w[2] : w \in {v \in pending[k] : v[1] = c}}) \subseteq Nat
      BY <2>1 DEF TypeInv
    <2>3. committed' \in [Callers -> SUBSET Nat]
      BY <1>3, <2>2 DEF CommitAll
    <2>. QED BY <1>1, <2>3
  <1>. QED BY <1>2, <1>3

\* What most steps leave alone, and the step they are at.
LEMMA AdvanceTypes ==
    ASSUME ObjectsOK, TypeInv, NEW c \in Callers, ~Over(c), Advance(c),
           UNCHANGED <<object, call, block>>
    PROVE  /\ at' \in [Callers -> Nat]
           /\ \A d \in Callers : /\ block'[d] \in 1 .. Len(call'[d])
                                 /\ at'[d] \in 1 .. Len(Method(d)') + 1
           /\ Connections' = Connections
  <1>1. at[c] \in 1 .. Len(Method(c)) /\ Len(Method(c)) \in Nat
    BY StepIs
  <1>2. at' \in [Callers -> Nat]
    <2>1. at \in [Callers -> Nat]
      BY DEF TypeInv
    <2>2. at[c] + 1 \in Nat
      BY <1>1
    <2>. QED BY <2>1, <2>2 DEF Advance
  <1>3. \A d \in Callers : Method(d)' = Method(d)
    BY DEF Method
  <1>4. ASSUME NEW d \in Callers
        PROVE  at'[d] \in 1 .. Len(Method(d)') + 1
    <2>1. CASE d = c
      <3>1. at'[d] = at[c] + 1
        BY <2>1 DEF Advance, TypeInv
      <3>. QED BY <1>1, <1>3, <2>1, <3>1
    <2>2. CASE d # c
      BY <1>3, <2>2 DEF Advance, TypeInv
    <2>. QED BY <2>1, <2>2
  <1>5. Connections' = Connections
    BY DEF Connections
  <1>. QED BY <1>2, <1>4, <1>5 DEF TypeInv

LEMMA SameTypes ==
    ASSUME TypeInv, UNCHANGED <<object, call, block, at>>
    PROVE  /\ at' \in [Callers -> Nat]
           /\ \A d \in Callers : /\ block'[d] \in 1 .. Len(call'[d])
                                 /\ at'[d] \in 1 .. Len(Method(d)') + 1
           /\ Connections' = Connections
  BY DEF TypeInv, Method, Connections

LEMMA TypeStep ==
    ASSUME ObjectsOK, TypeInv, NEW c \in Callers, StackInv(c), HoldInv(c), Does(c)
    PROVE  TypeInv'
  <1>1. CASE Refuse(c)
    <2>1. ~Over(c)
      BY <1>1, StepIs DEF Refuse
    <2>2. end' \in [Callers -> {"no", "error", "cancelled"}]
      BY <1>1 DEF Refuse, TypeInv
    <2>. QED BY <1>1, <2>1, <2>2, AdvanceTypes DEF Refuse, TypeInv
  <1>2. CASE Go(c)
    <2>1. ~Over(c)
      BY <1>2, StepIs DEF Go
    <2>. QED BY <1>2, <2>1, AdvanceTypes DEF Go, TypeInv
  <1>3. CASE Open(c)
    <2>1. ~Over(c)
      BY <1>3, StepIs DEF Open, Contexts
    <2>2. open' \in [Callers -> Seq(Contexts)]
      BY <1>3 DEF Open, TypeInv
    <2>3. conns' \in [Callers -> Seq(Connections)]
      <3>1. CASE Step(c) = "connect"
        <4>1. PICK k \in Connections : conns' = [conns EXCEPT ![c] = Append(@, k)]
          BY <1>3, <3>1 DEF Open
        <4>. QED BY <4>1 DEF TypeInv
      <3>2. CASE Step(c) # "connect"
        BY <1>3, <3>2 DEF Open, TypeInv
      <3>. QED BY <3>1, <3>2
    <2>4. holder' \in Callers \cup {Nobody}
      BY <1>3 DEF Open, TypeInv
    <2>. QED BY <1>3, <2>1, <2>2, <2>3, <2>4, AdvanceTypes DEF Open, TypeInv
  <1>4. CASE Write(c)
    <2>1. ~Over(c)
      BY <1>4, StepIs DEF Write
    <2>2. wrote' \in [Callers -> Nat] /\ wrote'[c] \in Nat
      BY <1>4 DEF Write, TypeInv
    <2>3. end' \in [Callers -> {"no", "error", "cancelled"}]
      BY <1>4 DEF Write, TypeInv
    <2>4. committed' \in [Callers -> SUBSET Nat]
      <3>1. \/ committed' = committed
            \/ committed' = [committed EXCEPT ![c] = @ \cup {wrote'[c]}]
        BY <1>4 DEF Write
      <3>2. committed[c] \cup {wrote'[c]} \in SUBSET Nat /\ committed \in [Callers -> SUBSET Nat]
        BY <2>2 DEF TypeInv
      <3>. QED BY <3>1, <3>2
    <2>5. pending' \in [Connections -> SUBSET (Callers \X Nat)]
      <3>1. <<c, wrote'[c]>> \in Callers \X Nat
        BY <2>2
      <3>2. \/ pending' = pending
            \/ pending' = [pending EXCEPT ![Conn(c)] = @ \cup {<<c, wrote'[c]>>}]
        BY <1>4 DEF Write
      <3>3. pending \in [Connections -> SUBSET (Callers \X Nat)] /\ Conn(c) \in Connections
        BY ConnType DEF TypeInv
      <3>4. pending[Conn(c)] \cup {<<c, wrote'[c]>>} \in SUBSET (Callers \X Nat)
        BY <3>1, <3>3
      <3>. QED BY <3>2, <3>3, <3>4
    <2>6. /\ at' \in [Callers -> Nat]
          /\ \A d \in Callers : /\ block'[d] \in 1 .. Len(call'[d])
                                /\ at'[d] \in 1 .. Len(Method(d)') + 1
          /\ Connections' = Connections
      BY <1>4, <2>1, AdvanceTypes DEF Write
    <2>. QED BY <1>4, <2>2, <2>3, <2>4, <2>5, <2>6 DEF Write, TypeInv
  <1>5. CASE Commit(c)
    <2>1. ~Over(c)
      BY <1>5, StepIs DEF Commit
    <2>2. /\ pending' \in [Connections -> SUBSET (Callers \X Nat)] /\ aborted' \subseteq Connections
          /\ committed' \in [Callers -> SUBSET Nat]
      BY <1>5, ConnType, CommitTypes DEF Commit
    <2>. QED BY <1>5, <2>1, <2>2, AdvanceTypes DEF Commit, TypeInv
  <1>6. CASE Close(c)
    <2>1. open' \in [Callers -> Seq(Contexts)]
      <3>1. open[c] \in Seq(Contexts) /\ open[c] # <<>>
        BY <1>6 DEF Close, TypeInv
      <3>2. Front(open[c]) \in Seq(Contexts)
        BY <3>1 DEF Front
      <3>. QED BY <1>6, <3>2 DEF Close, TypeInv
    <2>2. conns' \in [Callers -> Seq(Connections)]
      <3>1. CASE Last(open[c]) = "connect"
        <4>1. conns[c] \in Seq(Connections) /\ conns[c] # <<>>
          BY <1>6, <3>1, ConnectTop DEF Close, TypeInv
        <4>2. Front(conns[c]) \in Seq(Connections)
          BY <4>1 DEF Front
        <4>. QED BY <1>6, <3>1, <4>2 DEF Close, TypeInv
      <3>2. CASE Last(open[c]) # "connect"
        BY <1>6, <3>2 DEF Close, TypeInv
      <3>. QED BY <3>1, <3>2
    <2>3. holder' \in Callers \cup {Nobody}
      BY <1>6 DEF Close, TypeInv
    <2>4. /\ pending' \in [Connections -> SUBSET (Callers \X Nat)] /\ aborted' \subseteq Connections
          /\ committed' \in [Callers -> SUBSET Nat]
      <3>1. \/ UNCHANGED <<pending, aborted, committed>>
            \/ CommitAll(Conn(c)) \/ Rollback(Conn(c))
        BY <1>6 DEF Close
      <3>2. CASE UNCHANGED <<pending, aborted, committed>>
        BY <3>2 DEF TypeInv
      <3>3. CASE CommitAll(Conn(c)) \/ Rollback(Conn(c))
        BY <3>3, ConnType, CommitTypes
      <3>. QED BY <3>1, <3>2, <3>3
    <2>5. UNCHANGED <<object, call, block, at, wrote, end, outcome>>
      BY <1>6 DEF Close
    <2>6. /\ at' \in [Callers -> Nat]
          /\ \A d \in Callers : /\ block'[d] \in 1 .. Len(call'[d])
                                /\ at'[d] \in 1 .. Len(Method(d)') + 1
          /\ Connections' = Connections
      BY <2>5, SameTypes
    <2>. QED BY <2>1, <2>2, <2>3, <2>4, <2>5, <2>6 DEF TypeInv
  <1>7. CASE Return(c)
    <2>1. CASE end[c] = "no" /\ block[c] < Len(call[c])
      <3>1. /\ block' = [block EXCEPT ![c] = @ + 1] /\ at' = [at EXCEPT ![c] = 1]
            /\ outcome' = outcome
        BY <1>7, <2>1 DEF Return
      <3>2. UNCHANGED <<object, call, open, conns, holder, pending, aborted, committed, wrote,
                        end>>
        BY <1>7 DEF Return
      <3>3. call[c] \in Seq(Seq(Steps)) /\ Len(call[c]) \in Nat
        <4>1. call[c] \in Seq(Seq(Steps))
          BY MethodFacts
        <4>. QED BY <4>1
      <3>4. block'[c] = block[c] + 1 /\ block'[c] \in 1 .. Len(call[c]) /\ at'[c] = 1
        <4>1. block[c] \in 1 .. Len(call[c]) /\ block[c] < Len(call[c])
          BY <2>1 DEF TypeInv
        <4>2. block'[c] = block[c] + 1 /\ at'[c] = 1
          BY <3>1 DEF TypeInv
        <4>. QED BY <3>3, <4>1, <4>2
      <3>5. Len(call[c][block'[c]]) \in Nat
        <4>1. call[c][block'[c]] \in Seq(Steps)
          BY <3>3, <3>4
        <4>. QED BY <4>1
      <3>6. at'[c] \in 1 .. Len(Method(c)') + 1
        BY <3>2, <3>4, <3>5 DEF Method
      <3>7. \A d \in Callers \ {c} :
               at'[d] = at[d] /\ block'[d] = block[d] /\ Method(d)' = Method(d)
        BY <3>1, <3>2 DEF Method, TypeInv
      <3>8. block' \in [Callers -> Nat] /\ at' \in [Callers -> Nat]
        <4>1. block \in [Callers -> Nat] /\ at \in [Callers -> Nat]
          BY DEF TypeInv
        <4>2. block[c] + 1 \in Nat
          BY <4>1
        <4>. QED BY <3>1, <4>1, <4>2
      <3>9. \A d \in Callers : block'[d] \in 1 .. Len(call'[d]) /\ at'[d] \in 1 .. Len(Method(d)') + 1
        BY <3>2, <3>4, <3>6, <3>7 DEF TypeInv
      <3>10. Connections' = Connections
        BY <3>2 DEF Connections
      <3>. QED BY <3>1, <3>2, <3>8, <3>9, <3>10 DEF TypeInv
    <2>2. CASE ~(end[c] = "no" /\ block[c] < Len(call[c]))
      <3>1. UNCHANGED <<block, at>> /\ UNCHANGED <<object, call>>
        BY <1>7, <2>2 DEF Return
      <3>2. outcome' \in [Callers -> {"no", "ok", "error", "cancelled"}]
        BY <1>7, <2>2 DEF Return, TypeInv
      <3>. QED BY <1>7, <3>1, <3>2, SameTypes DEF Return, TypeInv
    <2>. QED BY <2>1, <2>2
  <1>8. CASE Fail(c)
    <2>1. end' \in [Callers -> {"no", "error", "cancelled"}] /\ aborted' \subseteq Connections
      BY <1>8, ConnType DEF Fail, TypeInv
    <2>. QED BY <1>8, <2>1, SameTypes DEF Fail, TypeInv
  <1>9. CASE Cancel(c)
    <2>1. end' \in [Callers -> {"no", "error", "cancelled"}]
      BY <1>9 DEF Cancel, TypeInv
    <2>. QED BY <1>9, <2>1, SameTypes DEF Cancel, TypeInv
  <1>. QED BY <1>1, <1>2, <1>3, <1>4, <1>5, <1>6, <1>7, <1>8, <1>9 DEF Does, Acts

LEMMA PoolStep ==
    ASSUME ObjectsOK, TypeInv, PoolInv, NEW c \in Callers, HoldInv(c), Does(c)
    PROVE  PoolInv'
  <1>1. object' = object
    BY DEF Does, Acts, Refuse, Go, Open, Write, Commit, Close, Return, Fail, Cancel
  <1>2. CASE conns' = conns
    BY <1>1, <1>2 DEF PoolInv
  <1>3. CASE conns' # conns
    <2>. SUFFICES ASSUME object.pooled, NEW a \in Callers, NEW b \in Callers, a # b,
                         NEW i \in DOMAIN conns'[a], NEW j \in DOMAIN conns'[b]
                  PROVE  conns'[a][i] # conns'[b][j]
      BY <1>1 DEF PoolInv
    <2>1. \A d \in Callers : conns[d] \in Seq(Connections)
      BY DEF TypeInv
    <2>2. CASE Open(c)
      <3>1. PICK k \in Connections : Free(k) /\ conns' = [conns EXCEPT ![c] = Append(@, k)]
        BY <1>3, <2>2 DEF Open
      <3>2. conns'[c] = Append(conns[c], k) /\ \A d \in Callers \ {c} : conns'[d] = conns[d]
        BY <3>1 DEF TypeInv
      <3>3. \A d \in Callers : \A n \in DOMAIN conns[d] : conns[d][n] # k
        BY <3>1 DEF Free, ToSet
      <3>4. \A n \in DOMAIN conns'[c] :
               conns'[c][n] = k \/ (n \in DOMAIN conns[c] /\ conns'[c][n] = conns[c][n])
        BY <2>1, <3>2
      <3>. QED BY <3>2, <3>3, <3>4 DEF PoolInv
    <2>3. CASE Close(c)
      <3>1. conns' = [conns EXCEPT ![c] = Front(@)] /\ Last(open[c]) = "connect"
        BY <1>3, <2>3 DEF Close
      <3>2. conns'[c] = Front(conns[c]) /\ \A d \in Callers \ {c} : conns'[d] = conns[d]
        BY <3>1 DEF TypeInv
      <3>3. conns[c] # <<>>
        BY <2>3, <3>1, ConnectTop DEF Close
      <3>4. \A n \in DOMAIN conns'[c] : n \in DOMAIN conns[c] /\ conns'[c][n] = conns[c][n]
        BY <2>1, <3>2, <3>3 DEF Front
      <3>. QED BY <3>2, <3>4 DEF PoolInv
    <2>. QED BY <1>3, <2>2, <2>3 DEF Does, Acts, Refuse, Go, Write, Commit, Return, Fail, Cancel
  <1>. QED BY <1>2, <1>3

-----------------------------------------------------------------------------
(* What the invariant says of a caller's statements at a step.              *)

\* The connection of one who is alone and has met no error is not aborted.
LEMMA NotAborted ==
    ASSUME TypeInv, PoolInv, AbortInv, NEW c \in Callers, Guarded(c), end[c] # "error"
    PROVE  Conn(c) \notin aborted
  <1>. SUFFICES ASSUME Conn(c) \in aborted PROVE FALSE
    OBVIOUS
  <1>1. PICK d \in Callers : Guarded(d) /\ Conn(d) = Conn(c) /\ end[d] = "error"
    BY DEF AbortInv
  <1>. QED BY <1>1, OneGuard

LEMMA NoWritesYet ==
    ASSUME ObjectsOK, TypeInv, NEW c \in Callers, DataInv(c),
           \A i \in 1 .. at[c] - 1 : Method(c)[i] # "write"
    PROVE  wrote[c] = 0
  <1>1. at[c] - 1 \in Nat
    BY StepIs
  <1>2. CountIn(Method(c), at[c] - 1, {"write"}) = 0
    BY <1>1, CountFacts
  <1>. QED BY <1>2 DEF DataInv

LEMMA AdvanceCount ==
    ASSUME ObjectsOK, TypeInv, NEW c \in Callers, ~Over(c), Advance(c), DataInv(c),
           UNCHANGED <<call, block>>
    PROVE  /\ Method(c)' = Method(c) /\ at'[c] = at[c] + 1
           /\ CountIn(Method(c), at'[c] - 1, {"write"})
                = IF Step(c) = "write" THEN wrote[c] + 1 ELSE wrote[c]
  <1>. DEFINE m == Method(c)
              p == at[c]
              W == {"write"}
  <1>1. p \in Nat \ {0} /\ m[p] = Step(c)
    BY StepIs
  <1>2. at'[c] = p + 1 /\ Method(c)' = m
    BY DEF Advance, TypeInv, Method
  <1>3. wrote[c] = CountIn(m, p - 1, W)
    BY DEF DataInv
  <1>4. CountIn(m, p, W) = IF m[p] \in W THEN CountIn(m, p - 1, W) + 1 ELSE CountIn(m, p - 1, W)
    BY <1>1, CountStep
  <1>5. at'[c] - 1 = p
    BY <1>1, <1>2
  <1>. QED BY <1>1, <1>2, <1>3, <1>4, <1>5

\* A write of a method with a block is in that block, in a transaction.
LEMMA WriteInBlock ==
    ASSUME ObjectsOK, TypeInv, NEW c \in Callers, StackInv(c), ~Over(c), Step(c) = "write",
           InBlock(object, Method(c))
    PROVE  HasBlock(c) /\ InTransaction(Conn(c))
  <1>1. /\ at[c] \in 1 .. Len(Method(c)) /\ Method(c)[at[c]] = "write" /\ at[c] \in Nat
        /\ DOMAIN Method(c) = 1 .. Len(Method(c)) /\ Len(Method(c)) \in Nat
    BY StepIs, MethodShape
  <1>2. PICK i \in 1 .. Len(Method(c)) :
           /\ Method(c)[i] \in Committing /\ i < at[c]
           /\ object.sqlite \/ object.pipe \/ Method(c)[i] \in {"pipeline", "transaction"}
    BY <1>1 DEF InBlock
  <1>3. i \in 1 .. at[c] - 1 /\ Method(c)[i] \in Contexts
    BY <1>1, <1>2 DEF Committing, Contexts
  <1>4. PICK k \in 1 .. Len(open[c]) : open[c][k] = Method(c)[i]
    BY <1>3, BlockOpen
  <1>5. HasBlock(c)
    BY <1>2, <1>4 DEF HasBlock
  <1>6. InTransaction(Conn(c))
    <2>1. open[c] \in Seq(Contexts)
      BY DEF TypeInv
    <2>2. Method(c)[i] \in ToSet(open[c])
      BY <1>4, <2>1 DEF ToSet
    <2>. QED BY <1>2, <2>2 DEF InTransaction
  <1>. QED BY <1>5, <1>6

\* A transaction that is open on the connection of one who is alone is its own.
LEMMA TransactionIsOwn ==
    ASSUME ObjectsOK, TypeInv, PoolInv, \A d \in Callers : StackInv(d) /\ HoldInv(d),
           NEW c \in Callers, ~Over(c), Step(c) = "write", Guarded(c),
           InTransaction(Conn(c)), ~object.sqlite
    PROVE  HasBlock(c)
  <1>1. CASE object.pipe
    <2>1. Method(c)[at[c]] = "write" /\ at[c] \in 1 .. Len(Method(c))
          /\ DOMAIN Method(c) = 1 .. Len(Method(c))
      BY StepIs, MethodShape
    <2>2. InBlock(object, Method(c))
      BY <1>1, <2>1, MethodShape DEF ByCommit, Alone, Reads
    <2>. QED BY <2>2, WriteInBlock
  <1>2. CASE ~object.pipe
    <2>1. PICK d \in Callers :
             Conn(d) = Conn(c) /\ {"pipeline", "transaction"} \cap ToSet(open[d]) # {}
      BY <1>2 DEF InTransaction
    <2>2. open[d] \in Seq(Contexts)
      BY DEF TypeInv
    <2>3. PICK k \in 1 .. Len(open[d]) : open[d][k] \in {"pipeline", "transaction"}
      BY <2>1, <2>2 DEF ToSet
    <2>4. HasBlock(d)
      BY <2>3 DEF HasBlock, Committing
    <2>5. Guarded(d)
      BY <2>4, BlockGuarded
    <2>6. d = c
      BY <2>1, <2>5, OneGuard
    <2>. QED BY <2>4, <2>6
  <1>. QED BY <1>1, <1>2

\* Only sqlite3's methods commit by themselves.
LEMMA CommitIsSqlite ==
    ASSUME ObjectsOK, TypeInv, NEW c \in Callers, NEW i \in 1 .. Len(Method(c)),
           Method(c)[i] = "commit"
    PROVE  ByCommit(object, Method(c)) /\ object.sqlite
  <1>1. DOMAIN Method(c) = 1 .. Len(Method(c))
    BY MethodShape
  <1>2. ~InBlock(object, Method(c)) /\ ~Alone(object, Method(c)) /\ ~Reads(Method(c))
    BY <1>1 DEF InBlock, Alone, Reads
  <1>. QED BY <1>2, MethodShape DEF ByCommit

-----------------------------------------------------------------------------
(* Committing and rolling back.                                             *)

LEMMA CommitNone ==
    ASSUME TypeInv, NEW c \in Callers, NEW k \in Connections, CommitAll(k) \/ Rollback(k),
           NothingPends(c), object' = object
    PROVE  committed'[c] = committed[c] /\ NothingPends(c)'
  <1>1. \A j \in Connections : pending'[j] \subseteq pending[j]
    BY DEF CommitAll, Rollback, TypeInv
  <1>2. NothingPends(c)'
    BY <1>1 DEF NothingPends, Connections
  <1>3. CASE Rollback(k)
    BY <1>2, <1>3 DEF Rollback
  <1>4. CASE CommitAll(k)
    <2>1. {w[2] : w \in {v \in pending[k] : v[1] = c}} = {}
      BY DEF NothingPends
    <2>2. committed'[c] = committed[c] \cup IF k \in aborted THEN {}
                                            ELSE {w[2] : w \in {v \in pending[k] : v[1] = c}}
      BY <1>4 DEF CommitAll
    <2>. QED BY <1>2, <2>1, <2>2
  <1>. QED BY <1>3, <1>4

LEMMA CommitOwn ==
    ASSUME ObjectsOK, TypeInv, NEW c \in Callers, CommitAll(Conn(c)), Conn(c) \notin aborted,
           AllPends(c), committed[c] = {}, object' = object
    PROVE  committed'[c] = 1 .. wrote[c] /\ NothingPends(c)'
  <1>. DEFINE k == Conn(c)
              mine == {v \in pending[k] : v[1] = c}
  <1>1. k \in Connections
    BY ConnType
  <1>2. committed'[c] = {w[2] : w \in mine}
    BY DEF CommitAll
  <1>3. \A w \in mine : w[2] \in 1 .. wrote[c]
    BY <1>1 DEF AllPends
  <1>4. ASSUME NEW n \in 1 .. wrote[c]
        PROVE  \E w \in mine : w[2] = n
    <2>1. <<c, n>> \in mine /\ <<c, n>>[2] = n
      BY DEF AllPends
    <2>. QED BY <2>1
  <1>5. committed'[c] = 1 .. wrote[c]
    <2>. HIDE DEF mine
    <2>. QED BY <1>2, <1>3, <1>4
  <1>6. NothingPends(c)'
    <2>1. \A j \in Connections : j # k => \A v \in pending[j] : v[1] # c
      BY DEF AllPends
    <2>2. pending' = [pending EXCEPT ![k] = {}]
      BY DEF CommitAll
    <2>3. \A j \in Connections : \A v \in pending'[j] : v[1] # c
      BY <2>1, <2>2 DEF TypeInv
    <2>. QED BY <2>3 DEF NothingPends, Connections
  <1>. QED BY <1>5, <1>6

LEMMA CommitLost ==
    ASSUME ObjectsOK, TypeInv, NEW c \in Callers,
           (CommitAll(Conn(c)) /\ Conn(c) \in aborted) \/ Rollback(Conn(c)),
           AllPends(c), committed[c] = {}, object' = object
    PROVE  committed'[c] = {} /\ NothingPends(c)'
  <1>1. committed'[c] = {}
    BY DEF CommitAll, Rollback
  <1>2. NothingPends(c)'
    <2>1. \A j \in Connections : j # Conn(c) => \A v \in pending[j] : v[1] # c
      BY DEF AllPends
    <2>2. pending' = [pending EXCEPT ![Conn(c)] = {}]
      BY DEF CommitAll, Rollback
    <2>3. \A j \in Connections : \A v \in pending'[j] : v[1] # c
      BY <2>1, <2>2 DEF TypeInv
    <2>. QED BY <2>3 DEF NothingPends, Connections
  <1>. QED BY <1>1, <1>2

\* Whoever is alone commits nothing of another's.
LEMMA CommitOthers ==
    ASSUME ObjectsOK, TypeInv, PoolInv, NEW c \in Callers, NEW d \in Callers \ {c},
           Guarded(c), CommitAll(Conn(c)) \/ Rollback(Conn(c)), Kept(d), DataInv(d)
    PROVE  DataInv(d)'
  <1>. DEFINE k == Conn(c)
  <1>1. k \in Connections /\ Conn(d) \in Connections
    BY ConnType
  <1>2. Guarded(d) => Conn(d) # k
    BY OneGuard
  <1>3. pending' = [pending EXCEPT ![k] = {}] /\ aborted' = aborted \ {k}
    BY DEF CommitAll, Rollback
  <1>4. ASSUME end[d] # "cancelled"
        PROVE  \A v \in pending[k] : v[1] # d
    <2>1. CASE NothingPends(d)
      BY <1>1, <2>1 DEF NothingPends
    <2>2. CASE Unsaved(d)
      BY <1>1, <1>2, <2>2 DEF Unsaved, AllPends
    <2>. QED BY <1>4, <2>1, <2>2 DEF DataInv, Nothing, AllSaved
  <1>5. ASSUME end[d] # "cancelled"
        PROVE  committed'[d] = committed[d]
    <2>1. CASE Rollback(k)
      BY <2>1 DEF Rollback
    <2>2. CASE CommitAll(k)
      <3>1. {w[2] : w \in {v \in pending[k] : v[1] = d}} = {}
        BY <1>4, <1>5
      <3>2. committed'[d] = committed[d] \cup IF k \in aborted THEN {}
                                              ELSE {w[2] : w \in {v \in pending[k] : v[1] = d}}
        BY <2>2 DEF CommitAll
      <3>. QED BY <3>1, <3>2
    <2>. QED BY <2>1, <2>2
  <1>6. ASSUME end[d] # "cancelled"
        PROVE  \A j \in Connections : \A v :
                 v[1] = d => (v \in pending'[j] <=> v \in pending[j])
    BY <1>3, <1>4, <1>6 DEF TypeInv
  <1>7. Conn(d) \in aborted /\ Guarded(d) /\ end[d] = "error" => Conn(d) \in aborted'
    BY <1>2, <1>3
  <1>. HIDE DEF k
  <1>. QED BY <1>1, <1>5, <1>6, <1>7, ElsewhereData

\* A step that commits nothing and aborts nothing but more.
LEMMA QuietData ==
    ASSUME ObjectsOK, TypeInv, NEW d \in Callers, Kept(d), DataInv(d),
           UNCHANGED <<pending, committed>>, aborted \subseteq aborted'
    PROVE  DataInv(d)'
  <1>1. Conn(d) \in Connections
    BY ConnType
  <1>. QED BY <1>1, ElsewhereData

-----------------------------------------------------------------------------
(* Each action keeps what the invariant says of statements.                 *)

LEMMA RefuseData ==
    ASSUME ObjectsOK, CallsInv, NEW c \in Callers, Refuse(c)
    PROVE  AbortInv' /\ \A d \in Callers : DataInv(d)'
  <1>. USE DEF CallsInv
  <1>1. ~Over(c) /\ Step(c) = "refuse" /\ outcome[c] = "no"
    BY StepIs DEF Refuse, Runs
  <1>2. at[c] \in 1 .. Len(Method(c)) /\ Method(c)[at[c]] = "refuse" /\ end[c] = "no"
    BY <1>1, StepIs
  <1>3. \A d \in Callers \ {c} : Kept(d)
    BY StepKeeps DEF Does, Acts
  <1>4. UNCHANGED <<object, call, block, pending, aborted, committed, wrote, outcome>>
    BY DEF Refuse
  <1>5. \A d \in Callers \ {c} : DataInv(d)'
    BY <1>3, <1>4, QuietData
  <1>6. AbortInv'
    BY <1>2, <1>3, <1>4, AbortKept
  <1>7. DataInv(c)'
    <2>1. \A i \in 1 .. at[c] - 1 : Method(c)[i] # "write"
      <3>1. at[c] \in Nat /\ Len(Method(c)) \in Nat
        BY StepIs
      <3>2. \A i \in 1 .. at[c] - 1 : i \in 1 .. Len(Method(c)) /\ i < at[c]
        BY <1>2, <3>1
      <3>. QED BY <1>2, <3>2, MethodShape
    <2>2. wrote[c] = 0
      BY <2>1, NoWritesYet
    <2>3. Nothing(c)
      BY <1>2, <2>2 DEF DataInv
    <2>4. Method(c)' = Method(c) /\ wrote'[c] = CountIn(Method(c), at'[c] - 1, {"write"})
      BY <1>1, <1>4, AdvanceCount DEF Refuse
    <2>5. Nothing(c)'
      BY <1>4, <2>3 DEF Nothing, NothingPends, Connections
    <2>. QED BY <1>1, <1>4, <2>2, <2>4, <2>5 DEF DataInv
  <1>. QED BY <1>5, <1>6, <1>7

LEMMA GoData ==
    ASSUME ObjectsOK, CallsInv, NEW c \in Callers, Go(c)
    PROVE  AbortInv' /\ \A d \in Callers : DataInv(d)'
  <1>. USE DEF CallsInv
  <1>1. ~Over(c) /\ Step(c) \in {"submit", "read", "yield", "setup"} /\ outcome[c] = "no"
    BY StepIs DEF Go, Runs
  <1>2. /\ at[c] \in 1 .. Len(Method(c)) /\ Method(c)[at[c]] = Step(c) /\ end[c] = "no"
        /\ Len(Method(c)) \in Nat
    BY <1>1, StepIs
  <1>3. \A d \in Callers \ {c} : Kept(d)
    BY StepKeeps DEF Does, Acts
  <1>4. UNCHANGED <<object, call, block, open, conns, holder, pending, aborted, committed,
                    wrote, end, outcome>>
    BY DEF Go
  <1>5. \A d \in Callers \ {c} : DataInv(d)'
    BY <1>3, <1>4, QuietData
  <1>6. AbortInv'
    BY <1>2, <1>3, <1>4, AbortKept
  <1>7. DataInv(c)'
    <2>1. /\ Method(c)' = Method(c) /\ at'[c] = at[c] + 1
          /\ wrote'[c] = CountIn(Method(c), at'[c] - 1, {"write"})
      BY <1>1, <1>4, AdvanceCount DEF Go
    <2>2. /\ Conn(c)' = Conn(c) /\ Connections' = Connections
          /\ Guarded(c)' <=> Guarded(c)
          /\ HasBlock(c)' <=> HasBlock(c)
      BY <1>4 DEF Conn, Connections, Guarded, HasBlock
    <2>3. NothingPends(c)' <=> NothingPends(c)
      BY <1>4, <2>2 DEF NothingPends
    <2>4. CASE Nothing(c) /\ wrote[c] = 0
      BY <1>1, <1>4, <2>1, <2>3, <2>4 DEF DataInv, Nothing
    <2>5. CASE Unsaved(c) /\ wrote[c] > 0
      <3>1. AllPends(c)'
        BY <1>4, <2>2, <2>5 DEF Unsaved, AllPends
      <3>2. \/ HasBlock(c)'
            \/ \E i \in at'[c] .. Len(Method(c)) : Method(c)[i] = "commit"
        BY <1>1, <1>2, <2>1, <2>2, <2>5 DEF Unsaved
      <3>3. Unsaved(c)'
        BY <1>2, <1>4, <2>1, <2>2, <2>5, <3>1, <3>2 DEF Unsaved
      <3>. QED BY <1>1, <1>4, <2>1, <2>5, <3>3 DEF DataInv
    <2>6. CASE AllSaved(c) /\ wrote[c] > 0
      <3>1. \A i \in at'[c] .. Len(Method(c)) : Method(c)[i] # "write"
        BY <1>2, <2>1, <2>6 DEF AllSaved
      <3>2. AllSaved(c)'
        BY <1>4, <2>1, <2>3, <2>6, <3>1 DEF AllSaved
      <3>. QED BY <1>1, <1>4, <2>1, <2>6, <3>2 DEF DataInv
    <2>. QED BY <1>2, <2>4, <2>5, <2>6 DEF DataInv
  <1>. QED BY <1>5, <1>6, <1>7

LEMMA OpenData ==
    ASSUME ObjectsOK, CallsInv, NEW c \in Callers, Open(c)
    PROVE  AbortInv' /\ \A d \in Callers : DataInv(d)'
  <1>. USE DEF CallsInv
  <1>1. ~Over(c) /\ Step(c) \in Contexts /\ outcome[c] = "no"
    BY StepIs DEF Open, Runs, Contexts
  <1>2. at[c] \in 1 .. Len(Method(c)) /\ Method(c)[at[c]] \in Contexts /\ end[c] = "no"
    BY <1>1, StepIs
  <1>3. \A d \in Callers \ {c} : Kept(d)
    BY StepKeeps DEF Does, Acts
  <1>4. UNCHANGED <<object, call, block, pending, aborted, committed, wrote, end, outcome>>
    BY DEF Open
  <1>5. \A d \in Callers \ {c} : DataInv(d)'
    BY <1>3, <1>4, QuietData
  <1>6. AbortInv'
    BY <1>2, <1>3, <1>4, AbortKept
  <1>7. DataInv(c)'
    <2>1. \A i \in 1 .. at[c] - 1 : Method(c)[i] # "write"
      <3>1. at[c] \in Nat /\ Len(Method(c)) \in Nat
        BY StepIs
      <3>2. \A i \in 1 .. at[c] - 1 : i \in 1 .. Len(Method(c)) /\ i < at[c]
        BY <1>2, <3>1
      <3>. QED BY <1>2, <3>2, MethodShape DEF Touching
    <2>2. wrote[c] = 0
      BY <2>1, NoWritesYet
    <2>3. Nothing(c)
      BY <1>2, <2>2 DEF DataInv
    <2>4. Step(c) # "write"
      BY <1>1 DEF Contexts
    <2>5. Method(c)' = Method(c) /\ wrote'[c] = CountIn(Method(c), at'[c] - 1, {"write"})
      BY <1>1, <1>4, <2>4, AdvanceCount DEF Open
    <2>6. Nothing(c)'
      BY <1>4, <2>3 DEF Nothing, NothingPends, Connections
    <2>. QED BY <1>1, <1>4, <2>2, <2>5, <2>6 DEF DataInv
  <1>. QED BY <1>5, <1>6, <1>7

LEMMA WriteData ==
    ASSUME ObjectsOK, CallsInv, NEW c \in Callers, Write(c)
    PROVE  AbortInv' /\ \A d \in Callers : DataInv(d)'
  <1>. USE DEF CallsInv
  <1>. DEFINE m == Method(c)
              k == Conn(c)
              w == wrote[c]
  <1>1. ~Over(c) /\ Step(c) = "write" /\ outcome[c] = "no"
    BY StepIs DEF Write, Runs
  <1>2. /\ at[c] \in 1 .. Len(m) /\ m[at[c]] = "write" /\ end[c] = "no" /\ Len(m) \in Nat
        /\ at[c] \in Nat /\ DOMAIN m = 1 .. Len(m)
    BY <1>1, StepIs, MethodShape
  <1>3. \A d \in Callers \ {c} : Kept(d)
    BY StepKeeps DEF Does, Acts
  <1>4. Guarded(c)
    BY <1>1, StepGuarded DEF Touching
  <1>5. k \notin aborted /\ k \in Connections
    BY <1>2, <1>4, NotAborted, ConnType
  <1>6. /\ UNCHANGED <<object, call, block, open, conns, holder, aborted, end, outcome>>
        /\ wrote' = [wrote EXCEPT ![c] = @ + 1] /\ Advance(c)
    BY <1>5 DEF Write
  <1>7. w \in Nat /\ wrote'[c] = w + 1
    BY <1>6 DEF TypeInv
  <1>8. /\ Method(c)' = m /\ at'[c] = at[c] + 1
        /\ CountIn(m, at'[c] - 1, {"write"}) = w + 1
    BY <1>1, <1>6, AdvanceCount
  <1>9. AbortInv'
    BY <1>2, <1>3, <1>6, AbortKept
  <1>10. /\ Conn(c)' = k /\ Connections' = Connections
         /\ Guarded(c)'
         /\ HasBlock(c)' <=> HasBlock(c)
    BY <1>4, <1>6 DEF Conn, Connections, Guarded, HasBlock
  <1>11. (Nothing(c) /\ w = 0) \/ (Unsaved(c) /\ w > 0)
    <2>1. ~AllSaved(c)
      BY <1>2 DEF AllSaved
    <2>. QED BY <1>2, <2>1 DEF DataInv
  <1>12. CASE InTransaction(k)
    <2>1. /\ pending' = [pending EXCEPT ![k] = @ \cup {<<c, w + 1>>}] /\ committed' = committed
      BY <1>5, <1>7, <1>12 DEF Write
    <2>2. \A d \in Callers \ {c} : DataInv(d)'
      <3>. SUFFICES ASSUME NEW d \in Callers \ {c}
                    PROVE  DataInv(d)'
        OBVIOUS
      <3>1. \A j \in Connections : \A v :
               v[1] = d => (v \in pending'[j] <=> v \in pending[j])
        <4>1. <<c, w + 1>>[1] # d
          OBVIOUS
        <4>. QED BY <1>5, <2>1, <4>1 DEF TypeInv
      <3>2. Conn(d) \in Connections
        BY ConnType
      <3>. QED BY <1>3, <1>6, <2>1, <3>1, <3>2, ElsewhereData
    <2>3. committed[c] = {} /\ AllPends(c)
      <3>1. CASE Unsaved(c)
        BY <3>1 DEF Unsaved
      <3>2. CASE Nothing(c) /\ w = 0
        BY <3>2 DEF Nothing, NothingPends, AllPends
      <3>. QED BY <1>11, <3>1, <3>2
    <2>4. AllPends(c)'
      <3>1. \A j \in Connections : \A v \in pending'[j] :
               v[1] = c => j = k /\ v[2] \in 1 .. w + 1
        <4>. SUFFICES ASSUME NEW j \in Connections, NEW v \in pending'[j], v[1] = c
                      PROVE  j = k /\ v[2] \in 1 .. w + 1
          OBVIOUS
        <4>1. CASE v \in pending[j]
          <5>1. j = k /\ v[2] \in 1 .. w
            BY <2>3, <4>1 DEF AllPends
          <5>. QED BY <1>7, <5>1
        <4>2. CASE v \notin pending[j]
          <5>1. j = k /\ v = <<c, w + 1>>
            BY <1>5, <2>1, <4>2 DEF TypeInv
          <5>. QED BY <1>7, <5>1
        <4>. QED BY <4>1, <4>2
      <3>2. \A n \in 1 .. w + 1 : <<c, n>> \in pending'[k]
        <4>1. pending'[k] = pending[k] \cup {<<c, w + 1>>}
          BY <1>5, <2>1 DEF TypeInv
        <4>2. \A n \in 1 .. w : <<c, n>> \in pending[k]
          BY <2>3 DEF AllPends
        <4>. QED BY <1>7, <4>1, <4>2
      <3>. HIDE DEF k, w
      <3>. QED BY <1>7, <1>10, <3>1, <3>2 DEF AllPends
    <2>5. HasBlock(c) \/ \E i \in at[c] + 1 .. Len(m) : m[i] = "commit"
      <3>1. CASE Unsaved(c)
        <4>1. HasBlock(c) \/ \E i \in at[c] .. Len(m) : m[i] = "commit"
          BY <3>1 DEF Unsaved
        <4>. QED BY <1>2, <4>1
      <3>2. CASE InBlock(object, m)
        BY <1>1, <3>2, WriteInBlock
      <3>3. CASE ByCommit(object, m)
        <4>1. PICK i \in 1 .. Len(m) : m[i] = "commit" /\ at[c] < i
          BY <1>2, <3>3 DEF ByCommit
        <4>2. i \in at[c] + 1 .. Len(m)
          BY <1>2, <4>1
        <4>. QED BY <4>1, <4>2
      <3>4. CASE Alone(object, m)
        BY <1>1, <1>4, <1>12, <3>4, TransactionIsOwn DEF Alone
      <3>5. ~Reads(m)
        BY <1>2 DEF Reads
      <3>. QED BY <3>2, <3>3, <3>4, <3>5, MethodShape
    <2>6. Unsaved(c)'
      <3>1. committed'[c] = {} /\ end'[c] = "no"
        BY <1>2, <1>6, <2>1, <2>3
      <3>2. HasBlock(c)' \/ \E i \in at'[c] .. Len(m) : m[i] = "commit"
        BY <1>8, <1>10, <2>5
      <3>. HIDE DEF m
      <3>. QED BY <1>8, <1>10, <2>4, <3>1, <3>2 DEF Unsaved
    <2>7. DataInv(c)'
      <3>1. wrote'[c] > 0 /\ outcome'[c] = "no"
        BY <1>1, <1>6, <1>7
      <3>. QED BY <1>7, <1>8, <2>6, <3>1 DEF DataInv
    <2>. QED BY <1>9, <2>2, <2>7
  <1>13. CASE ~InTransaction(k)
    <2>1. committed' = [committed EXCEPT ![c] = @ \cup {w + 1}] /\ pending' = pending
      BY <1>5, <1>7, <1>13 DEF Write
    <2>2. \A d \in Callers \ {c} : DataInv(d)'
      <3>. SUFFICES ASSUME NEW d \in Callers \ {c}
                    PROVE  DataInv(d)'
        OBVIOUS
      <3>1. committed'[d] = committed[d]
        BY <2>1 DEF TypeInv
      <3>2. Conn(d) \in Connections
        BY ConnType
      <3>. QED BY <1>3, <1>6, <2>1, <3>1, <3>2, ElsewhereData
    <2>3. Alone(object, m)
      <3>1. ~InBlock(object, m)
        BY <1>1, <1>13, WriteInBlock
      <3>2. ~ByCommit(object, m)
        BY <1>13 DEF ByCommit, InTransaction
      <3>3. ~Reads(m)
        BY <1>2 DEF Reads
      <3>. QED BY <3>1, <3>2, <3>3, MethodShape
    <2>4. \A i \in 1 .. Len(m) : m[i] = "write" => i = at[c]
      BY <1>2, <2>3 DEF Alone
    <2>5. w = 0
      <3>1. \A i \in 1 .. at[c] - 1 : i \in 1 .. Len(m) /\ i # at[c]
        BY <1>2
      <3>2. \A i \in 1 .. at[c] - 1 : m[i] # "write"
        BY <2>4, <3>1
      <3>. QED BY <3>2, NoWritesYet
    <2>6. Nothing(c)
      BY <1>11, <2>5
    <2>7. AllSaved(c)'
      <3>1. committed'[c] = {1} /\ wrote'[c] = 1
        <4>1. committed'[c] = committed[c] \cup {w + 1}
          BY <2>1 DEF TypeInv
        <4>. QED BY <1>7, <2>5, <2>6, <4>1 DEF Nothing
      <3>2. committed'[c] = 1 .. wrote'[c]
        BY <3>1
      <3>3. NothingPends(c)'
        BY <1>10, <2>1, <2>6 DEF Nothing, NothingPends
      <3>4. \A i \in at'[c] .. Len(m) : m[i] # "write"
        <4>1. \A i \in at[c] + 1 .. Len(m) : i \in 1 .. Len(m) /\ i # at[c]
          BY <1>2
        <4>. QED BY <1>8, <2>4, <4>1
      <3>5. end'[c] = "no"
        BY <1>2, <1>6
      <3>. HIDE DEF m
      <3>. QED BY <1>8, <3>2, <3>3, <3>4, <3>5 DEF AllSaved
    <2>8. DataInv(c)'
      <3>1. wrote'[c] > 0 /\ outcome'[c] = "no"
        BY <1>1, <1>6, <1>7
      <3>. QED BY <1>7, <1>8, <2>7, <3>1 DEF DataInv
    <2>. QED BY <1>9, <2>2, <2>8
  <1>. QED BY <1>12, <1>13

LEMMA FailData ==
    ASSUME ObjectsOK, CallsInv, NEW c \in Callers, Fail(c)
    PROVE  AbortInv' /\ \A d \in Callers : DataInv(d)'
  <1>. USE DEF CallsInv
  <1>1. ~Over(c) /\ Step(c) = "write" /\ outcome[c] = "no"
    BY StepIs DEF Fail, Runs
  <1>2. /\ at[c] \in 1 .. Len(Method(c)) /\ Method(c)[at[c]] = "write" /\ end[c] = "no"
        /\ DOMAIN Method(c) = 1 .. Len(Method(c))
    BY <1>1, StepIs, MethodShape
  <1>3. \A d \in Callers \ {c} : Kept(d)
    BY StepKeeps DEF Does
  <1>4. /\ UNCHANGED <<object, call, block, at, open, conns, holder, pending, committed, wrote,
                       outcome>>
        /\ end'[c] = "error"
    BY DEF Fail, TypeInv
  <1>5. /\ aborted' = IF ~object.sqlite /\ InTransaction(Conn(c)) THEN aborted \cup {Conn(c)}
                      ELSE aborted
        /\ object.sqlite => wrote[c] = 0
    BY DEF Fail
  <1>6. Guarded(c)
    BY <1>1, StepGuarded DEF Touching
  <1>7. /\ Conn(c)' = Conn(c) /\ Connections' = Connections /\ Method(c)' = Method(c)
        /\ Guarded(c)'
        /\ HasBlock(c)' <=> HasBlock(c)
    BY <1>4, <1>6 DEF Conn, Connections, Guarded, HasBlock, Method
  <1>8. \A d \in Callers \ {c} : DataInv(d)'
    <2>1. aborted \subseteq aborted'
      BY <1>5
    <2>. QED BY <1>3, <1>4, <2>1, QuietData
  <1>9. AbortInv'
    <2>. SUFFICES ASSUME NEW k \in aborted'
                  PROVE  \E d \in Callers :
                           Guarded(d)' /\ Conn(d)' = k /\ end'[d] = "error" /\ HasBlock(d)'
      BY DEF AbortInv
    <2>1. CASE k \in aborted
      <3>1. PICK d \in Callers : Guarded(d) /\ Conn(d) = k /\ end[d] = "error" /\ HasBlock(d)
        BY <2>1 DEF AbortInv
      <3>2. d # c
        BY <1>2, <3>1
      <3>3. Kept(d)
        BY <1>3, <3>2
      <3>4. Conn(d)' = Conn(d) /\ (HasBlock(d)' <=> HasBlock(d)) /\ (Guarded(d)' <=> Guarded(d))
        BY <3>3, KeptViews
      <3>. QED BY <3>1, <3>3, <3>4 DEF Kept
    <2>2. CASE k \notin aborted
      <3>1. ~object.sqlite /\ InTransaction(Conn(c)) /\ k = Conn(c)
        BY <1>5, <2>2
      <3>2. HasBlock(c)
        BY <1>1, <1>6, <3>1, TransactionIsOwn
      <3>. QED BY <1>4, <1>7, <3>1, <3>2
    <2>. QED BY <2>1, <2>2
  <1>10. DataInv(c)'
    <2>1. wrote'[c] = CountIn(Method(c)', at'[c] - 1, {"write"})
      BY <1>4, <1>7 DEF DataInv
    <2>2. CASE Nothing(c)
      <3>1. Nothing(c)'
        BY <1>4, <1>7, <2>2 DEF Nothing, NothingPends
      <3>. QED BY <1>1, <1>4, <2>1, <3>1 DEF DataInv
    <2>3. CASE Unsaved(c) /\ wrote[c] > 0
      <3>1. ~object.sqlite
        BY <1>5, <2>3
      <3>2. HasBlock(c)
        <4>1. \A i \in at[c] .. Len(Method(c)) : i \in 1 .. Len(Method(c))
          BY <1>2
        <4>2. \A i \in at[c] .. Len(Method(c)) : Method(c)[i] # "commit"
          BY <3>1, <4>1, CommitIsSqlite
        <4>. QED BY <2>3, <4>2 DEF Unsaved
      <3>3. InTransaction(Conn(c))
        <4>1. InBlock(object, Method(c))
          <5>1. PICK k \in 1 .. Len(open[c]) : open[c][k] \in Committing
            BY <3>2 DEF HasBlock
          <5>2. PICK i \in 1 .. at[c] - 1 :
                   Method(c)[i] \in Contexts /\ CountIn(Method(c), i, Contexts) = k
            BY DEF StackInv
          <5>3. i \in 1 .. Len(Method(c)) /\ CountIn(Method(c), i, Contexts) <= Len(open[c])
            <6>1. Len(open[c]) \in Nat
              <7>1. open[c] \in Seq(Contexts)
                BY DEF TypeInv
              <7>. QED BY <7>1
            <6>. QED BY <1>2, <5>2, <6>1
          <5>4. Method(c)[i] \in Committing
            BY <5>1, <5>2, <5>3 DEF StackInv
          <5>. QED BY <1>2, <3>1, <5>3, <5>4, MethodShape DEF ByCommit, Alone, Reads
        <4>. QED BY <1>1, <4>1, WriteInBlock
      <3>4. Conn(c) \in aborted'
        BY <1>5, <3>1, <3>3
      <3>5. AllPends(c)'
        BY <1>4, <1>7, <2>3 DEF Unsaved, AllPends
      <3>6. Unsaved(c)'
        BY <1>4, <1>7, <2>3, <3>2, <3>4, <3>5 DEF Unsaved
      <3>. QED BY <1>1, <1>4, <2>1, <2>3, <3>6 DEF DataInv
    <2>4. ~AllSaved(c)
      BY <1>2 DEF AllSaved
    <2>. QED BY <1>2, <2>2, <2>3, <2>4 DEF DataInv
  <1>. QED BY <1>8, <1>9, <1>10

LEMMA CancelData ==
    ASSUME ObjectsOK, CallsInv, NEW c \in Callers, Cancel(c)
    PROVE  AbortInv' /\ \A d \in Callers : DataInv(d)'
  <1>. USE DEF CallsInv
  <1>1. \A d \in Callers \ {c} : Kept(d)
    BY StepKeeps DEF Does
  <1>2. /\ UNCHANGED <<object, call, block, at, open, conns, holder, pending, aborted, committed,
                       wrote, outcome>>
        /\ end[c] = "no" /\ end'[c] = "cancelled" /\ outcome[c] = "no"
    BY DEF Cancel, TypeInv, Runs
  <1>3. \A d \in Callers \ {c} : DataInv(d)'
    BY <1>1, <1>2, QuietData
  <1>4. AbortInv'
    BY <1>1, <1>2, AbortKept
  <1>5. DataInv(c)'
    <2>1. Method(c)' = Method(c)
      BY <1>2 DEF Method
    <2>. QED BY <1>2, <2>1 DEF DataInv
  <1>. QED BY <1>3, <1>4, <1>5

LEMMA CommitData ==
    ASSUME ObjectsOK, CallsInv, NEW c \in Callers, Commit(c)
    PROVE  AbortInv' /\ \A d \in Callers : DataInv(d)'
  <1>. USE DEF CallsInv
  <1>. DEFINE k == Conn(c)
              m == Method(c)
  <1>1. ~Over(c) /\ Step(c) = "commit" /\ outcome[c] = "no" /\ CommitAll(k)
    BY StepIs DEF Commit, Runs
  <1>2. /\ at[c] \in 1 .. Len(m) /\ m[at[c]] = "commit" /\ end[c] = "no"
        /\ DOMAIN m = 1 .. Len(m) /\ Len(m) \in Nat
    BY <1>1, StepIs, MethodShape
  <1>3. \A d \in Callers \ {c} : Kept(d)
    BY StepKeeps DEF Does, Acts
  <1>4. UNCHANGED <<object, call, block, open, conns, holder, wrote, end, outcome>>
    BY DEF Commit
  <1>5. Guarded(c)
    BY <1>1, StepGuarded DEF Touching
  <1>6. k \notin aborted /\ k \in Connections
    BY <1>2, <1>5, NotAborted, ConnType
  <1>7. \A d \in Callers \ {c} : DataInv(d)'
    BY <1>1, <1>3, <1>5, CommitOthers
  <1>8. AbortInv'
    <2>1. aborted' \subseteq aborted
      BY <1>1 DEF CommitAll
    <2>. QED BY <1>2, <1>3, <2>1, AbortKept
  <1>9. DataInv(c)'
    <2>1. Method(c)' = m /\ at'[c] = at[c] + 1 /\ wrote'[c] = CountIn(m, at'[c] - 1, {"write"})
      BY <1>1, <1>4, AdvanceCount DEF Commit
    <2>2. CASE Nothing(c) /\ wrote[c] = 0
      <3>1. committed'[c] = {} /\ NothingPends(c)'
        BY <1>1, <1>4, <1>6, <2>2, CommitNone DEF Nothing
      <3>. QED BY <1>1, <1>4, <2>1, <2>2, <3>1 DEF DataInv, Nothing
    <2>3. CASE (Unsaved(c) \/ AllSaved(c)) /\ wrote[c] > 0
      <3>1. committed'[c] = 1 .. wrote[c] /\ NothingPends(c)'
        <4>1. CASE Unsaved(c)
          BY <1>1, <1>4, <1>6, <4>1, CommitOwn DEF Unsaved
        <4>2. CASE AllSaved(c)
          BY <1>1, <1>4, <1>6, <4>2, CommitNone DEF AllSaved
        <4>. QED BY <2>3, <4>1, <4>2
      <3>2. \A i \in at'[c] .. Len(m) : m[i] # "write"
        <4>1. ByCommit(object, m)
          BY <1>2, CommitIsSqlite
        <4>2. \A j \in 1 .. Len(m) : m[j] = "write" => j < at[c]
          BY <1>2, <4>1 DEF ByCommit
        <4>3. \A i \in at[c] + 1 .. Len(m) : i \in 1 .. Len(m) /\ ~(i < at[c])
          BY <1>2
        <4>. QED BY <2>1, <4>2, <4>3
      <3>3. AllSaved(c)'
        <4>. HIDE DEF m
        <4>. QED BY <1>2, <1>4, <2>1, <3>1, <3>2 DEF AllSaved
      <3>. QED BY <1>1, <1>4, <2>1, <2>3, <3>3 DEF DataInv
    <2>. QED BY <1>2, <2>2, <2>3 DEF DataInv
  <1>. QED BY <1>7, <1>8, <1>9

\* A caller that has left its blocks, or never had one, has nothing to lose.
LEMMA LeftData ==
    ASSUME ObjectsOK, TypeInv, NEW c \in Callers, Over(c), ~HasBlock(c), DataInv(c)
    PROVE  /\ wrote[c] = CountIn(Method(c), at[c] - 1, {"write"})
           /\ end[c] # "cancelled" =>
                \/ Nothing(c) /\ (wrote[c] = 0 \/ end[c] = "error")
                \/ AllSaved(c) /\ wrote[c] > 0
           /\ outcome[c] = "ok" => end[c] = "no" /\ at[c] = Len(Method(c)) + 1
  <1>1. ~Unsaved(c)
    <2>. SUFFICES ASSUME Unsaved(c) PROVE FALSE
      OBVIOUS
    <2>1. end[c] = "no" /\ \E i \in at[c] .. Len(Method(c)) : Method(c)[i] = "commit"
      BY DEF Unsaved
    <2>2. at[c] = Len(Method(c)) + 1 /\ Len(Method(c)) \in Nat
      BY <2>1, StepIs
    <2>. QED BY <2>1, <2>2
  <1>. QED BY <1>1 DEF DataInv

LEMMA CloseData ==
    ASSUME ObjectsOK, CallsInv, NEW c \in Callers, Close(c)
    PROVE  AbortInv' /\ \A d \in Callers : DataInv(d)'
  <1>. USE DEF CallsInv
  <1>. DEFINE k == Conn(c)
              top == Last(open[c])
  <1>1. Over(c) /\ outcome[c] = "no" /\ open[c] # <<>>
    BY StepIs DEF Close, Runs
  <1>2. \A d \in Callers \ {c} : Kept(d)
    BY StepKeeps DEF Does, Acts
  <1>3. UNCHANGED <<object, call, block, at, wrote, end, outcome>>
    BY DEF Close
  <1>4. Method(c)' = Method(c) /\ Connections' = Connections
    BY <1>3 DEF Method, Connections
  <1>5. CASE top \in {"lock", "connect"}
    <2>1. UNCHANGED <<pending, aborted, committed>>
      BY <1>5 DEF Close
    <2>2. ~HasBlock(c)
      <3>1. top \notin Committing
        BY <1>5 DEF Committing
      <3>. QED BY <3>1, TopIsBlock
    <2>3. \A d \in Callers \ {c} : DataInv(d)'
      BY <1>2, <2>1, QuietData
    <2>4. AbortInv'
      BY <1>2, <2>1, <2>2, AbortKept
    <2>5. DataInv(c)'
      <3>1. NothingPends(c)' <=> NothingPends(c)
        BY <1>4, <2>1 DEF NothingPends
      <3>2. Nothing(c) => Nothing(c)'
        BY <2>1, <3>1 DEF Nothing
      <3>3. AllSaved(c) => AllSaved(c)'
        BY <1>3, <1>4, <2>1, <3>1 DEF AllSaved
      <3>. QED BY <1>1, <1>3, <1>4, <2>2, <3>2, <3>3, LeftData DEF DataInv
    <2>. QED BY <2>3, <2>4, <2>5
  <1>6. CASE top \notin {"lock", "connect"}
    <2>1. HasBlock(c)
      <3>1. open[c] \in Seq(Contexts) /\ Len(open[c]) \in 1 .. Len(open[c])
        <4>1. open[c] \in Seq(Contexts)
          BY DEF TypeInv
        <4>. QED BY <1>1, <4>1
      <3>2. top = open[c][Len(open[c])] /\ top \in Contexts
        BY <3>1 DEF Last
      <3>3. top \in Committing
        BY <1>6, <3>2 DEF Contexts, Committing
      <3>. QED BY <3>1, <3>2, <3>3 DEF HasBlock
    <2>2. Guarded(c) /\ k \in Connections
      BY <2>1, BlockGuarded, ConnType
    <2>3. /\ CommitAll(k) \/ Rollback(k)
          /\ end[c] = "no" => CommitAll(k)
      BY <1>6 DEF Close
    <2>4. \A d \in Callers \ {c} : DataInv(d)'
      BY <1>2, <2>2, <2>3, CommitOthers
    <2>5. AbortInv'
      <3>. SUFFICES ASSUME NEW j \in aborted'
                    PROVE  \E d \in Callers :
                             Guarded(d)' /\ Conn(d)' = j /\ end'[d] = "error" /\ HasBlock(d)'
        BY DEF AbortInv
      <3>1. j \in aborted /\ j # k
        BY <2>3 DEF CommitAll, Rollback
      <3>2. PICK d \in Callers : Guarded(d) /\ Conn(d) = j /\ end[d] = "error" /\ HasBlock(d)
        BY <3>1 DEF AbortInv
      <3>3. Kept(d)
        BY <1>2, <3>1, <3>2
      <3>4. Conn(d)' = Conn(d) /\ (HasBlock(d)' <=> HasBlock(d)) /\ (Guarded(d)' <=> Guarded(d))
        BY <3>3, KeptViews
      <3>. QED BY <3>2, <3>3, <3>4 DEF Kept
    <2>6. DataInv(c)'
      <3>. HIDE DEF k
      <3>1. wrote'[c] = CountIn(Method(c)', at'[c] - 1, {"write"})
        BY <1>3, <1>4 DEF DataInv
      <3>2. CASE end[c] = "cancelled"
        BY <1>1, <1>3, <3>1, <3>2 DEF DataInv
      <3>3. CASE Nothing(c) /\ (wrote[c] = 0 \/ end[c] = "error")
        <4>1. Nothing(c)'
          BY <1>3, <2>2, <2>3, <3>3, CommitNone DEF Nothing
        <4>. QED BY <1>1, <1>3, <3>1, <3>3, <4>1 DEF DataInv
      <3>4. CASE AllSaved(c) /\ wrote[c] > 0
        <4>1. committed'[c] = committed[c] /\ NothingPends(c)'
          BY <1>3, <2>2, <2>3, <3>4, CommitNone DEF AllSaved
        <4>2. AllSaved(c)'
          BY <1>3, <1>4, <3>4, <4>1 DEF AllSaved
        <4>. QED BY <1>1, <1>3, <3>1, <3>4, <4>2 DEF DataInv
      <3>5. CASE Unsaved(c) /\ wrote[c] > 0 /\ end[c] = "no"
        <4>1. k \notin aborted
          BY <2>2, <3>5, NotAborted DEF k
        <4>2. committed'[c] = 1 .. wrote[c] /\ NothingPends(c)'
          BY <1>3, <2>3, <3>5, <4>1, CommitOwn DEF Unsaved, k
        <4>3. \A i \in at'[c] .. Len(Method(c)) : Method(c)[i] # "write"
          <5>1. at[c] = Len(Method(c)) + 1 /\ Len(Method(c)) \in Nat
            BY <1>1, <3>5, StepIs
          <5>. QED BY <1>3, <5>1
        <4>4. AllSaved(c)'
          BY <1>3, <1>4, <3>5, <4>2, <4>3 DEF AllSaved
        <4>. QED BY <1>1, <1>3, <3>1, <3>5, <4>4 DEF DataInv
      <3>6. CASE Unsaved(c) /\ wrote[c] > 0 /\ end[c] = "error"
        <4>1. k \in aborted
          BY <3>6 DEF Unsaved, k
        <4>2. committed'[c] = {} /\ NothingPends(c)'
          BY <1>3, <2>3, <3>6, <4>1, CommitLost DEF Unsaved, k
        <4>. QED BY <1>1, <1>3, <3>1, <3>6, <4>2 DEF DataInv, Nothing
      <3>7. end[c] \in {"no", "error", "cancelled"}
        BY DEF TypeInv
      <3>. QED BY <3>2, <3>3, <3>4, <3>5, <3>6, <3>7 DEF DataInv
    <2>. QED BY <2>4, <2>5, <2>6
  <1>. QED BY <1>5, <1>6

LEMMA ReturnData ==
    ASSUME ObjectsOK, CallsInv, NEW c \in Callers, Return(c)
    PROVE  AbortInv' /\ \A d \in Callers : DataInv(d)'
  <1>. USE DEF CallsInv
  <1>1. Over(c) /\ outcome[c] = "no" /\ open[c] = <<>>
    BY StepIs DEF Return, Runs
  <1>2. \A d \in Callers \ {c} : Kept(d)
    BY StepKeeps DEF Does, Acts
  <1>3. UNCHANGED <<object, call, open, conns, holder, pending, aborted, committed, wrote, end>>
    BY DEF Return
  <1>4. ~HasBlock(c)
    <2>1. Len(open[c]) = 0
      BY <1>1
    <2>. QED BY <2>1 DEF HasBlock
  <1>5. \A d \in Callers \ {c} : DataInv(d)'
    BY <1>2, <1>3, QuietData
  <1>6. AbortInv'
    BY <1>2, <1>3, <1>4, AbortKept
  <1>7. Nothing(c) => Nothing(c)'
    BY <1>3 DEF Nothing, NothingPends, Connections
  <1>8. CASE end[c] = "no" /\ block[c] < Len(call[c])
    <2>1. at'[c] = 1 /\ outcome'[c] = "no"
      BY <1>1, <1>8 DEF Return, TypeInv
    <2>2. Reads(Method(c))
      <3>1. Len(call[c]) > 1 /\ block[c] \in 1 .. Len(call[c])
        <4>1. block[c] \in 1 .. Len(call[c])
          BY DEF TypeInv
        <4>2. Len(call[c]) \in Nat
          <5>1. call[c] \in Seq(Seq(Steps))
            BY MethodFacts
          <5>. QED BY <5>1
        <4>. QED BY <1>8, <4>1, <4>2
      <3>. QED BY <3>1, MethodFacts DEF Method
    <2>3. wrote[c] = 0
      <3>1. at[c] = Len(Method(c)) + 1 /\ Len(Method(c)) \in Nat /\ DOMAIN Method(c) = 1 .. Len(Method(c))
        BY <1>1, <1>8, StepIs, MethodShape
      <3>2. \A i \in 1 .. at[c] - 1 : Method(c)[i] # "write"
        BY <2>2, <3>1 DEF Reads
      <3>. QED BY <3>2, NoWritesYet
    <2>4. Nothing(c)'
      BY <1>7, <1>8, <2>3 DEF DataInv, Unsaved, AllSaved
    <2>5. CountIn(Method(c)', 0, {"write"}) = 0
      BY CountFacts
    <2>6. DataInv(c)'
      <3>1. wrote'[c] = 0 /\ at'[c] - 1 = 0 /\ outcome'[c] # "ok"
        BY <1>3, <2>1, <2>3
      <3>. QED BY <2>4, <2>5, <3>1 DEF DataInv
    <2>. QED BY <1>5, <1>6, <2>6
  <1>9. CASE ~(end[c] = "no" /\ block[c] < Len(call[c]))
    <2>1. /\ UNCHANGED <<block, at>>
          /\ outcome'[c] = IF end[c] = "no" THEN "ok" ELSE end[c]
      BY <1>9 DEF Return, TypeInv
    <2>2. Method(c)' = Method(c)
      BY <1>3, <2>1 DEF Method
    <2>3. AllSaved(c) => AllSaved(c)'
      BY <1>3, <2>1, <2>2 DEF AllSaved, NothingPends, Connections
    <2>4. outcome'[c] = "ok" => end[c] = "no" /\ at[c] = Len(Method(c)) + 1
      <3>1. end[c] # "ok"
        BY DEF TypeInv
      <3>. QED BY <1>1, <2>1, <3>1, StepIs
    <2>5. DataInv(c)'
      BY <1>1, <1>3, <1>4, <1>7, <2>1, <2>2, <2>3, <2>4, LeftData DEF DataInv
    <2>. QED BY <1>5, <1>6, <2>5
  <1>. QED BY <1>8, <1>9

-----------------------------------------------------------------------------
(* The invariant.                                                           *)

LEMMA StackStep ==
    ASSUME ObjectsOK, CallsInv, NEW c \in Callers, Does(c)
    PROVE  \A d \in Callers : StackInv(d)' /\ HoldInv(d)'
  <1>. USE DEF CallsInv
  <1>1. \A d \in Callers \ {c} : StackInv(d)' /\ HoldInv(d)'
    BY StepKeeps, ElsewhereStack
  <1>2. StackInv(c)' /\ HoldInv(c)'
    <2>1. CASE Refuse(c) \/ Go(c) \/ Write(c) \/ Commit(c)
      <3>1. Step(c) \in {"refuse", "submit", "read", "yield", "setup", "write", "commit"}
        BY <2>1 DEF Refuse, Go, Write, Commit
      <3>2. Step(c) \notin Contexts /\ ~Over(c)
        BY <3>1, StepIs DEF Contexts
      <3>3. Runs(c) /\ Advance(c) /\ UNCHANGED <<object, call, block, open, conns, holder, outcome>>
        BY <2>1 DEF Refuse, Go, Write, Commit
      <3>. QED BY <3>2, <3>3, AdvanceStack
    <2>2. CASE Open(c)
      BY <2>2, OpenStack
    <2>3. CASE Close(c)
      BY <2>3, CloseStack
    <2>4. CASE Return(c)
      BY <2>4, ReturnStack
    <2>5. CASE Fail(c) \/ Cancel(c)
      <3>1. Runs(c) /\ UNCHANGED <<object, call, block, at, open, conns, holder, outcome>>
        BY <2>5 DEF Fail, Cancel
      <3>2. end'[c] \in {"error", "cancelled"}
        BY <2>5 DEF Fail, Cancel, TypeInv
      <3>3. Over(c)'
        BY <3>2 DEF Over
      <3>. QED BY <3>1, <3>3, EndStack
    <2>. QED BY <2>1, <2>2, <2>3, <2>4, <2>5 DEF Does, Acts
  <1>. QED BY <1>1, <1>2

LEMMA CallsInitially ==
    ASSUME ObjectsOK, Init
    PROVE  CallsInv
  <1>1. object \in Objects /\ call \in [Callers -> object.calls \cup object.onLoop]
    BY DEF Init
  <1>2. ASSUME NEW c \in Callers
        PROVE  /\ call[c] \in Seq(Seq(Steps)) /\ Len(call[c]) \in Nat /\ Len(call[c]) # 0
               /\ call[c][1] \in Seq(Steps) /\ Method(c) = call[c][1]
               /\ Len(Method(c)) \in Nat
    <2>1. CallOK(object, call[c])
      BY <1>1 DEF ObjectsOK, ObjectOK
    <2>2. call[c] \in Seq(Seq(Steps)) /\ call[c] # <<>>
      BY <2>1 DEF CallOK
    <2>3. Len(call[c]) \in Nat /\ Len(call[c]) # 0
      BY <2>2
    <2>4. call[c][1] \in Seq(Steps)
      BY <2>2, <2>3
    <2>5. Method(c) = call[c][1]
      BY DEF Init, Method
    <2>. QED BY <2>2, <2>3, <2>4, <2>5
  <1>3. TypeInv
    <2>1. \A c \in Callers : block[c] \in 1 .. Len(call[c]) /\ at[c] \in 1 .. Len(Method(c)) + 1
      BY <1>2 DEF Init
    <2>2. <<>> \in Seq(Contexts) /\ <<>> \in Seq(Connections)
      OBVIOUS
    <2>3. /\ open \in [Callers -> Seq(Contexts)] /\ conns \in [Callers -> Seq(Connections)]
          /\ pending \in [Connections -> SUBSET (Callers \X Nat)]
      BY <2>2 DEF Init
    <2>4. /\ block \in [Callers -> Nat] /\ at \in [Callers -> Nat] /\ wrote \in [Callers -> Nat]
          /\ committed \in [Callers -> SUBSET Nat] /\ aborted \subseteq Connections
          /\ holder \in Callers \cup {Nobody}
          /\ end \in [Callers -> {"no", "error", "cancelled"}]
          /\ outcome \in [Callers -> {"no", "ok", "error", "cancelled"}]
      BY DEF Init
    <2>. QED BY <1>1, <2>1, <2>3, <2>4 DEF TypeInv
  <1>4. PoolInv /\ AbortInv
    BY DEF Init, PoolInv, AbortInv
  <1>5. ASSUME NEW c \in Callers
        PROVE  StackInv(c) /\ HoldInv(c) /\ DataInv(c)
    <2>1. /\ open[c] = <<>> /\ conns[c] = <<>> /\ at[c] = 1 /\ outcome[c] = "no" /\ end[c] = "no"
          /\ holder = Nobody /\ Nobody # c /\ committed[c] = {} /\ wrote[c] = 0
          /\ \A k \in Connections : pending[k] = {}
      BY DEF Init, ObjectsOK
    <2>2. Len(open[c]) = 0 /\ Len(conns[c]) = 0 /\ at[c] - 1 = 0
      BY <2>1
    <2>3. /\ CountIn(Method(c), 0, Contexts) = 0 /\ CountIn(Method(c), 0, {"write"}) = 0
          /\ CountIn(open[c], 0, {"lock"}) = 0 /\ CountIn(open[c], 0, {"connect"}) = 0
      BY CountFacts
    <2>4. StackInv(c)
      BY <2>1, <2>2, <2>3 DEF StackInv
    <2>5. HoldInv(c)
      BY <2>1, <2>2, <2>3 DEF HoldInv
    <2>6. DataInv(c)
      BY <2>1, <2>2, <2>3 DEF DataInv, Nothing, NothingPends
    <2>. QED BY <2>4, <2>5, <2>6
  <1>. QED BY <1>3, <1>4, <1>5 DEF CallsInv

LEMMA CallsStep ==
    ASSUME ObjectsOK, CallsInv, [Next]_vars
    PROVE  CallsInv'
  <1>1. CASE UNCHANGED vars
    <2>1. /\ \A c \in Callers : /\ Method(c)' = Method(c) /\ Conn(c)' = Conn(c)
                                /\ Over(c)' <=> Over(c)
                                /\ HasBlock(c)' <=> HasBlock(c)
                                /\ Guarded(c)' <=> Guarded(c)
          /\ Connections' = Connections
      BY <1>1 DEF vars, Method, Conn, Over, HasBlock, Guarded, Connections
    <2>2. \A c \in Callers : Kept(c)
      BY <1>1 DEF Kept, vars
    <2>3. \A c \in Callers : StackInv(c)' /\ HoldInv(c)'
      BY <2>2, ElsewhereStack DEF CallsInv
    <2>4. \A c \in Callers : DataInv(c)'
      BY <1>1, <2>2, QuietData DEF CallsInv, vars
    <2>5. TypeInv'
      BY <1>1, <2>1 DEF CallsInv, TypeInv, vars
    <2>6. PoolInv'
      BY <1>1 DEF CallsInv, PoolInv, vars
    <2>7. AbortInv'
      <3>1. AbortInv /\ aborted' = aborted /\ end' = end
        BY <1>1 DEF CallsInv, vars
      <3>. QED BY <2>1, <3>1 DEF AbortInv
    <2>. QED BY <2>3, <2>4, <2>5, <2>6, <2>7 DEF CallsInv
  <1>2. CASE Next
    <2>1. PICK c \in Callers : Does(c)
      BY <1>2 DEF Next, Does
    <2>2. TypeInv' /\ PoolInv'
      BY <2>1, TypeStep, PoolStep DEF CallsInv
    <2>3. \A d \in Callers : StackInv(d)' /\ HoldInv(d)'
      BY <2>1, StackStep
    <2>4. AbortInv' /\ \A d \in Callers : DataInv(d)'
      BY <2>1, RefuseData, GoData, OpenData, WriteData, FailData, CancelData, CommitData,
         CloseData, ReturnData DEF Does, Acts
    <2>. QED BY <2>2, <2>3, <2>4 DEF CallsInv
  <1>. QED BY <1>1, <1>2

-----------------------------------------------------------------------------
(* What it implies.                                                         *)

LEMMA WrittenIsCount ==
    ASSUME ObjectsOK, TypeInv, NEW c \in Callers
    PROVE  Written(c) = CountIn(Method(c), Len(Method(c)), {"write"})
  <1>1. DOMAIN Method(c) = 1 .. Len(Method(c))
    BY MethodShape
  <1>2. {i \in DOMAIN Method(c) : Method(c)[i] = "write"}
          = {i \in 1 .. Len(Method(c)) : Method(c)[i] \in {"write"}}
    BY <1>1
  <1>. QED BY <1>2 DEF Written, CountIn

LEMMA SavedIsWritten ==
    ASSUME ObjectsOK, TypeInv, NEW c \in Callers, DataInv(c),
           \A i \in at[c] .. Len(Method(c)) : Method(c)[i] # "write"
    PROVE  wrote[c] = Written(c)
  <1>. DEFINE l == Len(Method(c))
              p == at[c] - 1
  <1>1. l \in Nat /\ p \in 0 .. l /\ at[c] = p + 1
    <2>1. Len(Method(c)) \in Nat
      BY StepIs
    <2>2. at[c] \in 1 .. Len(Method(c)) + 1
      BY DEF TypeInv
    <2>. QED BY <2>1, <2>2
  <1>2. \A i \in p + 1 .. l : Method(c)[i] \notin {"write"}
    BY <1>1
  <1>. HIDE DEF l, p
  <1>3. CountIn(Method(c), p, {"write"}) = CountIn(Method(c), l, {"write"})
    BY <1>1, <1>2, CountMonotone
  <1>4. wrote[c] = CountIn(Method(c), p, {"write"})
    BY DEF DataInv, p
  <1>5. Written(c) = CountIn(Method(c), l, {"write"})
    BY WrittenIsCount DEF l
  <1>. QED BY <1>3, <1>4, <1>5

LEMMA UsingGuarded ==
    ASSUME ObjectsOK, CallsInv, NEW c \in Callers, Using(c)
    PROVE  Guarded(c)
  <1>. USE DEF CallsInv
  <1>1. PICK j \in 1 .. at[c] - 1 : Method(c)[j] \in {"read", "write"}
    BY DEF Using
  <1>2. Len(open[c]) = CountIn(Method(c), at[c] - 1, Contexts)
    BY DEF Using, CountIn
  <1>3. /\ at[c] - 1 \in Nat /\ j \in 1 .. Len(Method(c)) /\ j <= at[c]
        /\ j - 1 \in 0 .. at[c] - 1 /\ Method(c)[j] \in Touching
    <2>1. Len(Method(c)) \in Nat /\ Method(c)[j] \in Touching
      BY <1>1, StepIs DEF Touching
    <2>2. at[c] \in 1 .. Len(Method(c)) + 1
      BY DEF TypeInv
    <2>. QED BY <2>1, <2>2
  <1>4. CountIn(Method(c), j - 1, Contexts) <= Len(open[c])
    BY <1>2, <1>3, CountMonotone
  <1>. QED BY <1>3, <1>4, TouchGuarded

LEMMA CallsInvImplies ==
    ASSUME ObjectsOK, CallsInv
    PROVE  CallsAreWhole /\ ReturnedIsSaved /\ OneCursorAtATime
  <1>. USE DEF CallsInv
  <1>1. CallsAreWhole
    <2>. SUFFICES ASSUME NEW c \in Callers, end[c] # "cancelled"
                  PROVE  /\ committed[c] \in {{}, 1 .. Written(c)}
                         /\ end[c] = "error" => committed[c] = {}
      BY DEF CallsAreWhole
    <2>1. CASE Nothing(c) \/ Unsaved(c)
      BY <2>1 DEF Nothing, Unsaved
    <2>2. CASE AllSaved(c)
      <3>1. wrote[c] = Written(c)
        BY <2>2, SavedIsWritten DEF AllSaved
      <3>. QED BY <2>2, <3>1 DEF AllSaved
    <2>. QED BY <2>1, <2>2 DEF DataInv
  <1>2. ReturnedIsSaved
    <2>. SUFFICES ASSUME NEW c \in Callers, outcome[c] = "ok"
                  PROVE  committed[c] = 1 .. Written(c)
      BY DEF ReturnedIsSaved
    <2>1. end[c] = "no" /\ at[c] = Len(Method(c)) + 1 /\ Len(Method(c)) \in Nat
      BY StepIs DEF DataInv
    <2>2. wrote[c] = Written(c)
      BY <2>1, SavedIsWritten
    <2>3. Over(c)
      BY <2>1 DEF Over
    <2>4. ~HasBlock(c)
      BY DEF HasBlock, StackInv
    <2>5. (Nothing(c) /\ wrote[c] = 0) \/ AllSaved(c)
      BY <2>1, <2>3, <2>4, LeftData
    <2>6. 1 .. 0 = {}
      OBVIOUS
    <2>. QED BY <2>2, <2>5, <2>6 DEF Nothing, AllSaved
  <1>3. OneCursorAtATime
    BY UsingGuarded, OneGuard DEF OneCursorAtATime
  <1>. QED BY <1>1, <1>2, <1>3

\* For any callers, methods, errors and cancelled tasks: what a call saves is in the
\* database whole or not at all, and all of it when the call returns; and two callers are
\* never between the statements of one connection.
THEOREM CallersDoNotMix ==
    ASSUME ObjectsOK
    PROVE  Spec => [](CallsAreWhole /\ ReturnedIsSaved /\ OneCursorAtATime)
  <1>1. Init => CallsInv
    BY CallsInitially
  <1>2. CallsInv /\ [Next]_vars => CallsInv'
    BY CallsStep
  <1>3. CallsInv => CallsAreWhole /\ ReturnedIsSaved /\ OneCursorAtATime
    BY CallsInvImplies
  <1>. QED BY <1>1, <1>2, <1>3, PTL DEF Spec
=============================================================================
