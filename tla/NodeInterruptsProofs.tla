------------------------ MODULE NodeInterruptsProofs ------------------------
(***************************************************************************)
(* Proofs about nodes that ask and call tasks (NodeInterrupts), for any     *)
(* programs that SetupsOK allows, any number of questions and calls, any     *)
(* failures, crashes and order of saves: every answer reaches the question   *)
(* it was given to, and what is saved of the tasks is a dialogue in order.   *)
(***************************************************************************)
EXTENDS NodeInterrupts, FiniteSetTheorems, TLAPS

\* What the theorems ask of a setting. With crashes no question rests on a call's result,
\* which a crash may lose; answers without an id go to one task alone, that does not fail.
SetupsOK ==
    \A s \in Setups :
        /\ s.mapped \in BOOLEAN /\ s.sql \in BOOLEAN /\ s.crashes \in Nat /\ s.failures \in Nat
        /\ \A t \in DOMAIN s.programs : s.programs[t] \in Seq({"ask", "call"})
        /\ s.crashes > 0 =>
             \A t \in DOMAIN s.programs : \A i, j \in DOMAIN s.programs[t] :
                 i < j /\ s.programs[t][i] = "call" => s.programs[t][j] = "call"
        /\ ~s.mapped => s.failures = 0 /\ \A t, u \in DOMAIN s.programs : t = u

\* What is nothing is no record, sequence or function.
NoneIsNoFunction == None # [x \in DOMAIN None |-> None[x]]

-----------------------------------------------------------------------------
(* Programs: how many questions or calls are among the first n steps.       *)

IsSeq(s) == \E S : s \in Seq(S)

Count(P, n, what) == Counted(SubSeq(P, 1, n), what)

IsProgram(P) == P \in Seq({"ask", "call"})

LEMMA SeqFacts ==
    ASSUME NEW s, IsSeq(s)
    PROVE  /\ Len(s) \in Nat /\ DOMAIN s = 1 .. Len(s)
           /\ \A x : /\ IsSeq(Append(s, x)) /\ Len(Append(s, x)) = Len(s) + 1
                     /\ \A i \in 1 .. Len(s) : Append(s, x)[i] = s[i]
                     /\ Append(s, x)[Len(s) + 1] = x
           /\ \A n \in 0 .. Len(s) : /\ IsSeq(SubSeq(s, 1, n)) /\ Len(SubSeq(s, 1, n)) = n
                                     /\ \A i \in 1 .. n : SubSeq(s, 1, n)[i] = s[i]
  <1>1. PICK S : s \in Seq(S)
    BY DEF IsSeq
  <1>2. ASSUME NEW x
        PROVE  /\ IsSeq(Append(s, x)) /\ Len(Append(s, x)) = Len(s) + 1
               /\ \A i \in 1 .. Len(s) : Append(s, x)[i] = s[i]
               /\ Append(s, x)[Len(s) + 1] = x
    <2>1. s \in Seq(S \cup {x})
      BY <1>1
    <2>. QED BY <1>1, <2>1 DEF IsSeq
  <1>3. ASSUME NEW n \in 0 .. Len(s)
        PROVE  /\ IsSeq(SubSeq(s, 1, n)) /\ Len(SubSeq(s, 1, n)) = n
               /\ \A i \in 1 .. n : SubSeq(s, 1, n)[i] = s[i]
    <2>1. SubSeq(s, 1, n) \in Seq(S) /\ Len(SubSeq(s, 1, n)) = n
      BY <1>1
    <2>. QED BY <1>1, <2>1 DEF IsSeq
  <1>. QED BY <1>1, <1>2, <1>3

\* Two sequences of one length with the same elements are the same.
LEMMA SameSeq ==
    ASSUME NEW s, NEW u, IsSeq(s), IsSeq(u), Len(s) = Len(u),
           \A i \in 1 .. Len(s) : s[i] = u[i]
    PROVE  s = u
  <1>1. s = [i \in 1 .. Len(s) |-> s[i]]
    BY DEF IsSeq
  <1>2. u = [i \in 1 .. Len(u) |-> u[i]]
    BY DEF IsSeq
  <1>3. [i \in 1 .. Len(s) |-> s[i]] = [i \in 1 .. Len(s) |-> u[i]]
    OBVIOUS
  <1>. QED BY <1>1, <1>2, <1>3

LEMMA NothingIsNoSeq == ASSUME NoneIsNoFunction, NEW s, IsSeq(s) PROVE s # None
  BY DEF NoneIsNoFunction, IsSeq

LEMMA NothingIsNoRecord ==
    ASSUME NoneIsNoFunction
    PROVE  /\ \A t, a : [answers |-> t, after |-> a] # None
           /\ \A c, n : Result(c, n) # None
           /\ \A r, a, f, o, d :
                 [resume |-> r, asked |-> a, failed |-> f, over |-> o, told |-> d] # None
  BY DEF NoneIsNoFunction, Result

LEMMA CountIsSize ==
    ASSUME NEW P, IsProgram(P), NEW what, NEW n \in 0 .. Len(P)
    PROVE  /\ Count(P, n, what) = Cardinality({k \in 1 .. n : P[k] = what})
           /\ IsFiniteSet({k \in 1 .. n : P[k] = what})
  <1>. DEFINE Such == {k \in 1 .. n : P[k] = what}
  <1>1. SubSeq(P, 1, n) \in Seq({"ask", "call"}) /\ Len(SubSeq(P, 1, n)) = n
        /\ \A k \in 1 .. n : SubSeq(P, 1, n)[k] = P[k]
    BY DEF IsProgram
  <1>2. DOMAIN SubSeq(P, 1, n) = 1 .. n
    BY <1>1
  <1>3. {k \in DOMAIN SubSeq(P, 1, n) : SubSeq(P, 1, n)[k] = what} = Such
    BY <1>1, <1>2
  <1>4. IsFiniteSet(1 .. n)
    BY FS_Interval
  <1>5. IsFiniteSet(Such)
    BY <1>4, FS_Subset
  <1>. QED BY <1>3, <1>5 DEF Count, Counted

LEMMA CountStep ==
    ASSUME NEW P, IsProgram(P), NEW what, NEW n \in 0 .. Len(P)
    PROVE  /\ Count(P, n, what) \in Nat
           /\ n = 0 => Count(P, n, what) = 0
           /\ n < Len(P) => Count(P, n + 1, what)
                              = IF P[n + 1] = what THEN Count(P, n, what) + 1
                                ELSE Count(P, n, what)
  <1>. DEFINE Such(m) == {k \in 1 .. m : P[k] = what}
  <1>1. ASSUME NEW m \in 0 .. Len(P)
        PROVE  Count(P, m, what) = Cardinality(Such(m)) /\ IsFiniteSet(Such(m))
    BY CountIsSize
  <1>2. n \in Nat /\ Len(P) \in Nat
    BY DEF IsProgram
  <1>3. Count(P, n, what) \in Nat
    BY <1>1, FS_CardinalityType
  <1>4. n = 0 => Count(P, n, what) = 0
    BY <1>1, FS_EmptySet
  <1>5. ASSUME n < Len(P)
        PROVE  Count(P, n + 1, what) = IF P[n + 1] = what THEN Count(P, n, what) + 1
                                       ELSE Count(P, n, what)
    <2>1. n + 1 \in 0 .. Len(P)
      BY <1>2, <1>5
    <2>2. Count(P, n + 1, what) = Cardinality(Such(n + 1))
      BY <1>1, <2>1
    <2>3. Such(n + 1) = IF P[n + 1] = what THEN Such(n) \cup {n + 1} ELSE Such(n)
      BY <1>2
    <2>4. n + 1 \notin Such(n)
      BY <1>2
    <2>5. Cardinality(Such(n) \cup {n + 1}) = Cardinality(Such(n)) + 1
      BY <1>1, <2>4, FS_AddElement
    <2>. QED BY <1>1, <2>2, <2>3, <2>5
  <1>. QED BY <1>3, <1>4, <1>5

LEMMA CountMonotone ==
    ASSUME NEW P, IsProgram(P), NEW what, NEW n \in 0 .. Len(P), NEW m \in 0 .. n
    PROVE  Count(P, m, what) <= Count(P, n, what)
  <1>. DEFINE Such(i) == {k \in 1 .. i : P[k] = what}
  <1>1. Len(P) \in Nat /\ n \in Nat /\ m \in Nat /\ m \in 0 .. Len(P)
    BY DEF IsProgram
  <1>2. ASSUME NEW i \in 0 .. Len(P)
        PROVE  Count(P, i, what) = Cardinality(Such(i)) /\ IsFiniteSet(Such(i))
    BY CountIsSize
  <1>3. Such(m) \subseteq Such(n)
    BY <1>1
  <1>4. Cardinality(Such(m)) <= Cardinality(Such(n))
    BY <1>1, <1>2, <1>3, FS_Subset
  <1>. QED BY <1>1, <1>2, <1>4

LEMMA CountAll ==
    ASSUME NEW P, IsProgram(P), NEW what
    PROVE  Counted(P, what) = Count(P, Len(P), what)
  <1>1. SubSeq(P, 1, Len(P)) = P
    BY DEF IsProgram
  <1>. QED BY <1>1 DEF Count

\* The step that asks the n-th question, or makes the n-th call, is one alone.
LEMMA StepIsUnique ==
    ASSUME NEW P, IsProgram(P), NEW what,
           NEW m \in 1 .. Len(P), NEW n \in 1 .. Len(P), P[m] = what, P[n] = what,
           Count(P, m - 1, what) = Count(P, n - 1, what)
    PROVE  m = n
  <1>1. Len(P) \in Nat
    BY DEF IsProgram
  <1>2. ASSUME NEW i \in 1 .. Len(P), NEW j \in 1 .. Len(P), P[i] = what, i < j
        PROVE  Count(P, i - 1, what) < Count(P, j - 1, what)
    <2>1. i - 1 \in 0 .. Len(P) /\ i - 1 < Len(P) /\ (i - 1) + 1 = i /\ i \in 0 .. (j - 1)
          /\ j - 1 \in 0 .. Len(P) /\ i \in 0 .. Len(P)
      BY <1>1, <1>2
    <2>2. Count(P, i, what) = Count(P, i - 1, what) + 1 /\ Count(P, i - 1, what) \in Nat
      BY <1>2, <2>1, CountStep
    <2>3. Count(P, i, what) <= Count(P, j - 1, what)
      BY <2>1, CountMonotone
    <2>4. Count(P, j - 1, what) \in Nat
      BY <2>1, CountStep
    <2>. QED BY <2>2, <2>3, <2>4
  <1>3. Count(P, m - 1, what) \in Nat
    <2>1. m - 1 \in 0 .. Len(P)
      BY <1>1
    <2>. QED BY <2>1, CountStep
  <1>4. ~(m < n) /\ ~(n < m)
    BY <1>2, <1>3
  <1>. QED BY <1>1, <1>4

\* A call of the program is counted among all its calls.
LEMMA CallIsCounted ==
    ASSUME NEW P, IsProgram(P), NEW what, NEW k \in 1 .. Len(P), P[k] = what
    PROVE  Count(P, k - 1, what) \in Nat /\ Count(P, k - 1, what) + 1 \in 1 .. Counted(P, what)
  <1>1. Len(P) \in Nat /\ k - 1 \in 0 .. Len(P) /\ k - 1 < Len(P) /\ (k - 1) + 1 = k
        /\ k \in 0 .. Len(P) /\ Len(P) \in 0 .. Len(P)
    BY DEF IsProgram
  <1>2. Count(P, k, what) = Count(P, k - 1, what) + 1 /\ Count(P, k - 1, what) \in Nat
    BY <1>1, CountStep
  <1>3. Count(P, k, what) <= Count(P, Len(P), what) /\ Count(P, Len(P), what) \in Nat
    BY <1>1, CountMonotone, CountStep
  <1>. QED BY <1>2, <1>3, CountAll

-----------------------------------------------------------------------------
(* The invariant.                                                           *)

\* What a node t with program P has heard, if R are its answers and r the results: at each
\* question the answer in its place, at each call the call's result.
Fits(t, P, R, r, a) ==
    /\ IsSeq(a) /\ Len(a) <= Len(P)
    /\ Count(P, Len(a), "ask") <= Len(R)
    /\ \A k \in 1 .. Len(a) :
         /\ P[k] = "ask" =>
              /\ Count(P, k - 1, "ask") < Len(R)
              /\ a[k] = R[Count(P, k - 1, "ask") + 1]
         /\ P[k] = "call" =>
              /\ r[<<t, Count(P, k - 1, "call") + 1>>] # None
              /\ a[k] = r[<<t, Count(P, k - 1, "call") + 1>>]

\* Who has heard a is at a question, with n questions behind it.
AtQuestion(P, n, a) ==
    Len(a) < Len(P) /\ P[Len(a) + 1] = "ask" /\ Count(P, Len(a), "ask") = n

\* The first question without an answer, asked as a node would ask it now.
Open(t, P, R, r, a) == Fits(t, P, R, r, a) /\ AtQuestion(P, Len(R), a)

\* Each answer was given to the question it stands for, asked as it is asked now.
InOrder(t, P, R, r) ==
    /\ IsSeq(R)
    /\ \A j \in 1 .. Len(R) :
         /\ R[j] = [answers |-> t, after |-> R[j].after]
         /\ AtQuestion(P, j - 1, R[j].after)
         /\ Fits(t, P, R, r, R[j].after)

\* The results that are known.
Known == IF phase = "on" THEN result ELSE kept

\* What a node has heard comes from its answers, and they are in order; unless it is over
\* and was not run, when a human may have answered once more.
HeardInv(t) ==
    /\ IsSeq(resume[t])
    /\ Fits(t, Program(t), resume[t], result, heard[t])
    /\ heard[t] # <<>> \/ status[t] # "over" \/ committed[t] # None
         => InOrder(t, Program(t), resume[t], result)

\* What is saved is in order, and a question that was saved last is open.
DiskInv(t) ==
    /\ InOrder(t, Program(t), Kept(disk[t]), Known)
    /\ ~disk[t].over /\ ~disk[t].failed /\ disk[t].asked # None
         => Open(t, Program(t), Kept(disk[t]), Known, disk[t].asked)

\* The question the human is shown is open.
ShownInv(t) ==
    phase = "off" /\ ~disk[t].over /\ shown[t] # None
      => Open(t, Program(t), Kept(disk[t]), kept, shown[t])

\* Until a node's writes are saved it has one answer more than is saved, at most.
AheadInv(t) ==
    phase = "on" /\ (status[t] \in {"idle", "runs"} \/ committed[t] # None)
      => resume[t] = Kept(disk[t]) \/ \E x : resume[t] = Append(Kept(disk[t]), x)

\* What a node that has ended leaves behind, on its way to the saver or saved.
EndedInv(t) ==
    phase = "on" =>
      /\ status[t] \in {"idle", "runs", "asks", "over", "failed"}
      /\ status[t] \in {"idle", "runs"} => committed[t] = None /\ ~disk[t].over
      /\ status[t] = "idle" => heard[t] = <<>>
      /\ status[t] = "asks" =>
           /\ ~disk[t].over
           /\ Open(t, Program(t), resume[t], result, heard[t])
           /\ \/ committed[t] = InterruptWrites(t)
              \/ committed[t] = None /\ Kept(disk[t]) = resume[t] /\ disk[t].asked = heard[t]
      /\ status[t] = "over" =>
           \/ committed[t] = None /\ disk[t].over
           \/ /\ committed[t] = LastWrites(t)
              /\ ~disk[t].over /\ Len(heard[t]) = Len(Program(t))
      /\ status[t] = "failed" =>
           ~disk[t].over /\ (committed[t] = None \/ committed[t] = Error(t))

\* Where answers carry no id: the one at hand is for the open question, none is at hand
\* before a question was saved, and what is saved is shown.
BareInv(t) ==
    ~setup.mapped =>
      /\ ~disk[t].failed /\ (phase = "on" => status[t] # "failed")
      /\ phase = "on" /\ null # None /\ status[t] \in {"idle", "runs"} =>
           /\ resume[t] = Kept(disk[t])
           /\ null = [answers |-> t, after |-> null.after]
           /\ Open(t, Program(t), resume[t], result, null.after)
      /\ diskNull # None \/ (phase = "on" /\ given # None) => disk[t].asked # None
      /\ phase = "off" => (shown[t] # None <=> disk[t].asked # None)

TaskInv(t) ==
    HeardInv(t) /\ DiskInv(t) /\ ShownInv(t) /\ AheadInv(t) /\ EndedInv(t) /\ BareInv(t)

\* Answers by id leave the other kind alone; a saved result is the one at hand; what may
\* still go wrong is part of what the setting lets.
AroundInv ==
    /\ setup \in Setups /\ phase \in {"off", "on", "over"}
    /\ setup.mapped => diskNull = None /\ null = None /\ given = None
    /\ phase = "on" => \A c \in Calls : kept[c] # None => result[c] = kept[c]
    /\ budget.crashes > 0 => setup.crashes > 0
    /\ budget.failures > 0 => setup.failures > 0

\* The variables are functions.
ShapeInv ==
    /\ disk = [t \in Tasks |-> disk[t]] /\ resume = [t \in Tasks |-> resume[t]]
    /\ status = [t \in Tasks |-> status[t]] /\ heard = [t \in Tasks |-> heard[t]]
    /\ committed = [t \in Tasks |-> committed[t]] /\ shown = [t \in Tasks |-> shown[t]]
    /\ kept = [c \in Calls |-> kept[c]] /\ result = [c \in Calls |-> result[c]]
    /\ runs = [c \in Calls |-> runs[c]]
    /\ budget = [crashes |-> budget.crashes, failures |-> budget.failures]

DialogueInv == ShapeInv /\ AroundInv /\ \A t \in Tasks : TaskInv(t)

-----------------------------------------------------------------------------
(* What answers and questions keep when answers or results are added.       *)

LEMMA FitsMoreAnswers ==
    ASSUME NEW t, NEW P, IsProgram(P), NEW R, IsSeq(R), NEW r, NEW a, NEW x, Fits(t, P, R, r, a)
    PROVE  Fits(t, P, Append(R, x), r, a)
  <1>1. Len(Append(R, x)) = Len(R) + 1 /\ Len(R) \in Nat
        /\ \A i \in 1 .. Len(R) : Append(R, x)[i] = R[i]
    BY SeqFacts
  <1>2. Len(a) \in Nat /\ Len(P) \in Nat /\ Len(a) <= Len(P)
    BY SeqFacts DEF Fits, IsProgram
  <1>3. ASSUME NEW k \in 1 .. Len(a), P[k] = "ask"
        PROVE  /\ Count(P, k - 1, "ask") < Len(Append(R, x))
               /\ a[k] = Append(R, x)[Count(P, k - 1, "ask") + 1]
    <2>1. Count(P, k - 1, "ask") < Len(R) /\ a[k] = R[Count(P, k - 1, "ask") + 1]
      BY <1>3 DEF Fits
    <2>2. k - 1 \in 0 .. Len(P)
      BY <1>2
    <2>3. Count(P, k - 1, "ask") \in Nat
      BY <2>2, CountStep
    <2>. QED BY <1>1, <2>1, <2>3
  <1>4. Count(P, Len(a), "ask") <= Len(Append(R, x))
    <2>1. Count(P, Len(a), "ask") <= Len(R)
      BY DEF Fits
    <2>2. Count(P, Len(a), "ask") \in Nat
      BY <1>2, CountStep
    <2>. QED BY <1>1, <2>1, <2>2
  <1>. QED BY <1>3, <1>4 DEF Fits

\* Results that stay keep what was heard.
LEMMA FitsMoreResults ==
    ASSUME NEW t, NEW P, IsProgram(P), NEW R, NEW r, NEW q, NEW a, Fits(t, P, R, r, a),
           \A n \in 1 .. Counted(P, "call") : r[<<t, n>>] # None => q[<<t, n>>] = r[<<t, n>>]
    PROVE  Fits(t, P, R, q, a)
  <1>2. Len(a) \in Nat /\ Len(P) \in Nat /\ Len(a) <= Len(P)
    BY SeqFacts DEF Fits, IsProgram
  <1>3. ASSUME NEW k \in 1 .. Len(a), P[k] = "call"
        PROVE  /\ q[<<t, Count(P, k - 1, "call") + 1>>] # None
               /\ a[k] = q[<<t, Count(P, k - 1, "call") + 1>>]
    <2>1. /\ r[<<t, Count(P, k - 1, "call") + 1>>] # None
          /\ a[k] = r[<<t, Count(P, k - 1, "call") + 1>>]
      BY <1>3 DEF Fits
    <2>2. k \in 1 .. Len(P)
      BY <1>2
    <2>3. Count(P, k - 1, "call") + 1 \in 1 .. Counted(P, "call")
      BY <1>3, <2>2, CallIsCounted
    <2>. QED BY <2>1, <2>3
  <1>. QED BY <1>3 DEF Fits

\* Where no question comes after a call, questions need no results.
CallsLast(P) == \A i, j \in DOMAIN P : i < j /\ P[i] = "call" => P[j] = "call"

LEMMA OpenNeedsNoResults ==
    ASSUME NEW t, NEW P, IsProgram(P), CallsLast(P), NEW R, NEW r, NEW q, NEW a, NEW n,
           Fits(t, P, R, r, a), AtQuestion(P, n, a)
    PROVE  Fits(t, P, R, q, a)
  <1>1. Len(a) \in Nat /\ Len(P) \in Nat /\ Len(a) < Len(P) /\ DOMAIN P = 1 .. Len(P)
        /\ P[Len(a) + 1] = "ask"
    BY SeqFacts DEF Fits, IsProgram, AtQuestion
  <1>2. ASSUME NEW k \in 1 .. Len(a), P[k] = "call" PROVE FALSE
    <2>1. k \in DOMAIN P /\ Len(a) + 1 \in DOMAIN P /\ k < Len(a) + 1
      BY <1>1
    <2>. QED BY <1>1, <1>2, <2>1 DEF CallsLast
  <1>. QED BY <1>2 DEF Fits

LEMMA InOrderMoreResults ==
    ASSUME NEW t, NEW P, IsProgram(P), NEW R, NEW r, NEW q, InOrder(t, P, R, r),
           \A n \in 1 .. Counted(P, "call") : r[<<t, n>>] # None => q[<<t, n>>] = r[<<t, n>>]
    PROVE  InOrder(t, P, R, q)
  <1>1. ASSUME NEW j \in 1 .. Len(R)
        PROVE  Fits(t, P, R, q, R[j].after)
    <2>1. Fits(t, P, R, r, R[j].after)
      BY DEF InOrder
    <2>. QED BY <2>1, FitsMoreResults
  <1>. QED BY <1>1 DEF InOrder

LEMMA InOrderNeedsNoResults ==
    ASSUME NEW t, NEW P, IsProgram(P), CallsLast(P), NEW R, NEW r, NEW q, InOrder(t, P, R, r)
    PROVE  InOrder(t, P, R, q)
  <1>1. ASSUME NEW j \in 1 .. Len(R)
        PROVE  Fits(t, P, R, q, R[j].after)
    <2>1. Fits(t, P, R, r, R[j].after) /\ AtQuestion(P, j - 1, R[j].after)
      BY DEF InOrder
    <2>. QED BY <2>1, OpenNeedsNoResults
  <1>. QED BY <1>1 DEF InOrder

\* An answer to the open question is the next in order.
LEMMA InOrderNext ==
    ASSUME NEW t, NEW P, IsProgram(P), NEW R, NEW r, NEW a,
           InOrder(t, P, R, r), Open(t, P, R, r, a)
    PROVE  InOrder(t, P, Append(R, [answers |-> t, after |-> a]), r)
  <1>. DEFINE x == [answers |-> t, after |-> a]
              S == Append(R, x)
  <1>1. IsSeq(R) /\ Fits(t, P, R, r, a) /\ AtQuestion(P, Len(R), a)
    BY DEF InOrder, Open
  <1>2. IsSeq(S) /\ Len(S) = Len(R) + 1 /\ Len(R) \in Nat
        /\ (\A i \in 1 .. Len(R) : S[i] = R[i]) /\ S[Len(R) + 1] = x
    BY <1>1, SeqFacts
  <1>3. ASSUME NEW j \in 1 .. Len(S)
        PROVE  /\ S[j] = [answers |-> t, after |-> S[j].after]
               /\ AtQuestion(P, j - 1, S[j].after)
               /\ Fits(t, P, S, r, S[j].after)
    <2>1. CASE j \in 1 .. Len(R)
      <3>1. /\ R[j] = [answers |-> t, after |-> R[j].after]
            /\ AtQuestion(P, j - 1, R[j].after)
            /\ Fits(t, P, R, r, R[j].after)
        BY <2>1 DEF InOrder
      <3>2. Fits(t, P, S, r, R[j].after)
        BY <1>1, <3>1, FitsMoreAnswers
      <3>3. S[j] = R[j]
        BY <1>2, <2>1
      <3>. QED BY <3>1, <3>2, <3>3
    <2>2. CASE j = Len(R) + 1
      <3>1. Fits(t, P, S, r, a)
        BY <1>1, FitsMoreAnswers
      <3>2. S[j] = x /\ x.after = a /\ j - 1 = Len(R)
        BY <1>2, <2>2
      <3>. QED BY <1>1, <3>1, <3>2
    <2>. QED BY <1>2, <2>1, <2>2
  <1>. HIDE DEF S
  <1>4. InOrder(t, P, S, r)
    BY <1>2, <1>3 DEF InOrder
  <1>. QED BY <1>4 DEF S

\* No more answers are in order than there are questions.
LEMMA InOrderIsBounded ==
    ASSUME NEW t, NEW P, IsProgram(P), NEW R, NEW r, InOrder(t, P, R, r)
    PROVE  Len(R) \in Nat /\ Len(R) <= Counted(P, "ask") /\ Counted(P, "ask") \in Nat
  <1>1. Len(R) \in Nat /\ Len(P) \in Nat
    BY SeqFacts DEF InOrder, IsProgram
  <1>2. Counted(P, "ask") = Count(P, Len(P), "ask") /\ Counted(P, "ask") \in Nat
    BY <1>1, CountAll, CountStep
  <1>3. CASE Len(R) # 0
    <2>. DEFINE a == R[Len(R)].after
    <2>. DEFINE n == Len(R)
    <2>0. n \in 1 .. Len(R)
      BY <1>1, <1>3
    <2>. HIDE DEF n
    <2>1. AtQuestion(P, n - 1, R[n].after) /\ Fits(t, P, R, r, R[n].after)
      BY <2>0 DEF InOrder
    <2>. USE DEF n
    <2>2. IsSeq(a) /\ Len(a) \in Nat
      BY <2>1, SeqFacts DEF Fits
    <2>3. Len(a) < Len(P) /\ P[Len(a) + 1] = "ask" /\ Count(P, Len(a), "ask") = Len(R) - 1
      BY <2>1 DEF AtQuestion
    <2>. HIDE DEF a
    <2>4. Len(a) + 1 \in 1 .. Len(P) /\ (Len(a) + 1) - 1 = Len(a)
      BY <1>1, <2>2, <2>3
    <2>5. Count(P, Len(a), "ask") + 1 \in 1 .. Counted(P, "ask")
      BY <2>3, <2>4, CallIsCounted
    <2>. QED BY <1>1, <1>2, <2>3, <2>5
  <1>. QED BY <1>1, <1>2, <1>3

\* Two who have heard from the same answers and results have heard the same.
LEMMA SameHeard ==
    ASSUME NEW t, NEW P, IsProgram(P), NEW R, NEW r, NEW a, NEW b,
           Fits(t, P, R, r, a), Fits(t, P, R, r, b), Len(a) <= Len(b)
    PROVE  a = SubSeq(b, 1, Len(a))
  <1>1. IsSeq(a) /\ IsSeq(b) /\ Len(a) \in Nat /\ Len(b) \in Nat /\ Len(P) \in Nat
        /\ Len(b) <= Len(P) /\ Len(a) \in 0 .. Len(b)
    BY SeqFacts DEF Fits, IsProgram
  <1>2. /\ IsSeq(SubSeq(b, 1, Len(a))) /\ Len(SubSeq(b, 1, Len(a))) = Len(a)
        /\ \A i \in 1 .. Len(a) : SubSeq(b, 1, Len(a))[i] = b[i]
    BY <1>1, SeqFacts
  <1>3. ASSUME NEW k \in 1 .. Len(a) PROVE a[k] = b[k]
    <2>1. k \in 1 .. Len(b) /\ k \in 1 .. Len(P)
      BY <1>1
    <2>2. P[k] \in {"ask", "call"}
      BY <2>1 DEF IsProgram
    <2>3. CASE P[k] = "ask"
      BY <2>1, <2>3 DEF Fits
    <2>4. CASE P[k] = "call"
      BY <2>1, <2>4 DEF Fits
    <2>. QED BY <2>2, <2>3, <2>4
  <1>. QED BY <1>1, <1>2, <1>3, SameSeq

\* An answer in order, heard at a question, was given to that question.
LEMMA AnswerFits ==
    ASSUME NEW t, NEW P, IsProgram(P), NEW R, NEW r, NEW a,
           InOrder(t, P, R, r), Fits(t, P, R, r, a), NEW k \in 1 .. Len(a), P[k] = "ask"
    PROVE  a[k] = [answers |-> t, after |-> SubSeq(a, 1, k - 1)]
  <1>1. Len(a) \in Nat /\ Len(P) \in Nat /\ Len(R) \in Nat /\ Len(a) <= Len(P)
    BY SeqFacts DEF Fits, IsProgram, InOrder
  <1>2. k - 1 \in 0 .. Len(P) /\ k \in 1 .. Len(P)
    BY <1>1
  <1>. DEFINE j == Count(P, k - 1, "ask") + 1
  <1>3. j = Count(P, k - 1, "ask") + 1
    OBVIOUS
  <1>. HIDE DEF j
  <1>4. Count(P, k - 1, "ask") \in Nat /\ j \in 1 .. Len(R) /\ a[k] = R[j]
        /\ j - 1 = Count(P, k - 1, "ask")
    <2>1. Count(P, k - 1, "ask") \in Nat
      BY <1>2, CountStep
    <2>2. Count(P, k - 1, "ask") < Len(R) /\ a[k] = R[Count(P, k - 1, "ask") + 1]
      BY DEF Fits
    <2>. QED BY <1>1, <1>3, <2>1, <2>2
  <1>. DEFINE b == R[j].after
  <1>5. b = R[j].after
    OBVIOUS
  <1>. HIDE DEF b
  <1>6. /\ R[j] = [answers |-> t, after |-> b]
        /\ AtQuestion(P, j - 1, b) /\ Fits(t, P, R, r, b)
    BY <1>4, <1>5 DEF InOrder
  <1>7. Len(b) \in Nat /\ Len(b) < Len(P) /\ P[Len(b) + 1] = "ask"
        /\ Count(P, Len(b), "ask") = Count(P, k - 1, "ask")
    BY <1>4, <1>6, SeqFacts DEF AtQuestion, Fits
  <1>8. Len(b) + 1 \in 1 .. Len(P) /\ (Len(b) + 1) - 1 = Len(b)
    BY <1>1, <1>7
  <1>9. Len(b) + 1 = k
    BY <1>2, <1>7, <1>8, StepIsUnique
  <1>10. Len(b) = k - 1 /\ Len(b) <= Len(a)
    BY <1>1, <1>7, <1>9
  <1>11. b = SubSeq(a, 1, Len(b))
    BY <1>6, <1>10, SameHeard
  <1>. QED BY <1>4, <1>6, <1>10, <1>11


\* Who is at a question and hears its answer, or at a call and hears its result, fits.
LEMMA FitsAnswer ==
    ASSUME NEW t, NEW P, IsProgram(P), NEW R, IsSeq(R), NEW r, NEW a, Fits(t, P, R, r, a),
           Len(a) < Len(P), P[Len(a) + 1] = "ask", Count(P, Len(a), "ask") < Len(R)
    PROVE  Fits(t, P, R, r, Append(a, R[Count(P, Len(a), "ask") + 1]))
  <1>. DEFINE x == R[Count(P, Len(a), "ask") + 1]
              b == Append(a, x)
              n == Len(a)
  <1>1. IsSeq(a) /\ n \in Nat /\ Len(P) \in Nat /\ Len(R) \in Nat /\ n \in 0 .. Len(P)
    BY SeqFacts DEF Fits, IsProgram
  <1>2. IsSeq(b) /\ Len(b) = n + 1 /\ (\A i \in 1 .. n : b[i] = a[i]) /\ b[n + 1] = x
    BY <1>1, SeqFacts
  <1>3. Count(P, n, "ask") \in Nat /\ Count(P, n + 1, "ask") = Count(P, n, "ask") + 1
    BY <1>1, CountStep
  <1>4. x = R[Count(P, n, "ask") + 1]
    OBVIOUS
  <1>5. Count(P, n, "ask") < Len(R) /\ n < Len(P) /\ P[n + 1] = "ask"
    OBVIOUS
  <1>6. ASSUME NEW k \in 1 .. n
        PROVE  /\ P[k] = "ask" => /\ Count(P, k - 1, "ask") < Len(R)
                                  /\ a[k] = R[Count(P, k - 1, "ask") + 1]
               /\ P[k] = "call" => /\ r[<<t, Count(P, k - 1, "call") + 1>>] # None
                                   /\ a[k] = r[<<t, Count(P, k - 1, "call") + 1>>]
    BY DEF Fits
  <1>. HIDE DEF b, n, x
  <1>7. ASSUME NEW k \in 1 .. n + 1
        PROVE  /\ P[k] = "ask" => /\ Count(P, k - 1, "ask") < Len(R)
                                  /\ b[k] = R[Count(P, k - 1, "ask") + 1]
               /\ P[k] = "call" => /\ r[<<t, Count(P, k - 1, "call") + 1>>] # None
                                   /\ b[k] = r[<<t, Count(P, k - 1, "call") + 1>>]
    <2>1. CASE k \in 1 .. n
      BY <1>2, <1>6, <2>1
    <2>2. CASE k = n + 1
      <3>1. k - 1 = n
        BY <1>1, <2>2
      <3>. QED BY <1>2, <1>4, <1>5, <2>2, <3>1
    <2>. QED BY <1>1, <2>1, <2>2
  <1>8. n + 1 <= Len(P) /\ Count(P, n + 1, "ask") <= Len(R)
    BY <1>1, <1>3, <1>5
  <1>9. Fits(t, P, R, r, b)
    BY <1>2, <1>7, <1>8 DEF Fits
  <1>. QED BY <1>9 DEF b, x, n

LEMMA FitsResult ==
    ASSUME NEW t, NEW P, IsProgram(P), NEW R, IsSeq(R), NEW r, NEW a, Fits(t, P, R, r, a),
           Len(a) < Len(P), P[Len(a) + 1] = "call",
           r[<<t, Count(P, Len(a), "call") + 1>>] # None
    PROVE  Fits(t, P, R, r, Append(a, r[<<t, Count(P, Len(a), "call") + 1>>]))
  <1>. DEFINE x == r[<<t, Count(P, Len(a), "call") + 1>>]
              b == Append(a, x)
              n == Len(a)
  <1>1. IsSeq(a) /\ n \in Nat /\ Len(P) \in Nat /\ Len(R) \in Nat /\ n \in 0 .. Len(P)
    BY SeqFacts DEF Fits, IsProgram
  <1>2. IsSeq(b) /\ Len(b) = n + 1 /\ (\A i \in 1 .. n : b[i] = a[i]) /\ b[n + 1] = x
    BY <1>1, SeqFacts
  <1>3. Count(P, n, "ask") \in Nat /\ Count(P, n + 1, "ask") = Count(P, n, "ask")
    BY <1>1, CountStep
  <1>4. x = r[<<t, Count(P, n, "call") + 1>>] /\ x # None
    OBVIOUS
  <1>5. Count(P, n, "ask") <= Len(R) /\ n < Len(P) /\ P[n + 1] = "call"
    BY DEF Fits
  <1>6. ASSUME NEW k \in 1 .. n
        PROVE  /\ P[k] = "ask" => /\ Count(P, k - 1, "ask") < Len(R)
                                  /\ a[k] = R[Count(P, k - 1, "ask") + 1]
               /\ P[k] = "call" => /\ r[<<t, Count(P, k - 1, "call") + 1>>] # None
                                   /\ a[k] = r[<<t, Count(P, k - 1, "call") + 1>>]
    BY DEF Fits
  <1>. HIDE DEF b, n, x
  <1>7. ASSUME NEW k \in 1 .. n + 1
        PROVE  /\ P[k] = "ask" => /\ Count(P, k - 1, "ask") < Len(R)
                                  /\ b[k] = R[Count(P, k - 1, "ask") + 1]
               /\ P[k] = "call" => /\ r[<<t, Count(P, k - 1, "call") + 1>>] # None
                                   /\ b[k] = r[<<t, Count(P, k - 1, "call") + 1>>]
    <2>1. CASE k \in 1 .. n
      BY <1>2, <1>6, <2>1
    <2>2. CASE k = n + 1
      <3>1. k - 1 = n
        BY <1>1, <2>2
      <3>. QED BY <1>2, <1>4, <1>5, <2>2, <3>1
    <2>. QED BY <1>1, <2>1, <2>2
  <1>8. n + 1 <= Len(P) /\ Count(P, n + 1, "ask") <= Len(R)
    BY <1>1, <1>3, <1>5
  <1>9. Fits(t, P, R, r, b)
    BY <1>2, <1>7, <1>8 DEF Fits
  <1>. QED BY <1>9 DEF b, x, n

\* Nothing heard fits any answers.
LEMMA FitsNothing ==
    ASSUME NEW t, NEW P, IsProgram(P), NEW R, IsSeq(R), NEW r
    PROVE  Fits(t, P, R, r, <<>>)
  <1>1. Len(P) \in Nat /\ Len(R) \in Nat /\ 0 \in 0 .. Len(P) /\ IsSeq(<<>>) /\ Len(<<>>) = 0
    BY SeqFacts DEF IsProgram, IsSeq
  <1>2. Count(P, 0, "ask") = 0
    BY <1>1, CountStep
  <1>. QED BY <1>1, <1>2 DEF Fits

-----------------------------------------------------------------------------
(* The invariant holds at first, and every step keeps it.                   *)

LEMMA ProgramsAre ==
    ASSUME SetupsOK, setup \in Setups, NEW t \in Tasks
    PROVE  /\ IsProgram(Program(t))
           /\ setup.mapped \in BOOLEAN
           /\ setup.crashes > 0 => CallsLast(Program(t))
           /\ ~setup.mapped => ~(setup.failures > 0) /\ \A u \in Tasks : u = t
  BY DEF SetupsOK, IsProgram, CallsLast, Tasks, Program

\* The setting stays.
LEMMA SameSetup ==
    ASSUME setup' = setup
    PROVE  /\ Tasks' = Tasks /\ Calls' = Calls
           /\ \A t : Program(t)' = Program(t)
  <1>1. Tasks' = Tasks /\ \A t : Program(t)' = Program(t)
    BY DEF Tasks, Program
  <1>. QED BY <1>1 DEF Calls

LEMMA InOrderNothing ==
    ASSUME NEW t, NEW P, NEW r PROVE InOrder(t, P, <<>>, r)
  BY DEF InOrder, IsSeq

LEMMA DialogueBegins ==
    ASSUME SetupsOK, Init
    PROVE  DialogueInv
  <1>1. ShapeInv
    BY DEF Init, ShapeInv, NoneShown
  <1>2. AroundInv
    BY DEF Init, AroundInv
  <1>3. ASSUME NEW t \in Tasks
        PROVE  TaskInv(t)
    <2>1. IsProgram(Program(t))
      BY ProgramsAre DEF Init
    <2>2. /\ phase = "off" /\ disk[t] = NoWrites /\ resume[t] = <<>> /\ heard[t] = <<>>
          /\ shown[t] = None /\ status[t] = "idle" /\ diskNull = None /\ null = None
          /\ given = None /\ committed[t] = None
      BY DEF Init, NoneShown
    <2>3. Kept(disk[t]) = <<>> /\ disk[t].asked = None /\ disk[t].failed = FALSE
          /\ disk[t].over = FALSE
      BY <2>2 DEF Kept, NoWrites
    <2>4. IsSeq(<<>>)
      BY DEF IsSeq
    <2>5. HeardInv(t)
      BY <2>1, <2>2, <2>4, FitsNothing, InOrderNothing DEF HeardInv
    <2>6. DiskInv(t)
      BY <2>3, InOrderNothing DEF DiskInv
    <2>7. ShownInv(t) /\ AheadInv(t) /\ EndedInv(t)
      BY <2>2 DEF ShownInv, AheadInv, EndedInv
    <2>8. BareInv(t)
      BY <2>2, <2>3 DEF BareInv
    <2>. QED BY <2>5, <2>6, <2>7, <2>8 DEF TaskInv
  <1>. QED BY <1>1, <1>2, <1>3 DEF DialogueInv

\* A step elsewhere: the results may only grow.
LEMMA Elsewhere ==
    ASSUME SetupsOK, setup \in Setups, NEW t \in Tasks, TaskInv(t),
           phase = "on", phase' = "on", setup' = setup,
           disk'[t] = disk[t], resume'[t] = resume[t], status'[t] = status[t],
           heard'[t] = heard[t], committed'[t] = committed[t],
           \A c \in Calls : result[c] # None => result'[c] = result[c],
           null' \in {null, None}, given' = given, diskNull' \in {diskNull, given}
    PROVE  TaskInv(t)'
  <1>. DEFINE P == Program(t)
  <1>1. IsProgram(P) /\ Program(t)' = P
    BY ProgramsAre, SameSetup
  <1>2. \A n \in 1 .. Counted(P, "call") :
            result[<<t, n>>] # None => result'[<<t, n>>] = result[<<t, n>>]
    BY DEF Calls
  <1>. HIDE DEF P
  <1>3. Known = result /\ Known' = result'
    BY DEF Known
  <1>4. Kept(disk[t])' = Kept(disk[t])
    BY DEF Kept
  <1>5. /\ \A R : InOrder(t, P, R, result) => InOrder(t, P, R, result')
        /\ \A R, a : Fits(t, P, R, result, a) => Fits(t, P, R, result', a)
        /\ \A R, a : Open(t, P, R, result, a) => Open(t, P, R, result', a)
    BY <1>1, <1>2, InOrderMoreResults, FitsMoreResults DEF Open
  <1>6. /\ Sent(t)' = Sent(t) /\ InterruptWrites(t)' = InterruptWrites(t)
        /\ Error(t)' = Error(t) /\ LastWrites(t)' = LastWrites(t)
    <2>1. Sent(t)' = Sent(t)
      BY SameSetup DEF Sent, Before
    <2>. QED BY <2>1 DEF InterruptWrites, Error, LastWrites
  <1>7. HeardInv(t)'
    BY <1>1, <1>5 DEF HeardInv, TaskInv, P
  <1>8. DiskInv(t)'
    BY <1>1, <1>3, <1>4, <1>5 DEF DiskInv, TaskInv, P
  <1>9. ShownInv(t)' /\ AheadInv(t)'
    BY <1>4 DEF ShownInv, AheadInv, TaskInv
  <1>10. EndedInv(t)'
    BY <1>1, <1>4, <1>5, <1>6 DEF EndedInv, TaskInv, P
  <1>11. BareInv(t)'
    BY <1>1, <1>4, <1>5 DEF BareInv, TaskInv, P
  <1>. QED BY <1>7, <1>8, <1>9, <1>10, <1>11 DEF TaskInv

\* A step of one task, in an invocation.
LEMMA OneTask ==
    ASSUME SetupsOK, DialogueInv, NEW t \in Tasks, phase = "on",
           UNCHANGED <<setup, phase, diskNull, kept, given, shown>>,
           disk' = [disk EXCEPT ![t] = disk'[t]],
           resume' = [resume EXCEPT ![t] = resume'[t]],
           status' = [status EXCEPT ![t] = status'[t]],
           heard' = [heard EXCEPT ![t] = heard'[t]],
           committed' = [committed EXCEPT ![t] = committed'[t]],
           result' = [c \in Calls |-> result'[c]],
           runs' = [c \in Calls |-> runs'[c]],
           \A c \in Calls : result[c] # None => result'[c] = result[c],
           null' \in {null, None},
           budget' = [crashes |-> budget.crashes, failures |-> budget'.failures],
           budget'.failures > 0 => budget.failures > 0,
           TaskInv(t)'
    PROVE  DialogueInv'
  <1>1. ShapeInv /\ AroundInv
    BY DEF DialogueInv
  <1>2. Tasks' = Tasks /\ Calls' = Calls
    BY SameSetup
  <1>3. ShapeInv'
    BY <1>1, <1>2 DEF ShapeInv
  <1>4. AroundInv'
    BY <1>1, <1>2 DEF AroundInv
  <1>5. ASSUME NEW u \in Tasks, u # t
        PROVE  TaskInv(u)'
    <2>1. /\ disk'[u] = disk[u] /\ resume'[u] = resume[u] /\ status'[u] = status[u]
          /\ heard'[u] = heard[u] /\ committed'[u] = committed[u]
      BY <1>1, <1>5 DEF ShapeInv
    <2>2. TaskInv(u) /\ setup \in Setups
      BY DEF DialogueInv, AroundInv
    <2>. QED BY <2>1, <2>2, Elsewhere
  <1>. QED BY <1>2, <1>3, <1>4, <1>5 DEF DialogueInv

\* What is known of a task in an invocation.
LEMMA TaskFacts ==
    ASSUME SetupsOK, DialogueInv, NEW t \in Tasks
    PROVE  /\ ShapeInv /\ AroundInv /\ setup \in Setups
           /\ HeardInv(t) /\ DiskInv(t) /\ ShownInv(t) /\ AheadInv(t) /\ EndedInv(t) /\ BareInv(t)
           /\ IsProgram(Program(t)) /\ Len(Program(t)) \in Nat
           /\ IsSeq(heard[t]) /\ Len(heard[t]) \in Nat /\ Len(heard[t]) \in 0 .. Len(Program(t))
           /\ IsSeq(resume[t]) /\ Len(resume[t]) \in Nat
           /\ IsSeq(Kept(disk[t])) /\ Len(Kept(disk[t])) \in Nat
           /\ \A what : /\ Before(t, what) = Count(Program(t), Len(heard[t]), what)
                        /\ Before(t, what) \in Nat
           /\ Before(t, "ask") <= Len(resume[t])
  <1>1. TaskInv(t) /\ ShapeInv /\ AroundInv /\ setup \in Setups
    BY DEF DialogueInv, AroundInv
  <1>2. HeardInv(t) /\ DiskInv(t) /\ ShownInv(t) /\ AheadInv(t) /\ EndedInv(t) /\ BareInv(t)
    BY <1>1 DEF TaskInv
  <1>3. IsProgram(Program(t))
    BY <1>1, ProgramsAre
  <1>4. Fits(t, Program(t), resume[t], result, heard[t]) /\ IsSeq(resume[t])
    BY <1>2 DEF HeardInv
  <1>5. IsSeq(heard[t]) /\ Len(heard[t]) <= Len(Program(t)) /\ IsSeq(Kept(disk[t]))
        /\ Count(Program(t), Len(heard[t]), "ask") <= Len(resume[t])
    BY <1>2, <1>4 DEF Fits, DiskInv, InOrder
  <1>6. Len(Program(t)) \in Nat
    BY <1>3 DEF IsProgram
  <1>7. /\ Len(heard[t]) \in Nat /\ Len(resume[t]) \in Nat /\ Len(Kept(disk[t])) \in Nat
        /\ Len(heard[t]) \in 0 .. Len(Program(t))
    BY <1>4, <1>5, <1>6, SeqFacts
  <1>8. \A what : /\ Before(t, what) = Count(Program(t), Len(heard[t]), what)
                  /\ Before(t, what) \in Nat
    BY <1>3, <1>7, CountStep DEF Before, Count
  <1>. QED BY <1>1, <1>2, <1>3, <1>4, <1>5, <1>6, <1>7, <1>8

LEMMA StartKeeps ==
    ASSUME SetupsOK, DialogueInv, NEW t \in Tasks, Start(t)
    PROVE  DialogueInv'
  <1>1. /\ phase = "on" /\ status[t] = "idle" /\ status' = [status EXCEPT ![t] = "runs"]
        /\ UNCHANGED <<setup, phase, saver, null, given, resume, heard, committed, result,
                       shown, runs, budget>>
    BY DEF Start
  <1>2. ShapeInv /\ HeardInv(t) /\ DiskInv(t) /\ ShownInv(t) /\ AheadInv(t) /\ EndedInv(t)
        /\ BareInv(t)
    BY TaskFacts
  <1>3. status'[t] = "runs"
    BY <1>1, <1>2 DEF ShapeInv
  <1>4. Program(t)' = Program(t) /\ Kept(disk[t])' = Kept(disk[t]) /\ Known' = Known
    BY <1>1, SameSetup DEF Kept, Known, saver
  <1>5. TaskInv(t)'
    <2>1. HeardInv(t)'
      BY <1>1, <1>2, <1>4 DEF HeardInv
    <2>2. DiskInv(t)'
      BY <1>1, <1>2, <1>4 DEF DiskInv, saver
    <2>3. ShownInv(t)' /\ AheadInv(t)'
      BY <1>1, <1>2, <1>4 DEF ShownInv, AheadInv, saver
    <2>4. EndedInv(t)'
      BY <1>1, <1>2, <1>3 DEF EndedInv, saver
    <2>5. BareInv(t)'
      BY <1>1, <1>2, <1>3, <1>4 DEF BareInv, saver
    <2>. QED BY <2>1, <2>2, <2>3, <2>4, <2>5 DEF TaskInv
  <1>. QED BY <1>1, <1>2, <1>3, <1>5, OneTask DEF ShapeInv, saver

\* A node hears an answer or a result, which fits.
LEMMA HearKeeps ==
    ASSUME SetupsOK, DialogueInv, NEW t \in Tasks, NEW x, phase = "on", status[t] = "runs",
           Hear(t, x),
           UNCHANGED <<setup, phase, saver, given, status, committed, shown, budget>>,
           Fits(t, Program(t), resume'[t], result', heard'[t]),
           \/ resume' = resume /\ null' = null
           \/ /\ resume' = [resume EXCEPT ![t] = Append(@, null)] /\ null' = None
              /\ resume[t] = Kept(disk[t]) /\ Open(t, Program(t), resume[t], result, null.after)
              /\ null = [answers |-> t, after |-> null.after],
           result' = [c \in Calls |-> result'[c]], runs' = [c \in Calls |-> runs'[c]],
           \A c \in Calls : result[c] # None => result'[c] = result[c]
    PROVE  DialogueInv'
  <1>. DEFINE P == Program(t)
  <1>1. ShapeInv /\ HeardInv(t) /\ DiskInv(t) /\ AheadInv(t) /\ EndedInv(t) /\ BareInv(t)
        /\ IsProgram(P)
    BY TaskFacts
  <1>2. /\ Program(t)' = P /\ Kept(disk[t])' = Kept(disk[t])
        /\ Known = result /\ Known' = result'
    BY SameSetup DEF Kept, Known, saver
  <1>3. \A n \in 1 .. Counted(P, "call") :
            result[<<t, n>>] # None => result'[<<t, n>>] = result[<<t, n>>]
    BY DEF Calls
  <1>4. heard' = [heard EXCEPT ![t] = heard'[t]] /\ resume' = [resume EXCEPT ![t] = resume'[t]]
    BY <1>1 DEF ShapeInv, Hear
  <1>. HIDE DEF P
  <1>5. /\ \A R : InOrder(t, P, R, result) => InOrder(t, P, R, result')
        /\ \A R, a : Fits(t, P, R, result, a) => Fits(t, P, R, result', a)
        /\ \A R, a : Open(t, P, R, result, a) => Open(t, P, R, result', a)
    BY <1>1, <1>3, InOrderMoreResults, FitsMoreResults DEF Open
  <1>6. InOrder(t, P, resume[t], result) /\ InOrder(t, P, resume[t], result')
    BY <1>1, <1>5 DEF HeardInv, P
  <1>7. /\ InOrder(t, P, resume'[t], result') /\ IsSeq(resume'[t])
        /\ resume'[t] = Kept(disk[t]) \/ \E y : resume'[t] = Append(Kept(disk[t]), y)
        /\ null' # None => resume' = resume /\ null' = null
    <2>1. CASE resume' = resume /\ null' = null
      BY <1>1, <1>6, <2>1 DEF AheadInv, InOrder
    <2>2. CASE /\ resume' = [resume EXCEPT ![t] = Append(@, null)] /\ null' = None
               /\ resume[t] = Kept(disk[t]) /\ Open(t, Program(t), resume[t], result, null.after)
               /\ null = [answers |-> t, after |-> null.after]
      <3>1. resume'[t] = Append(resume[t], [answers |-> t, after |-> null.after])
        BY <1>1, <2>2 DEF ShapeInv
      <3>2. InOrder(t, P, Append(resume[t], [answers |-> t, after |-> null.after]), result')
        BY <1>1, <1>5, <1>6, <2>2, InOrderNext DEF P
      <3>3. IsSeq(resume'[t])
        BY <3>1, <3>2 DEF InOrder
      <3>. QED BY <2>2, <3>1, <3>2, <3>3
    <2>. QED BY <2>1, <2>2
  <1>8. TaskInv(t)'
    <2>1. HeardInv(t)'
      BY <1>2, <1>7 DEF HeardInv, P
    <2>2. DiskInv(t)'
      BY <1>1, <1>2, <1>5 DEF DiskInv, saver, P
    <2>3. ShownInv(t)' /\ AheadInv(t)'
      BY <1>1, <1>2, <1>7 DEF ShownInv, AheadInv, saver
    <2>4. EndedInv(t)'
      BY <1>1 DEF EndedInv, saver
    <2>5. BareInv(t)'
      BY <1>1, <1>2, <1>5, <1>7 DEF BareInv, saver, P
    <2>. QED BY <2>1, <2>2, <2>3, <2>4, <2>5 DEF TaskInv
  <1>9. ShapeInv
    BY <1>1
  <1>10. /\ disk' = [disk EXCEPT ![t] = disk'[t]] /\ status' = [status EXCEPT ![t] = status'[t]]
         /\ committed' = [committed EXCEPT ![t] = committed'[t]]
         /\ budget' = [crashes |-> budget.crashes, failures |-> budget'.failures]
         /\ null' \in {null, None} /\ UNCHANGED <<diskNull, kept>>
    BY <1>9 DEF ShapeInv, saver
  <1>. QED BY <1>4, <1>8, <1>10, OneTask

LEMMA ReplayKeeps ==
    ASSUME SetupsOK, DialogueInv, NEW t \in Tasks, Replay(t)
    PROVE  DialogueInv'
  <1>. DEFINE x == resume[t][Before(t, "ask") + 1]
  <1>1. ShapeInv /\ HeardInv(t) /\ IsProgram(Program(t)) /\ IsSeq(resume[t])
        /\ Before(t, "ask") = Count(Program(t), Len(heard[t]), "ask")
    BY TaskFacts
  <1>2. /\ phase = "on" /\ status[t] = "runs" /\ Hear(t, x)
        /\ Len(heard[t]) < Len(Program(t)) /\ Program(t)[Len(heard[t]) + 1] = "ask"
        /\ Before(t, "ask") < Len(resume[t])
        /\ UNCHANGED <<setup, phase, saver, null, given, resume, status, committed, result,
                       shown, runs, budget>>
    BY DEF Replay, At
  <1>3. heard'[t] = Append(heard[t], x)
    BY <1>1, <1>2 DEF ShapeInv, Hear
  <1>4. Fits(t, Program(t), resume[t], result, heard'[t])
    BY <1>1, <1>2, <1>3, FitsAnswer DEF HeardInv
  <1>5. /\ result' = [c \in Calls |-> result'[c]] /\ runs' = [c \in Calls |-> runs'[c]]
        /\ \A c \in Calls : result[c] # None => result'[c] = result[c]
    BY <1>1, <1>2 DEF ShapeInv
  <1>. HIDE DEF x
  <1>. QED BY <1>2, <1>4, <1>5, HearKeeps

LEMMA TakeNullKeeps ==
    ASSUME SetupsOK, DialogueInv, NEW t \in Tasks, TakeNull(t)
    PROVE  DialogueInv'
  <1>. DEFINE P == Program(t)
              R == Append(resume[t], null)
  <1>1. ShapeInv /\ HeardInv(t) /\ IsProgram(P) /\ IsSeq(resume[t])
        /\ Before(t, "ask") = Count(P, Len(heard[t]), "ask") /\ AroundInv /\ BareInv(t)
        /\ Before(t, "ask") <= Len(resume[t]) /\ Before(t, "ask") \in Nat
        /\ Len(resume[t]) \in Nat /\ setup \in Setups
    BY TaskFacts
  <1>2. /\ phase = "on" /\ status[t] = "runs" /\ Hear(t, null)
        /\ Len(heard[t]) < Len(P) /\ P[Len(heard[t]) + 1] = "ask"
        /\ Before(t, "ask") >= Len(resume[t]) /\ null # None /\ null' = None
        /\ resume' = [resume EXCEPT ![t] = Append(@, null)]
        /\ UNCHANGED <<setup, phase, saver, given, status, committed, result, shown, runs,
                       budget>>
    BY DEF TakeNull, At
  <1>3. heard'[t] = Append(heard[t], null) /\ resume'[t] = R
    BY <1>1, <1>2 DEF ShapeInv, Hear
  <1>4. ~setup.mapped
    BY <1>1, <1>2, ProgramsAre DEF AroundInv
  <1>5. resume[t] = Kept(disk[t]) /\ Open(t, P, resume[t], result, null.after)
        /\ null = [answers |-> t, after |-> null.after]
    BY <1>1, <1>2, <1>4 DEF BareInv
  <1>6. Count(P, Len(heard[t]), "ask") = Len(resume[t])
    BY <1>1, <1>2
  <1>7. IsSeq(R) /\ Len(R) = Len(resume[t]) + 1 /\ R[Len(resume[t]) + 1] = null
    BY <1>1, SeqFacts
  <1>8. Fits(t, P, R, result, heard[t])
    BY <1>1, FitsMoreAnswers DEF HeardInv
  <1>9. Fits(t, P, R, result, Append(heard[t], null))
    <2>. HIDE DEF R, P
    <2>1. Count(P, Len(heard[t]), "ask") < Len(R)
          /\ R[Count(P, Len(heard[t]), "ask") + 1] = null
      BY <1>1, <1>6, <1>7
    <2>. QED BY <1>1, <1>2, <1>7, <1>8, <2>1, FitsAnswer
  <1>10. /\ result' = [c \in Calls |-> result'[c]] /\ runs' = [c \in Calls |-> runs'[c]]
         /\ \A c \in Calls : result[c] # None => result'[c] = result[c]
    BY <1>1, <1>2 DEF ShapeInv
  <1>11. Fits(t, P, resume'[t], result', heard'[t])
    BY <1>2, <1>3, <1>9
  <1>. QED BY <1>2, <1>5, <1>10, <1>11, HearKeeps

LEMMA CallKeeps ==
    ASSUME SetupsOK, NoneIsNoFunction, DialogueInv, NEW t \in Tasks, Call(t)
    PROVE  DialogueInv'
  <1>. DEFINE P == Program(t)
              c == CallOf(t)
              n == runs[c] + 1
              m == Count(P, Len(heard[t]), "call") + 1
  <1>1. ShapeInv /\ HeardInv(t) /\ IsProgram(P) /\ IsSeq(resume[t])
        /\ Before(t, "call") = Count(P, Len(heard[t]), "call")
        /\ Len(heard[t]) \in Nat /\ Len(P) \in Nat
    BY TaskFacts
  <1>2. /\ phase = "on" /\ status[t] = "runs"
        /\ Len(heard[t]) < Len(P) /\ P[Len(heard[t]) + 1] = "call"
        /\ UNCHANGED <<setup, phase, saver, null, given, resume, status, committed, shown,
                       budget>>
    BY DEF Call, At
  <1>3. c = <<t, m>>
    BY <1>1 DEF CallOf
  <1>4. c \in Calls
    <2>. DEFINE k == Len(heard[t]) + 1
    <2>1. k \in 1 .. Len(P) /\ k - 1 = Len(heard[t]) /\ P[k] = "call"
      BY <1>1, <1>2
    <2>. HIDE DEF k, P
    <2>2. Count(P, k - 1, "call") + 1 \in 1 .. Counted(P, "call")
      BY <1>1, <2>1, CallIsCounted
    <2>3. m \in 1 .. Counted(P, "call")
      BY <2>1, <2>2
    <2>. QED BY <1>3, <2>3 DEF Calls, P
  <1>5. /\ result' = [d \in Calls |-> result'[d]] /\ runs' = [d \in Calls |-> runs'[d]]
        /\ \A d \in Calls : result[d] # None => result'[d] = result[d]
        /\ Hear(t, result'[c]) /\ result'[c] # None
    <2>1. CASE result[c] # None
      <3>1. Hear(t, result[c]) /\ result' = result /\ runs' = runs
        BY <2>1 DEF Call
      <3>. QED BY <1>1, <2>1, <3>1 DEF ShapeInv
    <2>2. CASE result[c] = None
      <3>1. /\ runs' = [runs EXCEPT ![c] = n] /\ result' = [result EXCEPT ![c] = Result(c, n)]
            /\ Hear(t, Result(c, n))
        BY <2>2 DEF Call
      <3>2. Result(c, n) # None
        BY NothingIsNoRecord
      <3>. HIDE DEF c, n
      <3>3. result'[c] = Result(c, n)
        BY <1>1, <1>4, <3>1 DEF ShapeInv
      <3>. QED BY <1>1, <1>4, <2>2, <3>1, <3>2, <3>3 DEF ShapeInv
    <2>. QED BY <2>1, <2>2
  <1>6. heard'[t] = Append(heard[t], result'[c])
    BY <1>1, <1>5 DEF ShapeInv, Hear
  <1>7. \A i \in 1 .. Counted(P, "call") :
            result[<<t, i>>] # None => result'[<<t, i>>] = result[<<t, i>>]
    BY <1>5 DEF Calls
  <1>8. Fits(t, P, resume[t], result', heard[t])
    BY <1>1, <1>7, FitsMoreResults DEF HeardInv
  <1>9. Fits(t, P, resume[t], result', heard'[t])
    <2>1. result'[<<t, m>>] # None /\ heard'[t] = Append(heard[t], result'[<<t, m>>])
      BY <1>3, <1>5, <1>6
    <2>. HIDE DEF c, P
    <2>2. Fits(t, P, resume[t], result', Append(heard[t], result'[<<t, m>>]))
      BY <1>1, <1>2, <1>8, <2>1, FitsResult
    <2>. QED BY <2>1, <2>2
  <1>. HIDE DEF c
  <1>. QED BY <1>2, <1>5, <1>9, HearKeeps

\* A node that ends leaves its writes to the saver.
LEMMA CommitKeeps ==
    ASSUME SetupsOK, NoneIsNoFunction, DialogueInv, NEW t \in Tasks, NEW as, NEW w,
           phase = "on", status[t] \in {"idle", "runs"}, Commit(t, as, w),
           UNCHANGED <<setup, phase, saver, null, given, resume, heard, result, shown, runs>>,
           budget' = [crashes |-> budget.crashes, failures |-> budget'.failures],
           budget'.failures > 0 => budget.failures > 0,
           as \in {"asks", "over", "failed"},
           as = "asks" => /\ w = InterruptWrites(t)
                          /\ Open(t, Program(t), resume[t], result, heard[t]),
           as = "over" => /\ w = LastWrites(t)
                          /\ Len(heard[t]) = Len(Program(t)),
           as = "failed" => w = Error(t) /\ setup.mapped
    PROVE  DialogueInv'
  <1>1. ShapeInv /\ HeardInv(t) /\ DiskInv(t) /\ AheadInv(t) /\ EndedInv(t) /\ BareInv(t)
    BY TaskFacts
  <1>2. /\ Program(t)' = Program(t) /\ Kept(disk[t])' = Kept(disk[t]) /\ Known' = Known
    BY SameSetup DEF Kept, Known, saver
  <1>3. status' = [status EXCEPT ![t] = as] /\ committed' = [committed EXCEPT ![t] = w]
        /\ status'[t] = as /\ committed'[t] = w
    BY <1>1 DEF Commit, ShapeInv
  <1>4. /\ Sent(t)' = Sent(t) /\ InterruptWrites(t)' = InterruptWrites(t)
        /\ Error(t)' = Error(t) /\ LastWrites(t)' = LastWrites(t)
    <2>1. Sent(t)' = Sent(t)
      BY SameSetup DEF Sent, Before
    <2>. QED BY <2>1 DEF InterruptWrites, Error, LastWrites
  <1>5. TaskInv(t)'
    <2>1. HeardInv(t)'
      BY <1>1, <1>2 DEF HeardInv
    <2>2. DiskInv(t)'
      BY <1>1, <1>2 DEF DiskInv, saver
    <2>3. ShownInv(t)' /\ AheadInv(t)'
      BY <1>1, <1>2 DEF ShownInv, AheadInv, saver
    <2>4. EndedInv(t)'
      <3>1. ~disk'[t].over /\ heard'[t] = heard[t] /\ resume'[t] = resume[t] /\ result' = result
        BY <1>1 DEF EndedInv, saver
      <3>2. CASE as = "asks"
        BY <1>2, <1>3, <1>4, <3>1, <3>2 DEF EndedInv
      <3>3. CASE as = "over"
        <4>1. committed'[t] = LastWrites(t)'
          BY <1>3, <1>4, <3>3
        <4>. QED BY <1>2, <1>3, <3>1, <3>3, <4>1 DEF EndedInv
      <3>4. CASE as = "failed"
        BY <1>3, <1>4, <3>1, <3>4 DEF EndedInv
      <3>. QED BY <3>2, <3>3, <3>4
    <2>5. BareInv(t)'
      BY <1>1, <1>2, <1>3 DEF BareInv, saver
    <2>. QED BY <2>1, <2>2, <2>3, <2>4, <2>5 DEF TaskInv
  <1>. QED BY <1>1, <1>3, <1>5, OneTask DEF ShapeInv, saver

LEMMA InterruptKeeps ==
    ASSUME SetupsOK, NoneIsNoFunction, DialogueInv, NEW t \in Tasks, Interrupt(t)
    PROVE  DialogueInv'
  <1>1. ShapeInv /\ HeardInv(t) /\ AroundInv /\ Before(t, "ask") <= Len(resume[t])
        /\ Before(t, "ask") \in Nat /\ Len(resume[t]) \in Nat
        /\ Before(t, "ask") = Count(Program(t), Len(heard[t]), "ask")
    BY TaskFacts
  <1>2. /\ phase = "on" /\ status[t] = "runs" /\ Commit(t, "asks", InterruptWrites(t))
        /\ Len(heard[t]) < Len(Program(t)) /\ Program(t)[Len(heard[t]) + 1] = "ask"
        /\ Before(t, "ask") >= Len(resume[t])
        /\ UNCHANGED <<setup, phase, saver, null, given, resume, heard, result, shown, runs>>
        /\ budget' = budget
    BY DEF Interrupt, At
  <1>3. Count(Program(t), Len(heard[t]), "ask") = Len(resume[t])
    BY <1>1, <1>2
  <1>4. Open(t, Program(t), resume[t], result, heard[t])
    BY <1>1, <1>2, <1>3 DEF Open, HeardInv, AtQuestion
  <1>5. budget' = [crashes |-> budget.crashes, failures |-> budget'.failures]
    BY <1>1, <1>2 DEF ShapeInv
  <1>. QED BY <1>2, <1>4, <1>5, CommitKeeps

LEMMA FinishKeeps ==
    ASSUME SetupsOK, NoneIsNoFunction, DialogueInv, NEW t \in Tasks, Finish(t)
    PROVE  DialogueInv'
  <1>1. ShapeInv
    BY DEF DialogueInv
  <1>2. /\ phase = "on" /\ status[t] = "runs" /\ Len(heard[t]) = Len(Program(t))
        /\ Commit(t, "over", LastWrites(t))
        /\ UNCHANGED <<setup, phase, saver, null, given, resume, heard, result, shown, runs>>
        /\ budget' = budget
    BY DEF Finish
  <1>3. budget' = [crashes |-> budget.crashes, failures |-> budget'.failures]
    BY <1>1, <1>2 DEF ShapeInv
  <1>. QED BY <1>2, <1>3, CommitKeeps

LEMMA FailKeeps ==
    ASSUME SetupsOK, NoneIsNoFunction, DialogueInv, NEW t \in Tasks, Fail(t)
    PROVE  DialogueInv'
  <1>1. ShapeInv /\ AroundInv /\ setup \in Setups
    BY DEF DialogueInv, AroundInv
  <1>2. /\ phase = "on" /\ status[t] = "runs" /\ budget.failures > 0
        /\ Commit(t, "failed", Error(t))
        /\ UNCHANGED <<setup, phase, saver, null, given, resume, heard, result, shown, runs>>
        /\ budget' = [budget EXCEPT !.failures = @ - 1]
    BY DEF Fail
  <1>3. budget' = [crashes |-> budget.crashes, failures |-> budget'.failures]
    BY <1>1, <1>2 DEF ShapeInv
  <1>4. setup.mapped
    BY <1>1, <1>2, ProgramsAre DEF AroundInv
  <1>. QED BY <1>2, <1>3, <1>4, CommitKeeps

LEMMA CancelKeeps ==
    ASSUME SetupsOK, NoneIsNoFunction, DialogueInv, NEW t \in Tasks, Cancel(t)
    PROVE  DialogueInv'
  <1>1. ShapeInv
    BY DEF DialogueInv
  <1>2. /\ phase = "on" /\ status[t] \in {"idle", "runs"} /\ Commit(t, "failed", Error(t))
        /\ UNCHANGED <<setup, phase, saver, null, given, resume, heard, result, shown, runs>>
        /\ budget' = budget
    BY DEF Cancel, At
  <1>3. PICK u \in Tasks : status[u] = "failed"
    BY DEF Cancel
  <1>4. setup.mapped
    <2>1. BareInv(u)
      BY TaskFacts
    <2>. QED BY <1>2, <1>3, <2>1 DEF BareInv
  <1>5. budget' = [crashes |-> budget.crashes, failures |-> budget'.failures]
    BY <1>1, <1>2 DEF ShapeInv
  <1>. QED BY <1>2, <1>4, <1>5, CommitKeeps

\* What a task's saved writes become.
LEMMA SavedWrites ==
    ASSUME SetupsOK, NoneIsNoFunction, DialogueInv, NEW t \in Tasks, SaveTask(t)
    PROVE  /\ status[t] \in {"asks", "over", "failed"}
           /\ disk' = [disk EXCEPT ![t] = disk'[t]]
           /\ disk'[t] = Merge(disk[t], committed[t])
           /\ Kept(disk'[t]) \in {Kept(disk[t]), resume[t]}
           /\ ~disk[t].over
           /\ Kept(disk'[t]) = resume[t] => InOrder(t, Program(t), resume[t], result)
           /\ status[t] = "asks" => /\ disk'[t].asked = heard[t] /\ ~disk'[t].over
                                    /\ (~disk[t].failed => ~disk'[t].failed)
                                    /\ Kept(disk'[t]) = resume[t]
           /\ status[t] = "over" => /\ disk'[t].over /\ disk'[t].asked = disk[t].asked
                                    /\ (~disk[t].failed => ~disk'[t].failed)
                                    /\ Len(heard[t]) = Len(Program(t))
                                    /\ disk'[t].told = resume[t]
                                    /\ InOrder(t, Program(t), resume[t], result)
           /\ status[t] = "failed" => ~disk'[t].over /\ disk'[t].failed
  <1>1. /\ ShapeInv /\ HeardInv(t) /\ DiskInv(t) /\ AheadInv(t) /\ EndedInv(t) /\ BareInv(t)
        /\ IsSeq(heard[t]) /\ Len(heard[t]) \in Nat /\ IsSeq(resume[t])
        /\ IsSeq(Kept(disk[t])) /\ Len(Kept(disk[t])) \in Nat
        /\ Before(t, "ask") = Count(Program(t), Len(heard[t]), "ask")
        /\ IsProgram(Program(t)) /\ Len(Program(t)) \in Nat
    BY TaskFacts
  <1>2. phase = "on" /\ committed[t] # None
        /\ disk' = [disk EXCEPT ![t] = Merge(@, committed[t])]
    BY DEF SaveTask
  <1>3. disk'[t] = Merge(disk[t], committed[t])
    BY <1>1, <1>2 DEF ShapeInv
  <1>4. status[t] \in {"asks", "over", "failed"} /\ ~disk[t].over
    BY <1>1, <1>2 DEF EndedInv
  <1>5. heard[t] # None /\ resume[t] # None
    BY <1>1, NothingIsNoSeq
  <1>6. /\ InterruptWrites(t).resume = Sent(t) /\ InterruptWrites(t).asked = heard[t]
        /\ ~InterruptWrites(t).failed /\ ~InterruptWrites(t).over
        /\ Error(t).resume = Sent(t) /\ Error(t).failed /\ ~Error(t).over
        /\ LET w == LastWrites(t)
           IN  w.resume = Sent(t) /\ w.asked = None /\ ~w.failed /\ w.over /\ w.told = resume[t]
    BY DEF InterruptWrites, Error, LastWrites, NoWrites
  <1>7. /\ status[t] = "asks" => /\ Open(t, Program(t), resume[t], result, heard[t])
                                 /\ committed[t] = InterruptWrites(t)
        /\ status[t] = "over" =>
             /\ committed[t] = LastWrites(t)
             /\ Len(heard[t]) = Len(Program(t))
        /\ status[t] = "failed" => committed[t] = Error(t)
    BY <1>1, <1>2 DEF EndedInv
  <1>8. committed[t].resume = Sent(t)
    BY <1>4, <1>6, <1>7
  <1>9. disk'[t].resume = IF Replaces(disk[t], committed[t]) THEN Sent(t) ELSE disk[t].resume
    BY <1>3, <1>8 DEF Merge
  <1>10. Sent(t) = None <=> Before(t, "ask") = 0
    BY <1>5 DEF Sent
  <1>11. /\ Before(t, "ask") = 0 => Kept(disk'[t]) = Kept(disk[t])
         /\ Before(t, "ask") # 0 /\ ~committed[t].over => Kept(disk'[t]) = resume[t]
         /\ Kept(disk'[t]) \in {Kept(disk[t]), resume[t]}
    <2>1. Replaces(disk[t], committed[t]) => Sent(t) # None
      BY <1>8 DEF Replaces
    <2>2. Sent(t) # None /\ ~committed[t].over => Replaces(disk[t], committed[t])
      BY <1>8 DEF Replaces
    <2>. QED BY <1>5, <1>9, <1>10, <2>1, <2>2 DEF Kept, Sent
  <1>12. status[t] = "asks" => Kept(disk'[t]) = resume[t]
    <2>. SUFFICES ASSUME status[t] = "asks", Before(t, "ask") = 0
                  PROVE  Kept(disk[t]) = resume[t]
      BY <1>6, <1>7, <1>11
    <2>1. Len(resume[t]) = 0
      BY <1>1, <1>7 DEF Open, AtQuestion
    <2>2. \A x : Len(Append(Kept(disk[t]), x)) # 0
      BY <1>1, SeqFacts
    <2>3. resume[t] = Kept(disk[t]) \/ \E x : resume[t] = Append(Kept(disk[t]), x)
      BY <1>1, <1>2 DEF AheadInv
    <2>4. ~committed[t].over
      BY <1>6, <1>7
    <2>. QED BY <2>1, <2>2, <2>3, <2>4
  <1>13. InOrder(t, Program(t), resume[t], result)
    BY <1>1, <1>2 DEF HeardInv
  <1>14. /\ status[t] = "asks" => /\ disk'[t].asked = heard[t] /\ ~disk'[t].over
                                  /\ (~disk[t].failed => ~disk'[t].failed)
         /\ status[t] = "over" => /\ disk'[t].over /\ disk'[t].asked = disk[t].asked
                                  /\ (~disk[t].failed => ~disk'[t].failed)
                                  /\ disk'[t].told = resume[t]
         /\ status[t] = "failed" => ~disk'[t].over /\ disk'[t].failed
    <2>1. /\ disk'[t].asked = IF committed[t].asked = None THEN disk[t].asked
                                ELSE committed[t].asked
          /\ disk'[t].failed = (disk[t].failed \/ committed[t].failed)
          /\ disk'[t].over = (disk[t].over \/ committed[t].over)
          /\ committed[t].over => disk'[t].told = committed[t].told
      BY <1>3 DEF Merge
    <2>2. CASE status[t] = "asks"
      <3>1. committed[t].asked = heard[t] /\ ~committed[t].failed /\ ~committed[t].over
        BY <1>6, <1>7, <2>2
      <3>. QED BY <1>4, <1>5, <2>1, <2>2, <3>1
    <2>3. CASE status[t] = "over"
      <3>1. committed[t].asked = None /\ ~committed[t].failed /\ committed[t].over
            /\ committed[t].told = resume[t]
        BY <1>6, <1>7, <2>3
      <3>. QED BY <2>1, <2>3, <3>1
    <2>4. CASE status[t] = "failed"
      <3>1. committed[t].failed /\ ~committed[t].over
        BY <1>6, <1>7, <2>4
      <3>. QED BY <1>4, <2>1, <2>4, <3>1
    <2>. QED BY <1>4, <2>2, <2>3, <2>4
  <1>15. disk' = [disk EXCEPT ![t] = disk'[t]]
    BY <1>2, <1>3
  <1>. QED BY <1>3, <1>4, <1>7, <1>11, <1>12, <1>13, <1>14, <1>15

LEMMA SaveTaskKeeps ==
    ASSUME SetupsOK, NoneIsNoFunction, DialogueInv, NEW t \in Tasks, SaveTask(t)
    PROVE  DialogueInv'
  <1>1. /\ ShapeInv /\ HeardInv(t) /\ DiskInv(t) /\ AheadInv(t) /\ EndedInv(t) /\ BareInv(t)
        /\ IsSeq(heard[t]) /\ setup \in Setups
    BY TaskFacts
  <1>2. phase = "on" /\ committed' = [committed EXCEPT ![t] = None]
        /\ UNCHANGED <<setup, phase, diskNull, kept, null, given, resume, status, heard, result,
                       shown, runs, budget>>
    BY DEF SaveTask
  <1>3. committed'[t] = None
    BY <1>1, <1>2 DEF ShapeInv
  <1>4. heard[t] # None
    BY <1>1, NothingIsNoSeq
  <1>5. Program(t)' = Program(t) /\ Known' = result /\ Known = result
        /\ Kept(disk[t])' = Kept(disk'[t])
    BY <1>2, SameSetup DEF Known, Kept
  <1>6. /\ status[t] \in {"asks", "over", "failed"}
        /\ disk' = [disk EXCEPT ![t] = disk'[t]]
        /\ InOrder(t, Program(t), Kept(disk'[t]), result)
        /\ status[t] = "asks" => /\ disk'[t].asked = heard[t] /\ ~disk'[t].over
                                 /\ (~disk[t].failed => ~disk'[t].failed)
                                 /\ Kept(disk'[t]) = resume[t]
                                 /\ Open(t, Program(t), resume[t], result, heard[t])
        /\ status[t] = "over" => /\ disk'[t].over /\ disk'[t].asked = disk[t].asked
                                 /\ (~disk[t].failed => ~disk'[t].failed)
        /\ status[t] = "failed" => ~disk'[t].over /\ disk'[t].failed
    <2>1. InOrder(t, Program(t), Kept(disk[t]), result)
      BY <1>1, <1>5 DEF DiskInv
    <2>2. status[t] = "asks" => Open(t, Program(t), resume[t], result, heard[t])
      BY <1>1, <1>2 DEF EndedInv
    <2>. QED BY <2>1, <2>2, SavedWrites
  <1>7. TaskInv(t)'
    <2>1. HeardInv(t)'
      BY <1>1, <1>2, <1>5 DEF HeardInv
    <2>2. DiskInv(t)'
      BY <1>5, <1>6 DEF DiskInv
    <2>3. ShownInv(t)' /\ AheadInv(t)'
      BY <1>2, <1>3, <1>6 DEF ShownInv, AheadInv
    <2>4. EndedInv(t)'
      BY <1>2, <1>3, <1>5, <1>6 DEF EndedInv
    <2>5. BareInv(t)'
      BY <1>1, <1>2, <1>4, <1>6 DEF BareInv
    <2>. QED BY <2>1, <2>2, <2>3, <2>4, <2>5 DEF TaskInv
  <1>. QED BY <1>1, <1>2, <1>3, <1>6, <1>7, OneTask DEF ShapeInv

LEMMA SaveResultKeeps ==
    ASSUME SetupsOK, DialogueInv, NEW c \in Calls, SaveResult(c)
    PROVE  DialogueInv'
  <1>1. ShapeInv /\ AroundInv /\ setup \in Setups /\ \A t \in Tasks : TaskInv(t)
    BY DEF DialogueInv, AroundInv
  <1>2. /\ phase = "on" /\ kept' = [kept EXCEPT ![c] = result[c]]
        /\ UNCHANGED <<setup, phase, disk, diskNull, null, given, resume, status, heard,
                       committed, result, shown, runs, budget>>
    BY DEF SaveResult, memory
  <1>3. Tasks' = Tasks /\ Calls' = Calls
    BY <1>2, SameSetup
  <1>4. ShapeInv'
    BY <1>1, <1>2, <1>3 DEF ShapeInv
  <1>5. AroundInv'
    BY <1>1, <1>2, <1>3 DEF AroundInv, ShapeInv
  <1>6. ASSUME NEW t \in Tasks PROVE TaskInv(t)'
    <2>1. TaskInv(t)
      BY <1>1
    <2>. QED BY <1>1, <1>2, <2>1, Elsewhere
  <1>. QED BY <1>3, <1>4, <1>5, <1>6 DEF DialogueInv

LEMMA SaveNullKeeps ==
    ASSUME SetupsOK, DialogueInv, SaveNull
    PROVE  DialogueInv'
  <1>1. ShapeInv /\ AroundInv /\ setup \in Setups /\ \A t \in Tasks : TaskInv(t)
    BY DEF DialogueInv, AroundInv
  <1>2. /\ phase = "on" /\ diskNull' = given
        /\ UNCHANGED <<setup, phase, disk, kept, null, given, resume, status, heard,
                       committed, result, shown, runs, budget>>
    BY DEF SaveNull, memory
  <1>3. Tasks' = Tasks /\ Calls' = Calls
    BY <1>2, SameSetup
  <1>4. ShapeInv'
    BY <1>1, <1>2, <1>3 DEF ShapeInv
  <1>5. AroundInv'
    BY <1>1, <1>2, <1>3 DEF AroundInv
  <1>6. ASSUME NEW t \in Tasks PROVE TaskInv(t)'
    <2>1. TaskInv(t)
      BY <1>1
    <2>. QED BY <1>1, <1>2, <2>1, Elsewhere
  <1>. QED BY <1>3, <1>4, <1>5, <1>6 DEF DialogueInv

\* An invocation begins with the answers of the human; one without an id goes to the task
\* that was alone to ask.
LEMMA BeginKeeps ==
    ASSUME SetupsOK, NoneIsNoFunction, DialogueInv, NEW mapped \in SUBSET Asking, NEW bare,
           Begin(mapped, bare),
           setup.mapped => bare = None,
           ~setup.mapped => mapped = {},
           ~setup.mapped /\ bare # None =>
               \A t \in Tasks : shown[t] # None /\ bare = Answer(t)
    PROVE  DialogueInv'
  <1>1. ShapeInv /\ AroundInv /\ setup \in Setups
    BY DEF DialogueInv, AroundInv
  <1>2. /\ phase = "off" /\ phase' = "on"
        /\ resume' = [t \in Tasks |-> IF t \in mapped THEN Append(Kept(disk[t]), Answer(t))
                                      ELSE Kept(disk[t])]
        /\ given' = bare /\ null' = bare
        /\ status' = [t \in Tasks |-> IF disk[t].over THEN "over" ELSE "idle"]
        /\ heard' = [t \in Tasks |-> <<>>] /\ committed' = [t \in Tasks |-> None]
        /\ result' = kept
        /\ UNCHANGED <<setup, disk, diskNull, kept, runs, budget>> /\ shown' = NoneShown
    BY DEF Begin, saver
  <1>3. Tasks' = Tasks /\ Calls' = Calls
    BY <1>2, SameSetup
  <1>4. ShapeInv'
    <2>1. shown' = [t \in Tasks |-> shown'[t]]
      BY <1>2 DEF NoneShown
    <2>. QED BY <1>1, <1>2, <1>3, <2>1 DEF ShapeInv
  <1>5. AroundInv'
    BY <1>1, <1>2, <1>3 DEF AroundInv
  <1>6. ASSUME NEW t \in Tasks PROVE TaskInv(t)'
    <2>. DEFINE P == Program(t)
                R == Kept(disk[t])
    <2>1. /\ DiskInv(t) /\ ShownInv(t) /\ BareInv(t) /\ IsProgram(P) /\ IsSeq(R)
      BY TaskFacts
    <2>2. /\ resume'[t] = IF t \in mapped THEN Append(R, Answer(t)) ELSE R
          /\ status'[t] = IF disk[t].over THEN "over" ELSE "idle"
          /\ heard'[t] = <<>> /\ committed'[t] = None
          /\ disk'[t] = disk[t] /\ Program(t)' = P
      BY <1>2, SameSetup
    <2>3. Known = kept /\ Known' = kept /\ Kept(disk[t])' = R
      BY <1>2 DEF Known, Kept
    <2>. HIDE DEF P, R
    <2>4. InOrder(t, P, R, kept)
      BY <2>1, <2>3 DEF DiskInv, P, R
    <2>5. ~disk[t].over /\ shown[t] # None => Open(t, P, R, kept, shown[t])
      BY <1>2, <2>1 DEF ShownInv, P, R
    <2>6. status'[t] # "over" => InOrder(t, P, resume'[t], kept)
      <3>1. CASE t \in mapped /\ ~disk[t].over
        <4>1. shown[t] # None
          BY <3>1 DEF Asking
        <4>2. InOrder(t, P, Append(R, [answers |-> t, after |-> shown[t]]), kept)
          BY <2>1, <2>4, <2>5, <3>1, <4>1, InOrderNext
        <4>. QED BY <2>2, <3>1, <4>2 DEF Answer
      <3>2. CASE t \notin mapped
        BY <2>2, <2>4, <3>2
      <3>3. CASE disk[t].over
        BY <2>2, <3>3
      <3>. QED BY <3>1, <3>2, <3>3
    <2>7. IsSeq(resume'[t])
      BY <2>1, <2>2, SeqFacts
    <2>8. HeardInv(t)'
      BY <1>2, <2>1, <2>2, <2>6, <2>7, FitsNothing DEF HeardInv
    <2>9. DiskInv(t)'
      BY <2>1, <2>2, <2>3 DEF DiskInv, P, R
    <2>10. ShownInv(t)' /\ AheadInv(t)'
      <3>1. ShownInv(t)'
        BY <1>2 DEF ShownInv
      <3>2. AheadInv(t)'
        BY <2>2, <2>3 DEF AheadInv
      <3>. QED BY <3>1, <3>2
    <2>11. EndedInv(t)'
      BY <2>2 DEF EndedInv
    <2>12. BareInv(t)'
      <3>. SUFFICES ASSUME ~setup.mapped PROVE BareInv(t)'
        BY <1>2 DEF BareInv
      <3>1. ~disk'[t].failed /\ status'[t] # "failed" /\ resume'[t] = R
        BY <2>1, <2>2 DEF BareInv
      <3>2. diskNull # None \/ bare # None => disk[t].asked # None
        BY <1>2, <2>1 DEF BareInv
      <3>3. ASSUME bare # None, status'[t] \in {"idle", "runs"}
            PROVE  /\ bare = [answers |-> t, after |-> bare.after]
                   /\ Open(t, P, R, kept, bare.after)
        <4>1. shown[t] # None /\ bare = [answers |-> t, after |-> shown[t]]
          BY <3>3 DEF Answer
        <4>2. ~disk[t].over
          BY <2>2, <3>3
        <4>. QED BY <2>5, <4>1, <4>2
      <3>. QED BY <1>2, <2>2, <2>3, <3>1, <3>2, <3>3 DEF BareInv
    <2>. QED BY <2>8, <2>9, <2>10, <2>11, <2>12 DEF TaskInv
  <1>. QED BY <1>3, <1>4, <1>5, <1>6 DEF DialogueInv

LEMMA HumanKeeps ==
    ASSUME SetupsOK, NoneIsNoFunction, DialogueInv, Human
    PROVE  DialogueInv'
  <1>1. AroundInv /\ setup \in Setups /\ \A t \in Tasks : BareInv(t)
    BY DEF DialogueInv, AroundInv, TaskInv
  <1>2. CASE Continue
    <2>1. Begin({}, diskNull) /\ (setup.mapped \/ Asking = {}) /\ phase = "off"
      BY <1>2 DEF Continue, Begin
    <2>2. setup.mapped => diskNull = None
      BY <1>1 DEF AroundInv
    <2>3. ASSUME ~setup.mapped, diskNull # None, NEW t \in Tasks PROVE FALSE
      <3>1. shown[t] # None
        BY <1>1, <2>1, <2>3 DEF BareInv
      <3>. QED BY <2>1, <2>3, <3>1 DEF Asking
    <2>. QED BY <2>1, <2>2, <2>3, BeginKeeps
  <1>3. CASE AnswerById
    <2>1. setup.mapped /\ diskNull = None
      BY <1>1, <1>3 DEF AnswerById, AroundInv
    <2>2. PICK mapped \in (SUBSET Asking) \ {{}} : Begin(mapped, diskNull)
      BY <1>3 DEF AnswerById
    <2>. QED BY <2>1, <2>2, BeginKeeps
  <1>4. CASE AnswerBare
    <2>1. ~setup.mapped
      BY <1>4 DEF AnswerBare
    <2>2. PICK t \in Asking : Begin({}, Answer(t))
      BY <1>4 DEF AnswerBare
    <2>3. t \in Tasks /\ shown[t] # None
      BY DEF Asking
    <2>4. \A u \in Tasks : u = t
      BY <1>1, <2>1, <2>3, ProgramsAre
    <2>5. \A u \in Tasks : shown[u] # None /\ Answer(t) = Answer(u)
      BY <2>3, <2>4
    <2>. QED BY <2>1, <2>2, <2>5, BeginKeeps
  <1>. QED BY <1>2, <1>3, <1>4 DEF Human

LEMMA ReturnKeeps ==
    ASSUME SetupsOK, NoneIsNoFunction, DialogueInv, Return
    PROVE  DialogueInv'
  <1>1. ShapeInv /\ AroundInv /\ setup \in Setups
    BY DEF DialogueInv, AroundInv
  <1>2. /\ phase = "on" /\ (\A t \in Tasks : committed[t] = None) /\ result = kept
        /\ given = diskNull
        /\ phase' = IF \A t \in Tasks : status[t] = "over" THEN "over" ELSE "off"
        /\ UNCHANGED <<setup, disk, diskNull, kept, null, given, resume, status, heard,
                       committed, result, runs, budget>>
        /\ shown' = IF \E t \in Tasks : status[t] = "failed" THEN NoneShown
                    ELSE [t \in Tasks |-> IF status[t] = "asks" THEN disk[t].asked ELSE None]
        /\ \A t \in Tasks : status[t] \in {"over", "asks", "failed"}
    BY DEF Return, Saved, Ended, saver, memory
  <1>3. Tasks' = Tasks /\ Calls' = Calls
    BY <1>2, SameSetup
  <1>4. ShapeInv'
    <2>1. shown' = [t \in Tasks |-> shown'[t]]
      BY <1>2 DEF NoneShown
    <2>. QED BY <1>1, <1>2, <1>3, <2>1 DEF ShapeInv
  <1>5. AroundInv'
    BY <1>1, <1>2, <1>3 DEF AroundInv
  <1>6. ASSUME NEW t \in Tasks PROVE TaskInv(t)'
    <2>1. /\ HeardInv(t) /\ DiskInv(t) /\ EndedInv(t) /\ BareInv(t)
      BY TaskFacts
    <2>2. /\ Program(t)' = Program(t) /\ Known = kept /\ Known' = kept
          /\ Kept(disk[t])' = Kept(disk[t])
      BY <1>2, SameSetup DEF Known, Kept
    <2>3. shown'[t] # None => status[t] = "asks" /\ shown'[t] = disk[t].asked
      BY <1>2 DEF NoneShown
    <2>4. InterruptWrites(t) # None
      <3>1. InterruptWrites(t) = [x \in DOMAIN InterruptWrites(t) |-> InterruptWrites(t)[x]]
        BY DEF InterruptWrites, NoWrites
      <3>. QED BY <3>1 DEF NoneIsNoFunction
    <2>5. status[t] = "asks" => /\ Open(t, Program(t), resume[t], result, heard[t])
                                /\ Kept(disk[t]) = resume[t] /\ disk[t].asked = heard[t]
      BY <1>2, <2>1, <2>4 DEF EndedInv
    <2>6. HeardInv(t)'
      BY <1>2, <2>1, <2>2 DEF HeardInv
    <2>7. DiskInv(t)'
      BY <1>2, <2>1, <2>2 DEF DiskInv
    <2>8. ShownInv(t)'
      BY <1>2, <2>2, <2>3, <2>5 DEF ShownInv
    <2>9. AheadInv(t)' /\ EndedInv(t)'
      BY <1>2 DEF AheadInv, EndedInv
    <2>10. BareInv(t)'
      <3>. SUFFICES ASSUME ~setup.mapped PROVE BareInv(t)'
        BY <1>2 DEF BareInv
      <3>1. \A u \in Tasks : u = t
        BY <1>1, ProgramsAre
      <3>2. status[t] # "failed" /\ ~disk[t].failed
        BY <1>2, <2>1 DEF BareInv
      <3>3. diskNull # None => disk[t].asked # None
        BY <1>2, <2>1 DEF BareInv
      <3>4. CASE status[t] = "over"
        <4>1. phase' = "over"
          BY <1>2, <3>1, <3>4
        <4>. QED BY <1>2, <3>2, <3>3, <4>1 DEF BareInv
      <3>5. CASE status[t] = "asks"
        <4>1. shown'[t] = disk[t].asked
          BY <1>2, <3>1, <3>5
        <4>2. heard[t] # None
          BY TaskFacts, NothingIsNoSeq
        <4>3. phase' # "on"
          BY <1>2
        <4>. QED BY <1>2, <2>5, <3>2, <3>3, <3>5, <4>1, <4>2, <4>3 DEF BareInv
      <3>. QED BY <1>2, <3>2, <3>4, <3>5
    <2>. QED BY <2>6, <2>7, <2>8, <2>9, <2>10 DEF TaskInv
  <1>. QED BY <1>3, <1>4, <1>5, <1>6 DEF DialogueInv

\* A crash loses results that are not saved, on which no question rests.
LEMMA CrashKeeps ==
    ASSUME SetupsOK, DialogueInv, Crash
    PROVE  DialogueInv'
  <1>1. ShapeInv /\ AroundInv /\ setup \in Setups
    BY DEF DialogueInv, AroundInv
  <1>2. /\ phase = "on" /\ phase' = "off" /\ budget.crashes > 0
        /\ budget' = [budget EXCEPT !.crashes = @ - 1]
        /\ shown' = [t \in Tasks |-> Shown(t)]
        /\ UNCHANGED <<setup, disk, diskNull, kept, null, given, resume, status, heard,
                       committed, result, runs>>
    BY DEF Crash, saver, memory
  <1>3. Tasks' = Tasks /\ Calls' = Calls
    BY <1>2, SameSetup
  <1>4. ShapeInv'
    BY <1>1, <1>2, <1>3 DEF ShapeInv
  <1>5. AroundInv'
    <2>1. budget'.failures = budget.failures
      BY <1>1, <1>2 DEF ShapeInv
    <2>. QED BY <1>1, <1>2, <1>3, <2>1 DEF AroundInv
  <1>6. ASSUME NEW t \in Tasks PROVE TaskInv(t)'
    <2>. DEFINE P == Program(t)
                R == Kept(disk[t])
    <2>1. HeardInv(t) /\ DiskInv(t) /\ BareInv(t) /\ IsProgram(P)
      BY TaskFacts
    <2>2. /\ Program(t)' = P /\ Known = result /\ Known' = kept /\ Kept(disk[t])' = R
          /\ disk'[t] = disk[t]
      BY <1>2, SameSetup DEF Known, Kept
    <2>3. CallsLast(P)
      BY <1>1, <1>2, ProgramsAre DEF AroundInv
    <2>. HIDE DEF P, R
    <2>4. InOrder(t, P, R, kept)
      BY <2>1, <2>2, <2>3, InOrderNeedsNoResults DEF DiskInv, P, R
    <2>5. ~disk[t].over /\ ~disk[t].failed /\ disk[t].asked # None
            => Open(t, P, R, kept, disk[t].asked)
      <3>. SUFFICES ASSUME ~disk[t].over /\ ~disk[t].failed /\ disk[t].asked # None
                    PROVE  Open(t, P, R, kept, disk[t].asked)
        OBVIOUS
      <3>1. Open(t, P, R, result, disk[t].asked)
        BY <2>1, <2>2 DEF DiskInv, P, R
      <3>2. Fits(t, P, R, kept, disk[t].asked)
        BY <2>1, <2>3, <3>1, OpenNeedsNoResults DEF Open
      <3>. QED BY <3>1, <3>2 DEF Open
    <2>6. shown'[t] = IF disk[t].failed THEN None ELSE disk[t].asked
      BY <1>2 DEF Shown
    <2>7. HeardInv(t)'
      BY <1>2, <2>1, <2>2 DEF HeardInv, P
    <2>8. DiskInv(t)'
      BY <2>2, <2>4, <2>5 DEF DiskInv
    <2>9. ShownInv(t)'
      BY <1>2, <2>2, <2>5, <2>6 DEF ShownInv
    <2>10. AheadInv(t)' /\ EndedInv(t)'
      BY <1>2 DEF AheadInv, EndedInv
    <2>11. BareInv(t)'
      BY <1>2, <2>1, <2>6 DEF BareInv
    <2>. QED BY <2>7, <2>8, <2>9, <2>10, <2>11 DEF TaskInv
  <1>. QED BY <1>3, <1>4, <1>5, <1>6 DEF DialogueInv

LEMMA DialogueGoesOn ==
    ASSUME SetupsOK, NoneIsNoFunction, DialogueInv, [Next]_vars
    PROVE  DialogueInv'
  <1>1. CASE Human
    BY <1>1, HumanKeeps
  <1>2. CASE \E t \in Tasks : Task(t)
    BY <1>2, StartKeeps, ReplayKeeps, TakeNullKeeps, InterruptKeeps, CallKeeps, FinishKeeps,
       FailKeeps, CancelKeeps DEF Task
  <1>3. CASE Save
    BY <1>3, SaveNullKeeps, SaveTaskKeeps, SaveResultKeeps DEF Save
  <1>4. CASE Return
    BY <1>4, ReturnKeeps
  <1>5. CASE Crash
    BY <1>5, CrashKeeps
  <1>6. CASE UNCHANGED vars
    <2>1. UNCHANGED <<setup, phase, disk, diskNull, kept, null, given, resume, status, heard,
                      committed, result, shown, runs, budget>>
      BY <1>6 DEF vars, saver, memory
    <2>2. Tasks' = Tasks /\ Calls' = Calls /\ \A t : Program(t)' = Program(t)
      BY <2>1, SameSetup
    <2>3. \A t : /\ Kept(disk[t])' = Kept(disk[t]) /\ Sent(t)' = Sent(t)
                 /\ InterruptWrites(t)' = InterruptWrites(t) /\ Error(t)' = Error(t)
                 /\ LastWrites(t)' = LastWrites(t)
      <3>1. \A t : Sent(t)' = Sent(t) /\ Kept(disk[t])' = Kept(disk[t])
        BY <2>1, <2>2 DEF Sent, Before, Kept
      <3>. QED BY <2>1, <3>1 DEF InterruptWrites, Error, LastWrites
    <2>4. ShapeInv' /\ AroundInv'
      BY <2>1, <2>2 DEF DialogueInv, ShapeInv, AroundInv
    <2>5. ASSUME NEW t \in Tasks PROVE TaskInv(t)'
      <3>1. TaskInv(t)
        BY DEF DialogueInv
      <3>2. HeardInv(t)' /\ DiskInv(t)'
        BY <2>1, <2>2, <2>3, <3>1 DEF TaskInv, HeardInv, DiskInv, Known
      <3>3. ShownInv(t)' /\ AheadInv(t)'
        BY <2>1, <2>2, <2>3, <3>1 DEF TaskInv, ShownInv, AheadInv
      <3>4. EndedInv(t)'
        BY <2>1, <2>2, <2>3, <3>1 DEF TaskInv, EndedInv
      <3>5. BareInv(t)'
        BY <2>1, <2>2, <2>3, <3>1 DEF TaskInv, BareInv
      <3>. QED BY <3>2, <3>3, <3>4, <3>5 DEF TaskInv
    <2>. QED BY <2>2, <2>4, <2>5 DEF DialogueInv
  <1>. QED BY <1>1, <1>2, <1>3, <1>4, <1>5, <1>6 DEF Next

\* [NodeInterrupts] The invariant of answers, questions and what is saved of them holds.
THEOREM DialoguesAreInOrder ==
    ASSUME SetupsOK, NoneIsNoFunction
    PROVE  Spec => []DialogueInv
  <1>1. Init => DialogueInv
    BY DialogueBegins
  <1>2. DialogueInv /\ [Next]_vars => DialogueInv'
    BY DialogueGoesOn
  <1>. QED BY <1>1, <1>2, PTL DEF Spec

LEMMA DialogueFits ==
    ASSUME SetupsOK, DialogueInv
    PROVE  AnswersFit
  <1>. SUFFICES ASSUME NEW t \in Tasks, NEW k \in DOMAIN heard[t], Program(t)[k] = "ask"
                PROVE  heard[t][k] = [answers |-> t, after |-> SubSeq(heard[t], 1, k - 1)]
    BY DEF AnswersFit
  <1>1. HeardInv(t) /\ IsProgram(Program(t)) /\ IsSeq(heard[t])
    BY TaskFacts
  <1>2. k \in 1 .. Len(heard[t]) /\ heard[t] # <<>>
    BY <1>1, SeqFacts
  <1>3. /\ InOrder(t, Program(t), resume[t], result)
        /\ Fits(t, Program(t), resume[t], result, heard[t])
    BY <1>1, <1>2 DEF HeardInv
  <1>. DEFINE a == heard[t]
              P == Program(t)
              R == resume[t]
  <1>4. /\ k \in 1 .. Len(a) /\ P[k] = "ask" /\ IsProgram(P)
        /\ InOrder(t, P, R, result) /\ Fits(t, P, R, result, a)
    BY <1>1, <1>2, <1>3
  <1>. HIDE DEF a, P, R
  <1>5. a[k] = [answers |-> t, after |-> SubSeq(a, 1, k - 1)]
    BY <1>4, AnswerFits
  <1>. QED BY <1>5 DEF a

\* [types.interrupt] Whatever its programs, failures, crashes and saves: every answer a node
\* gets was given to the question it is at, and to that question as it asks it now.
THEOREM AnswersReachQuestions ==
    ASSUME SetupsOK, NoneIsNoFunction
    PROVE  Spec => []AnswersFit
  <1>1. Spec => []DialogueInv
    BY DialoguesAreInOrder
  <1>2. DialogueInv => AnswersFit
    BY DialogueFits
  <1>. QED BY <1>1, <1>2, PTL

-----------------------------------------------------------------------------
(* What is saved of the tasks is the dialogue that Dialogue promises.       *)

\* The first n answers of task t.
Told(t, n) == [k \in 1 .. n |-> <<t, k>>]

LEMMA ToldIsSeq ==
    ASSUME NEW t, NEW n \in Nat
    PROVE  /\ Told(t, n) \in Seq({t} \X Nat) /\ Len(Told(t, n)) = n
           /\ Append(Told(t, n), <<t, n + 1>>) = Told(t, n + 1)
           /\ Told(t, 0) = <<>>
  <1>1. ASSUME NEW m \in Nat
        PROVE  /\ Told(t, m) \in Seq({t} \X Nat) /\ Len(Told(t, m)) = m
               /\ \A k \in 1 .. m : Told(t, m)[k] = <<t, k>>
    BY DEF Told
  <1>2. Append(Told(t, n), <<t, n + 1>>) = Told(t, n + 1)
    <2>. DEFINE s == Append(Told(t, n), <<t, n + 1>>)
    <2>1. /\ IsSeq(s) /\ Len(s) = n + 1
          /\ (\A k \in 1 .. n : s[k] = <<t, k>>) /\ s[n + 1] = <<t, n + 1>>
      <3>1. IsSeq(Told(t, n)) /\ Len(Told(t, n)) = n
        BY <1>1 DEF IsSeq
      <3>2. /\ IsSeq(s) /\ Len(s) = Len(Told(t, n)) + 1
            /\ \A i \in 1 .. Len(Told(t, n)) : s[i] = Told(t, n)[i]
            /\ s[Len(Told(t, n)) + 1] = <<t, n + 1>>
        BY <3>1, SeqFacts
      <3>. HIDE DEF s
      <3>. QED BY <1>1, <3>1, <3>2
    <2>. HIDE DEF s
    <2>2. \A k \in 1 .. n + 1 : s[k] = <<t, k>>
      BY <2>1
    <2>3. /\ IsSeq(Told(t, n + 1)) /\ Len(Told(t, n + 1)) = n + 1
          /\ \A k \in 1 .. n + 1 : Told(t, n + 1)[k] = <<t, k>>
      BY <1>1 DEF IsSeq
    <2>4. s = Told(t, n + 1)
      BY <2>1, <2>2, <2>3, SameSeq
    <2>. QED BY <2>4 DEF s
  <1>3. Told(t, 0) = <<>>
    <2>1. IsSeq(Told(t, 0)) /\ Len(Told(t, 0)) = 0 /\ IsSeq(<<>>) /\ Len(<<>>) = 0
      BY <1>1 DEF IsSeq
    <2>. QED BY <2>1, SameSeq
  <1>. QED BY <1>1, <1>2, <1>3

LEMMA RecordedIs ==
    ASSUME NEW t, IsProgram(Program(t)), NEW R, NEW r, InOrder(t, Program(t), R, r),
           NEW j \in 1 .. Len(R)
    PROVE  Recorded(R[j]) = <<t, j>>
  <1>. DEFINE a == R[j].after
              P == Program(t)
  <1>1. R[j] = [answers |-> t, after |-> a] /\ AtQuestion(P, j - 1, a) /\ Fits(t, P, R, r, a)
    BY DEF InOrder
  <1>2. IsSeq(a) /\ Len(a) <= Len(P) /\ Len(P) \in Nat /\ Count(P, Len(a), "ask") = j - 1
        /\ Len(R) \in Nat
    BY <1>1, SeqFacts DEF Fits, AtQuestion, IsProgram, InOrder
  <1>3. R[j].answers = t /\ R[j].after = a
    BY <1>1
  <1>. HIDE DEF a, P
  <1>4. Len(a) \in 0 .. Len(P) /\ DOMAIN a = 1 .. Len(a)
    BY <1>2, SeqFacts
  <1>5. Cardinality({k \in DOMAIN a : P[k] = "ask"}) = j - 1
    <2>1. Count(P, Len(a), "ask") = Cardinality({k \in 1 .. Len(a) : P[k] = "ask"})
      BY <1>4, CountIsSize DEF P
    <2>. QED BY <1>2, <1>4, <2>1
  <1>6. Recorded(R[j]) = <<t, (j - 1) + 1>>
    BY <1>3, <1>5 DEF Recorded, P
  <1>. QED BY <1>2, <1>6

\* These answers are the first of task t.
StandsFor(t, R) ==
    /\ [k \in DOMAIN R |-> Recorded(R[k])] = Told(t, Len(R))
    /\ Len(R) \in Nat /\ Len(R) <= Questions(t) /\ Questions(t) \in Nat

LEMMA InOrderStands ==
    ASSUME NEW t, IsProgram(Program(t)), NEW R, NEW r, InOrder(t, Program(t), R, r)
    PROVE  StandsFor(t, R)
  <1>1. IsSeq(R)
    BY DEF InOrder
  <1>2. DOMAIN R = 1 .. Len(R) /\ Len(R) \in Nat
    BY <1>1, SeqFacts
  <1>3. \A j \in 1 .. Len(R) : Recorded(R[j]) = <<t, j>>
    BY RecordedIs
  <1>4. [k \in DOMAIN R |-> Recorded(R[k])] = Told(t, Len(R))
    BY <1>2, <1>3 DEF Told
  <1>5. Len(R) <= Questions(t) /\ Questions(t) \in Nat
    BY InOrderIsBounded DEF Questions
  <1>. QED BY <1>2, <1>4, <1>5 DEF StandsFor

\* A task's own writes come of its first answers.
ToldInv(t) == disk[t].over => StandsFor(t, disk[t].told)

RecordInv == \A t \in Tasks : ToldInv(t)

LEMMA SameStands ==
    ASSUME setup' = setup, NEW t, NEW R
    PROVE  StandsFor(t, R)' <=> StandsFor(t, R)
  <1>1. \A u : Program(u)' = Program(u)
    BY SameSetup
  <1>. QED BY <1>1 DEF StandsFor, Recorded, Questions

LEMMA SameTold ==
    ASSUME setup' = setup, NEW t, disk'[t] = disk[t], ToldInv(t)
    PROVE  ToldInv(t)'
  <1>1. \A u : Program(u)' = Program(u)
    BY SameSetup
  <1>. QED BY <1>1 DEF ToldInv, StandsFor, Recorded, Questions

LEMMA SaveIsTold ==
    ASSUME SetupsOK, NoneIsNoFunction, DialogueInv, RecordInv,
           NEW t \in Tasks, SaveTask(t)
    PROVE  RecordInv'
  <1>1. setup' = setup /\ Tasks' = Tasks /\ IsProgram(Program(t)) /\ ShapeInv
    <2>1. setup' = setup
      BY DEF SaveTask
    <2>. QED BY <2>1, SameSetup, TaskFacts
  <1>2. /\ status[t] \in {"asks", "over", "failed"}
        /\ disk' = [disk EXCEPT ![t] = disk'[t]]
        /\ disk'[t].over => /\ disk'[t].told = resume[t]
                            /\ InOrder(t, Program(t), resume[t], result)
    BY SavedWrites
  <1>3. ASSUME NEW u \in Tasks, u # t PROVE ToldInv(u)'
    <2>1. disk'[u] = disk[u] /\ ToldInv(u)
      BY <1>1, <1>2, <1>3 DEF ShapeInv, RecordInv
    <2>. QED BY <1>1, <2>1, SameTold
  <1>4. ToldInv(t)'
    <2>. SUFFICES ASSUME disk'[t].over PROVE StandsFor(t, disk[t].told)'
      BY DEF ToldInv
    <2>1. StandsFor(t, resume[t]) /\ disk'[t].told = resume[t]
      BY <1>1, <1>2, InOrderStands
    <2>2. \A v : Program(v)' = Program(v)
      BY <1>1, SameSetup
    <2>. QED BY <2>1, <2>2 DEF StandsFor, Recorded, Questions
  <1>. QED BY <1>1, <1>3, <1>4 DEF RecordInv

LEMMA AnswersAre ==
    ASSUME SetupsOK, DialogueInv, RecordInv, NEW t \in Tasks
    PROVE  StandsFor(t, Standing(disk[t]))
  <1>1. CASE disk[t].over
    BY <1>1 DEF RecordInv, ToldInv, Standing
  <1>2. CASE ~disk[t].over
    <2>1. IsProgram(Program(t)) /\ InOrder(t, Program(t), Kept(disk[t]), Known)
      BY TaskFacts DEF DiskInv
    <2>2. StandsFor(t, Kept(disk[t]))
      BY <2>1, InOrderStands
    <2>. QED BY <1>2, <2>2 DEF Standing
  <1>. QED BY <1>1, <1>2

\* The record, as the mapping of NodeInterrupts forms it.
Asked == [t \in Tasks |-> Questions(t)]
Answered == [t \in Tasks |-> [k \in DOMAIN Standing(disk[t]) |-> Recorded(Standing(disk[t])[k])]]
Results == {<<c[1], c[2], kept[c].run>> : c \in {d \in Calls : kept[d] # None}}
Over == {t \in Tasks : disk[t].over}

LEMMA RecordBegins ==
    ASSUME SetupsOK, Init
    PROVE  Promise!Init /\ RecordInv
  <1>2. \A t \in Tasks : disk[t] = NoWrites
    BY DEF Init
  <1>3. ASSUME NEW t \in Tasks
        PROVE  Answered[t] = <<>> /\ ~disk[t].over
    <2>1. Standing(disk[t]) = <<>> /\ disk[t].over = FALSE
      BY <1>2 DEF Standing, Kept, NoWrites
    <2>2. Answered[t] = [k \in DOMAIN <<>> |-> Recorded(<<>>[k])]
      BY <2>1 DEF Answered
    <2>3. DOMAIN <<>> = 1 .. 0
      OBVIOUS
    <2>4. Answered[t] = Told(t, 0)
      BY <2>2, <2>3 DEF Told
    <2>. QED BY <2>1, <2>4, ToldIsSeq
  <1>4. Answered = [t \in DOMAIN Asked |-> <<>>]
    BY <1>3 DEF Answered, Asked
  <1>5. Results = {}
    BY DEF Init, Results
  <1>6. Over = {}
    BY <1>3 DEF Over
  <1>7. RecordInv
    BY <1>3 DEF RecordInv, ToldInv
  <1>. QED BY <1>4, <1>5, <1>6, <1>7 DEF Promise!Init, Answered, Asked, Results, Over

\* A task's writes are saved: its record is written.
LEMMA SaveIsRecord ==
    ASSUME SetupsOK, NoneIsNoFunction, DialogueInv, DialogueInv', RecordInv, RecordInv',
           NEW t \in Tasks, SaveTask(t)
    PROVE  Promise!Record(t)
  <1>. DEFINE old == Len(Standing(disk[t]))
              new == Len(Standing(disk'[t]))
  <1>1. /\ ShapeInv /\ AheadInv(t) /\ IsProgram(Program(t))
        /\ Before(t, "ask") = Count(Program(t), Len(heard[t]), "ask")
        /\ Before(t, "ask") <= Len(resume[t]) /\ Before(t, "ask") \in Nat
        /\ Len(resume[t]) \in Nat /\ IsSeq(Kept(disk[t]))
    BY TaskFacts
  <1>2. /\ phase = "on" /\ committed[t] # None
        /\ UNCHANGED <<setup, kept, heard, resume>>
    BY DEF SaveTask
  <1>3. Tasks' = Tasks /\ Calls' = Calls /\ \A u : Program(u)' = Program(u)
    BY <1>2, SameSetup
  <1>4. /\ disk' = [disk EXCEPT ![t] = disk'[t]] /\ ~disk[t].over
        /\ Standing(disk'[t]) \in {Kept(disk[t]), resume[t]}
        /\ Standing(disk[t]) = Kept(disk[t])
        /\ disk'[t].over => /\ Len(heard[t]) = Len(Program(t))
                            /\ Standing(disk'[t]) = resume[t]
    BY SavedWrites DEF Standing
  <1>5. \A u \in Tasks : u # t => disk'[u] = disk[u]
    BY <1>1, <1>4 DEF ShapeInv
  <1>6. Asked' = Asked
    BY <1>3 DEF Asked, Questions
  <1>7. Results' = Results
    BY <1>2, <1>3 DEF Results
  <1>8. \A u \in Tasks : /\ Answered[u] = Told(u, Len(Standing(disk[u])))
                         /\ Asked[u] = Questions(u) /\ Questions(u) \in Nat
                         /\ Len(Standing(disk[u])) \in Nat
    BY AnswersAre DEF Answered, Asked, StandsFor
  <1>9. ASSUME NEW u \in Tasks
        PROVE  /\ Answered'[u] = Told(u, Len(Standing(disk'[u])))
               /\ Len(Standing(disk'[u])) \in Nat /\ Len(Standing(disk'[u])) <= Questions(u)
    <2>1. StandsFor(u, Standing(disk'[u]))
      <3>1. CASE disk'[u].over
        <4>1. StandsFor(u, disk[u].told)'
          BY <1>3, <3>1 DEF RecordInv, ToldInv
        <4>2. StandsFor(u, disk'[u].told)
          BY <1>3, <4>1 DEF StandsFor, Recorded, Questions
        <4>. QED BY <3>1, <4>2 DEF Standing
      <3>2. CASE ~disk'[u].over
        <4>1. DiskInv(u)'
          BY <1>3 DEF DialogueInv, TaskInv
        <4>2. Kept(disk[u])' = Kept(disk'[u])
          BY DEF Kept
        <4>3. InOrder(u, Program(u), Kept(disk'[u]), Known') /\ IsProgram(Program(u))
          BY <1>3, <4>1, <4>2, TaskFacts DEF DiskInv
        <4>4. StandsFor(u, Kept(disk'[u]))
          BY <4>3, InOrderStands
        <4>. QED BY <3>2, <4>4 DEF Standing
      <3>. QED BY <3>1, <3>2
    <2>2. Answered'[u] = [k \in DOMAIN Standing(disk'[u]) |-> Recorded(Standing(disk'[u])[k])]
      BY <1>3 DEF Answered, Standing, Kept, Recorded
    <2>. QED BY <2>1, <2>2 DEF StandsFor
  <1>10. new \in Nat /\ old \in Nat /\ new \in {old, old + 1}
    <2>1. old \in Nat /\ \A x : Len(Append(Kept(disk[t]), x)) = old + 1
      BY <1>1, <1>4, SeqFacts
    <2>2. resume[t] = Kept(disk[t]) \/ \E x : resume[t] = Append(Kept(disk[t]), x)
      BY <1>1, <1>2 DEF AheadInv
    <2>. QED BY <1>1, <1>4, <2>1, <2>2
  <1>11. Answered = [u \in Tasks |-> Answered[u]] /\ Answered' = [u \in Tasks |-> Answered'[u]]
    BY <1>3 DEF Answered
  <1>12. \A u \in Tasks : u # t => Answered'[u] = Answered[u]
    BY <1>5, <1>8, <1>9
  <1>13. \/ Answered' = Answered
         \/ Answered' = [Answered EXCEPT ![t] = Append(@, <<t, Len(Answered[t]) + 1>>)]
    <2>1. Answered[t] = Told(t, old) /\ Answered'[t] = Told(t, new) /\ Len(Told(t, old)) = old
      BY <1>8, <1>9, <1>10, ToldIsSeq
    <2>2. CASE new = old
      BY <1>11, <1>12, <2>1, <2>2
    <2>3. CASE new = old + 1
      <3>1. Answered'[t] = Append(Answered[t], <<t, Len(Answered[t]) + 1>>)
        BY <1>10, <2>1, <2>3, ToldIsSeq
      <3>. QED BY <1>11, <1>12, <3>1
    <2>. QED BY <1>10, <2>2, <2>3
  <1>14. \A u \in Tasks : Len(Answered'[u]) <= Asked[u]
    <2>. SUFFICES ASSUME NEW u \in Tasks PROVE Len(Answered'[u]) <= Asked[u]
      OBVIOUS
    <2>1. Len(Answered'[u]) = Len(Standing(disk'[u]))
      BY <1>9, ToldIsSeq
    <2>. QED BY <1>8, <1>9, <2>1
  <1>15. \/ Over' = Over
         \/ Over' = Over \cup {t} /\ Len(Answered'[t]) = Asked[t]
    <2>1. CASE ~disk'[t].over
      BY <1>3, <1>4, <1>5, <2>1 DEF Over
    <2>2. CASE disk'[t].over
      <3>1. Over' = Over \cup {t}
        BY <1>3, <1>5, <2>2 DEF Over
      <3>2. Before(t, "ask") = Questions(t)
        BY <1>1, <1>4, <2>2, CountAll DEF Questions
      <3>3. new = Questions(t)
        BY <1>1, <1>4, <1>8, <1>9, <2>2, <3>2
      <3>4. Len(Answered'[t]) = new
        BY <1>9, ToldIsSeq
      <3>. QED BY <1>8, <3>1, <3>3, <3>4
    <2>. QED BY <2>1, <2>2
  <1>16. t \notin Over /\ DOMAIN Asked = Tasks
    BY <1>4 DEF Over, Asked
  <1>. QED BY <1>6, <1>7, <1>13, <1>14, <1>15, <1>16
       DEF Promise!Record, Promise!NextAnswer, Answered, Asked, Results, Over

LEMMA SaveIsKeep ==
    ASSUME SetupsOK, NoneIsNoFunction, DialogueInv, NEW c \in Calls, SaveResult(c)
    PROVE  Promise!Keep
  <1>. DEFINE new == <<c[1], c[2], result[c].run>>
  <1>1. ShapeInv /\ AroundInv
    BY DEF DialogueInv
  <1>2. /\ phase = "on" /\ result[c] # kept[c] /\ kept' = [kept EXCEPT ![c] = result[c]]
        /\ UNCHANGED <<setup, disk>>
    BY DEF SaveResult
  <1>3. Tasks' = Tasks /\ Calls' = Calls /\ \A t : Program(t)' = Program(t)
    BY <1>2, SameSetup
  <1>4. kept[c] = None /\ result[c] # None
    BY <1>1, <1>2 DEF AroundInv
  <1>5. kept'[c] = result[c] /\ \A d \in Calls : d # c => kept'[d] = kept[d]
    BY <1>1, <1>2 DEF ShapeInv
  <1>6. Results' = Results \cup {new}
    BY <1>3, <1>4, <1>5 DEF Results
  <1>7. \A d \in Calls : d = <<d[1], d[2]>>
    BY DEF Calls
  <1>8. \A old \in Results : <<old[1], old[2]>> # <<new[1], new[2]>>
    BY <1>4, <1>7 DEF Results
  <1>9. Asked' = Asked /\ Over' = Over
    BY <1>2, <1>3 DEF Asked, Over, Questions
  <1>10. Answered' = Answered
    <2>1. \A t : Standing(disk[t])' = Standing(disk[t])
      BY <1>2 DEF Standing, Kept
    <2>2. \A x : Recorded(x)' = Recorded(x)
      BY <1>3 DEF Recorded
    <2>. QED BY ONLY <1>3, <2>1, <2>2 DEF Answered
  <1>11. new \in Results'
    BY <1>6
  <1>. HIDE DEF new
  <1>. QED BY <1>6, <1>8, <1>9, <1>10, <1>11
       DEF Promise!Keep, Answered, Asked, Results, Over

LEMMA OthersRecordNothing ==
    ASSUME UNCHANGED <<setup, disk, kept>>
    PROVE  UNCHANGED Promise!vars
  <1>1. Tasks' = Tasks /\ Calls' = Calls /\ \A t : Program(t)' = Program(t)
    BY SameSetup
  <1>2. Asked' = Asked /\ Over' = Over /\ Results' = Results
    BY <1>1 DEF Asked, Over, Questions, Results
  <1>3. Answered' = Answered
    <2>1. \A t : Standing(disk[t])' = Standing(disk[t])
      BY DEF Standing, Kept
    <2>2. \A x : Recorded(x)' = Recorded(x)
      BY <1>1 DEF Recorded
    <2>. QED BY <1>1, <2>1, <2>2 DEF Answered
  <1>4. UNCHANGED <<Asked, Answered, Results, Over>>
    BY <1>2, <1>3
  <1>. QED BY ONLY <1>4 DEF Promise!vars, Answered, Asked, Results, Over

LEMMA RecordGoesOn ==
    ASSUME SetupsOK, NoneIsNoFunction, DialogueInv, DialogueInv', RecordInv, [Next]_vars
    PROVE  RecordInv' /\ [Promise!Next]_(Promise!vars)
  <1>1. ASSUME NEW t \in Tasks, SaveTask(t) PROVE RecordInv' /\ Promise!Next
    <2>1. RecordInv'
      BY <1>1, SaveIsTold
    <2>2. Promise!Record(t)
      BY <1>1, <2>1, SaveIsRecord
    <2>3. t \in DOMAIN Asked
      BY DEF Asked
    <2>. QED BY <2>1, <2>2, <2>3 DEF Promise!Next, Asked
  <1>2. ASSUME NEW c \in Calls, SaveResult(c) PROVE RecordInv' /\ Promise!Next
    <2>1. Promise!Next
      BY <1>2, SaveIsKeep DEF Promise!Next
    <2>2. UNCHANGED <<setup, disk>>
      BY <1>2 DEF SaveResult
    <2>. QED BY <2>1, <2>2, SameSetup, SameTold DEF RecordInv
  <1>3. CASE UNCHANGED <<setup, disk, kept>>
    <2>1. UNCHANGED Promise!vars
      BY <1>3, OthersRecordNothing
    <2>2. ASSUME NEW t \in Tasks PROVE ToldInv(t)'
      BY <1>3, SameTold DEF RecordInv
    <2>3. Tasks' = Tasks
      BY <1>3, SameSetup
    <2>4. RecordInv'
      BY <2>2, <2>3 DEF RecordInv
    <2>. QED BY <2>1, <2>4
  <1>4. CASE Human
    BY <1>3, <1>4 DEF Human, Continue, AnswerById, AnswerBare, Begin, saver
  <1>5. CASE \E t \in Tasks : Task(t)
    BY <1>3, <1>5 DEF Task, Start, Replay, TakeNull, Interrupt, Call, Finish, Fail, Cancel, saver
  <1>6. CASE Save
    BY <1>1, <1>2, <1>3, <1>6 DEF Save, SaveNull
  <1>7. CASE Return \/ Crash \/ UNCHANGED vars
    BY <1>3, <1>7 DEF Return, Crash, vars, saver
  <1>. QED BY <1>4, <1>5, <1>6, <1>7 DEF Next

\* [put_writes, commit] Whatever fails, crashes or is not saved in time, with either kind of
\* saver, what is saved of the tasks stands for a dialogue in order, and a task whose own
\* writes are saved made them with all of its answers: NodeInterrupts implements Dialogue.
THEOREM DialoguesAreRecorded ==
    ASSUME SetupsOK, NoneIsNoFunction
    PROVE  Spec => ImplementsDialogue
  <1>1. Init => Promise!Init /\ RecordInv
    BY RecordBegins
  <1>2. DialogueInv /\ DialogueInv' /\ RecordInv /\ [Next]_vars
          => RecordInv' /\ [Promise!Next]_(Promise!vars)
    BY RecordGoesOn
  <1>3. Spec => []DialogueInv
    BY DialoguesAreInOrder
  <1>. QED BY <1>1, <1>2, <1>3, PTL DEF Spec, ImplementsDialogue, Promise!Spec
=============================================================================
