----------------------------- MODULE WorkProofs -----------------------------
(***************************************************************************)
(* Machine-checked theorems about the parts MCWork puts side by side: the   *)
(* tool that runs generated code (CodeSandbox), for every set of programs,  *)
(* every policy verdict and ending, and every number of retries; and the    *)
(* task runner's tick, for all that it may be called with.                  *)
(***************************************************************************)
EXTENDS MCWork, TLAPS

-----------------------------------------------------------------------------
(* The tool that runs generated code.                                       *)


\* What links the file on disk and the counter to the runs so far: the script
\* about to be spawned is the accepted program in hand, and every run but the
\* one being judged has been counted as a failed attempt.
SandboxInv ==
  /\ TypeOK
  /\ pc \in {"attempt", "spawn", "wait"} => code \in Programs
  /\ pc = "spawn" => script = code /\ Safe[code]
  /\ pc = "wait" => child = code /\ child \in Programs
  /\ pc \in {"start", "attempt", "spawn", "wait", "judge", "debug"} => attempt <= MaxRetries
  /\ pc \in {"start", "attempt", "spawn", "debug"} => Len(ran) <= attempt
  /\ pc \in {"wait", "judge"} => Len(ran) <= attempt + 1
  /\ Len(ran) <= MaxRetries + 1
  /\ OnlySafeProgramsRun

LEMMA SandboxInductive == SandboxInv /\ [Next]_vars => SandboxInv'
<1> SUFFICES ASSUME SandboxInv, [Next]_vars PROVE SandboxInv'
  OBVIOUS
<1> USE RetriesAssumption DEF SandboxInv, TypeOK
<1>1. CASE Generate
  <2>1. UNCHANGED ran /\ Len(ran) \in Nat /\ attempt \in Nat
    BY <1>1 DEF Generate
  <2> QED BY <1>1, <2>1 DEF Generate, OnlySafeProgramsRun
<1>2. CASE Reject
  <2>1. UNCHANGED ran /\ Len(ran) \in Nat /\ attempt \in Nat
    BY <1>2 DEF Reject
  <2> QED BY <1>2, <2>1 DEF Reject, OnlySafeProgramsRun, NoResult, None
<1>3. CASE WriteScript
  <2>1. UNCHANGED ran /\ Len(ran) \in Nat /\ attempt \in Nat
    BY <1>3 DEF WriteScript
  <2> QED BY <1>3, <2>1 DEF WriteScript, OnlySafeProgramsRun
<1>4. CASE Spawn
  <2>1. script \in Programs /\ Safe[script] /\ ran' = Append(ran, script)
    BY <1>4 DEF Spawn
  <2>0. ran \in Seq(Programs)
    OBVIOUS
  <2>2. /\ ran' \in Seq(Programs) /\ Len(ran') = Len(ran) + 1
        /\ DOMAIN ran' = 1..(Len(ran) + 1) /\ DOMAIN ran = 1..Len(ran)
        /\ \A i \in 1..Len(ran) : ran'[i] = ran[i]
        /\ ran'[Len(ran) + 1] = script /\ Len(ran) \in Nat
    BY <2>1, <2>0
  <2>3. OnlySafeProgramsRun'
    BY <2>1, <2>2 DEF OnlySafeProgramsRun
  <2>4. Len(ran) \in Nat /\ attempt \in Nat
    OBVIOUS
  <2> QED BY <1>4, <2>1, <2>2, <2>3, <2>4 DEF Spawn
<1>5. CASE ChildEnds
  <2>1. UNCHANGED ran /\ Len(ran) \in Nat /\ attempt \in Nat
    BY <1>5 DEF ChildEnds
  <2>2. Ends[child] \in {"zero", "nonzero"}
    BY <1>5, ProgramsAssumption DEF ChildEnds
  <2> QED BY <1>5, <2>1, <2>2 DEF ChildEnds, OnlySafeProgramsRun, None
<1>6. CASE Timeout
  <2>1. UNCHANGED ran /\ Len(ran) \in Nat /\ attempt \in Nat
    BY <1>6 DEF Timeout
  <2> QED BY <1>6, <2>1 DEF Timeout, OnlySafeProgramsRun, NoResult, None
<1>7. CASE Return
  <2>1. UNCHANGED ran /\ Len(ran) \in Nat /\ attempt \in Nat
    BY <1>7 DEF Return
  <2> QED BY <1>7, <2>1 DEF Return, OnlySafeProgramsRun
<1>8. CASE CountFailure
  <2>1. UNCHANGED ran /\ Len(ran) \in Nat /\ attempt \in Nat
    BY <1>8 DEF CountFailure
  <2> QED BY <1>8, <2>1 DEF CountFailure, OnlySafeProgramsRun
<1>9. CASE Debug
  <2>1. UNCHANGED ran /\ Len(ran) \in Nat /\ attempt \in Nat
    BY <1>9 DEF Debug
  <2> QED BY <1>9, <2>1 DEF Debug, OnlySafeProgramsRun
<1>10. CASE UNCHANGED vars
  BY <1>10 DEF vars, OnlySafeProgramsRun
<1> QED BY <1>1, <1>2, <1>3, <1>4, <1>5, <1>6, <1>7, <1>8, <1>9, <1>10 DEF Next

\* What the last result says of the last run: a result is a success only while it
\* is judged or after the tool returned it, and then the program in hand ran last.
RunInv ==
  /\ pc = "wait" => Len(ran) > 0 /\ ran[Len(ran)] = code
  /\ Succeeded => pc \in {"judge", "returned"} /\ Len(ran) > 0 /\ ran[Len(ran)] = code
  /\ pc = "returned" /\ ~Succeeded => attempt = MaxRetries + 1

LEMMA RunInductive == SandboxInv /\ RunInv /\ [Next]_vars => RunInv'
<1> SUFFICES ASSUME SandboxInv, RunInv, [Next]_vars PROVE RunInv'
  OBVIOUS
<1> USE DEF RunInv, Succeeded
<1>1. ran \in Seq(Programs) /\ attempt \in Nat /\ MaxRetries \in Nat
  BY RetriesAssumption DEF SandboxInv, TypeOK
<1>2. CASE Generate
  BY <1>2 DEF Generate
<1>3. CASE Reject
  BY <1>3 DEF Reject
<1>4. CASE WriteScript
  BY <1>4 DEF WriteScript
<1>5. CASE Spawn
  <2>1. script = code /\ code \in Programs /\ ran' = Append(ran, code)
    BY <1>5 DEF Spawn, SandboxInv
  <2>2. Len(ran') > 0 /\ ran'[Len(ran')] = code
    BY <1>1, <2>1
  <2> QED BY <1>5, <2>2 DEF Spawn
<1>6. CASE ChildEnds
  BY <1>6 DEF ChildEnds
<1>7. CASE Timeout
  BY <1>7 DEF Timeout
<1>8. CASE Return
  BY <1>8 DEF Return
<1>9. CASE CountFailure
  <2>1. attempt <= MaxRetries
    BY <1>9 DEF CountFailure, SandboxInv
  <2> QED BY <1>1, <1>9, <2>1 DEF CountFailure
<1>10. CASE Debug
  BY <1>10 DEF Debug
<1>11. CASE UNCHANGED vars
  BY <1>11 DEF vars
<1> QED BY <1>2, <1>3, <1>4, <1>5, <1>6, <1>7, <1>8, <1>9, <1>10, <1>11 DEF Next

\* Whatever the LLM writes and however the repairs go, a program that the policy
\* rejects is never executed, and at most MaxRetries + 1 programs are.
THEOREM SandboxSafe == Spec => [](TypeOK /\ OnlySafeProgramsRun /\ Len(ran) <= MaxRetries + 1)
<1>1. Init => SandboxInv
  BY RetriesAssumption DEF Init, SandboxInv, TypeOK, OnlySafeProgramsRun, NoResult, None
<1>2. SandboxInv => TypeOK /\ OnlySafeProgramsRun /\ Len(ran) <= MaxRetries + 1
  BY DEF SandboxInv
<1> QED BY <1>1, <1>2, SandboxInductive, PTL DEF Spec

\* One approval of the tool buys at most MaxRetries + 1 executions; none follows
\* one that succeeded, and who gives up has used every attempt.
THEOREM SandboxBounded == Spec => []RunsAreBounded
<1>1. Init => SandboxInv /\ RunInv
  BY RetriesAssumption DEF Init, SandboxInv, RunInv, Succeeded, TypeOK,
     OnlySafeProgramsRun, NoResult, None
<1>2. SandboxInv /\ RunInv => RunsAreBounded
  BY DEF SandboxInv, RunInv, RunsAreBounded
<1>3. SandboxInv /\ RunInv /\ [Next]_vars => (SandboxInv /\ RunInv)'
  BY SandboxInductive, RunInductive
<1> QED BY <1>1, <1>2, <1>3, PTL DEF Spec

-----------------------------------------------------------------------------
(* The tick. A step of MCWork is one of the runner's or leaves the runner as *)
(* it is, so that what PregelRunnerProofs shows of it holds here.           *)

LEMMA RunnerSteps == [WorkNext]_all => [Runner!Next]_(Runner!vars)
<1> SUFFICES ASSUME [WorkNext]_all PROVE [Runner!Next]_(Runner!vars)
  OBVIOUS
<1>1. ASSUME UNCHANGED tick PROVE UNCHANGED Runner!vars
  BY <1>1 DEF tick, Runner!vars, Runner!control, Runner!shared, Runner!threads
<1>2. Runner!Next \/ UNCHANGED tick
  BY DEF WorkNext, Sandbox, all
<1> QED BY <1>1, <1>2

\* For any tasks of a superstep, any of which call others, any number of workers and
\* attempts, with or without a waiter and a step timeout: tick lets the superstep end
\* only when every task has succeeded and is committed, a caller that waits for a result
\* is given it only after it was committed, and a superstep that timed out does not pass
\* for done.
THEOREM TicksAreOrdered == WorkSpec => []TickIsOrdered
<1>1. WorkInit => Runner!Init
  BY DEF WorkInit
<1>2. Runner!Spec => [](Runner!TypeOK /\ Runner!ProceedMeansCommitted
                        /\ Runner!WaitersSeeCommitted /\ Runner!TimeoutIsRaised)
  BY RunnerSetups, Runner!TickIsOrdered
<1>3. Runner!ProceedMeansCommitted /\ Runner!WaitersSeeCommitted /\ Runner!TimeoutIsRaised
        => TickIsOrdered
  BY DEF TickIsOrdered
<1> QED BY <1>1, <1>2, <1>3, RunnerSteps, PTL DEF WorkSpec, Runner!Spec
=============================================================================
