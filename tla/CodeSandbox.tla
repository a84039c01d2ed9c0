----------------------------- MODULE CodeSandbox -----------------------------
(***************************************************************************)
(* The tool generate_and_run_code: handle_code_execution of                *)
(* examples/hitl_agent_demo.py asks the LLM for Python, hands it to        *)
(* run_python_code (sandbox/runner.py) behind the policy check             *)
(* (sandbox/policies.py), and lets the LLM repair it after a failure.      *)
(*                                                                         *)
(* A program is a member of Programs; what the code can tell of it is      *)
(* whether is_code_safe accepts it (Safe) and how its process ends (Ends). *)
(***************************************************************************)
EXTENDS Naturals, Sequences

CONSTANTS Programs,     \* programs the LLM may write
          Safe,         \* is_code_safe: [Programs -> BOOLEAN]
          Ends,         \* [Programs -> {"zero", "nonzero", "hangs"}]
          MaxRetries    \* max_retries of handle_code_execution

ASSUME RetriesAssumption == MaxRetries \in Nat
ASSUME ProgramsAssumption == /\ Safe \in [Programs -> BOOLEAN]
                             /\ Ends \in [Programs -> {"zero", "nonzero", "hangs"}]

None == "none"

VARIABLES
  pc,       \* where handle_code_execution is
  code,     \* the program in hand
  attempt,  \* the loop counter
  script,   \* content of sandbox/temp_exec/script.py
  child,    \* the program the child process runs, or None
  result,   \* status and returncode of run_python_code
  ran       \* auxiliary: the programs that were executed, in order

vars == <<pc, code, attempt, script, child, result, ran>>

NoResult == [status |-> None, returncode |-> None]

Init == /\ pc = "start" /\ code = None /\ attempt = 0
        /\ script \in Programs \cup {None}   \* left by an earlier task
        /\ child = None /\ result = NoResult /\ ran = <<>>

\* The first completion request; an API error is not caught.
Generate ==
  /\ pc = "start"
  /\ \/ pc' = "attempt" /\ code' \in Programs
     \/ pc' = "raised" /\ UNCHANGED code
  /\ UNCHANGED <<attempt, script, child, result, ran>>

\* is_code_safe refuses: nothing is written, nothing runs.
Reject ==
  /\ pc = "attempt" /\ ~Safe[code]
  /\ result' = [status |-> "rejected", returncode |-> None]
  /\ pc' = "judge"
  /\ UNCHANGED <<code, attempt, script, child, ran>>

\* Mutant: the file is written before it is checked, and what is there is run.
WriteScriptUnchecked ==
  /\ pc = "attempt"
  /\ script' = code
  /\ pc' = "spawn"
  /\ UNCHANGED <<code, attempt, child, result, ran>>

\* script.py is overwritten with the accepted program.
WriteScript ==
  /\ pc = "attempt" /\ Safe[code]
  /\ script' = code
  /\ pc' = "spawn"
  /\ UNCHANGED <<code, attempt, child, result, ran>>

\* subprocess.run starts the interpreter on script.py, whatever it holds now.
Spawn ==
  /\ pc = "spawn"
  /\ child' = script
  /\ ran' = Append(ran, script)
  /\ pc' = "wait"
  /\ UNCHANGED <<code, attempt, script, result>>

\* The child ends by itself: status "success" whatever the return code.
ChildEnds ==
  /\ pc = "wait" /\ Ends[child] # "hangs"
  /\ result' = [status |-> "success", returncode |-> Ends[child]]
  /\ child' = None
  /\ pc' = "judge"
  /\ UNCHANGED <<code, attempt, script, ran>>

\* Mutant: no timeout is passed to subprocess.run.
TimeoutNever == FALSE /\ UNCHANGED vars

\* TimeoutExpired: subprocess.run has killed the child.  A slow program can be
\* caught by the timeout as well as one that never ends.
Timeout ==
  /\ pc = "wait"
  /\ result' = [status |-> "timeout", returncode |-> None]
  /\ child' = None
  /\ pc' = "judge"
  /\ UNCHANGED <<code, attempt, script, ran>>

Succeeded == result.status = "success" /\ result.returncode = "zero"

Return ==
  /\ pc = "judge" /\ Succeeded
  /\ pc' = "returned"
  /\ UNCHANGED <<code, attempt, script, child, result, ran>>

\* Mutant: the retry counter is compared before it is incremented.
CountFailureLate ==
  /\ pc = "judge" /\ ~Succeeded
  /\ attempt' = attempt + 1
  /\ pc' = IF attempt > MaxRetries THEN "returned" ELSE "debug"
  /\ UNCHANGED <<code, script, child, result, ran>>

CountFailure ==
  /\ pc = "judge" /\ ~Succeeded
  /\ attempt' = attempt + 1
  /\ pc' = IF attempt + 1 > MaxRetries THEN "returned" ELSE "debug"
  /\ UNCHANGED <<code, script, child, result, ran>>

\* The repair request; again an API error is not caught.
Debug ==
  /\ pc = "debug"
  /\ \/ pc' = "attempt" /\ code' \in Programs
     \/ pc' = "raised" /\ UNCHANGED code
  /\ UNCHANGED <<attempt, script, child, result, ran>>

Next == \/ Generate \/ Reject \/ WriteScript \/ Spawn \/ ChildEnds \/ Timeout
        \/ Return \/ CountFailure \/ Debug

\* The LLM answers or fails, and subprocess.run enforces its timeout.
Spec == Init /\ [][Next]_vars /\ WF_vars(Next)

-----------------------------------------------------------------------------
TypeOK ==
  /\ pc \in {"start", "attempt", "spawn", "wait", "judge", "debug", "returned", "raised"}
  /\ code \in Programs \cup {None}
  /\ attempt \in 0..(MaxRetries + 1)
  /\ script \in Programs \cup {None}
  /\ child \in Programs \cup {None}
  /\ result \in [status : {None, "rejected", "success", "timeout"},
                 returncode : {None, "zero", "nonzero"}]
  /\ ran \in Seq(Programs)

\* Only programs the policy accepted are executed, although script.py keeps the
\* program of an earlier task or attempt while a later one is being refused.
OnlySafeProgramsRun == \A i \in DOMAIN ran : Safe[ran[i]]

\* One approval buys at most MaxRetries + 1 executions, and none after one has
\* succeeded: what ran before the last execution failed or was timed out.
RunsAreBounded ==
  /\ Len(ran) <= MaxRetries + 1
  /\ Succeeded => pc \in {"judge", "returned"} /\ ran[Len(ran)] = code
  /\ pc = "returned" /\ ~Succeeded => attempt = MaxRetries + 1

\* The tool returns or raises, whatever the programs do: a program that never ends
\* is stopped by the timeout, and the repairs come to an end.
ToolEnds == <>(pc \in {"returned", "raised"})
=============================================================================
