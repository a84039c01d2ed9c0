------------------------------ MODULE HitlAgent ------------------------------
(***************************************************************************)
(* The RiskLens agent, examples/hitl_agent_demo.py and examples/logger.py: *)
(* one interactive process that plans with an LLM, scores the first        *)
(* planned action, gates it by the oversight mode, runs the tool, records  *)
(* the verdict in decision_history and appends it to logs.json.            *)
(*                                                                         *)
(* Process memory (hitl, pc, step, act, cache, history, targets) dies with *)
(* the process; logs.json and the workspace files survive it.  Risks are   *)
(* integers in tenths, so LOW_RISK_THRESHOLD = 4.5 is 45.                   *)
(***************************************************************************)
EXTENDS Integers, Sequences, FiniteSets

CONSTANTS MODE,            \* the module constant MODE
          PlannerActions,  \* action names the planner LLM may put first
          LlmScores,       \* risk scores the classifier LLM may answer
          Files,           \* paths below system_sandbox/ and temp/
          MaxTasks,        \* bound: tasks entered over all sessions
          MaxSessions,     \* bound: sessions of the process
          MaxKills         \* bound: kills (Ctrl-C, power) from outside

LOW_RISK_THRESHOLD == 45

COMMAND_MAP == [get_ip         |-> "ipconfig",
                list_processes |-> "tasklist",
                system_info    |-> "systeminfo",
                list_files     |-> "dir"]

COMMAND_RISK == [ipconfig |-> 40, tasklist |-> 60, systeminfo |-> 50, dir |-> 30]

CommandActions == {"get_ip", "list_processes", "system_info", "list_files"}

Commands == {"ipconfig", "tasklist", "systeminfo", "dir"}

FixedActions == {"open_browser", "open_notepad", "browser_search",
                 "analyze_logs", "weather", "analyze_system", "clean system",
                 "generate_and_run_code", "simulate_data_exfiltration",
                 "simulate_disable_security", "dangerous_delete_directory"}

\* The risk handle_action writes as a literal.
FixedRisk ==
  [a \in FixedActions |->
     CASE a \in {"open_browser", "open_notepad",
                 "browser_search", "analyze_logs"}         -> 20
       [] a = "weather"                                    -> 40
       [] a = "analyze_system"                             -> 50
       [] a \in {"clean system", "generate_and_run_code"} -> 60
       [] a = "simulate_data_exfiltration"                 -> 80
       [] a = "simulate_disable_security"                  -> 90
       [] a = "dangerous_delete_directory"                 -> 100]

\* Actions scored by check_sensitive_content.
ScoredActions == {"open_website", "general_question", "information_lookup",
                  "search_job_and_summarize", "web_search"}

KnownActions == CommandActions \cup FixedActions \cup ScoredActions

\* Actions that do nothing unless their parameter is present.
NeedsParameter == ScoredActions \cup
  {"weather", "dangerous_delete_directory", "simulate_data_exfiltration",
   "simulate_disable_security", "browser_search", "generate_and_run_code"}

\* Tools that catch every Exception themselves.
CatchesAll == {"information_lookup", "search_job_and_summarize"}

Modes == {"no hitl", "adaptive", "no_hitl", "always_hitl"}

ASSUME ModeAssumption    == MODE \in Modes
ASSUME PlannerAssumption == /\ PlannerActions \subseteq STRING
                            /\ IsFiniteSet(PlannerActions)
ASSUME ScoresAssumption  == LlmScores \subseteq Nat
ASSUME BoundsAssumption  == /\ MaxTasks \in Nat
                            /\ MaxSessions \in Nat
                            /\ MaxKills \in Nat

MaxSteps == 4   \* max_steps of agent()

VARIABLES
  hitl,        \* HITL_ENABLED
  pc,          \* where the process is
  step,        \* the loop variable of agent()
  act,         \* the action in hand: name, risk, who let it run
  cache,       \* keys of COMMAND_CACHE
  history,     \* decision_history
  targets,     \* clean_system's list of files, taken before its prompt
  files,       \* files below system_sandbox/ and temp/
  logFile,     \* logs.json: "absent", "valid" or "torn" JSON
  logEntries,  \* the entries written into logs.json
  task,        \* number of the current task            (bounded by MaxTasks)
  session,     \* number of the current process         (bounded by MaxSessions)
  kills,       \* kills so far                          (bounded by MaxKills)
  call,        \* auxiliary: number of execute_action calls so far
  runs,        \* auxiliary: the tool runs, in order
  listed       \* auxiliary: the paths clean_system showed last

memory == <<hitl, step, act, cache, history, targets>>
disk   == <<files, logFile, logEntries>>
counts == <<task, session, kills>>
aux    == <<call, runs, listed>>
vars   == <<memory, pc, disk, counts, aux>>

NoAction == [name |-> "none", risk |-> 0, by |-> "nobody"]

-----------------------------------------------------------------------------
(* Risk scoring and the oversight policy                                   *)

\* final_risk_score(llm_risk, 5), in tenths: exact, nothing is rounded away.
FinalRiskScore(llm) == 6 * llm + 20

\* Mutant: the cached discount for any command once something is cached.
AdjustRiskAnyCached(c) ==
  COMMAND_RISK[c] - (IF cache # {} THEN 10 ELSE 0)
                  - (IF c \in {"ipconfig", "tasklist", "dir"} THEN 10 ELSE 0)

\* max(1, base) with one point off when cached and one when read-only.
AdjustRisk(c) ==
  LET base == COMMAND_RISK[c]
              - (IF c \in cache THEN 10 ELSE 0)
              - (IF c \in {"ipconfig", "tasklist", "dir"} THEN 10 ELSE 0)
  IN  IF base < 10 THEN 10 ELSE base

\* check_sensitive_content returns the LLM's first number, or 5 on any error.
RisksOf(a) == IF a \in CommandActions THEN {AdjustRisk(COMMAND_MAP[a])}
              ELSE IF a \in FixedActions THEN {FixedRisk[a]}
              ELSE {FinalRiskScore(s) : s \in LlmScores \cup {5}}

\* human_approval: TRUE when it falls through to get_valid_approval.
NeedsHuman(risk) ==
  \/ MODE = "always_hitl"
  \/ MODE # "no_hitl" /\ hitl /\ risk > LOW_RISK_THRESHOLD

-----------------------------------------------------------------------------
(* The session: __main__ and agent()                                       *)

Init == /\ hitl = TRUE /\ pc = "choose" /\ step = 0 /\ act = NoAction
        /\ cache = {} /\ history = <<>> /\ targets = {}
        /\ files \in SUBSET Files /\ logFile = "absent" /\ logEntries = <<>>
        /\ task = 0 /\ session = 1 /\ kills = 0
        /\ call = 0 /\ runs = <<>> /\ listed = {}

ChooseHitlMode ==
  /\ pc = "choose"
  /\ hitl' \in BOOLEAN
  /\ pc' = "prompt"
  /\ UNCHANGED <<step, act, cache, history, targets, disk, counts, aux>>

SubmitTask ==
  /\ pc = "prompt" /\ task < MaxTasks
  /\ task' = task + 1
  /\ step' = 0
  /\ pc' = "plan"
  /\ UNCHANGED <<hitl, act, cache, history, targets, disk, session, kills, aux>>

Exit ==
  /\ pc = "prompt"
  /\ pc' = "exited"
  /\ UNCHANGED <<memory, disk, counts, aux>>

\* plan_with_llm raised, could not parse, or planned nothing: back to the prompt.
PlanNothing ==
  /\ pc = "plan"
  /\ pc' = "prompt"
  /\ UNCHANGED <<memory, disk, counts, aux>>

\* The plan parsed but an item of "actions" is no dict: a.get raises, uncaught.
PlanMalformed ==
  /\ pc = "plan"
  /\ pc' = "dead"
  /\ UNCHANGED <<memory, disk, counts, aux>>

\* Mutant: the loop runs a fifth time.
NextStepOneMore ==
  /\ step' = step + 1
  /\ pc' = IF step + 1 <= MaxSteps THEN "plan" ELSE "prompt"
  /\ act' = NoAction
  /\ UNCHANGED <<hitl, cache, history, targets, disk, counts, aux>>

\* Mutant: a while loop that forgets to count.
NextStepUncounted ==
  /\ pc' = "plan"
  /\ act' = NoAction
  /\ UNCHANGED <<hitl, step, cache, history, targets, disk, counts, aux>>

\* handle_action returned None: the loop plans again, at most MaxSteps times.
NextStep ==
  /\ step' = step + 1
  /\ pc' = IF step + 1 < MaxSteps THEN "plan" ELSE "prompt"
  /\ act' = NoAction
  /\ UNCHANGED <<hitl, cache, history, targets, disk, counts, aux>>

\* A truthy result that is not the string "blocked": the task is over.
EndTask ==
  /\ act' = NoAction
  /\ pc' = "prompt"
  /\ UNCHANGED <<hitl, step, cache, history, targets, disk, counts, aux>>

\* agent() takes actions[0] of the plan.
PlanAction ==
  /\ pc = "plan"
  /\ \E a \in PlannerActions : act' = [NoAction EXCEPT !.name = a]
  /\ pc' = "dispatch"
  /\ UNCHANGED <<hitl, step, cache, history, targets, disk, counts, aux>>

\* No branch of handle_action knows the name: "unknown" ends the task.
DispatchUnknown ==
  /\ pc = "dispatch" /\ act.name \notin KnownActions
  /\ EndTask

\* A missing parameter: information_lookup answers "invalid input", the other
\* actions fall out of their branch with None.
DispatchNoParameter ==
  /\ pc = "dispatch" /\ act.name \in NeedsParameter
  /\ IF act.name = "information_lookup" THEN EndTask ELSE NextStep

\* handle_action scores the action and enters execute_action.
Dispatch ==
  /\ pc = "dispatch" /\ act.name \in KnownActions
  /\ \E r \in RisksOf(act.name) : act' = [act EXCEPT !.risk = r]
  /\ call' = call + 1
  /\ pc' = "approve"
  /\ UNCHANGED <<hitl, step, cache, history, targets, disk, counts, runs, listed>>

-----------------------------------------------------------------------------
(* execute_action: approval, the tool, the verdict, the log                *)

StartRun(by) ==
  /\ act' = [act EXCEPT !.by = by]
  /\ pc' = "run"
  /\ UNCHANGED <<hitl, step, cache, history, targets, disk, counts, aux>>

AutoApprove ==
  /\ pc = "approve" /\ ~NeedsHuman(act.risk)
  /\ StartRun("policy")

\* get_valid_approval asks again after anything but y/yes/n/no: no step.
HumanApproves ==
  /\ pc = "approve" /\ NeedsHuman(act.risk)
  /\ StartRun("human")

HumanRefuses ==
  /\ pc = "approve" /\ NeedsHuman(act.risk)
  /\ pc' = "record"
  /\ UNCHANGED <<memory, disk, counts, aux>>

ToolRun == [call |-> call, session |-> session, name |-> act.name,
            risk |-> act.risk, by |-> act.by]

\* output = function() is entered.  Of the tools only clean_system and
\* simulate_delete_directory touch the workspace; the second removes the
\* directory the planner named, with whatever is below it, or refuses.
EnterTool ==
  /\ pc = "run"
  /\ runs' = Append(runs, ToolRun)
  /\ IF act.name = "dangerous_delete_directory"
     THEN \E gone \in SUBSET files : files' = files \ gone
     ELSE UNCHANGED files
  /\ IF act.name = "clean system"
     THEN /\ targets' = files
          /\ listed' = files
          /\ pc' = IF files = {} THEN "return" ELSE IF hitl THEN "confirm" ELSE "delete"
     ELSE pc' = "return" /\ UNCHANGED <<targets, listed>>
  /\ UNCHANGED <<hitl, step, act, cache, history, logFile, logEntries, counts, call>>

\* Mutant: the directories are walked again after the answer.
ConfirmDeletionRelists ==
  /\ pc = "confirm"
  /\ \/ pc' = "delete" /\ targets' = files
     \/ pc' = "return" /\ targets' = {}
  /\ UNCHANGED <<hitl, step, act, cache, history, disk, counts, aux>>

\* clean_system's own prompt, whatever MODE says: only "y" deletes.
ConfirmDeletion ==
  /\ pc = "confirm"
  /\ \/ pc' = "delete" /\ UNCHANGED targets
     \/ pc' = "return" /\ targets' = {}
  /\ UNCHANGED <<hitl, step, act, cache, history, disk, counts, aux>>

\* os.remove one target; a failure is printed and the loop goes on.
DeleteTarget ==
  /\ pc = "delete"
  /\ \E f \in targets :
       /\ files' \in {files, files \ {f}}
       /\ targets' = targets \ {f}
       /\ pc' = IF targets = {f} THEN "return" ELSE "delete"
  /\ UNCHANGED <<hitl, step, act, cache, history, logFile, logEntries, counts, aux>>

\* The tool returns; a command's run() has stored its output in the cache.
ToolReturns ==
  /\ pc = "return"
  /\ cache' = IF act.name \in CommandActions
              THEN cache \cup {COMMAND_MAP[act.name]} ELSE cache
  /\ pc' = "record"
  /\ UNCHANGED <<hitl, step, act, history, targets, disk, counts, aux>>

\* Mutant: agent() catches the exception and goes back to its prompt.
ToolRaisesCaught ==
  /\ pc = "return" /\ act.name \notin CatchesAll
  /\ pc' = "prompt"
  /\ UNCHANGED <<memory, disk, counts, aux>>

\* The tool raises and nothing up to __main__ catches it.
ToolRaises ==
  /\ pc = "return" /\ act.name \notin CatchesAll
  /\ pc' = "dead"
  /\ UNCHANGED <<memory, disk, counts, aux>>

\* Mutant: the verdict is a constant.
EntryAlwaysApproved == [call |-> call, session |-> session, task |-> task,
                        name |-> act.name, risk |-> act.risk, verdict |-> "approved"]

Entry == [call |-> call, session |-> session, task |-> task, name |-> act.name,
          risk |-> act.risk,
          verdict |-> IF act.by = "nobody" THEN "blocked" ELSE "approved"]

\* explain_decision and decision_history.append.
RecordDecision ==
  /\ pc = "record"
  /\ history' = Append(history, Entry)
  /\ pc' = "log"
  /\ UNCHANGED <<hitl, step, act, cache, targets, disk, counts, aux>>

\* log_event creates logs.json: open("w") leaves it empty, which is no JSON,
\* until the dump of [] is flushed.
CreateLog ==
  /\ pc = "log" /\ logFile = "absent"
  /\ logFile' = "torn"
  /\ pc' = "create"
  /\ UNCHANGED <<memory, files, logEntries, counts, aux>>

LogCreated ==
  /\ pc = "create"
  /\ logFile' = "valid"
  /\ pc' = "log"
  /\ UNCHANGED <<memory, files, logEntries, counts, aux>>

\* json.load of a torn file raises: the verdict is in memory only.
LogUnreadable ==
  /\ pc = "log" /\ logFile = "torn"
  /\ pc' = "dead"
  /\ UNCHANGED <<memory, disk, counts, aux>>

\* seek(0) and json.dump overwrite the file in place, neither truncated nor
\* renamed: part of the new text can be all there is after a kill.
RewriteLog ==
  /\ pc = "log" /\ logFile = "valid"
  /\ logFile' = "torn"
  /\ pc' = "rewrite"
  /\ UNCHANGED <<memory, files, logEntries, counts, aux>>

\* Mutant: refusals are not written to the file.
LogWrittenApprovedOnly ==
  /\ pc = "rewrite"
  /\ logFile' = "valid"
  /\ logEntries' = IF act.by = "nobody" THEN logEntries ELSE Append(logEntries, Entry)
  /\ act' = NoAction
  /\ pc' = "prompt"
  /\ UNCHANGED <<hitl, step, cache, history, targets, files, counts, aux>>

\* Mutant: a refused action sends agent() back to the planner.
LogWrittenRetriesRefused ==
  /\ pc = "rewrite"
  /\ logFile' = "valid"
  /\ logEntries' = Append(logEntries, Entry)
  /\ act' = NoAction
  /\ pc' = IF act.by = "nobody" /\ step + 1 < MaxSteps THEN "plan" ELSE "prompt"
  /\ step' = step + 1
  /\ UNCHANGED <<hitl, cache, history, targets, files, counts, aux>>

\* The file is closed.  execute_action returns a dict, which is truthy and
\* never equals "blocked", so the task ends whatever the verdict was.
LogWritten ==
  /\ pc = "rewrite"
  /\ logFile' = "valid"
  /\ logEntries' = Append(logEntries, Entry)
  /\ act' = NoAction
  /\ pc' = "prompt"
  /\ UNCHANGED <<hitl, step, cache, history, targets, files, counts, aux>>

-----------------------------------------------------------------------------
(* The environment                                                         *)

Alive == pc \notin {"dead", "exited"}

\* KeyboardInterrupt, kill or power loss at any point.
Kill ==
  /\ Alive /\ kills < MaxKills
  /\ kills' = kills + 1
  /\ pc' = "dead"
  /\ UNCHANGED <<memory, disk, task, session, aux>>

\* A new process: memory starts over, the disk is what the last one left.
Restart ==
  /\ ~Alive /\ session < MaxSessions
  /\ session' = session + 1
  /\ hitl' = TRUE /\ step' = 0 /\ act' = NoAction /\ cache' = {}
  /\ history' = <<>> /\ targets' = {}
  /\ pc' = "choose"
  /\ UNCHANGED <<disk, task, kills, aux>>

\* Other programs create files and remove them, at any time and at any path: also one
\* that clean_system has listed.
FilesChange ==
  /\ \E f \in Files : files' \in {files \cup {f}, files \ {f}}
  /\ UNCHANGED <<memory, pc, logFile, logEntries, counts, aux>>

AgentStep ==
  \/ PlanNothing \/ PlanMalformed \/ PlanAction
  \/ DispatchUnknown \/ DispatchNoParameter \/ Dispatch
  \/ AutoApprove \/ HumanApproves \/ HumanRefuses
  \/ EnterTool \/ ConfirmDeletion \/ DeleteTarget \/ ToolReturns \/ ToolRaises
  \/ RecordDecision \/ CreateLog \/ LogCreated \/ LogUnreadable
  \/ RewriteLog \/ LogWritten

Next == \/ ChooseHitlMode \/ SubmitTask \/ Exit
        \/ AgentStep
        \/ Kill \/ Restart \/ FilesChange

Spec == Init /\ [][Next]_vars

\* The interpreter, the human at a prompt, the LLM and the tools all answer.
FairSpec == Spec /\ WF_vars(AgentStep)

-----------------------------------------------------------------------------
(* Properties                                                              *)

PCs == {"choose", "prompt", "plan", "dispatch", "approve", "run", "confirm",
        "delete", "return", "record", "log", "create", "rewrite", "dead", "exited"}

\* between the start of a tool and the end of log_event
MidCall == {"run", "confirm", "delete", "return", "record", "log", "create", "rewrite"}

Names == KnownActions \cup PlannerActions \cup {"none"}

Actors == {"nobody", "policy", "human"}

Entries == [call : Nat, session : Nat, task : Nat, name : Names, risk : Nat,
            verdict : {"approved", "blocked"}]

ToolRuns == [call : Nat, session : Nat, name : Names, risk : Nat, by : Actors]

\* Type invariant of the process, the disk and the auxiliary variables; the
\* loop of agent() never plans a fifth time.
TypeOK ==
  /\ hitl \in BOOLEAN
  /\ pc \in PCs
  /\ step \in 0..MaxSteps
  /\ pc \in {"plan", "dispatch"} => step < MaxSteps
  /\ act \in [name : Names, risk : Nat, by : Actors]
  /\ cache \subseteq Commands
  /\ history \in Seq(Entries)
  /\ targets \subseteq Files
  /\ files \subseteq Files
  /\ logFile \in {"absent", "valid", "torn"}
  /\ logEntries \in Seq(Entries)
  /\ task \in Nat /\ session \in Nat /\ kills \in Nat /\ call \in Nat
  /\ runs \in Seq(ToolRuns)
  /\ listed \subseteq Files

\* What adjust_risk gives a command that was never run, and what the others
\* were scored.
FirstRunRisk(r) ==
  IF r.name \in CommandActions
  THEN COMMAND_RISK[COMMAND_MAP[r.name]]
       - (IF COMMAND_MAP[r.name] \in {"ipconfig", "tasklist", "dir"} THEN 10 ELSE 0)
  ELSE r.risk

\* run j of the same session let a human decide on the same action as run i
HumanRan(i, j) == /\ runs[j].session = runs[i].session
                  /\ runs[j].name = runs[i].name
                  /\ runs[j].by = "human"

\* README.md: who is at the controls in each mode.
Supervised == MODE = "always_hitl" \/ (MODE # "no_hitl" /\ hitl)

\* In a supervised session a tool runs without a human's yes only
\* if its risk was within the threshold to begin with, or if a human approved the
\* same command earlier in this session: the discount that adjust_risk gives a
\* cached command is never the first thing that opens it.
AutoRunsAreEarned ==
  Supervised =>
    \A i \in DOMAIN runs :
      (runs[i].session = session /\ runs[i].by = "policy") =>
        \/ MODE # "always_hitl" /\ FirstRunRisk(runs[i]) <= LOW_RISK_THRESHOLD
        \/ \E j \in 1..(i - 1) : HumanRan(i, j)

Logged(c) == \E k \in DOMAIN logEntries : logEntries[k].call = c

\* A session loses at most its last tool run from logs.json, and only by dying
\* in the call that ran it: whatever was killed, raised or torn, any run that
\* is followed by another one of its session, or by a clean exit, is logged.
AtMostLastRunUnlogged ==
  \A i \in DOMAIN runs :
    \/ Logged(runs[i].call)
    \/ /\ \A j \in DOMAIN runs : j > i => runs[j].session # runs[i].session
       /\ runs[i].session = session => pc \in MidCall \cup {"dead"}

\* A task gets one verdict: after a refusal (or a success) agent() does not go
\* on to another action for the same task.
TaskHasOneVerdict ==
  \A i, j \in DOMAIN history : i < j => history[i].task < history[j].task

\* A cleanup removes files only at paths that were on the list it showed, whatever
\* appears and vanishes while the human reads it. (It deletes by path: a file that was
\* replaced meanwhile goes, one at a path of its own stays.)
CleanupKeepsToItsList ==
  [][targets' # targets => files \ files' \subseteq listed]_vars

\* Every task ends: the agent returns to its prompt unless the process dies.
TaskEnds == pc = "plan" ~> pc \in {"prompt", "dead"}

Trail == INSTANCE AuditTrail WITH
  Calls  <- 1..MaxTasks,
  ran    <- {runs[i].call : i \in DOMAIN runs},
  logged <- [i \in DOMAIN logEntries |->
               [call |-> logEntries[i].call, verdict |-> logEntries[i].verdict]]

\* The agent's audit trail is what AuditTrail promises: at most one execute_action
\* per task, a tool run at most once per call, verdicts logged in call order, at
\* most once, never wrong and never late.
ImplementsAuditTrail == Trail!Spec

-----------------------------------------------------------------------------
(* What the documentation says and the code does not do                    *)

\* README.md:3 "Every decision is logged": the process does not end with the
\* verdict on a tool run missing from the log.
EveryDecisionLogged ==
  pc \in {"dead", "exited"} => \A i \in DOMAIN runs : Logged(runs[i].call)
=============================================================================
