--------------------------- MODULE HitlAgentProofs ---------------------------
(***************************************************************************)
(* Machine-checked theorems about HitlAgent, for every MODE, every set of  *)
(* planner answers and classifier scores, and every bound.                 *)
(***************************************************************************)
EXTENDS HitlAgent, SequenceTheorems, TLAPS

\* What adjust_risk gives a command of COMMAND_MAP, discount by discount.
LEMMA CommandRisks ==
  ASSUME NEW a \in CommandActions
  PROVE  /\ COMMAND_MAP[a] \in Commands
         /\ COMMAND_RISK[COMMAND_MAP[a]] \in {30, 40, 50, 60}
         /\ AdjustRisk(COMMAND_MAP[a]) \in Nat
<1>1. CASE a = "get_ip"
  BY <1>1 DEF COMMAND_MAP, COMMAND_RISK, Commands, AdjustRisk
<1>2. CASE a = "list_processes"
  BY <1>2 DEF COMMAND_MAP, COMMAND_RISK, Commands, AdjustRisk
<1>3. CASE a = "system_info"
  BY <1>3 DEF COMMAND_MAP, COMMAND_RISK, Commands, AdjustRisk
<1>4. CASE a = "list_files"
  BY <1>4 DEF COMMAND_MAP, COMMAND_RISK, Commands, AdjustRisk
<1> QED BY <1>1, <1>2, <1>3, <1>4 DEF CommandActions

\* Every risk that handle_action can compute is a natural number of tenths.
LEMMA RisksAreNat ==
  ASSUME NEW a \in KnownActions
  PROVE  RisksOf(a) \subseteq Nat
<1>1. CASE a \in CommandActions
  BY <1>1, CommandRisks DEF RisksOf
<1>2. CASE a \in FixedActions /\ a \notin CommandActions
  <2>1. FixedRisk[a] \in Nat
    BY <1>2 DEF FixedRisk, FixedActions
  <2> QED BY <1>2, <2>1 DEF RisksOf
<1>3. CASE a \notin FixedActions /\ a \notin CommandActions
  BY <1>3, ScoresAssumption DEF RisksOf, FinalRiskScore
<1> QED BY <1>1, <1>2, <1>3

\* Every step keeps the types.
LEMMA TypeInductive == TypeOK /\ [Next]_vars => TypeOK'
<1> SUFFICES ASSUME TypeOK, [Next]_vars PROVE TypeOK'
  OBVIOUS
<1> USE DEF TypeOK, PCs, MaxSteps, memory, disk, counts, aux
<1>1. CASE ChooseHitlMode
  BY <1>1 DEF ChooseHitlMode
<1>2. CASE SubmitTask
  BY <1>2 DEF SubmitTask
<1>3. CASE Exit
  BY <1>3 DEF Exit
<1>4. CASE PlanNothing
  BY <1>4 DEF PlanNothing
<1>5. CASE PlanMalformed
  BY <1>5 DEF PlanMalformed
<1>6. CASE PlanAction
  <2>1. PICK a \in PlannerActions : act' = [NoAction EXCEPT !.name = a]
    BY <1>6 DEF PlanAction
  <2>2. act' \in [name : Names, risk : Nat, by : Actors]
    BY <2>1 DEF NoAction, Names, Actors
  <2> QED BY <1>6, <2>2 DEF PlanAction
<1>7. CASE DispatchUnknown
  BY <1>7 DEF DispatchUnknown, EndTask, NoAction, Names, Actors
<1>8. CASE DispatchNoParameter
  <2>1. NoAction \in [name : Names, risk : Nat, by : Actors]
    BY DEF NoAction, Names, Actors
  <2>2. CASE EndTask
    BY <1>8, <2>1, <2>2 DEF EndTask
  <2>3. CASE NextStep
    <3>1. step \in Nat /\ step < 4
      BY <1>8 DEF DispatchNoParameter
    <3> QED BY <2>1, <2>3, <3>1 DEF NextStep
  <2>4. EndTask \/ NextStep
    BY <1>8 DEF DispatchNoParameter
  <2> QED BY <2>2, <2>3, <2>4
<1>9. CASE Dispatch
  <2>1. PICK r \in RisksOf(act.name) : act' = [act EXCEPT !.risk = r]
    BY <1>9 DEF Dispatch
  <2>2. r \in Nat
    BY <1>9, RisksAreNat DEF Dispatch
  <2>3. act' \in [name : Names, risk : Nat, by : Actors]
    BY <2>1, <2>2
  <2> QED BY <1>9, <2>3 DEF Dispatch
<1>10. CASE AutoApprove
  BY <1>10 DEF AutoApprove, StartRun, Actors
<1>11. CASE HumanApproves
  BY <1>11 DEF HumanApproves, StartRun, Actors
<1>12. CASE HumanRefuses
  BY <1>12 DEF HumanRefuses
<1>13. CASE EnterTool
  <2>1. runs' \in Seq(ToolRuns)
    <3>1. ToolRun \in ToolRuns
      BY DEF ToolRun, ToolRuns
    <3>2. runs' = Append(runs, ToolRun)
      BY <1>13 DEF EnterTool
    <3> QED BY <3>1, <3>2
  <2>2. files' \subseteq Files
    BY <1>13 DEF EnterTool
  <2>3. targets' \subseteq Files /\ listed' \subseteq Files /\ pc' \in {"return", "confirm", "delete"}
    BY <1>13 DEF EnterTool
  <2> QED BY <1>13, <2>1, <2>2, <2>3 DEF EnterTool
<1>14. CASE ConfirmDeletion
  BY <1>14 DEF ConfirmDeletion
<1>15. CASE DeleteTarget
  BY <1>15 DEF DeleteTarget
<1>16. CASE ToolReturns
  BY <1>16, CommandRisks DEF ToolReturns
<1>17. CASE ToolRaises
  BY <1>17 DEF ToolRaises
<1>18. CASE RecordDecision
  BY <1>18 DEF RecordDecision, Entry, Entries
<1>19. CASE CreateLog
  BY <1>19 DEF CreateLog
<1>20. CASE LogCreated
  BY <1>20 DEF LogCreated
<1>21. CASE LogUnreadable
  BY <1>21 DEF LogUnreadable
<1>22. CASE RewriteLog
  BY <1>22 DEF RewriteLog
<1>23. CASE LogWritten
  BY <1>23 DEF LogWritten, Entry, Entries, NoAction, Names, Actors
<1>24. CASE Kill
  BY <1>24 DEF Kill
<1>25. CASE Restart
  BY <1>25 DEF Restart, NoAction, Names, Actors
<1>26. CASE FilesChange
  BY <1>26 DEF FilesChange
<1>27. CASE UNCHANGED vars
  BY <1>27 DEF vars
<1> QED BY <1>1, <1>2, <1>3, <1>4, <1>5, <1>6, <1>7, <1>8, <1>9, <1>10,
           <1>11, <1>12, <1>13, <1>14, <1>15, <1>16, <1>17, <1>18, <1>19,
           <1>20, <1>21, <1>22, <1>23, <1>24, <1>25, <1>26, <1>27
        DEF Next, AgentStep

\* The type invariant holds in every state of the agent, restarts included.
THEOREM TypeCorrect == Spec => []TypeOK
<1>1. Init => TypeOK
  BY BoundsAssumption DEF Init, TypeOK, PCs, NoAction, Names, Actors, MaxSteps
<1> QED BY <1>1, TypeInductive, PTL DEF Spec


-----------------------------------------------------------------------------
(* AutoRunsAreEarned is not inductive: a discounted risk is only earned if  *)
(* whatever filled the cache was.  The strengthening ties the cache and the *)
(* action in hand to the runs of this session.                              *)

\* A run is attributed to a session that has begun, and to who let it run.
RunsAttributed ==
  \A i \in DOMAIN runs : /\ runs[i].session <= session
                         /\ runs[i].by \in {"policy", "human"}
                         /\ pc = "choose" => runs[i].session < session

\* The action in hand was scored with the cache as it is now, and only the
\* policy or a human has sent it to its tool.
ActionScored ==
  /\ pc \in {"approve", "run"} /\ act.name \in CommandActions =>
       act.risk = AdjustRisk(COMMAND_MAP[act.name])
  /\ pc = "run" => act.by \in {"policy", "human"}
  /\ pc = "run" /\ act.by = "policy" => ~NeedsHuman(act.risk)

\* While a tool is under way, it is the last run.
ToolIsLastRun ==
  pc \in {"confirm", "delete", "return"} =>
    /\ Len(runs) > 0
    /\ runs[Len(runs)].session = session
    /\ runs[Len(runs)].name = act.name

\* A cached command was run in this session.
CacheWasRun ==
  \A a \in CommandActions : COMMAND_MAP[a] \in cache =>
    \E j \in DOMAIN runs : runs[j].session = session /\ runs[j].name = a

EarnedInv == /\ TypeOK /\ RunsAttributed /\ ActionScored
             /\ ToolIsLastRun /\ CacheWasRun /\ AutoRunsAreEarned

\* A step that leaves the runs, the cache, the session and the switch alone
\* keeps everything that is said of them.
LEMMA FrameKeepsRuns ==
  ASSUME EarnedInv, UNCHANGED <<runs, cache, session, hitl>>, pc' # "choose" \/ pc' = pc
  PROVE  RunsAttributed' /\ CacheWasRun' /\ AutoRunsAreEarned'
<1>1. RunsAttributed'
  BY DEF EarnedInv, RunsAttributed
<1>2. CacheWasRun'
  BY DEF EarnedInv, CacheWasRun
<1>3. AutoRunsAreEarned'
  BY DEF EarnedInv, AutoRunsAreEarned, HumanRan, Supervised
<1> QED BY <1>1, <1>2, <1>3

\* The discount of adjust_risk is only for a cached command: without it the risk
\* is the one the command has on its first run.
LEMMA UncachedRisk ==
  ASSUME TypeOK, NEW r \in ToolRuns, r.name \in CommandActions,
         COMMAND_MAP[r.name] \notin cache,
         r.risk = AdjustRisk(COMMAND_MAP[r.name])
  PROVE  r.risk = FirstRunRisk(r)
<1>1. CASE r.name = "get_ip"
  BY <1>1 DEF AdjustRisk, FirstRunRisk, COMMAND_MAP, COMMAND_RISK
<1>2. CASE r.name = "list_processes"
  BY <1>2 DEF AdjustRisk, FirstRunRisk, COMMAND_MAP, COMMAND_RISK
<1>3. CASE r.name = "system_info"
  BY <1>3 DEF AdjustRisk, FirstRunRisk, COMMAND_MAP, COMMAND_RISK
<1>4. CASE r.name = "list_files"
  BY <1>4 DEF AdjustRisk, FirstRunRisk, COMMAND_MAP, COMMAND_RISK
<1> QED BY <1>1, <1>2, <1>3, <1>4 DEF CommandActions

\* Two actions of COMMAND_MAP never share a command.
LEMMA CommandMapInjective ==
  ASSUME NEW a \in CommandActions, NEW b \in CommandActions,
         COMMAND_MAP[a] = COMMAND_MAP[b]
  PROVE  a = b
BY DEF CommandActions, COMMAND_MAP

\* The run that EnterTool adds is earned.
LEMMA EnterToolEarned ==
  ASSUME EarnedInv, EnterTool
  PROVE  AutoRunsAreEarned'
<1> USE DEF EarnedInv
<1> SUFFICES ASSUME Supervised, NEW i \in DOMAIN runs',
                    runs'[i].session = session, runs'[i].by = "policy"
             PROVE  \/ MODE # "always_hitl" /\ FirstRunRisk(runs'[i]) <= LOW_RISK_THRESHOLD
                    \/ \E j \in 1..(i - 1) : HumanRan(i, j)'
  BY DEF AutoRunsAreEarned, EnterTool, counts, FirstRunRisk, Supervised
<1>1. /\ runs' = Append(runs, ToolRun) /\ runs \in Seq(ToolRuns) /\ ToolRun \in ToolRuns
      /\ runs' \in Seq(ToolRuns) /\ Len(runs') = Len(runs) + 1
      /\ \A j \in 1..Len(runs) : runs'[j] = runs[j]
      /\ runs'[Len(runs) + 1] = ToolRun
  <2>1. runs' = Append(runs, ToolRun)
    BY DEF EnterTool
  <2>2. runs \in Seq(ToolRuns)
    BY DEF TypeOK
  <2>3. ToolRun \in ToolRuns
    BY DEF TypeOK, ToolRun, ToolRuns
  <2> QED BY <2>1, <2>2, <2>3
<1>2. CASE i \in DOMAIN runs
  <2>1. \/ MODE # "always_hitl" /\ FirstRunRisk(runs[i]) <= LOW_RISK_THRESHOLD
        \/ \E j \in 1..(i - 1) : HumanRan(i, j)
    BY <1>1, <1>2 DEF AutoRunsAreEarned
  <2> QED BY <1>1, <1>2, <2>1 DEF HumanRan
<1>3. CASE i = Len(runs) + 1
  <2>1. runs'[i] = ToolRun /\ act.by = "policy" /\ pc = "run"
    <3>1. runs'[i] = ToolRun
      BY <1>1, <1>3
    <3>2. ToolRun.by = act.by
      BY DEF ToolRun
    <3>3. pc = "run"
      BY DEF EnterTool
    <3> QED BY <3>1, <3>2, <3>3
  <2>2. MODE # "always_hitl" /\ act.risk <= LOW_RISK_THRESHOLD
    BY <2>1 DEF ActionScored, NeedsHuman, TypeOK, LOW_RISK_THRESHOLD, Supervised
  <2>3. CASE act.name \notin CommandActions
    BY <2>1, <2>2, <2>3 DEF FirstRunRisk, ToolRun
  <2>4. CASE act.name \in CommandActions /\ COMMAND_MAP[act.name] \notin cache
    <3>1. ToolRun.risk = FirstRunRisk(ToolRun)
      BY <1>1, <2>1, <2>4, UncachedRisk DEF ToolRun, ActionScored
    <3> QED BY <2>1, <2>2, <3>1 DEF ToolRun
  <2>5. CASE act.name \in CommandActions /\ COMMAND_MAP[act.name] \in cache
    <3>1. PICK j \in DOMAIN runs : runs[j].session = session /\ runs[j].name = act.name
      BY <2>5 DEF CacheWasRun
    <3>2. j \in 1..Len(runs) /\ j \in 1..(i - 1) /\ runs'[j] = runs[j]
      BY <1>1, <1>3, <3>1
    <3>3. runs[j].by \in {"policy", "human"}
      BY <3>1 DEF RunsAttributed
    <3>4. CASE runs[j].by = "human"
      <4>1. HumanRan(i, j)'
        BY <2>1, <3>1, <3>2, <3>4 DEF HumanRan, ToolRun
      <4> QED BY <3>2, <4>1
    <3>5. CASE runs[j].by = "policy" /\ FirstRunRisk(runs[j]) <= LOW_RISK_THRESHOLD
      <4>1. FirstRunRisk(ToolRun) = FirstRunRisk(runs[j])
        BY <2>5, <3>1 DEF FirstRunRisk, ToolRun
      <4> QED BY <2>1, <2>2, <3>5, <4>1
    <3>6. CASE runs[j].by = "policy" /\ \E k \in 1..(j - 1) : HumanRan(j, k)
      <4>1. PICK k \in 1..(j - 1) : HumanRan(j, k)
        BY <3>6
      <4>2. k \in 1..(i - 1) /\ runs'[k] = runs[k]
        BY <1>1, <1>3, <3>2, <4>1
      <4>3. HumanRan(i, k)'
        BY <2>1, <3>1, <4>1, <4>2 DEF HumanRan, ToolRun
      <4> QED BY <4>2, <4>3
    <3>7. \/ MODE # "always_hitl" /\ FirstRunRisk(runs[j]) <= LOW_RISK_THRESHOLD
          \/ \E k \in 1..(j - 1) : HumanRan(j, k)
          \/ runs[j].by = "human"
      BY <3>1, <3>3 DEF AutoRunsAreEarned
    <3> QED BY <3>3, <3>4, <3>5, <3>6, <3>7
  <2> QED BY <2>3, <2>4, <2>5
<1> QED BY <1>1, <1>2, <1>3

\* In a supervised session, for every MODE, planner and classifier, no tool runs
\* without a human's yes unless its first-run risk is within the threshold or a
\* human has approved the same command in this session before.
THEOREM OversightHolds == Spec => []AutoRunsAreEarned
<1>1. Init => EarnedInv
  <2>1. Init => TypeOK
    BY BoundsAssumption DEF Init, TypeOK, PCs, NoAction, Names, Actors, MaxSteps
  <2> QED BY <2>1 DEF Init, EarnedInv, RunsAttributed, ActionScored, ToolIsLastRun,
                     CacheWasRun, AutoRunsAreEarned
<1>2. EarnedInv /\ [Next]_vars => EarnedInv'
  <2> SUFFICES ASSUME EarnedInv, [Next]_vars PROVE EarnedInv'
    OBVIOUS
  <2> USE DEF EarnedInv, memory, disk, counts, aux
  <2>1. TypeOK'
    BY TypeInductive
  <2>2. CASE SubmitTask
    <3>1. UNCHANGED <<runs, cache, session, hitl>> /\ pc' # "choose"
      BY <2>2 DEF SubmitTask
    <3>2. ActionScored' /\ ToolIsLastRun'
      BY <2>2, <3>1 DEF SubmitTask, ActionScored, ToolIsLastRun, AdjustRisk, NeedsHuman
    <3> QED BY <2>1, <3>1, <3>2, FrameKeepsRuns
  <2>3. CASE Exit
    <3>1. UNCHANGED <<runs, cache, session, hitl>> /\ pc' # "choose"
      BY <2>3 DEF Exit
    <3>2. ActionScored' /\ ToolIsLastRun'
      BY <2>3, <3>1 DEF Exit, ActionScored, ToolIsLastRun, AdjustRisk, NeedsHuman
    <3> QED BY <2>1, <3>1, <3>2, FrameKeepsRuns
  <2>4. CASE PlanNothing
    <3>1. UNCHANGED <<runs, cache, session, hitl>> /\ pc' # "choose"
      BY <2>4 DEF PlanNothing
    <3>2. ActionScored' /\ ToolIsLastRun'
      BY <2>4, <3>1 DEF PlanNothing, ActionScored, ToolIsLastRun, AdjustRisk, NeedsHuman
    <3> QED BY <2>1, <3>1, <3>2, FrameKeepsRuns
  <2>5. CASE PlanMalformed
    <3>1. UNCHANGED <<runs, cache, session, hitl>> /\ pc' # "choose"
      BY <2>5 DEF PlanMalformed
    <3>2. ActionScored' /\ ToolIsLastRun'
      BY <2>5, <3>1 DEF PlanMalformed, ActionScored, ToolIsLastRun, AdjustRisk, NeedsHuman
    <3> QED BY <2>1, <3>1, <3>2, FrameKeepsRuns
  <2>6. CASE PlanAction
    <3>1. UNCHANGED <<runs, cache, session, hitl>> /\ pc' # "choose"
      BY <2>6 DEF PlanAction, NoAction
    <3>2. ActionScored' /\ ToolIsLastRun'
      BY <2>6, <3>1 DEF PlanAction, NoAction, ActionScored, ToolIsLastRun, AdjustRisk, NeedsHuman
    <3> QED BY <2>1, <3>1, <3>2, FrameKeepsRuns
  <2>7. CASE DispatchUnknown
    <3>1. UNCHANGED <<runs, cache, session, hitl>> /\ pc' # "choose"
      BY <2>7 DEF DispatchUnknown, EndTask
    <3>2. ActionScored' /\ ToolIsLastRun'
      BY <2>7, <3>1 DEF DispatchUnknown, EndTask, ActionScored, ToolIsLastRun, AdjustRisk, NeedsHuman
    <3> QED BY <2>1, <3>1, <3>2, FrameKeepsRuns
  <2>8. CASE AutoApprove
    <3>1. UNCHANGED <<runs, cache, session, hitl>> /\ pc' # "choose"
      BY <2>8 DEF AutoApprove, StartRun
    <3>2. ActionScored' /\ ToolIsLastRun'
      BY <2>8, <3>1 DEF AutoApprove, StartRun, ActionScored, ToolIsLastRun, AdjustRisk, NeedsHuman
    <3> QED BY <2>1, <3>1, <3>2, FrameKeepsRuns
  <2>9. CASE HumanApproves
    <3>1. UNCHANGED <<runs, cache, session, hitl>> /\ pc' # "choose"
      BY <2>9 DEF HumanApproves, StartRun
    <3>2. ActionScored' /\ ToolIsLastRun'
      BY <2>9, <3>1 DEF HumanApproves, StartRun, ActionScored, ToolIsLastRun, AdjustRisk, NeedsHuman
    <3> QED BY <2>1, <3>1, <3>2, FrameKeepsRuns
  <2>10. CASE HumanRefuses
    <3>1. UNCHANGED <<runs, cache, session, hitl>> /\ pc' # "choose"
      BY <2>10 DEF HumanRefuses
    <3>2. ActionScored' /\ ToolIsLastRun'
      BY <2>10, <3>1 DEF HumanRefuses, ActionScored, ToolIsLastRun, AdjustRisk, NeedsHuman
    <3> QED BY <2>1, <3>1, <3>2, FrameKeepsRuns
  <2>11. CASE ConfirmDeletion
    <3>1. UNCHANGED <<runs, cache, session, hitl>> /\ pc' # "choose"
      BY <2>11 DEF ConfirmDeletion
    <3>2. ActionScored' /\ ToolIsLastRun'
      BY <2>11, <3>1 DEF ConfirmDeletion, ActionScored, ToolIsLastRun, AdjustRisk, NeedsHuman
    <3> QED BY <2>1, <3>1, <3>2, FrameKeepsRuns
  <2>12. CASE DeleteTarget
    <3>1. UNCHANGED <<runs, cache, session, hitl>> /\ pc' # "choose"
      BY <2>12 DEF DeleteTarget
    <3>2. ActionScored' /\ ToolIsLastRun'
      BY <2>12, <3>1 DEF DeleteTarget, ActionScored, ToolIsLastRun, AdjustRisk, NeedsHuman
    <3> QED BY <2>1, <3>1, <3>2, FrameKeepsRuns
  <2>13. CASE ToolRaises
    <3>1. UNCHANGED <<runs, cache, session, hitl>> /\ pc' # "choose"
      BY <2>13 DEF ToolRaises
    <3>2. ActionScored' /\ ToolIsLastRun'
      BY <2>13, <3>1 DEF ToolRaises, ActionScored, ToolIsLastRun, AdjustRisk, NeedsHuman
    <3> QED BY <2>1, <3>1, <3>2, FrameKeepsRuns
  <2>14. CASE RecordDecision
    <3>1. UNCHANGED <<runs, cache, session, hitl>> /\ pc' # "choose"
      BY <2>14 DEF RecordDecision
    <3>2. ActionScored' /\ ToolIsLastRun'
      BY <2>14, <3>1 DEF RecordDecision, ActionScored, ToolIsLastRun, AdjustRisk, NeedsHuman
    <3> QED BY <2>1, <3>1, <3>2, FrameKeepsRuns
  <2>15. CASE CreateLog
    <3>1. UNCHANGED <<runs, cache, session, hitl>> /\ pc' # "choose"
      BY <2>15 DEF CreateLog
    <3>2. ActionScored' /\ ToolIsLastRun'
      BY <2>15, <3>1 DEF CreateLog, ActionScored, ToolIsLastRun, AdjustRisk, NeedsHuman
    <3> QED BY <2>1, <3>1, <3>2, FrameKeepsRuns
  <2>16. CASE LogCreated
    <3>1. UNCHANGED <<runs, cache, session, hitl>> /\ pc' # "choose"
      BY <2>16 DEF LogCreated
    <3>2. ActionScored' /\ ToolIsLastRun'
      BY <2>16, <3>1 DEF LogCreated, ActionScored, ToolIsLastRun, AdjustRisk, NeedsHuman
    <3> QED BY <2>1, <3>1, <3>2, FrameKeepsRuns
  <2>17. CASE LogUnreadable
    <3>1. UNCHANGED <<runs, cache, session, hitl>> /\ pc' # "choose"
      BY <2>17 DEF LogUnreadable
    <3>2. ActionScored' /\ ToolIsLastRun'
      BY <2>17, <3>1 DEF LogUnreadable, ActionScored, ToolIsLastRun, AdjustRisk, NeedsHuman
    <3> QED BY <2>1, <3>1, <3>2, FrameKeepsRuns
  <2>18. CASE RewriteLog
    <3>1. UNCHANGED <<runs, cache, session, hitl>> /\ pc' # "choose"
      BY <2>18 DEF RewriteLog
    <3>2. ActionScored' /\ ToolIsLastRun'
      BY <2>18, <3>1 DEF RewriteLog, ActionScored, ToolIsLastRun, AdjustRisk, NeedsHuman
    <3> QED BY <2>1, <3>1, <3>2, FrameKeepsRuns
  <2>19. CASE LogWritten
    <3>1. UNCHANGED <<runs, cache, session, hitl>> /\ pc' # "choose"
      BY <2>19 DEF LogWritten
    <3>2. ActionScored' /\ ToolIsLastRun'
      BY <2>19, <3>1 DEF LogWritten, ActionScored, ToolIsLastRun, AdjustRisk, NeedsHuman
    <3> QED BY <2>1, <3>1, <3>2, FrameKeepsRuns
  <2>20. CASE Kill
    <3>1. UNCHANGED <<runs, cache, session, hitl>> /\ pc' # "choose"
      BY <2>20 DEF Kill
    <3>2. ActionScored' /\ ToolIsLastRun'
      BY <2>20, <3>1 DEF Kill, ActionScored, ToolIsLastRun, AdjustRisk, NeedsHuman
    <3> QED BY <2>1, <3>1, <3>2, FrameKeepsRuns
  <2>21. CASE FilesChange
    <3>1. UNCHANGED <<runs, cache, session, hitl, pc, act>>
      BY <2>21 DEF FilesChange
    <3>2. ActionScored' /\ ToolIsLastRun'
      BY <2>21, <3>1 DEF FilesChange, ActionScored, ToolIsLastRun, AdjustRisk, NeedsHuman
    <3> QED BY <2>1, <3>1, <3>2, FrameKeepsRuns
  <2>22. CASE DispatchNoParameter
    <3>1. UNCHANGED <<runs, cache, session, hitl>> /\ pc' \in {"prompt", "plan"}
      BY <2>22 DEF DispatchNoParameter, EndTask, NextStep
    <3>2. ActionScored' /\ ToolIsLastRun'
      BY <3>1 DEF ActionScored, ToolIsLastRun
    <3> QED BY <2>1, <3>1, <3>2, FrameKeepsRuns
  <2>23. CASE Dispatch
    <3>1. UNCHANGED <<runs, cache, session, hitl>> /\ pc' = "approve"
      BY <2>23 DEF Dispatch
    <3>2. PICK r \in RisksOf(act.name) : act' = [act EXCEPT !.risk = r]
      BY <2>23 DEF Dispatch
    <3>3. act'.name = act.name /\ act'.risk = r
      BY <3>2 DEF TypeOK
    <3>4. act.name \in CommandActions => r = AdjustRisk(COMMAND_MAP[act.name])
      BY <3>2 DEF RisksOf
    <3>5. ActionScored' /\ ToolIsLastRun'
      BY <3>1, <3>3, <3>4 DEF ActionScored, ToolIsLastRun, AdjustRisk
    <3> QED BY <2>1, <3>1, <3>5, FrameKeepsRuns
  <2>24. CASE ChooseHitlMode
    <3>1. /\ pc = "choose" /\ pc' = "prompt" /\ UNCHANGED <<runs, cache, session, act>>
      BY <2>24 DEF ChooseHitlMode
    <3>2. \A i \in DOMAIN runs : runs[i].session # session
      BY <3>1 DEF RunsAttributed, TypeOK
    <3>3. AutoRunsAreEarned'
      BY <3>1, <3>2 DEF AutoRunsAreEarned
    <3>4. RunsAttributed' /\ CacheWasRun'
      BY <3>1 DEF RunsAttributed, CacheWasRun
    <3>5. ActionScored' /\ ToolIsLastRun'
      BY <3>1 DEF ActionScored, ToolIsLastRun
    <3> QED BY <2>1, <3>3, <3>4, <3>5
  <2>25. CASE EnterTool
    <3>1. /\ runs' = Append(runs, ToolRun) /\ runs \in Seq(ToolRuns)
          /\ UNCHANGED <<cache, session, hitl, act>>
          /\ pc' \in {"return", "confirm", "delete"} /\ pc = "run"
      BY <2>25 DEF EnterTool, TypeOK
    <3>2. /\ ToolRun \in ToolRuns /\ ToolRun.session = session
          /\ ToolRun.name = act.name /\ ToolRun.by = act.by
      BY DEF TypeOK, ToolRun, ToolRuns
    <3>3. /\ Len(runs') = Len(runs) + 1 /\ DOMAIN runs' = 1..(Len(runs) + 1)
          /\ \A j \in 1..Len(runs) : runs'[j] = runs[j]
          /\ runs'[Len(runs) + 1] = ToolRun /\ DOMAIN runs = 1..Len(runs)
          /\ Len(runs) \in Nat
      BY <3>1, <3>2
    <3>4. RunsAttributed'
      BY <3>1, <3>2, <3>3 DEF RunsAttributed, ActionScored, TypeOK
    <3>5. CacheWasRun'
      BY <3>1, <3>3 DEF CacheWasRun
    <3>6. ActionScored'
      BY <3>1 DEF ActionScored
    <3>7. ToolIsLastRun'
      BY <3>1, <3>2, <3>3 DEF ToolIsLastRun
    <3>8. AutoRunsAreEarned'
      BY <2>25, EnterToolEarned
    <3> QED BY <2>1, <3>4, <3>5, <3>6, <3>7, <3>8
  <2>26. CASE ToolReturns
    <3>1. UNCHANGED <<runs, session, hitl>> /\ pc = "return" /\ pc' = "record"
      BY <2>26 DEF ToolReturns
    <3>2. CacheWasRun'
      <4> SUFFICES ASSUME NEW a \in CommandActions, COMMAND_MAP[a] \in cache'
                   PROVE  \E j \in DOMAIN runs : runs[j].session = session /\ runs[j].name = a
        BY <3>1 DEF CacheWasRun
      <4>1. CASE COMMAND_MAP[a] \in cache
        BY <4>1 DEF CacheWasRun
      <4>2. CASE COMMAND_MAP[a] \notin cache
        <5>1. act.name \in CommandActions /\ COMMAND_MAP[a] = COMMAND_MAP[act.name]
          BY <2>26, <4>2 DEF ToolReturns
        <5>2. a = act.name
          BY <5>1, CommandMapInjective
        <5>3. runs \in Seq(ToolRuns) /\ Len(runs) \in DOMAIN runs
          BY <3>1 DEF TypeOK, ToolIsLastRun
        <5> QED BY <3>1, <5>2, <5>3 DEF ToolIsLastRun
      <4> QED BY <4>1, <4>2
    <3>3. RunsAttributed'
      BY <3>1 DEF RunsAttributed
    <3>4. AutoRunsAreEarned'
      BY <3>1 DEF AutoRunsAreEarned, HumanRan, Supervised
    <3>5. ActionScored' /\ ToolIsLastRun'
      BY <3>1 DEF ActionScored, ToolIsLastRun
    <3> QED BY <2>1, <3>2, <3>3, <3>4, <3>5
  <2>27. CASE Restart
    <3>1. /\ session' = session + 1 /\ cache' = {} /\ pc' = "choose"
          /\ UNCHANGED runs /\ session \in Nat
      BY <2>27 DEF Restart, TypeOK
    <3>2. \A i \in DOMAIN runs : runs[i].session \in Nat /\ runs[i].session <= session
      <4>1. runs \in Seq(ToolRuns)
        BY DEF TypeOK
      <4>2. \A i \in DOMAIN runs : runs[i] \in ToolRuns
        BY <4>1
      <4> QED BY <4>2 DEF RunsAttributed, ToolRuns
    <3>3. RunsAttributed'
      BY <3>1, <3>2 DEF RunsAttributed
    <3>4. AutoRunsAreEarned'
      BY <3>1, <3>2 DEF AutoRunsAreEarned
    <3>5. CacheWasRun' /\ ActionScored' /\ ToolIsLastRun'
      BY <3>1 DEF CacheWasRun, ActionScored, ToolIsLastRun
    <3> QED BY <2>1, <3>3, <3>4, <3>5
  <2>28. CASE UNCHANGED vars
    <3>1. UNCHANGED <<runs, cache, session, hitl, pc, act>>
      BY <2>28 DEF vars
    <3>2. ActionScored' /\ ToolIsLastRun'
      BY <3>1 DEF ActionScored, ToolIsLastRun, AdjustRisk, NeedsHuman
    <3> QED BY <2>1, <3>1, <3>2, FrameKeepsRuns
  <2> QED BY <2>2, <2>3, <2>4, <2>5, <2>6, <2>7, <2>8, <2>9, <2>10, <2>11, <2>12, <2>13, <2>14, <2>15, <2>16, <2>17, <2>18, <2>19, <2>20, <2>21, <2>22, <2>23, <2>24, <2>25, <2>26, <2>27, <2>28
          DEF Next, AgentStep
<1>3. EarnedInv => AutoRunsAreEarned
  BY DEF EarnedInv
<1> QED BY <1>1, <1>2, <1>3, PTL DEF Spec

-----------------------------------------------------------------------------
(* TaskHasOneVerdict needs the number of the task: while a task has no      *)
(* verdict yet, every verdict in decision_history is of an earlier one.     *)

\* the task in hand has no verdict in decision_history
Undecided == {"plan", "dispatch", "approve", "run", "confirm", "delete",
              "return", "record"}

HistoryOfEarlierTasks ==
  \A i \in DOMAIN history : /\ history[i].task <= task
                            /\ pc \in Undecided => history[i].task < task

VerdictInv == TypeOK /\ HistoryOfEarlierTasks /\ TaskHasOneVerdict

\* Only a new task, a verdict or a new process touches what VerdictInv is about.
LEMMA VerdictSteps ==
  ASSUME [Next]_vars
  PROVE  \/ UNCHANGED <<history, task>> /\ (pc' \in Undecided => pc \in Undecided)
         \/ SubmitTask \/ RecordDecision \/ Restart
<1> USE DEF memory, disk, counts, aux, Undecided
<1>1. CASE ChooseHitlMode \/ Exit \/ Kill
  BY <1>1 DEF ChooseHitlMode, Exit, Kill
<1>2. CASE PlanNothing \/ PlanMalformed \/ PlanAction
  BY <1>2 DEF PlanNothing, PlanMalformed, PlanAction
<1>3. CASE DispatchUnknown \/ DispatchNoParameter \/ Dispatch
  BY <1>3 DEF DispatchUnknown, DispatchNoParameter, Dispatch, EndTask, NextStep
<1>4. CASE AutoApprove \/ HumanApproves \/ HumanRefuses
  BY <1>4 DEF AutoApprove, HumanApproves, HumanRefuses, StartRun
<1>5. CASE EnterTool
  BY <1>5 DEF EnterTool
<1>6. CASE ConfirmDeletion \/ ToolReturns \/ ToolRaises
  BY <1>6 DEF ConfirmDeletion, ToolReturns, ToolRaises
<1>7. CASE DeleteTarget
  BY <1>7 DEF DeleteTarget
<1>8. CASE CreateLog \/ LogCreated \/ LogUnreadable \/ RewriteLog \/ LogWritten
  BY <1>8 DEF CreateLog, LogCreated, LogUnreadable, RewriteLog, LogWritten
<1>9. CASE FilesChange
  BY <1>9 DEF FilesChange
<1>10. CASE UNCHANGED vars
  BY <1>10 DEF vars
<1> QED BY <1>1, <1>2, <1>3, <1>4, <1>5, <1>6, <1>7, <1>8, <1>9, <1>10
        DEF Next, AgentStep

\* Every step keeps VerdictInv.
LEMMA VerdictInductive == VerdictInv /\ [Next]_vars => VerdictInv'
<1> SUFFICES ASSUME VerdictInv, [Next]_vars PROVE VerdictInv'
  OBVIOUS
<1> USE DEF VerdictInv
<1>1. TypeOK'
  BY TypeInductive
<1>2. /\ history \in Seq(Entries) /\ task \in Nat
      /\ \A i \in DOMAIN history : history[i].task \in Nat
  <2>1. history \in Seq(Entries) /\ task \in Nat
    BY DEF TypeOK
  <2>2. \A i \in DOMAIN history : history[i] \in Entries
    BY <2>1
  <2> QED BY <2>1, <2>2 DEF Entries
<1>3. CASE UNCHANGED <<history, task>> /\ (pc' \in Undecided => pc \in Undecided)
  BY <1>1, <1>3 DEF HistoryOfEarlierTasks, TaskHasOneVerdict
<1>4. CASE SubmitTask
  <2>1. task' = task + 1 /\ UNCHANGED history
    BY <1>4 DEF SubmitTask, disk
  <2> QED BY <1>1, <1>2, <2>1 DEF HistoryOfEarlierTasks, TaskHasOneVerdict
<1>5. CASE RecordDecision
  <2>1. /\ pc = "record" /\ pc' = "log" /\ UNCHANGED task
        /\ history' = Append(history, Entry)
    BY <1>5 DEF RecordDecision, counts
  <2>2. Entry \in Entries /\ Entry.task = task
    BY DEF Entry, Entries, TypeOK
  <2>3. /\ DOMAIN history' = 1..(Len(history) + 1) /\ DOMAIN history = 1..Len(history)
        /\ Len(history) \in Nat
        /\ \A i \in 1..Len(history) : history'[i] = history[i]
        /\ history'[Len(history) + 1] = Entry
    BY <1>2, <2>1, <2>2
  <2>4. \A i \in 1..Len(history) : history[i].task < task
    BY <2>1, <2>3 DEF HistoryOfEarlierTasks, Undecided
  <2>5. HistoryOfEarlierTasks'
    BY <1>2, <2>1, <2>2, <2>3, <2>4 DEF HistoryOfEarlierTasks, Undecided
  <2>6. TaskHasOneVerdict'
    BY <1>2, <2>2, <2>3, <2>4 DEF TaskHasOneVerdict
  <2> QED BY <1>1, <2>5, <2>6
<1>6. CASE Restart
  <2>1. history' = <<>>
    BY <1>6 DEF Restart
  <2> QED BY <1>1, <2>1 DEF HistoryOfEarlierTasks, TaskHasOneVerdict
<1> QED BY <1>3, <1>4, <1>5, <1>6, VerdictSteps

\* A task gets at most one verdict in decision_history, for every planner,
\* classifier and mode, whatever is killed and restarted in between.
THEOREM OneVerdict == Spec => []TaskHasOneVerdict
<1>1. Init => VerdictInv
  <2>1. Init => TypeOK
    BY BoundsAssumption DEF Init, TypeOK, PCs, NoAction, Names, Actors, MaxSteps
  <2> QED BY <2>1 DEF Init, VerdictInv, HistoryOfEarlierTasks, TaskHasOneVerdict
<1>2. VerdictInv => TaskHasOneVerdict
  BY DEF VerdictInv
<1> QED BY <1>1, <1>2, VerdictInductive, PTL DEF Spec

-----------------------------------------------------------------------------
(* The audit trail.  AtMostLastRunUnlogged and ImplementsAuditTrail rest on *)
(* the numbering of the calls: a task makes at most one, every run and      *)
(* entry bears the number of a call that was made, and until a call is      *)
(* logged its number is newer than all that is in the file.                 *)

\* A tool of the call in hand has been entered or refused, and the call is
\* not yet in logs.json.
AfterTool == {"confirm", "delete", "return", "record", "log", "create", "rewrite"}

InCall == {"approve", "run"} \cup AfterTool

\* A task makes one call, and it makes it from the dispatch.
OneCallPerTask ==
  /\ call <= task /\ task <= MaxTasks
  /\ pc \in {"plan", "dispatch"} => call < task
  /\ pc \in InCall => 1 <= call

\* Runs bear the numbers of calls, and of sessions, that have begun.
RunsNumbered ==
  \A i \in DOMAIN runs :
    /\ runs[i].call \in 1..call /\ runs[i].session <= session
    /\ pc \in {"approve", "run"} => runs[i].call < call

\* Entries bear the numbers of calls before the one in hand.
EntriesNumbered ==
  \A k \in DOMAIN logEntries :
    /\ logEntries[k].call \in 1..call
    /\ pc \in InCall => logEntries[k].call < call

\* Whoever let the action in hand run is known exactly when its tool ran.
VerdictInHand ==
  /\ pc \in {"dispatch", "approve"} => act.by = "nobody"
  /\ pc = "run" => act.by # "nobody"
  /\ pc \in AfterTool =>
       (act.by # "nobody" <=> \E i \in DOMAIN runs : runs[i].call = call)

\* In a live process only the call in hand has a run that is not logged.
OnlyCallInHandUnlogged ==
  pc # "dead" =>
    \A i \in DOMAIN runs :
      runs[i].session = session /\ ~Logged(runs[i].call) =>
        pc \in AfterTool /\ runs[i].call = call

TrailInv == /\ TypeOK /\ OneCallPerTask /\ RunsNumbered /\ EntriesNumbered
            /\ VerdictInHand /\ OnlyCallInHandUnlogged /\ AtMostLastRunUnlogged

\* The numbers and records the trail is made of are what TypeOK says.
LEMMA TrailTypes ==
  ASSUME TypeOK
  PROVE  /\ runs \in Seq(ToolRuns) /\ logEntries \in Seq(Entries)
         /\ call \in Nat /\ task \in Nat /\ session \in Nat
         /\ \A i \in DOMAIN runs : /\ runs[i].call \in Nat /\ runs[i].session \in Nat
         /\ \A k \in DOMAIN logEntries : logEntries[k].call \in Nat
         /\ ToolRun \in ToolRuns /\ Entry \in Entries
<1>1. /\ runs \in Seq(ToolRuns) /\ logEntries \in Seq(Entries)
      /\ call \in Nat /\ task \in Nat /\ session \in Nat
  BY DEF TypeOK
<1>2. /\ \A i \in DOMAIN runs : runs[i] \in ToolRuns
      /\ \A k \in DOMAIN logEntries : logEntries[k] \in Entries
  BY <1>1
<1>3. ToolRun \in ToolRuns /\ Entry \in Entries
  BY DEF TypeOK, ToolRun, ToolRuns, Entry, Entries
<1> QED BY <1>1, <1>2, <1>3 DEF ToolRuns, Entries

\* A step that makes, runs, refuses and logs no call, and starts no task and no
\* process: what it may do to the place of the process and the action in hand.
Quiet ==
  /\ UNCHANGED <<runs, logEntries, call, session, task>>
  /\ pc' \in {"plan", "dispatch"} => pc \in {"plan", "dispatch"}
  /\ pc' \in {"approve", "run"} => pc \in {"approve", "run"}
  /\ pc \in {"run"} \cup AfterTool => pc' \in {"run", "dead"} \cup AfterTool
  /\ pc \in AfterTool => pc' \in {"dead"} \cup AfterTool
  /\ pc' \in AfterTool => pc \in AfterTool /\ act'.by = act.by
  /\ pc = "dead" => pc' = "dead"
  /\ pc' = "run" => act'.by # "nobody"
  /\ pc' \in {"dispatch", "approve"} => act'.by = "nobody"

\* Every step is a quiet one or one of six.
LEMMA TrailSteps ==
  ASSUME TypeOK, VerdictInHand, [Next]_vars
  PROVE  Quiet \/ SubmitTask \/ Dispatch \/ HumanRefuses \/ EnterTool \/ LogWritten \/ Restart
<1> USE DEF memory, disk, counts, aux, Quiet, AfterTool
<1>1. CASE ChooseHitlMode \/ Exit \/ Kill
  BY <1>1 DEF ChooseHitlMode, Exit, Kill, Alive
<1>2. CASE PlanNothing \/ PlanMalformed
  BY <1>2 DEF PlanNothing, PlanMalformed
<1>3. CASE PlanAction
  BY <1>3 DEF PlanAction, NoAction
<1>4. CASE DispatchUnknown \/ DispatchNoParameter
  BY <1>4 DEF DispatchUnknown, DispatchNoParameter, EndTask, NextStep
<1>5. CASE AutoApprove \/ HumanApproves
  BY <1>5 DEF AutoApprove, HumanApproves, StartRun, TypeOK
<1>6. CASE ConfirmDeletion \/ ToolReturns \/ ToolRaises
  BY <1>6 DEF ConfirmDeletion, ToolReturns, ToolRaises
<1>7. CASE DeleteTarget
  BY <1>7 DEF DeleteTarget
<1>8. CASE RecordDecision \/ CreateLog \/ LogCreated \/ LogUnreadable \/ RewriteLog
  BY <1>8 DEF RecordDecision, CreateLog, LogCreated, LogUnreadable, RewriteLog
<1>9. CASE FilesChange
  BY <1>9 DEF FilesChange, VerdictInHand
<1>10. CASE UNCHANGED vars
  BY <1>10 DEF vars, VerdictInHand
<1> QED BY <1>1, <1>2, <1>3, <1>4, <1>5, <1>6, <1>7, <1>8, <1>9, <1>10
        DEF Next, AgentStep

\* A quiet step keeps the trail's invariant.
LEMMA QuietKeepsTrail ==
  ASSUME TrailInv, Quiet, TypeOK'
  PROVE  TrailInv'
<1> USE DEF TrailInv, Quiet
<1>1. OneCallPerTask'
  BY DEF OneCallPerTask, InCall
<1>2. RunsNumbered'
  BY DEF RunsNumbered
<1>3. EntriesNumbered'
  BY DEF EntriesNumbered, InCall
<1>4. VerdictInHand'
  BY DEF VerdictInHand
<1>5. OnlyCallInHandUnlogged'
  BY DEF OnlyCallInHandUnlogged, Logged
<1>6. AtMostLastRunUnlogged'
  BY DEF AtMostLastRunUnlogged, Logged, MidCall, AfterTool, TypeOK, PCs
<1> QED BY <1>1, <1>2, <1>3, <1>4, <1>5, <1>6

\* Every step keeps the trail's invariant.
LEMMA TrailInductive == TrailInv /\ [Next]_vars => TrailInv'
<1> SUFFICES ASSUME TrailInv, [Next]_vars PROVE TrailInv'
  OBVIOUS
<1> USE DEF TrailInv
<1>1. TypeOK'
  BY TypeInductive
<1>2. /\ runs \in Seq(ToolRuns) /\ logEntries \in Seq(Entries)
      /\ call \in Nat /\ task \in Nat /\ session \in Nat
      /\ \A i \in DOMAIN runs : /\ runs[i].call \in Nat /\ runs[i].session \in Nat
      /\ \A k \in DOMAIN logEntries : logEntries[k].call \in Nat
      /\ ToolRun \in ToolRuns /\ Entry \in Entries
  BY TrailTypes
<1>3. CASE Quiet
  BY <1>1, <1>3, QuietKeepsTrail
<1>4. CASE SubmitTask
  <2>1. /\ pc = "prompt" /\ pc' = "plan" /\ task < MaxTasks /\ task' = task + 1
        /\ UNCHANGED <<runs, logEntries, call, session, act>>
    BY <1>4 DEF SubmitTask, disk, aux
  <2>2. OneCallPerTask'
    BY <1>2, <2>1, BoundsAssumption DEF OneCallPerTask, InCall, AfterTool
  <2>3. RunsNumbered' /\ EntriesNumbered' /\ VerdictInHand'
    BY <2>1 DEF RunsNumbered, EntriesNumbered, VerdictInHand, InCall, AfterTool
  <2>4. OnlyCallInHandUnlogged' /\ AtMostLastRunUnlogged'
    BY <2>1 DEF OnlyCallInHandUnlogged, AtMostLastRunUnlogged, Logged, AfterTool, MidCall
  <2> QED BY <1>1, <2>2, <2>3, <2>4
<1>5. CASE Dispatch
  <2>1. /\ pc = "dispatch" /\ pc' = "approve" /\ call' = call + 1
        /\ UNCHANGED <<runs, logEntries, session, task>>
    BY <1>5 DEF Dispatch, disk, counts
  <2>2. act'.by = act.by
    BY <1>5 DEF Dispatch, TypeOK
  <2>3. OneCallPerTask'
    BY <1>2, <2>1 DEF OneCallPerTask, InCall, AfterTool
  <2>4. RunsNumbered' /\ EntriesNumbered'
    BY <1>2, <2>1 DEF RunsNumbered, EntriesNumbered, InCall, AfterTool
  <2>5. VerdictInHand'
    BY <2>1, <2>2 DEF VerdictInHand, AfterTool
  <2>6. OnlyCallInHandUnlogged' /\ AtMostLastRunUnlogged'
    BY <2>1 DEF OnlyCallInHandUnlogged, AtMostLastRunUnlogged, Logged, AfterTool, MidCall
  <2> QED BY <1>1, <2>3, <2>4, <2>5, <2>6
<1>6. CASE HumanRefuses
  <2>1. /\ pc = "approve" /\ pc' = "record"
        /\ UNCHANGED <<runs, logEntries, call, session, task, act>>
    BY <1>6 DEF HumanRefuses, memory, disk, counts, aux
  <2>2. OneCallPerTask' /\ RunsNumbered' /\ EntriesNumbered'
    BY <2>1 DEF OneCallPerTask, RunsNumbered, EntriesNumbered, InCall, AfterTool
  <2>3. \A i \in DOMAIN runs : runs[i].call < call
    BY <2>1 DEF RunsNumbered
  <2>4. VerdictInHand'
    BY <1>2, <2>1, <2>3 DEF VerdictInHand, AfterTool
  <2>5. OnlyCallInHandUnlogged' /\ AtMostLastRunUnlogged'
    BY <2>1 DEF OnlyCallInHandUnlogged, AtMostLastRunUnlogged, Logged, AfterTool, MidCall
  <2> QED BY <1>1, <2>2, <2>4, <2>5
<1>7. CASE EnterTool
  <2>1. /\ pc = "run" /\ pc' \in {"return", "confirm", "delete"}
        /\ runs' = Append(runs, ToolRun)
        /\ UNCHANGED <<logEntries, call, session, task, act>>
    BY <1>7 DEF EnterTool, counts
  <2>2. ToolRun.call = call /\ ToolRun.session = session
    BY DEF ToolRun
  <2>3. /\ DOMAIN runs' = 1..(Len(runs) + 1) /\ DOMAIN runs = 1..Len(runs)
        /\ Len(runs) \in Nat
        /\ \A i \in 1..Len(runs) : runs'[i] = runs[i]
        /\ runs'[Len(runs) + 1] = ToolRun
    BY <1>2, <2>1
  <2>4. OneCallPerTask' /\ EntriesNumbered'
    BY <2>1 DEF OneCallPerTask, EntriesNumbered, InCall, AfterTool
  <2>5. RunsNumbered'
    BY <1>2, <2>1, <2>2, <2>3 DEF RunsNumbered, OneCallPerTask, InCall
  <2>6. VerdictInHand'
    BY <2>1, <2>2, <2>3 DEF VerdictInHand, AfterTool
  <2>7. \A i \in 1..Len(runs) : runs[i].session = session => Logged(runs[i].call)
    BY <2>1, <2>3 DEF OnlyCallInHandUnlogged, AfterTool
  <2>8. OnlyCallInHandUnlogged'
    BY <2>1, <2>2, <2>3, <2>7 DEF OnlyCallInHandUnlogged, Logged, AfterTool
  <2>9. AtMostLastRunUnlogged'
    <3> SUFFICES ASSUME NEW i \in DOMAIN runs', ~Logged(runs'[i].call)
                 PROVE  /\ \A j \in DOMAIN runs' : j > i => runs'[j].session # runs'[i].session
                        /\ runs'[i].session = session => pc' \in MidCall \cup {"dead"}
      BY <2>1 DEF AtMostLastRunUnlogged, Logged
    <3>1. pc' \in MidCall
      BY <2>1 DEF MidCall
    <3>2. CASE i = Len(runs) + 1
      BY <2>3, <3>1, <3>2
    <3>3. CASE i \in 1..Len(runs)
      BY <2>2, <2>3, <2>7, <3>1, <3>3 DEF AtMostLastRunUnlogged
    <3> QED BY <2>3, <3>2, <3>3
  <2> QED BY <1>1, <2>4, <2>5, <2>6, <2>8, <2>9
<1>8. CASE LogWritten
  <2>1. /\ pc = "rewrite" /\ pc' = "prompt" /\ logEntries' = Append(logEntries, Entry)
        /\ UNCHANGED <<runs, call, session, task>>
    BY <1>8 DEF LogWritten, counts, aux
  <2>2. Entry.call = call
    BY DEF Entry
  <2>3. /\ DOMAIN logEntries' = 1..(Len(logEntries) + 1) /\ Len(logEntries) \in Nat
        /\ DOMAIN logEntries = 1..Len(logEntries)
        /\ \A k \in 1..Len(logEntries) : logEntries'[k] = logEntries[k]
        /\ logEntries'[Len(logEntries) + 1] = Entry
    BY <1>2, <2>1
  <2>4. OneCallPerTask' /\ RunsNumbered' /\ VerdictInHand'
    BY <2>1 DEF OneCallPerTask, RunsNumbered, VerdictInHand, InCall, AfterTool
  <2>5. EntriesNumbered'
    BY <1>2, <2>1, <2>2, <2>3 DEF EntriesNumbered, OneCallPerTask, InCall, AfterTool
  <2>6. Logged(call)' /\ \A c : Logged(c) => Logged(c)'
    BY <2>1, <2>2, <2>3 DEF Logged
  <2>7. \A i \in DOMAIN runs : runs[i].session = session => Logged(runs[i].call)'
    BY <2>1, <2>6 DEF OnlyCallInHandUnlogged
  <2>8. OnlyCallInHandUnlogged'
    BY <2>1, <2>7 DEF OnlyCallInHandUnlogged, Logged
  <2>9. AtMostLastRunUnlogged'
    BY <2>1, <2>6, <2>7 DEF AtMostLastRunUnlogged, Logged
  <2> QED BY <1>1, <2>4, <2>5, <2>8, <2>9
<1>9. CASE Restart
  <2>1. /\ pc' = "choose" /\ session' = session + 1
        /\ UNCHANGED <<runs, logEntries, call, task>>
    BY <1>9 DEF Restart, disk, aux
  <2>2. OneCallPerTask' /\ RunsNumbered' /\ EntriesNumbered' /\ VerdictInHand'
    BY <1>2, <2>1 DEF OneCallPerTask, RunsNumbered, EntriesNumbered, VerdictInHand, InCall, AfterTool
  <2>3. \A i \in DOMAIN runs : runs[i].session # session'
    BY <1>2, <2>1 DEF RunsNumbered
  <2>4. OnlyCallInHandUnlogged' /\ AtMostLastRunUnlogged'
    BY <2>1, <2>3 DEF OnlyCallInHandUnlogged, AtMostLastRunUnlogged, Logged
  <2> QED BY <1>1, <2>2, <2>4
<1> QED BY <1>3, <1>4, <1>5, <1>6, <1>7, <1>8, <1>9, TrailSteps

\* The agent starts with an empty trail.
LEMMA TrailInit == Init => TrailInv
<1>1. Init => TypeOK
  BY BoundsAssumption DEF Init, TypeOK, PCs, NoAction, Names, Actors, MaxSteps
<1> QED BY <1>1, BoundsAssumption
        DEF Init, TrailInv, OneCallPerTask, RunsNumbered, EntriesNumbered, VerdictInHand,
            OnlyCallInHandUnlogged, AtMostLastRunUnlogged, InCall, AfterTool

\* For every planner, classifier, mode and every pattern of kills, raises and
\* torn logs: a session loses at most its last tool run from logs.json, and only
\* by dying in the call that made it.
THEOREM OnlyLastRunLost == Spec => []AtMostLastRunUnlogged
<1>1. TrailInv => AtMostLastRunUnlogged
  BY DEF TrailInv
<1> QED BY <1>1, TrailInit, TrailInductive, PTL DEF Spec

-----------------------------------------------------------------------------
(* The agent implements AuditTrail: a tool that is entered is its Run, an   *)
(* entry that is complete in logs.json its Log, and every other step leaves *)
(* the trail as it is.                                                      *)

\* what AuditTrail sees of the agent's state
RanCalls == {runs[i].call : i \in DOMAIN runs}
TrailEntry(e) == [call |-> e.call, verdict |-> e.verdict]
LoggedCalls == [i \in DOMAIN logEntries |-> TrailEntry(logEntries[i])]

\* An entry more in logs.json is an entry more in the trail.
LEMMA TrailAppends ==
  ASSUME logEntries \in Seq(Entries), NEW e \in Entries,
         logEntries' = Append(logEntries, e)
  PROVE  LoggedCalls' = Append(LoggedCalls, TrailEntry(e))
<1> DEFINE S == [call : Nat, verdict : {"approved", "blocked"}]
           n == Len(logEntries)
<1>1. /\ n \in Nat /\ DOMAIN logEntries = 1..n /\ DOMAIN logEntries' = 1..(n + 1)
      /\ \A i \in 1..n : logEntries[i] \in Entries /\ logEntries'[i] = logEntries[i]
      /\ logEntries'[n + 1] = e
  OBVIOUS
<1>2. \A f \in Entries : TrailEntry(f) \in S
  BY DEF Entries, TrailEntry
<1>3. LoggedCalls \in Seq(S) /\ Len(LoggedCalls) = n
  BY <1>1, <1>2 DEF LoggedCalls
<1>4. LoggedCalls' = [i \in 1..(n + 1) |-> IF i <= n THEN TrailEntry(logEntries[i])
                                                     ELSE TrailEntry(e)]
  BY <1>1 DEF LoggedCalls
<1>5. LoggedCalls' \in Seq(S) /\ Len(LoggedCalls') = n + 1
  BY <1>1, <1>2, <1>4
<1>6. /\ Append(LoggedCalls, TrailEntry(e)) \in Seq(S)
      /\ Len(Append(LoggedCalls, TrailEntry(e))) = n + 1
      /\ \A i \in 1..(n + 1) :
           Append(LoggedCalls, TrailEntry(e))[i] =
             IF i <= n THEN LoggedCalls[i] ELSE TrailEntry(e)
  BY <1>1, <1>2, <1>3
<1>7. \A i \in 1..(n + 1) : LoggedCalls'[i] = Append(LoggedCalls, TrailEntry(e))[i]
  BY <1>1, <1>4, <1>6 DEF LoggedCalls
<1> HIDE DEF S
<1> QED BY <1>5, <1>6, <1>7, SeqEqual

\* In the call in hand, everything in the trail is older.
LEMMA CallIsNewest ==
  ASSUME TrailInv, pc \in InCall
  PROVE  /\ call \in 1..MaxTasks
         /\ \A d \in RanCalls : d <= call
         /\ \A k \in DOMAIN LoggedCalls : LoggedCalls[k].call < call
<1>1. call \in Nat /\ task \in Nat /\ \A i \in DOMAIN runs : runs[i].call \in Nat
  BY TrailTypes DEF TrailInv
<1>2. call \in 1..MaxTasks
  BY <1>1, BoundsAssumption DEF TrailInv, OneCallPerTask
<1>3. \A d \in RanCalls : d <= call
  BY <1>1 DEF TrailInv, RunsNumbered, RanCalls
<1>4. \A k \in DOMAIN LoggedCalls : LoggedCalls[k].call < call
  BY DEF TrailInv, EntriesNumbered, LoggedCalls, TrailEntry
<1> QED BY <1>2, <1>3, <1>4

\* Every step of the agent is a step of the trail or leaves it alone.
LEMMA TrailStep == TrailInv /\ [Next]_vars => [Trail!Next]_(Trail!vars)
<1> SUFFICES ASSUME TrailInv, [Next]_vars PROVE [Trail!Next]_(Trail!vars)
  OBVIOUS
<1>1. /\ runs \in Seq(ToolRuns) /\ logEntries \in Seq(Entries)
      /\ ToolRun \in ToolRuns /\ Entry \in Entries
  BY TrailTypes DEF TrailInv
<1>2. CASE UNCHANGED <<runs, logEntries>>
  BY <1>2 DEF Trail!vars
<1>3. CASE EnterTool
  <2>1. /\ pc = "run" /\ runs' = Append(runs, ToolRun) /\ UNCHANGED logEntries
    BY <1>3 DEF EnterTool
  <2>2. /\ call \in 1..MaxTasks
        /\ \A d \in RanCalls : d <= call
        /\ \A k \in DOMAIN LoggedCalls : LoggedCalls[k].call < call
    BY <2>1, CallIsNewest DEF InCall
  <2>3. call \notin RanCalls
    BY <2>1, TrailTypes DEF TrailInv, RunsNumbered, RanCalls
  <2>4. RanCalls' = RanCalls \cup {call}
    <3>1. ToolRun.call = call
      BY DEF ToolRun
    <3>2. /\ DOMAIN runs' = DOMAIN runs \cup {Len(runs) + 1}
          /\ \A i \in DOMAIN runs : runs'[i] = runs[i]
          /\ runs'[Len(runs) + 1] = ToolRun
      BY <1>1, <2>1
    <3> QED BY <3>1, <3>2 DEF RanCalls
  <2>5. PICK c \in 1..MaxTasks : c = call
    BY <2>2
  <2>6. Trail!Run(c)
    BY <2>1, <2>2, <2>3, <2>4, <2>5
       DEF Trail!Run, Trail!Newest, RanCalls, LoggedCalls, TrailEntry
  <2>7. Trail!Next
    BY <2>6 DEF Trail!Next
  <2> QED BY <2>7
<1>4. CASE LogWritten
  <2>1. /\ pc = "rewrite" /\ logEntries' = Append(logEntries, Entry) /\ UNCHANGED runs
    BY <1>4 DEF LogWritten, aux
  <2>2. /\ call \in 1..MaxTasks
        /\ \A d \in RanCalls : d <= call
        /\ \A k \in DOMAIN LoggedCalls : LoggedCalls[k].call < call
    BY <2>1, CallIsNewest DEF InCall, AfterTool
  <2>3. /\ Entry.verdict \in {"approved", "blocked"} /\ Entry.call = call
        /\ Entry.verdict = "approved" <=> act.by # "nobody"
    BY DEF Entry
  <2>4. Entry.verdict = "approved" <=> call \in RanCalls
    BY <2>1, <2>3 DEF TrailInv, VerdictInHand, AfterTool, RanCalls
  <2>5. LoggedCalls' = Append(LoggedCalls, [call |-> call, verdict |-> Entry.verdict])
    BY <1>1, <2>1, <2>3, TrailAppends DEF TrailEntry
  <2>6. PICK c \in 1..MaxTasks, v \in {"approved", "blocked"} :
               c = call /\ v = Entry.verdict
    BY <2>2, <2>3
  <2>7. Trail!Log(c, v)
    BY <2>1, <2>2, <2>4, <2>5, <2>6
       DEF Trail!Log, Trail!Newest, RanCalls, LoggedCalls, TrailEntry
  <2>8. Trail!Next
    BY <2>7 DEF Trail!Next, Trail!Verdict
  <2> QED BY <2>8
<1>5. UNCHANGED <<runs, logEntries>> \/ EnterTool \/ LogWritten
  <2>1. CASE Quiet
    BY <2>1 DEF Quiet
  <2>2. CASE SubmitTask \/ Dispatch
    BY <2>2 DEF SubmitTask, Dispatch, disk, aux
  <2>3. CASE HumanRefuses \/ Restart
    BY <2>3 DEF HumanRefuses, Restart, disk, aux
  <2> QED BY <2>1, <2>2, <2>3, TrailSteps DEF TrailInv
<1> QED BY <1>2, <1>3, <1>4, <1>5

\* The agent implements AuditTrail: at most one execute_action per task, a tool
\* run at most once per call, verdicts logged in call order, at most once, never
\* wrong and never late.
THEOREM AgentImplementsAuditTrail == Spec => ImplementsAuditTrail
<1>1. Init => Trail!Init
  <2>1. ASSUME Init PROVE RanCalls = {} /\ LoggedCalls = <<>>
    BY <2>1 DEF Init, RanCalls, LoggedCalls
  <2> QED BY <2>1 DEF Trail!Init, RanCalls, LoggedCalls, TrailEntry
<1> QED BY <1>1, TrailInit, TrailInductive, TrailStep, PTL
        DEF Spec, ImplementsAuditTrail, Trail!Spec

-----------------------------------------------------------------------------
(* clean_system deletes from the list it showed, and from nothing else.     *)

\* What is left to delete was shown.
ListWasShown == targets \subseteq listed

CleanupInv == TypeOK /\ ListWasShown

\* No step adds to the list but the one that shows it.
LEMMA CleanupInductive == CleanupInv /\ [Next]_vars => CleanupInv'
<1> SUFFICES ASSUME CleanupInv, [Next]_vars PROVE CleanupInv'
  OBVIOUS
<1> USE DEF CleanupInv, memory, disk, counts, aux
<1>1. TypeOK'
  BY TypeInductive
<1>2. CASE EnterTool
  BY <1>1, <1>2 DEF EnterTool, ListWasShown
<1>3. CASE ConfirmDeletion
  BY <1>1, <1>3 DEF ConfirmDeletion, ListWasShown
<1>4. CASE DeleteTarget
  BY <1>1, <1>4 DEF DeleteTarget, ListWasShown
<1>5. CASE FilesChange
  BY <1>1, <1>5 DEF FilesChange, ListWasShown
<1>6. CASE UNCHANGED vars
  BY <1>1, <1>6 DEF vars, ListWasShown
<1>7. CASE ChooseHitlMode \/ SubmitTask \/ Exit \/ PlanNothing \/ PlanMalformed \/ PlanAction
  BY <1>1, <1>7 DEF ChooseHitlMode, SubmitTask, Exit, PlanNothing, PlanMalformed,
                    PlanAction, ListWasShown
<1>8. CASE DispatchUnknown \/ DispatchNoParameter \/ Dispatch
  BY <1>1, <1>8 DEF DispatchUnknown, DispatchNoParameter, Dispatch, EndTask, NextStep, ListWasShown
<1>9. CASE AutoApprove \/ HumanApproves \/ HumanRefuses \/ ToolReturns \/ ToolRaises
  BY <1>1, <1>9 DEF AutoApprove, HumanApproves, HumanRefuses, StartRun, ToolReturns,
                    ToolRaises, ListWasShown
<1>10. CASE RecordDecision \/ CreateLog \/ LogCreated \/ LogUnreadable \/ RewriteLog \/ LogWritten
  BY <1>1, <1>10 DEF RecordDecision, CreateLog, LogCreated, LogUnreadable, RewriteLog,
                     LogWritten, ListWasShown
<1>11. CASE Kill \/ Restart
  BY <1>1, <1>11 DEF Kill, Restart, ListWasShown
<1> QED BY <1>2, <1>3, <1>4, <1>5, <1>6, <1>7, <1>8, <1>9, <1>10, <1>11
        DEF Next, AgentStep

\* Whatever other programs create and remove meanwhile, also at the listed paths, a
\* cleanup removes files only at paths that were on the list it showed.
THEOREM CleanupKeepsToList == Spec => CleanupKeepsToItsList
<1>1. Init => CleanupInv
  <2>1. Init => TypeOK
    BY BoundsAssumption DEF Init, TypeOK, PCs, NoAction, Names, Actors, MaxSteps
  <2> QED BY <2>1 DEF Init, CleanupInv, ListWasShown
<1>2. CleanupInv /\ [Next]_vars =>
        [targets' # targets => files \ files' \subseteq listed]_vars
  <2> SUFFICES ASSUME CleanupInv, [Next]_vars, targets' # targets
               PROVE  files \ files' \subseteq listed
    OBVIOUS
  <2>1. CASE DeleteTarget
    BY <2>1 DEF DeleteTarget, CleanupInv, ListWasShown
  <2>2. CASE EnterTool
    BY <2>2 DEF EnterTool
  <2>3. CASE ConfirmDeletion \/ Restart
    BY <2>3 DEF ConfirmDeletion, Restart, disk
  <2>4. DeleteTarget \/ EnterTool \/ ConfirmDeletion \/ Restart
    BY DEF Next, AgentStep, ChooseHitlMode, SubmitTask, Exit, PlanNothing, PlanMalformed,
           PlanAction, DispatchUnknown, DispatchNoParameter, Dispatch, AutoApprove, NextStep,
           EndTask, StartRun, HumanApproves, HumanRefuses, ToolReturns, ToolRaises,
           RecordDecision, CreateLog, LogCreated, LogUnreadable, RewriteLog, LogWritten,
           Kill, FilesChange, Alive, vars, memory
  <2> QED BY <2>1, <2>2, <2>3, <2>4
<1> QED BY <1>1, <1>2, CleanupInductive, PTL DEF Spec, CleanupKeepsToItsList
=============================================================================
