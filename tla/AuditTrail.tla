----------------------------- MODULE AuditTrail -----------------------------
(***************************************************************************)
(* What the agent of examples/hitl_agent_demo.py promises about its audit  *)
(* trail, without saying how: the calls of execute_action are numbered in  *)
(* the order they begin; a tool runs at most once per call; a call is      *)
(* logged at most once, in call order, and the logged verdict says whether *)
(* the tool ran.  A call may be left out of the log (a raise, a kill), but *)
(* it can never be logged late, twice or with the wrong verdict.           *)
(* HitlAgent implements this specification.                                *)
(***************************************************************************)
EXTENDS Naturals, Sequences

CONSTANT Calls   \* the numbers of the calls, a set of naturals

VARIABLES ran,     \* the set of calls whose tool function has been entered
          logged   \* the entries of logs.json: sequence of [call, verdict]

vars == <<ran, logged>>

Verdict == {"approved", "blocked"}

TypeOK == /\ ran \subseteq Calls
          /\ logged \in Seq([call : Calls, verdict : Verdict])

Newest(c) == /\ \A d \in ran : d <= c
             /\ \A i \in DOMAIN logged : logged[i].call < c

Init == ran = {} /\ logged = <<>>

Run(c) == /\ Newest(c)
          /\ c \notin ran
          /\ ran' = ran \cup {c}
          /\ UNCHANGED logged

Log(c, v) == /\ Newest(c)
             /\ (v = "approved") <=> (c \in ran)
             /\ logged' = Append(logged, [call |-> c, verdict |-> v])
             /\ UNCHANGED ran

Next == \E c \in Calls : Run(c) \/ \E v \in Verdict : Log(c, v)

Spec == Init /\ [][Next]_vars
=============================================================================
