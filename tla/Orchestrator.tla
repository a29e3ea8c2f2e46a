---------------------------- MODULE Orchestrator ----------------------------
(***************************************************************************)
(* The team pipeline, Orchestrator.orchestrate (src/src/orchestrator/):    *)
(* an architect plans, an implementer works, a security auditor, a test    *)
(* strategist and a reviewer judge, the reviewer may send the work back a  *)
(* bounded number of times, and a task ends completed, escalated to a      *)
(* human, or failed.                                                       *)
(*                                                                         *)
(* Every role is one call of a language model, an await at which another   *)
(* task of the same Orchestrator may run; the tasks share its plan and     *)
(* test strategy caches and its task history.  A role's answer is any of   *)
(* the answers it may give, the fallback for unreadable output being one.  *)
(* What a task works on is its version: the number of times the            *)
(* implementer has delivered.                                              *)
(***************************************************************************)
EXTENDS Integers, Sequences

CONSTANTS
  Tasks,         \* bound: the calls of orchestrate
  Texts,         \* task texts, up to the normalisation of hashTask
  TrivialTexts,  \* those isTrivialEdit accepts
  MaxRevisions   \* maxRevisions

ASSUME PipelineAssumption ==
  /\ TrivialTexts \subseteq Texts
  /\ MaxRevisions \in Nat

VARIABLES
  pc,            \* pc[t]: the role task t waits for
  status,        \* status[t]: TaskState.status, "none" before the call
  text,          \* text[t]: the task's text
  plan,          \* plan[t]: architectPlan
  version,       \* version[t]: how often the implementer has delivered
  revision,      \* revision[t]: revisionCount
  preAudit,      \* preAudit[t]: the auditor's clearance of the plan
  audit,         \* audit[t]: the auditor's clearance, and of which version
  review,        \* review[t]: the reviewer's decision, and on which version
  conflicts,     \* conflicts[t]: the resolutions in the conflict log
  planCache,     \* texts with a cached plan, and the plan
  strategyCache, \* the texts some test strategy is cached for
  taskHistory    \* projectMemory.taskHistory

judgements == <<preAudit, audit, review>>
caches == <<planCache, strategyCache>>
vars == <<pc, status, text, plan, version, revision, judgements,
          conflicts, caches, taskHistory>>

Plan == [critical : BOOLEAN, audit : BOOLEAN, strategy : BOOLEAN]
NoPlan == [critical |-> FALSE, audit |-> FALSE, strategy |-> FALSE]

Clearances == {"approved", "conditional", "rejected"}
Decisions  == {"approved", "needs_revision", "rejected"}
Unjudged   == [is |-> "none", of |-> 0]

Trivial(t) == text[t] \in TrivialTexts

-----------------------------------------------------------------------------

Init ==
  /\ pc = [t \in Tasks |-> "idle"]
  /\ status = [t \in Tasks |-> "none"]
  /\ text \in [Tasks -> Texts]
  /\ plan = [t \in Tasks |-> NoPlan]
  /\ version = [t \in Tasks |-> 0]
  /\ revision = [t \in Tasks |-> 0]
  /\ preAudit = [t \in Tasks |-> "none"]
  /\ audit = [t \in Tasks |-> Unjudged]
  /\ review = [t \in Tasks |-> Unjudged]
  /\ conflicts = [t \in Tasks |-> <<>>]
  /\ planCache = {}
  /\ strategyCache = {}
  /\ taskHistory = <<>>

(* Wait for role r, the status shown meanwhile being s. *)
Await(t, r, s) ==
  /\ pc' = [pc EXCEPT ![t] = r]
  /\ status' = [status EXCEPT ![t] = s]

(* The task ends: only a completed one enters the history. *)
End(t, s) ==
  /\ Await(t, "over", s)
  /\ taskHistory' = IF s = "completed" THEN Append(taskHistory, t) ELSE taskHistory

Continue(t, r, s) == Await(t, r, s) /\ UNCHANGED taskHistory

(* The pipeline after each stage. *)

AfterPlan(t, p) ==
  IF p.critical THEN Continue(t, "preaudit", "security_audit")
  ELSE Continue(t, "implementer", "implementing")

(* A mutation of ReviewLoop: the last revision is not reviewed. *)
ReviewLoopShort(t, r) ==
  IF ~Trivial(t) /\ r < MaxRevisions
  THEN Continue(t, "reviewer", "reviewing")
  ELSE End(t, "completed")

(* The head of the review loop, revisions r having been made. *)
ReviewLoop(t, r) ==
  IF ~Trivial(t) /\ r <= MaxRevisions
  THEN Continue(t, "reviewer", "reviewing")
  ELSE End(t, "completed")

(* The test strategist is asked when the plan wants it, unless a strategy  *)
(* for the text and the modified files is cached.  A cached one may have   *)
(* expired, or be for other files: which, is left open.                    *)
AfterAudit(t) ==
  \/ /\ plan[t].strategy
     /\ Continue(t, "strategist", "test_strategy")
  \/ /\ ~plan[t].strategy \/ text[t] \in strategyCache
     /\ ReviewLoop(t, revision[t])

(* The first delivery goes to the auditor if the plan wants it. *)
AfterImplementation(t) ==
  IF plan[t].audit THEN Continue(t, "auditor", "security_audit")
  ELSE AfterAudit(t)

-----------------------------------------------------------------------------

(* orchestrate: a trivial edit gets a plan without any judge, another task *)
(* the cached plan for its text or, if none is cached or it has expired,   *)
(* one from the architect.                                                 *)
Start(t) ==
  /\ pc[t] = "idle"
  /\ \/ /\ Trivial(t)
        /\ Continue(t, "implementer", "implementing")
        /\ UNCHANGED plan
     \/ /\ ~Trivial(t)
        /\ \E entry \in planCache :
             /\ entry.text = text[t]
             /\ plan' = [plan EXCEPT ![t] = entry.plan]
             /\ AfterPlan(t, entry.plan)
     \/ /\ ~Trivial(t)
        /\ Continue(t, "architect", "architecting")
        /\ UNCHANGED plan
  /\ UNCHANGED <<text, version, revision, judgements, conflicts, caches>>

(* A mutation of Architect: tasks with the same text share the plan. *)
ArchitectForAll(t, p) ==
  /\ pc[t] = "architect"
  /\ plan' = [u \in Tasks |-> IF text[u] = text[t] THEN p ELSE plan[u]]
  /\ planCache' = {entry \in planCache : entry.text # text[t]}
                    \cup {[text |-> text[t], plan |-> p]}
  /\ AfterPlan(t, p)
  /\ UNCHANGED <<text, version, revision, judgements, conflicts, strategyCache>>

Architect(t, p) ==
  /\ pc[t] = "architect"
  /\ plan' = [plan EXCEPT ![t] = p]
  /\ planCache' = {entry \in planCache : entry.text # text[t]}
                    \cup {[text |-> text[t], plan |-> p]}
  /\ AfterPlan(t, p)
  /\ UNCHANGED <<text, version, revision, judgements, conflicts, strategyCache>>

(* A critical plan is audited before anything is implemented. *)
PreAudit(t, clearance) ==
  /\ pc[t] = "preaudit"
  /\ preAudit' = [preAudit EXCEPT ![t] = clearance]
  /\ IF clearance = "rejected"
     THEN End(t, "escalated")
     ELSE Continue(t, "implementer", "implementing")
  /\ UNCHANGED <<text, plan, version, revision, audit, review, conflicts, caches>>

Implement(t) ==
  /\ pc[t] = "implementer"
  /\ version' = [version EXCEPT ![t] = @ + 1]
  /\ AfterImplementation(t)
  /\ UNCHANGED <<text, plan, revision, judgements, conflicts, caches>>

(* A rejection is a blocking conflict that only a human may resolve. *)
Audit(t, clearance) ==
  /\ pc[t] = "auditor"
  /\ audit' = [audit EXCEPT ![t] = [is |-> clearance, of |-> version[t]]]
  /\ IF clearance = "rejected"
     THEN /\ conflicts' = [conflicts EXCEPT ![t] = Append(@, "escalate_human")]
          /\ End(t, "escalated")
     ELSE AfterAudit(t) /\ UNCHANGED conflicts
  /\ UNCHANGED <<text, plan, version, revision, preAudit, review, caches>>

(* A mutation of Strategise: the audit is repeated. *)
StrategiseThenAudit(t) ==
  /\ pc[t] = "strategist"
  /\ strategyCache' = strategyCache \cup {text[t]}
  /\ Continue(t, "auditor", "security_audit")
  /\ UNCHANGED <<text, plan, version, revision, judgements, conflicts, planCache>>

(* The strategist's verdict is recorded and cached, and changes nothing. *)
Strategise(t) ==
  /\ pc[t] = "strategist"
  /\ strategyCache' = strategyCache \cup {text[t]}
  /\ ReviewLoop(t, revision[t])
  /\ UNCHANGED <<text, plan, version, revision, judgements, conflicts, planCache>>

(* resolveConflict between the reviewer and the implementer. *)
MayRevise(t) == revision[t] < MaxRevisions

Review(t, decision) ==
  /\ pc[t] = "reviewer"
  /\ review' = [review EXCEPT ![t] = [is |-> decision, of |-> version[t]]]
  /\ \/ /\ decision = "approved"
        /\ End(t, "completed")
        /\ UNCHANGED <<revision, conflicts>>
     \/ /\ decision # "approved" /\ MayRevise(t)
        /\ revision' = [revision EXCEPT ![t] = @ + 1]
        /\ conflicts' = [conflicts EXCEPT ![t] = Append(@, "implementer_revises")]
        /\ Continue(t, "reviser", "implementing")
     \/ /\ decision # "approved" /\ ~MayRevise(t)
        /\ conflicts' = [conflicts EXCEPT ![t] = Append(@, "escalate_human")]
        /\ End(t, "escalated")
        /\ UNCHANGED revision
  /\ UNCHANGED <<text, plan, version, preAudit, audit, caches>>

(* A revised delivery goes straight back to the reviewer. *)
Revise(t) ==
  /\ pc[t] = "reviser"
  /\ version' = [version EXCEPT ![t] = @ + 1]
  /\ ReviewLoop(t, revision[t])
  /\ UNCHANGED <<text, plan, revision, judgements, conflicts, caches>>

(* The call of a role throws. *)
RoleFails(t) ==
  /\ pc[t] \notin {"idle", "over"}
  /\ End(t, "failed")
  /\ UNCHANGED <<text, plan, version, revision, judgements, conflicts, caches>>

RoleAnswers(t) ==
  \/ \E p \in Plan : Architect(t, p)
  \/ \E c \in Clearances : PreAudit(t, c) \/ Audit(t, c)
  \/ Implement(t) \/ Strategise(t) \/ Revise(t)
  \/ \E d \in Decisions : Review(t, d)

AllOver == (\A t \in Tasks : pc[t] = "over") /\ UNCHANGED vars

Next ==
  \/ \E t \in Tasks : Start(t) \/ RoleAnswers(t) \/ RoleFails(t)
  \/ AllOver

SafeSpec == Init /\ [][Next]_vars

(* Every call of a language model is answered or fails. *)
Spec == SafeSpec /\ \A t \in Tasks : WF_vars(RoleAnswers(t) \/ RoleFails(t))

-----------------------------------------------------------------------------

Stages == {"idle", "architect", "preaudit", "implementer", "auditor",
           "strategist", "reviewer", "reviser", "over"}
EndStatuses == {"completed", "escalated", "failed"}
TaskStatuses == EndStatuses \cup {"none", "architecting", "security_audit",
                                  "implementing", "test_strategy", "reviewing"}
Judgements(js) == {Unjudged} \cup [is : js, of : Nat]

TypeOK ==
  /\ pc \in [Tasks -> Stages]
  /\ status \in [Tasks -> TaskStatuses]
  /\ text \in [Tasks -> Texts]
  /\ plan \in [Tasks -> Plan]
  /\ version \in [Tasks -> Nat]
  /\ revision \in [Tasks -> 0..MaxRevisions]
  /\ preAudit \in [Tasks -> Clearances \cup {"none"}]
  /\ audit \in [Tasks -> Judgements(Clearances)]
  /\ review \in [Tasks -> Judgements(Decisions)]
  /\ conflicts \in [Tasks -> Seq({"implementer_revises", "escalate_human"})]
  /\ planCache \subseteq [text : Texts, plan : Plan]
  /\ strategyCache \subseteq Texts
  /\ taskHistory \in Seq(Tasks)

(* A task that is not a trivial edit completes only when the reviewer has  *)
(* approved the very version that is delivered, however often it was       *)
(* revised.                                                                *)
CompletedMeansApproved ==
  \A t \in Tasks : status[t] = "completed" /\ ~Trivial(t) =>
    version[t] > 0 /\ review[t] = [is |-> "approved", of |-> version[t]]

(* "No agent may override a security rejection": a task whose plan or      *)
(* implementation the auditor rejected is escalated and goes no further,   *)
(* and one whose plan wants an audit does not complete without one.        *)
SecurityIsNotOverridden ==
  \A t \in Tasks :
    /\ preAudit[t] = "rejected" \/ audit[t].is = "rejected" =>
         status[t] = "escalated" /\ review[t] = Unjudged
    /\ status[t] = "completed" => /\ plan[t].audit => audit[t] # Unjudged
                                  /\ plan[t].critical => preAudit[t] # "none"

(* The implementer delivers at most MaxRevisions + 1 times, once more than *)
(* the reviewer sent the work back; every conflict before the last was     *)
(* settled by a revision, and a task escalates only over a rejected plan   *)
(* or over a last conflict that is left to a human.                        *)
ConflictsAreSettled ==
  \A t \in Tasks :
    LET log == conflicts[t] IN
    /\ version[t] <= MaxRevisions + 1
    /\ version[t] <= revision[t] + 1
    /\ \A i \in 1..Len(log) : log[i] = "escalate_human" =>
                                i = Len(log) /\ status[t] = "escalated"
    /\ status[t] = "escalated" =>
         \/ preAudit[t] = "rejected"
         \/ log # <<>> /\ log[Len(log)] = "escalate_human"
    /\ Len(log) = revision[t] + (IF status[t] = "escalated" /\ log # <<>>
                                 THEN 1 ELSE 0)

(* The history holds every completed task once, and nothing else. *)
HistoryIsExact ==
  /\ \A t \in Tasks : status[t] = "completed" <=>
                        \E i \in DOMAIN taskHistory : taskHistory[i] = t
  /\ \A i, j \in DOMAIN taskHistory : taskHistory[i] = taskHistory[j] => i = j

(* How a task ends is what its judges decided. *)
OutcomesAreJust ==
  /\ CompletedMeansApproved /\ SecurityIsNotOverridden
  /\ ConflictsAreSettled /\ HistoryIsExact

(* A task keeps the plan it started with, whatever other tasks cache; once *)
(* over, it stays as it ended.                                             *)
PlanIsKept ==
  [][\A t \in Tasks :
       /\ pc[t] \notin {"idle", "architect"} => plan'[t] = plan[t]
       /\ pc[t] = "over" => pc'[t] = "over" /\ status'[t] = status[t]]_vars

(* Every task that was started ends. *)
TasksEnd == \A t \in Tasks : pc[t] # "idle" ~> pc[t] = "over"
=============================================================================
