------------------------- MODULE OrchestratorProofs -------------------------
(***************************************************************************)
(* Theorems about Orchestrator, for any tasks, any texts and any number of *)
(* revisions.                                                              *)
(***************************************************************************)
EXTENDS Orchestrator, TLAPS

(* How a step of task t moves the pipeline: to a wait for some role, or to *)
(* the end, and into the history if it completes.  This is all that the    *)
(* invariants need to know of Await, End, Continue and the stages built    *)
(* from them.                                                              *)
Moves(t, r, s) ==
  /\ pc' = [pc EXCEPT ![t] = r]
  /\ status' = [status EXCEPT ![t] = s]
  /\ taskHistory' = IF s = "completed" THEN Append(taskHistory, t) ELSE taskHistory

(* The review loop goes to the reviewer, or completes without one: for a   *)
(* trivial text, or past the last revision.                                *)
LEMMA ReviewLoopMoves ==
  ASSUME NEW t \in Tasks, NEW r \in Nat, ReviewLoop(t, r)
  PROVE  \/ Moves(t, "reviewer", "reviewing") /\ ~Trivial(t)
         \/ Moves(t, "over", "completed") /\ (Trivial(t) \/ r > MaxRevisions)
BY PipelineAssumption DEF ReviewLoop, Continue, End, Await, Moves

(* A critical plan is audited first, any other implemented. *)
LEMMA AfterPlanMoves ==
  ASSUME NEW t \in Tasks, NEW p, AfterPlan(t, p)
  PROVE  \/ Moves(t, "preaudit", "security_audit") /\ p.critical
         \/ Moves(t, "implementer", "implementing") /\ ~p.critical
BY DEF AfterPlan, Continue, Await, Moves

(* An end of orchestrate is a move to it. *)
LEMMA EndMoves ==
  ASSUME NEW t \in Tasks, NEW s, End(t, s)
  PROVE  Moves(t, "over", s)
BY DEF End, Await, Moves

(* Awaiting the next role is a move to its stage. *)
LEMMA ContinueMoves ==
  ASSUME NEW t \in Tasks, NEW r, NEW s, s # "completed", Continue(t, r, s)
  PROVE  Moves(t, r, s)
BY DEF Continue, Await, Moves

(* The stages after an implementation or an audit, no revision made yet.   *)
LEMMA AfterAuditMoves ==
  ASSUME NEW t \in Tasks, revision[t] \in Nat, AfterAudit(t)
  PROVE  \/ Moves(t, "strategist", "test_strategy")
         \/ Moves(t, "reviewer", "reviewing") /\ ~Trivial(t)
         \/ Moves(t, "over", "completed") /\ (Trivial(t) \/ revision[t] > MaxRevisions)
BY ReviewLoopMoves, ContinueMoves DEF AfterAudit

(* A delivery is audited if the plan says so, and otherwise goes on as     *)
(* after an audit.                                                         *)
LEMMA AfterImplementationMoves ==
  ASSUME NEW t \in Tasks, revision[t] \in Nat, AfterImplementation(t)
  PROVE  \/ Moves(t, "auditor", "security_audit") /\ plan[t].audit
         \/ /\ ~plan[t].audit
            /\ \/ Moves(t, "strategist", "test_strategy")
               \/ Moves(t, "reviewer", "reviewing") /\ ~Trivial(t)
               \/ /\ Moves(t, "over", "completed")
                  /\ Trivial(t) \/ revision[t] > MaxRevisions
BY AfterAuditMoves, ContinueMoves DEF AfterImplementation

-----------------------------------------------------------------------------

(* A move to a stage keeps the types of what it changes. *)
LEMMA MovesTyped ==
  ASSUME TypeOK, NEW t \in Tasks, NEW r \in Stages, NEW s \in TaskStatuses,
         Moves(t, r, s)
  PROVE  /\ pc' \in [Tasks -> Stages]
         /\ status' \in [Tasks -> TaskStatuses]
         /\ taskHistory' \in Seq(Tasks)
<1>1. Append(taskHistory, t) \in Seq(Tasks)
  BY DEF TypeOK
<1> QED
  BY <1>1 DEF TypeOK, Moves

(* What an entry of the conflict log may be. *)
Resolutions == {"implementer_revises", "escalate_human"}

(* Logging a conflict keeps the log well typed. *)
LEMMA LogTyped ==
  ASSUME TypeOK, NEW t \in Tasks, NEW x \in Resolutions,
         conflicts' = [conflicts EXCEPT ![t] = Append(@, x)]
  PROVE  conflicts' \in [Tasks -> Seq(Resolutions)]
<1>1. conflicts \in [Tasks -> Seq(Resolutions)]
  BY DEF TypeOK, Resolutions
<1>2. conflicts[t] \in Seq(Resolutions)
  BY <1>1
<1>3. Append(conflicts[t], x) \in Seq(Resolutions)
  BY <1>2
<1>4. conflicts' = [conflicts EXCEPT ![t] = Append(conflicts[t], x)]
  OBVIOUS
<1> QED
  BY <1>1, <1>3, <1>4

(* A step of a task moves it to one of the stages, whatever the step. *)
MovesSomewhere(t) ==
  \E r \in Stages, s \in TaskStatuses : Moves(t, r, s)

(* Every way on from a stage leads to a stage. *)
LEMMA StagesReached ==
  ASSUME TypeOK, NEW t \in Tasks,
         \/ \E r \in Stages, s \in TaskStatuses \ {"completed"} : Continue(t, r, s)
         \/ \E s \in EndStatuses : End(t, s)
         \/ \E p \in Plan : AfterPlan(t, p)
         \/ AfterImplementation(t) \/ AfterAudit(t)
         \/ ReviewLoop(t, revision[t])
  PROVE  MovesSomewhere(t)
<1> USE DEF MovesSomewhere, Stages, EndStatuses, TaskStatuses
<1>1. revision[t] \in Nat
  BY PipelineAssumption DEF TypeOK
<1>2. CASE \E p \in Plan : AfterPlan(t, p)
  BY <1>2, AfterPlanMoves
<1>3. CASE AfterImplementation(t)
  BY <1>1, <1>3, AfterImplementationMoves
<1>4. CASE AfterAudit(t)
  BY <1>1, <1>4, AfterAuditMoves
<1>5. CASE ReviewLoop(t, revision[t])
  BY <1>1, <1>5, ReviewLoopMoves
<1>6. CASE \E s \in EndStatuses : End(t, s)
  BY <1>6, EndMoves
<1>7. CASE \E r \in Stages, s \in TaskStatuses \ {"completed"} : Continue(t, r, s)
  BY <1>7, ContinueMoves
<1> QED
  BY <1>2, <1>3, <1>4, <1>5, <1>6, <1>7

(* Every step of a task moves it to some stage. *)
LEMMA StepMoves ==
  ASSUME TypeOK, NEW t \in Tasks, Start(t) \/ RoleAnswers(t) \/ RoleFails(t)
  PROVE  MovesSomewhere(t)
<1>1. ASSUME Start(t) PROVE MovesSomewhere(t)
  <2>1. CASE Continue(t, "implementer", "implementing")
    BY <2>1, StagesReached DEF Stages, TaskStatuses, EndStatuses
  <2>2. CASE Continue(t, "architect", "architecting")
    BY <2>2, StagesReached DEF Stages, TaskStatuses, EndStatuses
  <2>3. ASSUME NEW entry \in planCache, AfterPlan(t, entry.plan)
        PROVE  MovesSomewhere(t)
    BY <2>3, StagesReached DEF TypeOK
  <2> QED
    BY <1>1, <2>1, <2>2, <2>3 DEF Start
<1>2. ASSUME NEW p \in Plan, Architect(t, p) PROVE MovesSomewhere(t)
  BY <1>2, StagesReached DEF Architect
<1>3. ASSUME NEW c \in Clearances, PreAudit(t, c) PROVE MovesSomewhere(t)
  BY <1>3, StagesReached DEF PreAudit, Stages, TaskStatuses, EndStatuses
<1>4. ASSUME NEW c \in Clearances, Audit(t, c) PROVE MovesSomewhere(t)
  BY <1>4, StagesReached DEF Audit, EndStatuses
<1>5. CASE Implement(t)
  BY <1>5, StagesReached DEF Implement
<1>6. CASE Strategise(t)
  BY <1>6, StagesReached DEF Strategise
<1>7. CASE Revise(t)
  BY <1>7, StagesReached DEF Revise
<1>8. ASSUME NEW d \in Decisions, Review(t, d) PROVE MovesSomewhere(t)
  BY <1>8, StagesReached DEF Review, Stages, TaskStatuses, EndStatuses
<1>9. CASE RoleFails(t)
  BY <1>9, StagesReached DEF RoleFails, EndStatuses
<1> QED
  BY <1>1, <1>2, <1>3, <1>4, <1>5, <1>6, <1>7, <1>8, <1>9 DEF RoleAnswers

(* The pipeline's state is well-typed; the revision counter never passes   *)
(* maxRevisions, whatever the reviewer answers.                            *)
THEOREM TypeCorrect == SafeSpec => []TypeOK
<1>1. Init => TypeOK
  BY PipelineAssumption DEF Init, TypeOK, Stages, TaskStatuses, EndStatuses, Plan, NoPlan,
     Judgements, Unjudged
<1>2. TypeOK /\ [Next]_vars => TypeOK'
  <2> SUFFICES ASSUME TypeOK, [Next]_vars PROVE TypeOK'
    OBVIOUS
  <2> USE PipelineAssumption
  <2>0. ASSUME NEW t \in Tasks, Start(t) \/ RoleAnswers(t) \/ RoleFails(t)
        PROVE  /\ pc' \in [Tasks -> Stages]
               /\ status' \in [Tasks -> TaskStatuses]
               /\ taskHistory' \in Seq(Tasks)
    BY <2>0, StepMoves, MovesTyped DEF MovesSomewhere
  <2>1. ASSUME NEW t \in Tasks, Start(t) PROVE TypeOK'
    <3>1. plan' \in [Tasks -> Plan]
      BY <2>1 DEF Start, TypeOK
    <3> QED
      BY <2>0, <2>1, <3>1 DEF Start, TypeOK, judgements, caches
  <2>2. ASSUME NEW t \in Tasks, NEW p \in Plan, Architect(t, p) PROVE TypeOK'
    <3>1. Start(t) \/ RoleAnswers(t) \/ RoleFails(t)
      BY <2>2 DEF RoleAnswers
    <3> QED
      BY <2>0, <2>2, <3>1 DEF Architect, TypeOK, judgements
  <2>3. ASSUME NEW t \in Tasks, NEW c \in Clearances, PreAudit(t, c) PROVE TypeOK'
    <3>1. Start(t) \/ RoleAnswers(t) \/ RoleFails(t)
      BY <2>3 DEF RoleAnswers
    <3> QED
      BY <2>0, <2>3, <3>1 DEF PreAudit, TypeOK, caches
  <2>4. ASSUME NEW t \in Tasks, NEW c \in Clearances, Audit(t, c) PROVE TypeOK'
    <3>1. [is |-> c, of |-> version[t]] \in Judgements(Clearances)
      BY DEF TypeOK, Judgements
    <3>2. conflicts' \in [Tasks -> Seq(Resolutions)]
      BY <2>4, LogTyped DEF Audit, TypeOK, Resolutions
    <3>3. Start(t) \/ RoleAnswers(t) \/ RoleFails(t)
      BY <2>4 DEF RoleAnswers
    <3> QED
      BY <2>0, <2>4, <3>1, <3>2, <3>3 DEF Audit, TypeOK, caches, Resolutions
  <2>5. ASSUME NEW t \in Tasks, Implement(t) PROVE TypeOK'
    <3>1. Start(t) \/ RoleAnswers(t) \/ RoleFails(t)
      BY <2>5 DEF RoleAnswers
    <3> QED
      BY <2>0, <2>5, <3>1 DEF Implement, TypeOK, judgements, caches
  <2>6. ASSUME NEW t \in Tasks, Strategise(t) PROVE TypeOK'
    <3>1. Start(t) \/ RoleAnswers(t) \/ RoleFails(t)
      BY <2>6 DEF RoleAnswers
    <3> QED
      BY <2>0, <2>6, <3>1 DEF Strategise, TypeOK, judgements
  <2>7. ASSUME NEW t \in Tasks, Revise(t) PROVE TypeOK'
    <3>1. Start(t) \/ RoleAnswers(t) \/ RoleFails(t)
      BY <2>7 DEF RoleAnswers
    <3> QED
      BY <2>0, <2>7, <3>1 DEF Revise, TypeOK, judgements, caches
  <2>8. ASSUME NEW t \in Tasks, NEW d \in Decisions, Review(t, d) PROVE TypeOK'
    <3>1. [is |-> d, of |-> version[t]] \in Judgements(Decisions)
      BY DEF TypeOK, Judgements
    <3>2. revision' \in [Tasks -> 0..MaxRevisions]
      <4>1. revision \in [Tasks -> 0..MaxRevisions]
        BY DEF TypeOK
      <4>2. \/ revision' = revision
            \/ /\ revision[t] < MaxRevisions
               /\ revision' = [revision EXCEPT ![t] = revision[t] + 1]
        BY <2>8 DEF Review, MayRevise
      <4>3. revision[t] < MaxRevisions => revision[t] + 1 \in 0..MaxRevisions
        BY <4>1
      <4> QED
        BY <4>1, <4>2, <4>3
    <3>3. conflicts' \in [Tasks -> Seq(Resolutions)]
      BY <2>8, LogTyped DEF Review, TypeOK, Resolutions
    <3>4. Start(t) \/ RoleAnswers(t) \/ RoleFails(t)
      BY <2>8 DEF RoleAnswers
    <3> QED
      BY <2>0, <2>8, <3>1, <3>2, <3>3, <3>4 DEF Review, TypeOK, caches, Resolutions
  <2>9. ASSUME NEW t \in Tasks, RoleFails(t) PROVE TypeOK'
    <3> QED
      BY <2>0, <2>9 DEF RoleFails, TypeOK, judgements, caches
  <2>10. CASE UNCHANGED vars
    BY <2>10 DEF vars, TypeOK, judgements, caches
  <2> QED
    BY <2>1, <2>2, <2>3, <2>4, <2>5, <2>6, <2>7, <2>8, <2>9, <2>10
    DEF Next, RoleAnswers, AllOver
<1> QED
  BY <1>1, <1>2, PTL DEF SafeSpec

-----------------------------------------------------------------------------
(* What holds of a task at each stage of the pipeline.                     *)

(* Nothing has been delivered, let alone judged, before the implementer.   *)
BeforeDelivery(t) ==
  pc[t] \in {"idle", "architect", "preaudit", "implementer"} =>
    /\ audit[t] = Unjudged /\ review[t] = Unjudged
    /\ revision[t] = 0
    /\ pc[t] = "idle" => plan[t] = NoPlan
    /\ pc[t] \in {"idle", "architect", "preaudit"} => preAudit[t] = "none"

(* The auditor and the strategist work on the first delivery; what follows *)
(* them has the audit its plan wants.                                      *)
AfterDelivery(t) ==
  pc[t] \in {"auditor", "strategist", "reviewer", "reviser"} =>
    /\ version[t] > 0
    /\ pc[t] \in {"auditor", "strategist"} => review[t] = Unjudged /\ revision[t] = 0
    /\ pc[t] = "auditor" => audit[t] = Unjudged
    /\ pc[t] # "auditor" /\ plan[t].audit => audit[t] # Unjudged

(* A critical plan is implemented only after its audit, and a rejection    *)
(* of the auditor stops the task for good.                                 *)
AuditRespected(t) ==
  /\ pc[t] \in {"implementer", "auditor", "strategist", "reviewer", "reviser"}
     /\ plan[t].critical => preAudit[t] # "none"
  /\ pc[t] # "over" => preAudit[t] # "rejected" /\ audit[t].is # "rejected"

Ended(t) == status[t] \in EndStatuses => pc[t] = "over"

Approved(t) ==
  status[t] = "completed" /\ ~Trivial(t) =>
    version[t] > 0 /\ review[t] = [is |-> "approved", of |-> version[t]]

Secured(t) ==
  /\ preAudit[t] = "rejected" \/ audit[t].is = "rejected" =>
       status[t] = "escalated" /\ review[t] = Unjudged
  /\ status[t] = "completed" => /\ plan[t].audit => audit[t] # Unjudged
                                /\ plan[t].critical => preAudit[t] # "none"

TaskInv(t) ==
  /\ BeforeDelivery(t) /\ AfterDelivery(t) /\ AuditRespected(t)
  /\ Ended(t) /\ Approved(t) /\ Secured(t)

PipelineInv == \A t \in Tasks : TaskInv(t)

(* Only task t moves in its own step.                                      *)
Alone(t) ==
  /\ text' = text
  /\ \A u \in Tasks \ {t} :
       /\ pc'[u] = pc[u] /\ status'[u] = status[u] /\ plan'[u] = plan[u]
       /\ version'[u] = version[u] /\ revision'[u] = revision[u]
       /\ preAudit'[u] = preAudit[u] /\ audit'[u] = audit[u]
       /\ review'[u] = review[u]

(* A step of one task does not disturb what holds of the others. *)
LEMMA OthersKeep ==
  ASSUME NEW t \in Tasks, PipelineInv, Alone(t), TaskInv(t)'
  PROVE  PipelineInv'
<1> SUFFICES ASSUME NEW u \in Tasks, u # t PROVE TaskInv(u)'
  BY DEF PipelineInv
<1>1. TaskInv(u)
  BY DEF PipelineInv
<1> QED
  BY <1>1 DEF Alone, TaskInv, BeforeDelivery, AfterDelivery, AuditRespected,
              Ended, Approved, Secured, Trivial

(* A task starts unjudged, at the architect. *)
LEMMA StartPreserves ==
  ASSUME TypeOK, PipelineInv, NEW t \in Tasks, Start(t)
  PROVE  PipelineInv'
<1>1. TaskInv(t) /\ pc[t] = "idle"
  BY DEF PipelineInv, Start
<1>2. \/ Trivial(t) /\ plan' = plan /\ Moves(t, "implementer", "implementing")
      \/ plan' = plan /\ Moves(t, "architect", "architecting")
      \/ \E p \in Plan :
           /\ plan' = [plan EXCEPT ![t] = p]
           /\ \/ Moves(t, "preaudit", "security_audit")
              \/ Moves(t, "implementer", "implementing") /\ ~p.critical
  BY AfterPlanMoves, ContinueMoves DEF Start, TypeOK
<1>3. /\ text' = text /\ version' = version /\ revision' = revision
      /\ preAudit' = preAudit /\ audit' = audit /\ review' = review
  BY DEF Start, judgements
<1>4. TaskInv(t)'
  BY <1>1, <1>2, <1>3
  DEF TypeOK, Moves, TaskInv, BeforeDelivery, AfterDelivery, AuditRespected, Ended,
      Approved, Secured, Trivial, NoPlan, EndStatuses
<1>5. Alone(t)
  BY <1>2, <1>3 DEF Alone, TypeOK, Moves
<1> QED
  BY <1>4, <1>5, OthersKeep

(* The architect's plan is followed by its audit or its implementation. *)
LEMMA ArchitectPreserves ==
  ASSUME TypeOK, PipelineInv, NEW t \in Tasks, NEW p \in Plan, Architect(t, p)
  PROVE  PipelineInv'
<1>1. TaskInv(t) /\ pc[t] = "architect"
  BY DEF PipelineInv, Architect
<1>2. plan' = [plan EXCEPT ![t] = p]
      /\ \/ Moves(t, "preaudit", "security_audit")
         \/ Moves(t, "implementer", "implementing") /\ ~p.critical
  BY AfterPlanMoves DEF Architect
<1>3. /\ text' = text /\ version' = version /\ revision' = revision
      /\ preAudit' = preAudit /\ audit' = audit /\ review' = review
  BY DEF Architect, judgements
<1>4. TaskInv(t)'
  BY <1>1, <1>2, <1>3
  DEF TypeOK, Moves, TaskInv, BeforeDelivery, AfterDelivery, AuditRespected, Ended,
      Approved, Secured, Trivial, Unjudged, EndStatuses, Clearances, Decisions
<1>5. Alone(t)
  BY <1>2, <1>3 DEF Alone, TypeOK, Moves
<1> QED
  BY <1>4, <1>5, OthersKeep

(* A rejected plan ends its task. *)
LEMMA PreAuditPreserves ==
  ASSUME TypeOK, PipelineInv, NEW t \in Tasks, NEW c \in Clearances, PreAudit(t, c)
  PROVE  PipelineInv'
<1>1. TaskInv(t) /\ pc[t] = "preaudit"
  BY DEF PipelineInv, PreAudit
<1>2. /\ preAudit' = [preAudit EXCEPT ![t] = c]
      /\ IF c = "rejected" THEN Moves(t, "over", "escalated")
         ELSE Moves(t, "implementer", "implementing")
  BY EndMoves, ContinueMoves DEF PreAudit
<1>3. /\ text' = text /\ plan' = plan /\ version' = version
      /\ revision' = revision /\ audit' = audit /\ review' = review
  BY DEF PreAudit
<1>4. TaskInv(t)'
  BY <1>1, <1>2, <1>3
  DEF TypeOK, Moves, TaskInv, BeforeDelivery, AfterDelivery, AuditRespected, Ended,
      Approved, Secured, Trivial, Unjudged, EndStatuses, Clearances, Decisions
<1>5. Alone(t)
  BY <1>2, <1>3 DEF Alone, TypeOK, Moves
<1> QED
  BY <1>4, <1>5, OthersKeep

(* An implementation is the first version of the delivery. *)
LEMMA ImplementPreserves ==
  ASSUME TypeOK, PipelineInv, NEW t \in Tasks, Implement(t)
  PROVE  PipelineInv'
<1>1. TaskInv(t) /\ pc[t] = "implementer"
  BY DEF PipelineInv, Implement
<1>2. /\ version' = [version EXCEPT ![t] = @ + 1]
      /\ \/ Moves(t, "auditor", "security_audit")
         \/ /\ ~plan[t].audit
            /\ \/ Moves(t, "strategist", "test_strategy")
               \/ Moves(t, "reviewer", "reviewing")
               \/ Moves(t, "over", "completed") /\ Trivial(t)
  <2>1. revision[t] = 0
    BY <1>1 DEF TaskInv, BeforeDelivery
  <2> QED
    BY <2>1, AfterImplementationMoves, PipelineAssumption DEF Implement
<1>3. /\ text' = text /\ plan' = plan /\ revision' = revision
      /\ preAudit' = preAudit /\ audit' = audit /\ review' = review
  BY DEF Implement, judgements
<1>4. TaskInv(t)'
  BY <1>1, <1>2, <1>3
  DEF TypeOK, Moves, TaskInv, BeforeDelivery, AfterDelivery, AuditRespected, Ended,
      Approved, Secured, Trivial, Unjudged, EndStatuses, Clearances, Decisions
<1>5. Alone(t)
  BY <1>2, <1>3 DEF Alone, TypeOK, Moves
<1> QED
  BY <1>4, <1>5, OthersKeep

(* A rejected delivery ends its task. *)
LEMMA AuditPreserves ==
  ASSUME TypeOK, PipelineInv, NEW t \in Tasks, NEW c \in Clearances, Audit(t, c)
  PROVE  PipelineInv'
<1>1. TaskInv(t) /\ pc[t] = "auditor"
  BY DEF PipelineInv, Audit
<1>2. /\ audit' = [audit EXCEPT ![t] = [is |-> c, of |-> version[t]]]
      /\ \/ c = "rejected" /\ Moves(t, "over", "escalated")
         \/ /\ c # "rejected"
            /\ \/ Moves(t, "strategist", "test_strategy")
               \/ Moves(t, "reviewer", "reviewing")
               \/ Moves(t, "over", "completed") /\ Trivial(t)
  <2>1. revision[t] = 0
    BY <1>1 DEF TaskInv, AfterDelivery
  <2> QED
    BY <2>1, AfterAuditMoves, EndMoves, PipelineAssumption DEF Audit
<1>3. /\ text' = text /\ plan' = plan /\ version' = version
      /\ revision' = revision /\ preAudit' = preAudit /\ review' = review
  BY DEF Audit
<1>4. TaskInv(t)'
  BY <1>1, <1>2, <1>3
  DEF TypeOK, Moves, TaskInv, BeforeDelivery, AfterDelivery, AuditRespected, Ended,
      Approved, Secured, Trivial, Unjudged, EndStatuses, Clearances, Decisions
<1>5. Alone(t)
  BY <1>2, <1>3 DEF Alone, TypeOK, Moves
<1> QED
  BY <1>4, <1>5, OthersKeep

(* The test strategy judges nothing. *)
LEMMA StrategisePreserves ==
  ASSUME TypeOK, PipelineInv, NEW t \in Tasks, Strategise(t)
  PROVE  PipelineInv'
<1>1. TaskInv(t) /\ pc[t] = "strategist"
  BY DEF PipelineInv, Strategise
<1>2. \/ Moves(t, "reviewer", "reviewing")
      \/ Moves(t, "over", "completed") /\ Trivial(t)
  <2>1. revision[t] = 0
    BY <1>1 DEF TaskInv, AfterDelivery
  <2> QED
    BY <2>1, ReviewLoopMoves, PipelineAssumption DEF Strategise
<1>3. /\ text' = text /\ plan' = plan /\ version' = version /\ revision' = revision
      /\ preAudit' = preAudit /\ audit' = audit /\ review' = review
  BY DEF Strategise, judgements
<1>4. TaskInv(t)'
  BY <1>1, <1>2, <1>3
  DEF TypeOK, Moves, TaskInv, BeforeDelivery, AfterDelivery, AuditRespected, Ended,
      Approved, Secured, Trivial, Unjudged, EndStatuses, Clearances, Decisions
<1>5. Alone(t)
  BY <1>2, <1>3 DEF Alone, TypeOK, Moves
<1> QED
  BY <1>4, <1>5, OthersKeep

(* A review is of the current version: it completes the task, asks for a   *)
(* revision, or ends the task.                                             *)
LEMMA ReviewPreserves ==
  ASSUME TypeOK, PipelineInv, NEW t \in Tasks, NEW d \in Decisions, Review(t, d)
  PROVE  PipelineInv'
<1>1. TaskInv(t) /\ pc[t] = "reviewer"
  BY DEF PipelineInv, Review
<1>2. /\ review' = [review EXCEPT ![t] = [is |-> d, of |-> version[t]]]
      /\ revision' \in [Tasks -> Nat]
      /\ \A u \in Tasks \ {t} : revision'[u] = revision[u]
      /\ \/ Moves(t, "over", "completed") /\ d = "approved"
         \/ Moves(t, "reviser", "implementing")
         \/ Moves(t, "over", "escalated")
  <2>1. \/ Moves(t, "over", "completed") /\ d = "approved"
        \/ Moves(t, "reviser", "implementing")
        \/ Moves(t, "over", "escalated")
    BY EndMoves, ContinueMoves DEF Review
  <2>2. revision \in [Tasks -> 0..MaxRevisions]
    BY DEF TypeOK
  <2>3. revision' = revision \/ revision' = [revision EXCEPT ![t] = revision[t] + 1]
    BY DEF Review
  <2>4. revision[t] \in Nat /\ revision[t] + 1 \in Nat
    BY <2>2, PipelineAssumption
  <2> QED
    BY <2>1, <2>2, <2>3, <2>4, PipelineAssumption DEF Review
<1>3. /\ text' = text /\ plan' = plan /\ version' = version
      /\ preAudit' = preAudit /\ audit' = audit
  BY DEF Review
<1>4. TaskInv(t)'
  BY <1>1, <1>2, <1>3
  DEF TypeOK, Moves, TaskInv, BeforeDelivery, AfterDelivery, AuditRespected, Ended,
      Approved, Secured, Trivial, Unjudged, EndStatuses, Clearances, Decisions
<1>5. Alone(t)
  BY <1>2, <1>3 DEF Alone, TypeOK, Moves
<1> QED
  BY <1>4, <1>5, OthersKeep

(* A revision is a new version and goes back to the reviewer. *)
LEMMA RevisePreserves ==
  ASSUME TypeOK, PipelineInv, NEW t \in Tasks, Revise(t)
  PROVE  PipelineInv'
<1>1. TaskInv(t) /\ pc[t] = "reviser"
  BY DEF PipelineInv, Revise
<1>2. /\ version' = [version EXCEPT ![t] = @ + 1]
      /\ \/ Moves(t, "reviewer", "reviewing")
         \/ Moves(t, "over", "completed") /\ Trivial(t)
  <2>1. revision[t] \in Nat /\ revision[t] <= MaxRevisions
    BY PipelineAssumption DEF TypeOK
  <2> QED
    BY <2>1, ReviewLoopMoves, PipelineAssumption DEF Revise
<1>3. /\ text' = text /\ plan' = plan /\ revision' = revision
      /\ preAudit' = preAudit /\ audit' = audit /\ review' = review
  BY DEF Revise, judgements
<1>4. TaskInv(t)'
  BY <1>1, <1>2, <1>3
  DEF TypeOK, Moves, TaskInv, BeforeDelivery, AfterDelivery, AuditRespected, Ended,
      Approved, Secured, Trivial, Unjudged, EndStatuses, Clearances, Decisions
<1>5. Alone(t)
  BY <1>2, <1>3 DEF Alone, TypeOK, Moves
<1> QED
  BY <1>4, <1>5, OthersKeep

(* A role that throws ends its task, as failed. *)
LEMMA RoleFailsPreserves ==
  ASSUME TypeOK, PipelineInv, NEW t \in Tasks, RoleFails(t)
  PROVE  PipelineInv'
<1>1. TaskInv(t) /\ pc[t] # "over"
  BY DEF PipelineInv, RoleFails
<1>2. Moves(t, "over", "failed")
  BY EndMoves DEF RoleFails
<1>3. /\ text' = text /\ plan' = plan /\ version' = version /\ revision' = revision
      /\ preAudit' = preAudit /\ audit' = audit /\ review' = review
  BY DEF RoleFails, judgements
<1>4. TaskInv(t)'
  BY <1>1, <1>2, <1>3
  DEF TypeOK, Moves, TaskInv, BeforeDelivery, AfterDelivery, AuditRespected, Ended,
      Approved, Secured, Trivial, Unjudged, EndStatuses, Clearances, Decisions
<1>5. Alone(t)
  BY <1>2, <1>3 DEF Alone, TypeOK, Moves
<1> QED
  BY <1>4, <1>5, OthersKeep

-----------------------------------------------------------------------------
(* The revisions are counted by the conflict log, whose last entry alone   *)
(* may be a human's, and then the task is escalated.                       *)
Settled(t) ==
  LET log == conflicts[t] IN
  /\ pc[t] \in {"idle", "architect", "preaudit", "implementer"} => version[t] = 0
  /\ version[t] <= revision[t] + 1
  /\ pc[t] = "reviser" => version[t] <= revision[t]
  /\ \A i \in 1..Len(log) : log[i] = "escalate_human" =>
                              i = Len(log) /\ status[t] = "escalated"
  /\ status[t] = "escalated" =>
       \/ preAudit[t] = "rejected"
       \/ log # <<>> /\ log[Len(log)] = "escalate_human"
  /\ Len(log) = revision[t] + (IF status[t] = "escalated" /\ log # <<>> THEN 1 ELSE 0)

(* Work is delivered by an implementer, and none is before the first.      *)
Delivers(t, r) ==
  \/ /\ version' = version
     /\ r \in {"architect", "preaudit", "implementer"} =>
          pc[t] \in {"idle", "architect", "preaudit"}
  \/ /\ version' = [version EXCEPT ![t] = @ + 1]
     /\ pc[t] \in {"implementer", "reviser"}
     /\ r \notin {"architect", "preaudit", "implementer"}

(* A step that logs no conflict, and does not escalate the task. *)
Calm(t) ==
  /\ conflicts' = conflicts /\ revision' = revision
  /\ \E r \in Stages \ {"idle", "reviser"}, s \in TaskStatuses \ {"escalated"} :
       Moves(t, r, s) /\ Delivers(t, r)

(* Such a step counts no revision, so the log still agrees. *)
LEMMA CalmKeeps ==
  ASSUME TypeOK, NEW t \in Tasks, Ended(t), Settled(t), pc[t] # "over", Calm(t)
  PROVE  Settled(t)'
<1>1. PICK r \in Stages \ {"idle", "reviser"}, s \in TaskStatuses \ {"escalated"} :
        Moves(t, r, s) /\ Delivers(t, r)
  BY DEF Calm
<1>2. pc'[t] = r /\ status'[t] = s
  BY <1>1 DEF Moves, TypeOK
<1>3. status[t] # "escalated"
  BY DEF Ended, EndStatuses
<1>4. conflicts'[t] = conflicts[t] /\ revision'[t] = revision[t]
  BY DEF Calm
<1>5. version \in [Tasks -> Nat] /\ version[t] \in Nat /\ revision[t] \in Nat
  BY PipelineAssumption DEF TypeOK
<1>6. /\ r \in {"architect", "preaudit", "implementer"} => version'[t] = 0
      /\ version'[t] <= revision[t] + 1
  BY <1>1, <1>5 DEF Delivers, Settled
<1>7. \A i \in 1..Len(conflicts[t]) : conflicts[t][i] # "escalate_human"
  BY <1>3 DEF Settled
<1>8. Len(conflicts[t]) = revision[t]
  BY <1>3, <1>5 DEF Settled
<1> QED
  BY <1>1, <1>2, <1>3, <1>4, <1>5, <1>6, <1>7, <1>8 DEF Settled

(* What is calm of the pipeline: all but a rejection, and a review that    *)
(* does not approve.                                                       *)
LEMMA CalmSteps ==
  ASSUME TypeOK, NEW t \in Tasks,
         \/ Start(t) \/ Implement(t) \/ Strategise(t) \/ Revise(t) \/ RoleFails(t)
         \/ \E p \in Plan : Architect(t, p)
         \/ \E c \in Clearances \ {"rejected"} : PreAudit(t, c) \/ Audit(t, c)
         \/ Review(t, "approved")
  PROVE  Calm(t) /\ pc[t] # "over"
<1> USE DEF Calm, Delivers, Stages, TaskStatuses, EndStatuses
<1>0. revision[t] \in Nat
  BY PipelineAssumption DEF TypeOK
<1>1. CASE Start(t)
  <2>1. \/ Moves(t, "implementer", "implementing") \/ Moves(t, "architect", "architecting")
        \/ Moves(t, "preaudit", "security_audit")
    BY <1>1, AfterPlanMoves, ContinueMoves DEF Start
  <2> QED
    BY <1>1, <2>1 DEF Start
<1>2. CASE Implement(t)
  BY <1>0, <1>2, AfterImplementationMoves DEF Implement
<1>3. CASE Strategise(t)
  BY <1>0, <1>3, ReviewLoopMoves DEF Strategise
<1>4. CASE Revise(t)
  BY <1>0, <1>4, ReviewLoopMoves DEF Revise
<1>5. CASE RoleFails(t)
  BY <1>5, EndMoves DEF RoleFails
<1>6. ASSUME NEW p \in Plan, Architect(t, p) PROVE Calm(t) /\ pc[t] # "over"
  BY <1>6, AfterPlanMoves DEF Architect
<1>7. ASSUME NEW c \in Clearances \ {"rejected"}, PreAudit(t, c)
      PROVE  Calm(t) /\ pc[t] # "over"
  BY <1>7, ContinueMoves DEF PreAudit
<1>8. ASSUME NEW c \in Clearances \ {"rejected"}, Audit(t, c)
      PROVE  Calm(t) /\ pc[t] # "over"
  BY <1>0, <1>8, AfterAuditMoves DEF Audit
<1>9. CASE Review(t, "approved")
  BY <1>9, EndMoves DEF Review
<1> QED
  BY <1>1, <1>2, <1>3, <1>4, <1>5, <1>6, <1>7, <1>8, <1>9

(* An entry of the log, after which the task is escalated or revised.      *)
LEMMA ConflictKeeps ==
  ASSUME TypeOK, NEW t \in Tasks, Ended(t), Settled(t), pc[t] # "over",
         NEW x \in Resolutions, NEW n \in {0, 1},
         conflicts' = [conflicts EXCEPT ![t] = Append(@, x)],
         version' = version, revision'[t] = revision[t] + n,
         \/ x = "escalate_human" /\ n = 0 /\ Moves(t, "over", "escalated")
         \/ x = "implementer_revises" /\ n = 1 /\ Moves(t, "reviser", "implementing")
  PROVE  Settled(t)'
<1> DEFINE log == conflicts[t]
<1>1. log \in Seq(Resolutions)
  BY DEF TypeOK, Resolutions
<1>2. conflicts'[t] = Append(log, x)
  BY DEF TypeOK
<1>3. version[t] \in Nat /\ revision[t] \in Nat /\ version'[t] = version[t]
  BY PipelineAssumption DEF TypeOK
<1>4. status[t] # "escalated"
  BY DEF Ended, EndStatuses
<1>5. Len(log) = revision[t] /\ \A i \in 1..Len(log) : log[i] # "escalate_human"
  BY <1>3, <1>4 DEF Settled
<1>6. /\ Len(Append(log, x)) = Len(log) + 1
      /\ Append(log, x)[Len(log) + 1] = x
      /\ \A i \in 1..Len(log) : Append(log, x)[i] = log[i]
      /\ Append(log, x) # <<>>
  BY <1>1
<1>7. version[t] <= revision[t] + 1
  BY DEF Settled
<1>8. CASE x = "escalate_human" /\ n = 0 /\ Moves(t, "over", "escalated")
  <2>1. pc'[t] = "over" /\ status'[t] = "escalated"
    BY <1>8 DEF Moves, TypeOK
  <2> QED
    BY <1>2, <1>3, <1>5, <1>6, <1>7, <1>8, <2>1 DEF Settled
<1>9. CASE x = "implementer_revises" /\ n = 1 /\ Moves(t, "reviser", "implementing")
  <2>1. pc'[t] = "reviser" /\ status'[t] = "implementing"
    BY <1>9 DEF Moves, TypeOK
  <2> QED
    BY <1>2, <1>3, <1>5, <1>6, <1>7, <1>9, <2>1 DEF Settled
<1> QED
  BY <1>8, <1>9

(* The stages of the task that moved. *)
LEMMA OwnSettled ==
  ASSUME TypeOK, PipelineInv, NEW t \in Tasks, Settled(t),
         Start(t) \/ RoleAnswers(t) \/ RoleFails(t)
  PROVE  Settled(t)'
<1>1. Ended(t) /\ BeforeDelivery(t)
  BY DEF PipelineInv, TaskInv
<1>2. CASE Start(t) \/ Implement(t) \/ Strategise(t) \/ Revise(t) \/ RoleFails(t)
  BY <1>1, <1>2, CalmSteps, CalmKeeps
<1>3. ASSUME NEW p \in Plan, Architect(t, p) PROVE Settled(t)'
  BY <1>1, <1>3, CalmSteps, CalmKeeps
<1>4. ASSUME NEW x \in Clearances, PreAudit(t, x) PROVE Settled(t)'
  <2>1. CASE x # "rejected"
    BY <1>1, <1>4, <2>1, CalmSteps, CalmKeeps
  <2>2. CASE x = "rejected"
    <3>1. /\ pc[t] = "preaudit" /\ Moves(t, "over", "escalated")
          /\ preAudit' = [preAudit EXCEPT ![t] = "rejected"]
          /\ version' = version /\ revision' = revision /\ conflicts' = conflicts
      BY <1>4, <2>2, EndMoves DEF PreAudit
    <3>2. pc'[t] = "over" /\ status'[t] = "escalated" /\ preAudit'[t] = "rejected"
      BY <3>1 DEF Moves, TypeOK
    <3>3. status[t] # "escalated" /\ revision[t] = 0
      BY <1>1, <3>1 DEF Ended, EndStatuses, BeforeDelivery
    <3>4. conflicts[t] \in Seq(Resolutions) /\ Len(conflicts[t]) = 0
      BY <3>3 DEF Settled, TypeOK, Resolutions
    <3>5. conflicts[t] = <<>>
      BY <3>4
    <3> QED
      BY <3>1, <3>2, <3>3, <3>5 DEF Settled
  <2> QED
    BY <2>1, <2>2
<1>5. ASSUME NEW x \in Clearances, Audit(t, x) PROVE Settled(t)'
  <2>1. CASE x # "rejected"
    BY <1>1, <1>5, <2>1, CalmSteps, CalmKeeps
  <2>2. CASE x = "rejected"
    <3>1. /\ pc[t] = "auditor" /\ Moves(t, "over", "escalated")
          /\ conflicts' = [conflicts EXCEPT ![t] = Append(@, "escalate_human")]
          /\ version' = version /\ revision' = revision
      BY <1>5, <2>2, EndMoves DEF Audit
    <3>2. revision'[t] = revision[t] + 0
      BY <3>1, PipelineAssumption DEF TypeOK
    <3> QED
      BY <1>1, <3>1, <3>2, ConflictKeeps DEF Resolutions
  <2> QED
    BY <2>1, <2>2
<1>6. ASSUME NEW d \in Decisions, Review(t, d) PROVE Settled(t)'
  <2>1. CASE d = "approved"
    BY <1>1, <1>6, <2>1, CalmSteps, CalmKeeps
  <2>2. CASE d # "approved" /\ MayRevise(t)
    <3>1. /\ pc[t] = "reviewer" /\ Moves(t, "reviser", "implementing")
          /\ conflicts' = [conflicts EXCEPT ![t] = Append(@, "implementer_revises")]
          /\ version' = version /\ revision' = [revision EXCEPT ![t] = @ + 1]
      BY <1>6, <2>2, ContinueMoves DEF Review
    <3>2. revision'[t] = revision[t] + 1
      BY <3>1 DEF TypeOK
    <3> QED
      BY <1>1, <3>1, <3>2, ConflictKeeps DEF Resolutions
  <2>3. CASE d # "approved" /\ ~MayRevise(t)
    <3>1. /\ pc[t] = "reviewer" /\ Moves(t, "over", "escalated")
          /\ conflicts' = [conflicts EXCEPT ![t] = Append(@, "escalate_human")]
          /\ version' = version /\ revision' = revision
      BY <1>6, <2>3, EndMoves DEF Review
    <3>2. revision'[t] = revision[t] + 0
      BY <3>1, PipelineAssumption DEF TypeOK
    <3> QED
      BY <1>1, <3>1, <3>2, ConflictKeeps DEF Resolutions
  <2> QED
    BY <1>6, <2>1, <2>2, <2>3 DEF Review
<1> QED
  BY <1>2, <1>3, <1>4, <1>5, <1>6 DEF RoleAnswers

(* The conflicts of a task are its own. *)
LEMMA OthersSettled ==
  ASSUME TypeOK, NEW t \in Tasks, NEW u \in Tasks, u # t, Settled(u),
         Start(t) \/ RoleAnswers(t) \/ RoleFails(t)
  PROVE  Settled(u)'
<1>1. pc'[u] = pc[u] /\ status'[u] = status[u]
  BY StepMoves DEF MovesSomewhere, Moves, TypeOK
<1>2. conflicts'[u] = conflicts[u] /\ revision'[u] = revision[u]
  BY DEF TypeOK, Start, RoleAnswers, RoleFails, Architect, PreAudit, Audit, Implement,
         Strategise, Revise, Review
<1>3. version'[u] = version[u] /\ preAudit'[u] = preAudit[u]
  BY DEF TypeOK, Start, RoleAnswers, RoleFails, Architect, PreAudit, Audit, Implement,
         Strategise, Revise, Review, judgements
<1> QED
  BY <1>1, <1>2, <1>3 DEF Settled

(* A step takes a task into the history exactly if it completes it. *)
LEMMA HistoryKept ==
  ASSUME TypeOK, PipelineInv, HistoryIsExact, NEW t \in Tasks,
         Start(t) \/ RoleAnswers(t) \/ RoleFails(t)
  PROVE  HistoryIsExact'
<1>1. PICK r \in Stages, s \in TaskStatuses : Moves(t, r, s)
  BY StepMoves DEF MovesSomewhere
<1>2. pc[t] # "over"
  BY DEF Start, RoleAnswers, RoleFails, Architect, PreAudit, Audit, Implement,
         Strategise, Revise, Review
<1>3. status[t] # "completed"
  BY <1>2 DEF PipelineInv, TaskInv, Ended, EndStatuses
<1>4. taskHistory \in Seq(Tasks)
  BY DEF TypeOK
<1>5. \A i \in DOMAIN taskHistory : taskHistory[i] # t
  BY <1>3 DEF HistoryIsExact
<1>6. status'[t] = s /\ \A u \in Tasks \ {t} : status'[u] = status[u]
  BY <1>1 DEF Moves, TypeOK
<1>7. CASE s # "completed"
  BY <1>1, <1>3, <1>6, <1>7 DEF Moves, HistoryIsExact
<1>8. CASE s = "completed"
  <2> DEFINE h == Append(taskHistory, t)
  <2>1. taskHistory' = h
    BY <1>1, <1>8 DEF Moves
  <2>2. /\ Len(h) = Len(taskHistory) + 1 /\ h[Len(taskHistory) + 1] = t
        /\ DOMAIN h = 1..(Len(taskHistory) + 1) /\ DOMAIN taskHistory = 1..Len(taskHistory)
        /\ \A i \in 1..Len(taskHistory) : h[i] = taskHistory[i]
    BY <1>4
  <2>3. Len(taskHistory) \in Nat
    BY <1>4
  <2>4. \A u \in Tasks : status'[u] = "completed" <=> \E i \in DOMAIN h : h[i] = u
    BY <1>5, <1>6, <1>8, <2>2, <2>3 DEF HistoryIsExact
  <2>5. \A i, j \in DOMAIN h : h[i] = h[j] => i = j
    BY <1>5, <2>2, <2>3 DEF HistoryIsExact
  <2> QED
    BY <2>1, <2>4, <2>5 DEF HistoryIsExact
<1> QED
  BY <1>7, <1>8

-----------------------------------------------------------------------------
(* What holds of each task at its stage is an invariant of the pipeline.   *)
LEMMA PipelineIsInvariant == SafeSpec => []PipelineInv
<1>1. Init => PipelineInv
  <2> SUFFICES ASSUME Init, NEW t \in Tasks PROVE TaskInv(t)
    BY DEF PipelineInv
  <2>1. /\ pc[t] = "idle" /\ status[t] = "none" /\ plan[t] = NoPlan
        /\ revision[t] = 0 /\ preAudit[t] = "none"
        /\ audit[t] = Unjudged /\ review[t] = Unjudged
    BY DEF Init
  <2>2. Unjudged.is = "none"
    BY DEF Unjudged
  <2> QED
    BY <2>1, <2>2 DEF TaskInv, BeforeDelivery, AfterDelivery, AuditRespected, Ended,
                      Approved, Secured, EndStatuses
<1>2. TypeOK /\ PipelineInv /\ [Next]_vars => PipelineInv'
  <2> SUFFICES ASSUME TypeOK, PipelineInv, [Next]_vars PROVE PipelineInv'
    OBVIOUS
  <2>1. CASE UNCHANGED vars
    BY <2>1 DEF vars, judgements, PipelineInv, TaskInv, BeforeDelivery, AfterDelivery,
                AuditRespected, Ended, Approved, Secured, Trivial
  <2> QED
    BY <2>1, StartPreserves, ArchitectPreserves, PreAuditPreserves, ImplementPreserves,
       AuditPreserves, StrategisePreserves, ReviewPreserves, RevisePreserves,
       RoleFailsPreserves
    DEF Next, RoleAnswers, AllOver
<1> QED
  BY <1>1, <1>2, TypeCorrect, PTL DEF SafeSpec

(* A task that is not a trivial edit completes only with the reviewer's    *)
(* approval of the version delivered; the auditor's rejection is final and *)
(* an audit the plan wants is not skipped; the conflict log counts the     *)
(* revisions, and the history is that of the completed tasks.              *)
THEOREM JudgesAreHeeded == SafeSpec => []OutcomesAreJust
<1> DEFINE Inv == (\A t \in Tasks : Settled(t)) /\ HistoryIsExact
<1>1. Init => Inv
  BY DEF Init, Settled, HistoryIsExact
<1>2. TypeOK /\ PipelineInv /\ Inv /\ [Next]_vars => Inv'
  <2> SUFFICES ASSUME TypeOK, PipelineInv, Inv, [Next]_vars PROVE Inv'
    OBVIOUS
  <2>1. CASE UNCHANGED vars
    BY <2>1 DEF vars, judgements, Settled, HistoryIsExact
  <2>2. ASSUME NEW t \in Tasks, Start(t) \/ RoleAnswers(t) \/ RoleFails(t) PROVE Inv'
    <3>1. \A u \in Tasks : Settled(u)'
      BY <2>2, OwnSettled, OthersSettled
    <3> QED
      BY <2>2, <3>1, HistoryKept
  <2> QED
    BY <2>1, <2>2 DEF Next, AllOver
<1>3. TypeOK /\ PipelineInv /\ Inv => OutcomesAreJust
  <2> SUFFICES ASSUME TypeOK, PipelineInv, Inv PROVE OutcomesAreJust
    OBVIOUS
  <2>1. CompletedMeansApproved /\ SecurityIsNotOverridden
    BY DEF PipelineInv, TaskInv, Approved, Secured, CompletedMeansApproved,
           SecurityIsNotOverridden
  <2>2. ASSUME NEW t \in Tasks PROVE version[t] <= MaxRevisions + 1
    <3>1. version[t] \in Nat /\ revision[t] \in 0..MaxRevisions
      BY DEF TypeOK
    <3>2. version[t] <= revision[t] + 1
      BY DEF Settled
    <3> QED
      BY <3>1, <3>2, PipelineAssumption
  <2>3. ConflictsAreSettled
    BY <2>2 DEF Settled, ConflictsAreSettled
  <2> QED
    BY <2>1, <2>3 DEF OutcomesAreJust
<1>4. SafeSpec => []Inv
  BY <1>1, <1>2, TypeCorrect, PipelineIsInvariant, PTL DEF SafeSpec
<1> QED
  BY <1>3, <1>4, TypeCorrect, PipelineIsInvariant, PTL

(* A task keeps the plan it started with, whatever the tasks beside it put *)
(* into the cache they share, and a task that is over stays as it ended.   *)
THEOREM PlansAreKept == SafeSpec => PlanIsKept
<1> DEFINE Kept == \A t \in Tasks :
             /\ pc[t] \notin {"idle", "architect"} => plan'[t] = plan[t]
             /\ pc[t] = "over" => pc'[t] = "over" /\ status'[t] = status[t]
<1>1. ASSUME TypeOK, NEW t \in Tasks, Start(t) \/ RoleAnswers(t) \/ RoleFails(t)
      PROVE  Kept
  <2>1. pc[t] # "over"
    BY <1>1 DEF Start, RoleAnswers, RoleFails, Architect, PreAudit, Audit, Implement,
                Strategise, Revise, Review
  <2>2. MovesSomewhere(t)
    BY <1>1, StepMoves
  <2>3. plan' = plan \/ (pc[t] \in {"idle", "architect"}
                          /\ \A u \in Tasks \ {t} : plan'[u] = plan[u])
    BY <1>1 DEF TypeOK, Start, RoleAnswers, RoleFails, Architect, PreAudit, Audit,
                Implement, Strategise, Revise, Review
  <2> QED
    BY <1>1, <2>1, <2>2, <2>3 DEF MovesSomewhere, Moves, TypeOK
<1>2. TypeOK /\ [Next]_vars => [Kept]_vars
  BY <1>1 DEF Next, AllOver
<1> QED
  BY <1>2, TypeCorrect, PTL DEF SafeSpec, PlanIsKept
=============================================================================
