---------------------------- MODULE ReplayEngine ----------------------------
(***************************************************************************)
(* Recording a run and replaying it: Agent.run's events (src/src/agent.ts) *)
(* go through the EventLogger, and when the run is over, or the process    *)
(* has died, ReplayEngine (src/src/replay/replayEngine.ts) goes through    *)
(* the file, event by event, executing the recorded tool calls again if it *)
(* is told to.                                                             *)
(*                                                                         *)
(* Only the events the engine looks at are modelled, and of a tool's       *)
(* output only whether it differs from the recorded one.  Checkpoints are  *)
(* read and not used.  The signature and llmProvider are left out.         *)
(***************************************************************************)
EXTENDS EventLogger, FiniteSets, SequencesExt

CONSTANTS
  Calls,      \* the ids of tool calls
  MaxSteps    \* bound: steps of the run

ASSUME ReplayAssumption == MaxSteps \in Nat /\ 0 \notin Calls

VARIABLES
  mode,       \* "recording", "replaying", "over", or "failed" to load
  fromStep,   \* options.fromStep
  execute,    \* options.execute
  stop,       \* options.stopOnDivergence
  index,      \* eventIndex
  stepIndex,  \* stepIndex
  known,      \* recordedOutputs: the calls whose recorded output is known
  diverged,   \* diverged
  executed,   \* the calls executed (history)
  differed    \* the calls whose output was not the recorded one (history)

options == <<fromStep, execute, stop>>
engineVars == <<mode, options, index, stepIndex, known, diverged, executed, differed>>
vars == <<loggerVars, engineVars>>

Types  == {"step_start", "checkpoint", "tool_call", "tool_result"}
Event(type, step, c) == [type |-> type, step |-> step, call |-> c]
Events == [type : Types, step : 1..MaxSteps, call : Calls \cup {0}]

-----------------------------------------------------------------------------
(* What the agent logs. *)

CallsIn(type) == {logged[i].call : i \in {j \in DOMAIN logged : logged[j].type = type}}

Step    == IF logged = <<>> THEN 0 ELSE Last(logged).step
Called  == CallsIn("tool_call")
Results == CallsIn("tool_result")
LastType == IF logged = <<>> THEN "none" ELSE Last(logged).type

(* The next event of the run.  A step starts when the calls of the one     *)
(* before have their results; every call of a step is logged when it is    *)
(* executed, the results when the whole batch is over.                     *)
Recordable ==
  {Event("step_start", s, 0) :
     s \in {Step + 1} \cap
           (IF LastType # "step_start" /\ Called = Results THEN 1..MaxSteps ELSE {})}
  \cup {Event("checkpoint", Step, 0) : t \in {LastType} \cap {"step_start"}}
  \cup {Event("tool_call", Step, c) :
          c \in IF LastType \in {"checkpoint", "tool_call"} THEN Calls \ Called ELSE {}}
  \cup {Event("tool_result", Step, c) : c \in Called \ Results}

Init ==
  /\ LoggerInit
  /\ mode = "recording"
  /\ fromStep = 0 /\ execute = FALSE /\ stop = FALSE
  /\ index = 0 /\ stepIndex = 0
  /\ known = {} /\ diverged = FALSE
  /\ executed = <<>> /\ differed = {}

Record ==
  /\ \E e \in Recordable : Log(e)
  /\ UNCHANGED engineVars

Logger ==
  /\ Finalize \/ Progress \/ Crash
  /\ UNCHANGED engineVars

-----------------------------------------------------------------------------
(* The engine. *)

(* load reads the log of a run that is over, or was cut; a last line that  *)
(* was torn makes it throw.                                                *)
Load ==
  /\ mode = "recording"
  /\ crashed \/ closing = "done"
  /\ fromStep' \in 0..MaxSteps
  /\ execute' \in BOOLEAN /\ stop' \in BOOLEAN
  /\ mode' = IF torn THEN "failed" ELSE "replaying"
  /\ UNCHANGED <<loggerVars, index, stepIndex, known, diverged, executed, differed>>

(* A mutation of Skipped: the step to begin with is skipped as well. *)
SkippedThrough(step) == step <= fromStep

(* Events of the steps before the one to begin with are skipped. *)
Skipped(step) == step < fromStep

(* A recorded call is executed.  Its output is compared with the recorded  *)
(* one if that is known.                                                   *)
Execute(c) ==
  /\ executed' = Append(executed, c)
  /\ \/ UNCHANGED <<differed, diverged>>
     \/ /\ differed' = differed \cup {c}
        /\ diverged' = (stop /\ c \in known)
  /\ UNCHANGED known

(* The loop's body, for one event. *)
Replay ==
  /\ mode = "replaying" /\ index < Len(file)
  /\ index' = index + 1
  /\ LET e == file[index']
     IN  /\ stepIndex' = IF e.type = "step_start" \/
                            (e.type = "checkpoint" /\ ~Skipped(stepIndex) /\ fromStep > 0)
                         THEN e.step ELSE stepIndex
         /\ IF e.type = "tool_call" /\ ~Skipped(stepIndex) /\ ~diverged /\ execute
            THEN Execute(e.call)
            ELSE /\ known' = IF e.type = "tool_result" /\ ~Skipped(stepIndex) /\ ~diverged
                             THEN known \cup {e.call} ELSE known
                 /\ UNCHANGED <<executed, differed, diverged>>
  /\ UNCHANGED <<loggerVars, mode, options>>

ReplayOver ==
  /\ mode = "replaying" /\ index = Len(file)
  /\ mode' = "over"
  /\ UNCHANGED <<loggerVars, options, index, stepIndex, known, diverged, executed,
                 differed>>

Done == mode \in {"over", "failed"} /\ UNCHANGED vars

Next == Record \/ Logger \/ Load \/ Replay \/ ReplayOver \/ Done

(* The event loop runs the drain, and the stream writes what it has. *)
Spec == Init /\ [][Next]_vars /\ WF_vars(Progress /\ UNCHANGED engineVars)

-----------------------------------------------------------------------------

TypeOK ==
  /\ LoggerTypeOK(Events)
  /\ mode \in {"recording", "replaying", "over", "failed"}
  /\ fromStep \in 0..MaxSteps /\ execute \in BOOLEAN /\ stop \in BOOLEAN
  /\ index \in 0..Len(file) /\ stepIndex \in 0..MaxSteps
  /\ known \subseteq Calls /\ diverged \in BOOLEAN
  /\ executed \in Seq(Calls) /\ differed \subseteq Calls

(* Where the log has the calls from the chosen step on, up to its event n. *)
Due(n) ==
  {i \in 1..n : logged[i].type = "tool_call" /\ logged[i].step >= fromStep}

(* A replay that is told to execute has, at every moment, executed exactly *)
(* the calls the run had executed from the chosen step on, in their order, *)
(* unless it diverged; one that is not told to has executed none.          *)
ReplayFollowsRun ==
  \/ diverged
  \/ ~execute /\ executed = <<>>
  \/ /\ execute /\ Len(executed) = Cardinality(Due(index))
     /\ \A i \in Due(index) : executed[Cardinality(Due(i))] = logged[i].call

(* Wherever a replay is, and however the run it reads ended. *)
ReplayIsSound == TypeOK /\ ReplayFollowsRun

(* The documentation: "before executing each tool_call, the engine looks   *)
(* up the stored output for that callId from the matching tool_result      *)
(* event.  If freshResult.output !== recordedOutput and stopOnDivergence   *)
(* is true, the engine emits an onDivergence callback".                    *)
DivergenceIsReported == stop /\ differed # {} => diverged
=============================================================================
