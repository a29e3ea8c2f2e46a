----------------------------- MODULE ToolBatch -----------------------------
(***************************************************************************)
(* The execution of one turn's tool calls by Agent.run (src/src/agent.ts): *)
(* the calls are mapped over a mapPool; a read-only ("low" risk) call runs *)
(* as soon as a worker has pulled it, any other call runs under the        *)
(* agent's mutationLock, an AsyncLock (src/src/parallel.ts), whose waiters *)
(* form a promise chain: first queued, first run.  When the pool has       *)
(* resolved, results are appended to the conversation in call order.       *)
(*                                                                         *)
(* The chain is numbered: a run queued on it holds the next ticket, and    *)
(* starts when every run with a smaller ticket has settled.  A tool's work *)
(* is split in two: the moment it acts on (or looks at) the working        *)
(* directory, and the moment its promise settles.                          *)
(***************************************************************************)
EXTENDS Integers, FiniteSets

CONSTANTS
  NumCalls,   \* the tool calls the model asked for in this turn
  Limits      \* the configured values of toolConcurrency (--parallel-tools)

ASSUME BatchAssumption == NumCalls \in Nat \ {0} /\ Limits \subseteq Int

VARIABLES
  kind,       \* kind[c]: a parse error, or the risk class of call c
  limit, next, job, results, failed, firstError, outcome, \* see MapPool
  phase,      \* phase[c]: how far call c has come
  ticket,     \* ticket[c]: the place of call c in the lock's chain, 0 if none
  issued,     \* the runs queued on the chain so far
  settled,    \* the runs of the chain that have settled
  applied,    \* the mutating calls whose effect is in the working directory
  output,     \* output[c]: the mutating calls whose effect call c found
  transcript  \* the tool messages appended for the model

poolVars == <<limit, next, job, results, failed, firstError, outcome>>
lockVars == <<ticket, issued, settled>>
vars == <<kind, poolVars, phase, lockVars, applied, output, transcript>>

Calls    == 1..NumCalls
Kinds    == {"parse_error", "low", "mutating"}
Phases   == {"idle", "queued", "running", "acted", "done"}
Mutating == {c \in Calls : kind[c] = "mutating"}

(* The pool never sees a rejection: the function it maps contains every    *)
(* error of a call in the call's own result.                               *)
Pool == INSTANCE MapPool
        WITH NumItems <- NumCalls, MayReject <- {}, Values <- SUBSET Calls

-----------------------------------------------------------------------------

(* A mutation of StartPhase: every call runs at once, without the lock. *)
StartPhaseUnlocked(c) == IF kind[c] = "parse_error" THEN "acted" ELSE "running"

(* The synchronous part of the mapped function, run at the pull: a parse   *)
(* error has its value already, a read-only call is announced and started, *)
(* any other call joins the lock's chain.                                  *)
StartPhase(c) ==
  CASE kind[c] = "parse_error" -> "acted"
    [] kind[c] = "low"         -> "running"
    [] OTHER                   -> "queued"

(* The first Width calls are pulled at once, in order. *)
Init ==
  /\ kind \in [Calls -> Kinds]
  /\ Pool!Init
  /\ phase = [c \in Calls |-> IF c < next THEN StartPhase(c) ELSE "idle"]
  /\ ticket = [c \in Calls |-> IF c < next /\ c \in Mutating
                               THEN Cardinality(Mutating \cap (1..c)) ELSE 0]
  /\ issued = Cardinality({c \in Mutating : c < next})
  /\ settled = 0
  /\ applied = {}
  /\ output = [c \in Calls |-> {}]
  /\ transcript = <<>>

(* A mutation of Acquire: the chain does not keep its order. *)
AcquireInAnyOrder(c) ==
  /\ phase[c] = "queued"
  /\ \A b \in Mutating : phase[b] \notin {"running", "acted"}
  /\ phase' = [phase EXCEPT ![c] = "running"]
  /\ UNCHANGED <<kind, poolVars, lockVars, applied, output, transcript>>

(* The run queued first gets the lock: its tool_call event is emitted and  *)
(* the tool (or the wait for a human's approval) starts.                   *)
Acquire(c) ==
  /\ phase[c] = "queued"
  /\ ticket[c] = settled + 1
  /\ phase' = [phase EXCEPT ![c] = "running"]
  /\ UNCHANGED <<kind, poolVars, lockVars, applied, output, transcript>>

(* The tool does its work.  A mutating call that fails, or that the human  *)
(* refuses, leaves the working directory alone.                            *)
Act(c) ==
  /\ phase[c] = "running"
  /\ phase' = [phase EXCEPT ![c] = "acted"]
  /\ output' = [output EXCEPT ![c] = applied]
  /\ applied' \in {applied, applied \cup ({c} \cap Mutating)}
  /\ UNCHANGED <<kind, poolVars, lockVars, transcript>>

(* A mutation of Relock: a run that leaves no effect (it failed) stalls    *)
(* the chain.                                                              *)
RelockUnlessFailed(c, d) ==
  /\ settled' = IF c \in applied THEN settled + 1 ELSE settled
  /\ IF d \in Mutating
     THEN issued' = issued + 1 /\ ticket' = [ticket EXCEPT ![d] = issued']
     ELSE UNCHANGED <<issued, ticket>>

(* The chain of the lock when call c has settled and call d, if it is one  *)
(* of the turn's calls, has just been pulled.                              *)
Relock(c, d) ==
  /\ settled' = IF c \in Mutating THEN settled + 1 ELSE settled
  /\ IF d \in Mutating
     THEN /\ issued' = issued + 1
          /\ ticket' = [ticket EXCEPT ![d] = issued']
     ELSE UNCHANGED <<issued, ticket>>

(* A mutation of Complete: the tool is not awaited. *)
CompleteUnawaited(w) ==
  LET c == job[w]
      d == job'[w]
  IN  /\ c # 0 /\ phase[c] \in {"running", "acted"}
      /\ Pool!Resolve(w, output[c])
      /\ Relock(c, d)
      /\ phase' = [b \in Calls |-> CASE b = c -> "done"
                                     [] b = d -> StartPhase(b)
                                     [] OTHER -> phase[b]]
      /\ UNCHANGED <<kind, applied, output, transcript>>

(* A call settles: the worker stores its result in the call's slot, pulls  *)
(* the next call and starts it.                                            *)
Complete(w) ==
  LET c == job[w]
      d == job'[w]
  IN  /\ c # 0 /\ phase[c] = "acted"
      /\ Pool!Resolve(w, output[c])
      /\ Relock(c, d)
      /\ phase' = [b \in Calls |-> CASE b = c -> "done"
                                     [] b = d -> StartPhase(b)
                                     [] OTHER -> phase[b]]
      /\ UNCHANGED <<kind, applied, output, transcript>>

(* await mapPool(...) resumes. *)
PoolResolves ==
  /\ Pool!Settle
  /\ UNCHANGED <<kind, phase, lockVars, applied, output, transcript>>

(* The loop that appends one tool message per call, in call order. *)
AppendResults ==
  /\ outcome = "resolved"
  /\ transcript = <<>>
  /\ transcript' = [c \in Calls |-> [call |-> c, value |-> results[c].value]]
  /\ UNCHANGED <<kind, poolVars, phase, lockVars, applied, output>>

Returned == transcript # <<>> /\ UNCHANGED vars

Next ==
  \/ \E c \in Calls : Acquire(c) \/ Act(c)
  \/ \E w \in Calls : Complete(w)
  \/ PoolResolves
  \/ AppendResults
  \/ Returned

SafeSpec == Init /\ [][Next]_vars

(* Every tool has a timeout or a human who answers, and the event loop     *)
(* runs the continuation of every settled promise.                         *)
Fairness ==
  /\ \A c \in Calls : WF_vars(Acquire(c)) /\ WF_vars(Act(c)) /\ WF_vars(Complete(c))
  /\ WF_vars(PoolResolves)
  /\ WF_vars(AppendResults)

Spec == SafeSpec /\ Fairness

-----------------------------------------------------------------------------

TypeOK ==
  /\ kind \in [Calls -> Kinds]
  /\ Pool!TypeOK
  /\ phase \in [Calls -> Phases]
  /\ ticket \in [Calls -> Nat]
  /\ issued \in Nat
  /\ settled \in Nat
  /\ applied \subseteq Calls
  /\ output \in [Calls -> SUBSET Calls]
  /\ transcript \in {<<>>} \cup [Calls -> [call : Calls, value : SUBSET Calls]]

Started(c) == phase[c] \in {"running", "acted", "done"}

(* A mutating call starts only when every mutating call the model wrote    *)
(* before it is over, whatever read-only calls run beside it: "the         *)
(* no-parallel-mutation guarantee", and in call order.                     *)
MutationsInCallOrder ==
  \A b, c \in Mutating : b < c /\ Started(c) => phase[b] = "done"

(* The conversation gets one answer per call, in call order and from that  *)
(* very call, and only after everything the turn started is over: the next *)
(* turn finds the lock free and no tool of this one still running.         *)
AnswersAreComplete ==
  transcript # <<>> =>
    /\ \A c \in Calls : /\ phase[c] = "done"
                        /\ transcript[c] = [call |-> c, value |-> output[c]]
    /\ settled = issued

(* A worker that waits for the lock never waits on itself: whenever a run  *)
(* is queued, the run ahead of all others is queued or under way.          *)
LockHasOwner ==
  issued > settled =>
    \E c \in Calls : /\ ticket[c] = settled + 1
                     /\ phase[c] \in {"queued", "running", "acted"}
                     /\ \E w \in Calls : job[w] = c

(* The order of the mutations, the answers and the lock, whatever runs     *)
(* beside what.                                                            *)
BatchIsSound == MutationsInCallOrder /\ AnswersAreComplete /\ LockHasOwner

(* The batch implements what a turn promises about its tool calls. *)
Turn == INSTANCE TurnTools
        WITH acted <- {c \in Calls : phase[c] \in {"acted", "done"}
                                     \/ kind[c] = "parse_error"}
TurnSpec == Turn!Spec

(* With a concurrency of 1 the turn is executed as written: every call     *)
(* finds the effects of the mutating calls before it that succeeded, and   *)
(* of no other.                                                            *)
FoundAsWritten(c) == output[c] = {b \in applied : b < c}

SequentialAtOne ==
  Pool!Width = 1 => \A c \in Calls : phase[c] \in {"acted", "done"} /\
                                     kind[c] # "parse_error" => FoundAsWritten(c)

(* The documentation: "Tool results are always appended in the original    *)
(* call order regardless of completion order, so the conversation          *)
(* transcript is identical to sequential execution."                       *)
TranscriptIsSequential ==
  transcript # <<>> =>
    \A c \in Calls : kind[c] # "parse_error" => FoundAsWritten(c)

(* The turn's batch returns. *)
BatchReturns == <>(transcript # <<>>)
=============================================================================
