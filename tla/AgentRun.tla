------------------------------ MODULE AgentRun ------------------------------
(***************************************************************************)
(* Agent.run (src/src/agent.ts), one call per turn of a session, together  *)
(* with the host that owns the session: it opens a turn in the ledger,     *)
(* folds the engine's terminal events (done and error) into it, and closes *)
(* what is left open.  The desktop host (src/desktop/src/main/             *)
(* sessionHost.ts) folds only terminals that carry a digest and lets the   *)
(* user stop or abort a running turn; the command line (src/src/index.ts)  *)
(* folds every event and does neither.                                     *)
(*                                                                         *)
(* pc names the await the engine is at; what runs between two awaits is    *)
(* one action.  The tool calls of a step are one await here (see           *)
(* ToolBatch).  The model's API is external: a request may be answered,    *)
(* fail so that a retry helps, or fail for good, and a cancelled request   *)
(* may or may not be rejected with an error isAbortError recognises, or    *)
(* may still return the part of the answer that had arrived.               *)
(***************************************************************************)
EXTENDS Integers, Sequences, SessionLedger

CONSTANTS
  MaxIterations,        \* maxIterations
  MaxContinuations,     \* continuationPolicy.maxContinuations
  IterationsPerCont,    \* continuationPolicy.iterationsPerContinuation
  FoldsEveryTerminal,   \* the host: TRUE for the command line
  UserMayInterrupt,     \* the host: TRUE for the desktop application
  HasTimeout,           \* timeoutMs is set
  MaxTurns              \* bound: turns in the session

ASSUME RunAssumption ==
  /\ MaxIterations \in Nat \ {0} /\ IterationsPerCont \in Nat \ {0}
  /\ MaxContinuations \in Nat /\ MaxTurns \in Nat
  /\ FoldsEveryTerminal \in BOOLEAN
  /\ UserMayInterrupt \in BOOLEAN
  /\ HasTimeout \in BOOLEAN

VARIABLES
  pc,             \* the await the engine is at, "idle" between turns
  iteration,      \* position in the current round of iterations
  continuations,  \* continuationCount
  step,           \* stepIndex
  attempt,        \* attempt of streamCompletionWithReplay
  stopFlag,       \* stopFlag
  aborted,        \* abortController.signal.aborted
  timer,          \* the timeout is armed
  fileChanges,    \* report.fileChanges: the steps that changed a file
  closing,        \* how the run is being closed, "no" while it is not
  runEnds,        \* the run_end events in the replay log
  finalized,      \* replayFinalized: the replay log takes no more events
  turns,          \* the session's ledger
  lastTerminal,   \* lastTerminal of the desktop host
  abortRequested, \* abortRequested of the desktop host
  outcome         \* the outcome the desktop host reports for the last turn

control == <<iteration, continuations, step, attempt>>
signals == <<stopFlag, aborted, timer>>
replay  == <<runEnds, finalized>>
host    == <<turns, lastTerminal>>
vars == <<pc, control, signals, fileChanges, closing, replay, host,
          abortRequested, outcome>>

MaxRetries == 3

IterLimit == IF continuations = 0 THEN MaxIterations ELSE IterationsPerCont
MaxSteps  == MaxIterations + MaxContinuations * IterationsPerCont

(* A mutation of Digest: only the changes of the last step are listed. *)
DigestOfLastStep(status) ==
  [status |-> status, files |-> fileChanges \cap {step}]

Digest(status) == [status |-> status, files |-> fileChanges]
Event(type, digest) == [type |-> type, digest |-> digest]

-----------------------------------------------------------------------------
(* The host's side. *)

(* Which terminal events reach the ledger. *)
Folds(event) == FoldsEveryTerminal \/ event.digest # NoDigest

Fold(ts, event) == IF Folds(event) THEN OnTerminal(ts, event) ELSE ts

Emit(event) ==
  /\ turns' = Fold(turns, event)
  /\ lastTerminal' = event.type

(* A terminal event without a digest: a timeout or a failed request. *)
EmitBareError == Emit(Event("error", NoDigest))

Init ==
  /\ pc = "idle"
  /\ iteration = 0 /\ continuations = 0 /\ step = 0 /\ attempt = 0
  /\ stopFlag = FALSE /\ aborted = FALSE /\ timer = FALSE
  /\ fileChanges = {}
  /\ closing = "no"
  /\ runEnds = <<>> /\ finalized = FALSE
  /\ turns = <<>> /\ lastTerminal = "none"
  /\ abortRequested = FALSE
  /\ outcome = "none"

(* The host opens a turn and calls run, which resets the engine, arms the  *)
(* timeout and enters the loop.  "top" is also the await of the replay     *)
(* log's creation: a signal that arrives then is found at the loop's head. *)
Begin ==
  /\ pc = "idle" /\ Len(turns) < MaxTurns
  /\ turns' = BeginTurn(turns)
  /\ lastTerminal' = "none" /\ abortRequested' = FALSE
  /\ pc' = "top"
  /\ iteration' = 1 /\ continuations' = 0 /\ step' = 0 /\ attempt' = 0
  /\ stopFlag' = FALSE /\ aborted' = FALSE /\ timer' = HasTimeout
  /\ fileChanges' = {}
  /\ closing' = "no"
  /\ runEnds' = <<>> /\ finalized' = FALSE
  /\ UNCHANGED outcome

(* SessionHost.stop and Agent.requestStop. *)
RequestStop ==
  /\ UserMayInterrupt /\ pc # "idle"
  /\ stopFlag' = TRUE
  /\ UNCHANGED <<pc, control, aborted, timer, fileChanges, closing, replay,
                 host, abortRequested, outcome>>

(* SessionHost.abort and Agent.abort. *)
Abort ==
  /\ UserMayInterrupt /\ pc # "idle"
  /\ stopFlag' = TRUE /\ aborted' = TRUE
  /\ abortRequested' = TRUE
  /\ UNCHANGED <<pc, control, timer, fileChanges, closing, replay, host, outcome>>

(* The timeout fires. *)
Timeout ==
  /\ timer
  /\ EmitBareError
  /\ aborted' = TRUE /\ timer' = FALSE
  /\ UNCHANGED <<pc, control, stopFlag, fileChanges, closing, replay,
                 abortRequested, outcome>>

-----------------------------------------------------------------------------
(* The engine's loop. *)

(* Leave the loop: write the report (an await), then close the run. *)
CloseWith(how) ==
  /\ pc' = "report"
  /\ closing' = how
  /\ UNCHANGED <<control, signals, fileChanges, replay, abortRequested, outcome>>

Quietly == UNCHANGED host

(* A mutation of StartStep: the stop flag is not looked at. *)
StartStepRegardless ==
  /\ pc = "top" /\ step < MaxSteps
  /\ step' = step + 1
  /\ pc' = "snapshot"
  /\ UNCHANGED <<iteration, continuations, attempt, signals, fileChanges,
                 closing, replay, host, abortRequested, outcome>>

(* The head of an iteration, no stop being requested: a new step starts    *)
(* with a snapshot of the agent's state (a failure to save it is logged).  *)
StartStep ==
  /\ pc = "top" /\ ~stopFlag
  /\ step' = step + 1
  /\ pc' = "snapshot"
  /\ UNCHANGED <<iteration, continuations, attempt, signals, fileChanges,
                 closing, replay, host, abortRequested, outcome>>

SnapshotTaken ==
  /\ pc = "snapshot"
  /\ pc' \in {"compact", "attempt"}
  /\ attempt' = 1
  /\ UNCHANGED <<iteration, continuations, step, signals, fileChanges,
                 closing, replay, host, abortRequested, outcome>>

(* The head of an iteration, a stop being requested: no report is written. *)
StopAtTop ==
  /\ pc = "top" /\ stopFlag
  /\ Emit(Event("done", Digest("aborted")))
  /\ runEnds' = Append(runEnds, "stopped") /\ finalized' = TRUE
  /\ closing' = "stopped"
  /\ pc' = "finalize"
  /\ UNCHANGED <<control, signals, fileChanges, abortRequested, outcome>>

(* compactContext asks the model for a summary, without a retry.  It is    *)
(* called within a step ("compact") and before a continuation ("continue").*)
Compacted ==
  /\ pc \in {"compact", "continue"}
  /\ pc' = IF pc = "compact" THEN "attempt" ELSE "top"
  /\ iteration' = IF pc = "compact" THEN iteration ELSE 1
  /\ UNCHANGED <<continuations, step, attempt, signals, fileChanges, closing,
                 replay, host, abortRequested, outcome>>

CompactionFails ==
  /\ pc \in {"compact", "continue"}
  /\ \/ CloseWith("error")
     \/ aborted /\ CloseWith("aborted")
  /\ Quietly

(* An attempt checks the signal, then sends the request. *)
SendRequest ==
  /\ pc = "attempt" /\ ~aborted
  /\ pc' = "stream"
  /\ UNCHANGED <<control, signals, fileChanges, closing, replay, host,
                 abortRequested, outcome>>

AttemptAborted == pc = "attempt" /\ aborted /\ CloseWith("aborted") /\ Quietly

(* The request is rejected because it was cancelled. *)
StreamAborted == pc = "stream" /\ aborted /\ CloseWith("aborted") /\ Quietly

(* A transient error: wait, then try again. *)
RetryLater ==
  /\ pc = "stream" /\ attempt < MaxRetries
  /\ pc' = "backoff"
  /\ UNCHANGED <<control, signals, fileChanges, closing, replay, host,
                 abortRequested, outcome>>

(* A mutation of BackoffOver: the attempt is not counted. *)
BackoffUncounted ==
  /\ pc = "backoff"
  /\ pc' = "attempt"
  /\ UNCHANGED <<control, signals, fileChanges, closing, replay, host,
                 abortRequested, outcome>>

BackoffOver ==
  /\ pc = "backoff"
  /\ attempt' = attempt + 1
  /\ pc' = "attempt"
  /\ UNCHANGED <<iteration, continuations, step, signals, fileChanges,
                 closing, replay, host, abortRequested, outcome>>

(* A lasting error, a transient one too many, or an unrecognised           *)
(* cancellation: reported at once, without a digest, then thrown.          *)
RequestFails == pc = "stream" /\ CloseWith("error") /\ EmitBareError

(* The model's final answer. *)
FinalAnswer == pc = "stream" /\ CloseWith("completed") /\ Quietly

(* The model asks for tools. *)
ToolCalls ==
  /\ pc = "stream"
  /\ pc' = "tools"
  /\ UNCHANGED <<control, signals, fileChanges, closing, replay, host,
                 abortRequested, outcome>>

(* The batch of tool calls is over; the step ends.  The last iteration of  *)
(* the last round ends the run; another round starts with a compaction.    *)
ToolsDone ==
  /\ pc = "tools"
  /\ fileChanges' \in {fileChanges, fileChanges \cup {step}}
  /\ IF iteration < IterLimit
     THEN /\ pc' = "top" /\ iteration' = iteration + 1
          /\ UNCHANGED <<continuations, closing>>
     ELSE IF continuations >= MaxContinuations
     THEN /\ pc' = "report" /\ closing' = "max_iterations"
          /\ UNCHANGED <<iteration, continuations>>
     ELSE /\ pc' = "continue" /\ continuations' = continuations + 1
          /\ UNCHANGED <<iteration, closing>>
  /\ UNCHANGED <<step, attempt, signals, replay, host, abortRequested, outcome>>

-----------------------------------------------------------------------------
(* Closing the run. *)

(* The terminal events of each way to close a run. *)
FoldClosing(how) ==
  IF how = "aborted"
  THEN Fold(Fold(turns, Event("error", Digest(how))), Event("done", Digest(how)))
  ELSE Fold(turns, Event(IF how = "completed" THEN "done" ELSE "error", Digest(how)))

(* A mutation of ReportWritten: the end of the log is not remembered. *)
ReportWrittenAgain ==
  /\ pc = "report"
  /\ turns' = FoldClosing(closing)
  /\ lastTerminal' = IF closing \in {"completed", "aborted"} THEN "done" ELSE "error"
  /\ runEnds' = Append(runEnds, closing)
  /\ finalized' = TRUE
  /\ pc' = "finalize"
  /\ UNCHANGED <<control, signals, fileChanges, closing, abortRequested, outcome>>

(* The report is written (or could not be): the terminal events are        *)
(* emitted with the digest, run_end is logged, and the log is finalized.   *)
(* The log drops what comes after its end.                                 *)
ReportWritten ==
  /\ pc = "report"
  /\ turns' = FoldClosing(closing)
  /\ lastTerminal' = IF closing \in {"completed", "aborted"} THEN "done" ELSE "error"
  /\ runEnds' = IF finalized THEN runEnds ELSE Append(runEnds, closing)
  /\ finalized' = TRUE
  /\ pc' = "finalize"
  /\ UNCHANGED <<control, signals, fileChanges, closing, abortRequested, outcome>>

(* The run that used up its iterations throws inside the try block: the    *)
(* handler reports the run a second time, as an error.                     *)
ThrowExhausted ==
  pc = "finalize" /\ closing = "max_iterations" /\ CloseWith("error") /\ Quietly

(* run returns or throws, the timeout is cleared, and the desktop host     *)
(* decides the outcome and closes a turn that is still open.               *)
Finish ==
  /\ pc = "finalize" /\ closing # "max_iterations"
  /\ pc' = "idle"
  /\ timer' = FALSE
  /\ outcome' = IF abortRequested THEN "aborted"
                ELSE IF closing = "error" \/ lastTerminal = "error" THEN "error"
                ELSE "completed"
  /\ turns' = IF FoldsEveryTerminal THEN turns
              ELSE CompleteTurn(turns, NoDigest,
                     IF outcome' = "completed" THEN "completed" ELSE "error")
  /\ UNCHANGED <<control, stopFlag, aborted, fileChanges, closing, replay,
                 lastTerminal, abortRequested>>

-----------------------------------------------------------------------------

Environment == Begin \/ RequestStop \/ Abort \/ Timeout

Engine ==
  \/ StartStep \/ SnapshotTaken \/ StopAtTop
  \/ Compacted \/ CompactionFails
  \/ SendRequest \/ AttemptAborted \/ StreamAborted \/ RetryLater
  \/ BackoffOver \/ RequestFails \/ FinalAnswer \/ ToolCalls \/ ToolsDone
  \/ ReportWritten \/ ThrowExhausted \/ Finish

SessionOver == pc = "idle" /\ Len(turns) = MaxTurns /\ UNCHANGED vars

Next == Environment \/ Engine \/ SessionOver

(* Every await of the engine ends: requests fail or are answered, tools    *)
(* time out, file writes settle.  The user and the clock owe nothing.      *)
Spec == Init /\ [][Next]_vars /\ WF_vars(Engine)

-----------------------------------------------------------------------------

PCs == {"idle", "top", "snapshot", "compact", "attempt", "stream", "backoff",
        "tools", "continue", "report", "finalize"}
Closings == Statuses \cup {"no", "stopped"}
DigestType == [status : Statuses, files : SUBSET (1..MaxSteps)] \cup {NoDigest}

TypeOK ==
  /\ pc \in PCs
  /\ iteration \in 0..MaxSteps
  /\ continuations \in 0..MaxContinuations
  /\ step \in 0..MaxSteps
  /\ attempt \in 0..MaxRetries
  /\ stopFlag \in BOOLEAN /\ aborted \in BOOLEAN /\ timer \in BOOLEAN
  /\ fileChanges \subseteq 1..step
  /\ closing \in Closings
  /\ runEnds \in Seq(Statuses \cup {"stopped"})
  /\ finalized \in BOOLEAN
  /\ turns \in Seq([status : Statuses \cup {"open"}, digest : DigestType])
  /\ lastTerminal \in {"none", "done", "error"}
  /\ abortRequested \in BOOLEAN
  /\ outcome \in {"none", "completed", "error", "aborted"}

(* "Receipts every turn: each turn ends with a harness-computed digest of  *)
(* files changed ...": a turn that is over has its receipt.                *)
ReceiptEveryTurn ==
  \A t \in DOMAIN turns : turns[t].status # "open" => turns[t].digest # NoDigest

(* Between turns the last turn is closed, and its receipt lists every file *)
(* change its tools made, however the turn ended: rewind and diff work     *)
(* from the receipt.                                                       *)
ReceiptIsComplete ==
  pc = "idle" /\ turns # <<>> =>
    /\ ~HasOpenTurn(turns)
    /\ turns[Len(turns)].digest.files = fileChanges

(* A finished run left exactly one run_end in its replay log, and it gives *)
(* the reason the receipt gives.  An "aborted" one has an interruption as  *)
(* its cause, "max_iterations" a full budget of steps.                     *)
ReplayAgreesWithReceipt ==
  pc = "idle" /\ turns # <<>> =>
    /\ Len(runEnds) = 1 /\ finalized
    /\ LET reason == runEnds[1]
           status == turns[Len(turns)].status
       IN  /\ status = (IF reason = "stopped" THEN "aborted" ELSE reason)
           /\ status = "aborted" => stopFlag \/ aborted
           /\ status = "max_iterations" => step = MaxSteps

(* Whatever ends a turn, its receipt is there and complete, and its replay *)
(* log agrees.                                                             *)
ReceiptsAreSound ==
  TypeOK /\ ReceiptEveryTurn /\ ReceiptIsComplete /\ ReplayAgreesWithReceipt

(* Once a stop is requested the turn starts no further step; once the      *)
(* signal is aborted no completion request is sent, not even as the retry  *)
(* of one that failed before.                                              *)
InterruptionsHold ==
  [][/\ stopFlag /\ stopFlag' => step' = step
     /\ aborted /\ pc' = "stream" => pc = "stream"]_vars

(* The record of a closed turn is final: neither a late terminal event of  *)
(* the turn nor anything in a later turn changes it.                       *)
ClosedTurnIsFinal ==
  [][\A t \in DOMAIN turns :
       turns[t].status # "open" => turns'[t] = turns[t]]_vars

(* Every turn ends. *)
TurnEnds == pc # "idle" ~> pc = "idle"
=============================================================================
