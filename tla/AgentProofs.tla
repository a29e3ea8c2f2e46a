---------------------------- MODULE AgentProofs -----------------------------
(***************************************************************************)
(* What the agent keeps to: its runs, under either host, for any number of *)
(* turns, iterations and continuations, and the guarded calls with their   *)
(* commands, for any number of callers, names of files and failures that   *)
(* open the breaker.                                                       *)
(***************************************************************************)
EXTENDS AgentRun, Repair, TLAPS

-----------------------------------------------------------------------------
(* Runs. *)

TurnType == [status : Statuses \cup {"open"}, digest : DigestType]

LoopPCs == {"top", "snapshot", "compact", "attempt", "stream", "backoff",
            "tools", "continue"}

(* The steps of the rounds of iterations before the current one. *)
StepsBefore ==
  IF continuations = 0 THEN 0
  ELSE MaxIterations + (continuations - 1) * IterationsPerCont

(* How far the loop is in its budget: at the head of an iteration its step *)
(* is still to come, and between two rounds the old one is used up.        *)
BudgetIsKept ==
  /\ pc \in LoopPCs \ {"continue"} => iteration \in 1..IterLimit
  /\ pc = "top" => step = StepsBefore + iteration - 1
  /\ pc \in LoopPCs \ {"top", "continue"} => step = StepsBefore + iteration
  /\ pc = "continue" => continuations # 0 /\ step = StepsBefore
  /\ pc = "backoff" => attempt < MaxRetries

(* Where the replay log is: it ends once, when the report is written or    *)
(* the loop is left by a stop, and the reason is backed by the run's state. *)
Backed(reason) ==
  /\ reason \in {"aborted", "stopped"} => stopFlag \/ aborted
  /\ reason = "max_iterations" => step = MaxSteps

LogOpen == runEnds = <<>> /\ ~finalized

LogEnded ==
  /\ finalized
  /\ \E reason \in Statuses \cup {"stopped"} :
       runEnds = <<reason>> /\ Backed(reason)

LogEndsOnce ==
  /\ pc \in LoopPCs => closing = "no" /\ LogOpen
  /\ pc = "report" =>
       /\ closing \in Statuses /\ Backed(closing)
       /\ LogOpen \/ (closing = "error" /\ LogEnded)
  /\ pc = "finalize" => closing \in Statuses \cup {"stopped"} /\ LogEnded
  /\ pc = "idle" => turns = <<>> \/ LogEnded

RunInv == TypeOK /\ BudgetIsKept /\ LogEndsOnce

(* The turn of the run that is over is in the ledger with its receipt. *)
Recorded ==
  /\ turns # <<>> /\ ~HasOpenTurn(turns)
  /\ turns[Len(turns)].digest.files = fileChanges
  /\ turns[Len(turns)].status =
       (IF runEnds[1] = "stopped" THEN "aborted" ELSE runEnds[1])

(* A turn is open in the ledger just as long as the log takes its events.  *)
LedgerFollowsLog ==
  /\ pc # "idle" /\ ~finalized => HasOpenTurn(turns)
  /\ finalized => Recorded

DesktopInv == RunInv /\ ReceiptEveryTurn /\ LedgerFollowsLog

-----------------------------------------------------------------------------
(* The ledger's operators.                                                 *)

(* The closed turns of one ledger are what they were in another.           *)
ClosedKept(ts, new) ==
  \A t \in 1..Len(ts) : ts[t].status # "open" => new[t] = ts[t]

(* The record of the last turn is all a completion can replace, and only   *)
(* while that turn is open.                                                *)
LEMMA CompleteTurnFacts ==
  ASSUME NEW ts \in Seq(TurnType), NEW d \in DigestType, NEW fallback \in Statuses
  PROVE  LET new == CompleteTurn(ts, d, fallback)
         IN  /\ new \in Seq(TurnType) /\ Len(new) = Len(ts)
             /\ ~HasOpenTurn(new)
             /\ ClosedKept(ts, new)
             /\ \A t \in 1..Len(ts) : t # Len(ts) => new[t] = ts[t]
             /\ ~HasOpenTurn(ts) => new = ts
             /\ HasOpenTurn(ts) => new[Len(ts)] =
                  [status |-> IF d # NoDigest THEN d.status ELSE fallback, digest |-> d]
<1> DEFINE closed == [status |-> IF d # NoDigest THEN d.status ELSE fallback,
                      digest |-> d]
<1>1. closed \in TurnType /\ closed.status # "open"
  BY DEF TurnType, DigestType, Statuses, NoDigest
<1>2. CASE HasOpenTurn(ts)
  <2>1. Len(ts) \in 1..Len(ts) /\ CompleteTurn(ts, d, fallback) = [ts EXCEPT ![Len(ts)] = closed]
    BY <1>2 DEF HasOpenTurn, CompleteTurn
  <2>2. ts[Len(ts)].status = "open"
    BY <1>2 DEF HasOpenTurn
  <2> HIDE DEF closed
  <2>3. /\ CompleteTurn(ts, d, fallback) \in Seq(TurnType)
        /\ Len(CompleteTurn(ts, d, fallback)) = Len(ts)
        /\ CompleteTurn(ts, d, fallback)[Len(ts)] = closed
        /\ \A t \in 1..Len(ts) : t # Len(ts) => CompleteTurn(ts, d, fallback)[t] = ts[t]
    BY <2>1, <1>1
  <2> QED
    BY <1>1, <1>2, <2>2, <2>3 DEF HasOpenTurn, ClosedKept, closed
<1>3. CASE ~HasOpenTurn(ts)
  BY <1>3 DEF CompleteTurn, ClosedKept
<1> QED
  BY <1>2, <1>3

(* A new turn is opened behind the old ones, of which only an open last    *)
(* one is touched.                                                         *)
LEMMA BeginTurnFacts ==
  ASSUME NEW ts \in Seq(TurnType)
  PROVE  LET new == BeginTurn(ts)
         IN  /\ new \in Seq(TurnType) /\ Len(new) = Len(ts) + 1
             /\ new[Len(new)] = OpenedTurn /\ HasOpenTurn(new)
             /\ ClosedKept(ts, new)
             /\ ~HasOpenTurn(ts) => \A t \in 1..Len(ts) : new[t] = ts[t]
<1> DEFINE closed == IF HasOpenTurn(ts) THEN [ts EXCEPT ![Len(ts)].status = "error"] ELSE ts
<1>1. OpenedTurn \in TurnType /\ OpenedTurn.status = "open"
  BY DEF OpenedTurn, TurnType, DigestType
<1>2. /\ closed \in Seq(TurnType) /\ Len(closed) = Len(ts)
      /\ \A t \in 1..Len(ts) : ts[t].status # "open" => closed[t] = ts[t]
      /\ ~HasOpenTurn(ts) => closed = ts
  <2>1. CASE HasOpenTurn(ts)
    <3>1. Len(ts) \in 1..Len(ts) /\ ts[Len(ts)].status = "open" /\ ts[Len(ts)] \in TurnType
      BY <2>1 DEF HasOpenTurn
    <3>2. [ts[Len(ts)] EXCEPT !.status = "error"] \in TurnType
      BY <3>1 DEF TurnType, Statuses
    <3>3. closed = [ts EXCEPT ![Len(ts)] = [ts[Len(ts)] EXCEPT !.status = "error"]]
      BY <2>1, <3>1
    <3> QED
      BY <2>1, <3>1, <3>2, <3>3
  <2>2. CASE ~HasOpenTurn(ts)
    BY <2>2
  <2> QED
    BY <2>1, <2>2
<1>3. BeginTurn(ts) = Append(closed, OpenedTurn)
  BY DEF BeginTurn
<1> HIDE DEF closed
<1> QED
  BY <1>1, <1>2, <1>3 DEF HasOpenTurn, ClosedKept

(* What folding an event into the ledger keeps, for either host.           *)
LEMMA FoldFacts ==
  ASSUME NEW ts \in Seq(TurnType), NEW type \in {"done", "error"}, NEW d \in DigestType
  PROVE  LET new == Fold(ts, Event(type, d))
         IN  /\ new \in Seq(TurnType) /\ Len(new) = Len(ts)
             /\ ClosedKept(ts, new)
             /\ \A t \in 1..Len(ts) : t # Len(ts) => new[t] = ts[t]
             /\ ~HasOpenTurn(ts) => new = ts
             /\ d = NoDigest /\ ~FoldsEveryTerminal => new = ts
             /\ d # NoDigest =>
                  /\ ~HasOpenTurn(new)
                  /\ HasOpenTurn(ts) =>
                       new[Len(ts)] = [status |-> d.status, digest |-> d]
<1> DEFINE fallback == IF type = "done" THEN "completed" ELSE "error"
<1>1. fallback \in Statuses
  BY DEF Statuses
<1>2. OnTerminal(ts, Event(type, d)) = CompleteTurn(ts, d, fallback)
  BY DEF OnTerminal, Event
<1>3. Folds(Event(type, d)) <=> FoldsEveryTerminal \/ d # NoDigest
  BY DEF Folds, Event
<1> HIDE DEF fallback
<1>4. CASE Folds(Event(type, d))
  <2>1. Fold(ts, Event(type, d)) = CompleteTurn(ts, d, fallback)
    BY <1>2, <1>4 DEF Fold
  <2>2. d = NoDigest => FoldsEveryTerminal
    BY <1>3, <1>4
  <2>3. LET new == CompleteTurn(ts, d, fallback)
        IN  /\ new \in Seq(TurnType) /\ Len(new) = Len(ts)
            /\ ~HasOpenTurn(new)
            /\ ClosedKept(ts, new)
            /\ \A t \in 1..Len(ts) : t # Len(ts) => new[t] = ts[t]
            /\ ~HasOpenTurn(ts) => new = ts
            /\ HasOpenTurn(ts) => new[Len(ts)] =
                 [status |-> IF d # NoDigest THEN d.status ELSE fallback, digest |-> d]
    BY <1>1, CompleteTurnFacts
  <2> QED
    BY <2>1, <2>2, <2>3
<1>5. CASE ~Folds(Event(type, d))
  <2>1. Fold(ts, Event(type, d)) = ts /\ d = NoDigest
    BY <1>3, <1>5 DEF Fold
  <2> QED
    BY <2>1 DEF ClosedKept
<1> QED
  BY <1>4, <1>5

-----------------------------------------------------------------------------
(* The budget of steps.                                                    *)

(* The rounds before the current one and the current one fit into the      *)
(* budget, and the last round ends at it.                                  *)
LEMMA BudgetFacts ==
  ASSUME continuations \in 0..MaxContinuations
  PROVE  /\ MaxSteps \in Nat /\ StepsBefore \in Nat /\ IterLimit \in Nat \ {0}
         /\ IterLimit <= MaxSteps /\ StepsBefore + IterLimit <= MaxSteps
         /\ continuations = MaxContinuations => StepsBefore + IterLimit = MaxSteps
<1> DEFINE Product(n) == n * IterationsPerCont
<1>1. /\ MaxIterations \in Nat \ {0} /\ IterationsPerCont \in Nat \ {0}
      /\ MaxContinuations \in Nat /\ continuations \in Nat
      /\ continuations <= MaxContinuations
  BY RunAssumption
<1>2. \A n \in Nat : Product(n) \in Nat
  BY <1>1
<1>3. Product(0) = 0
  BY <1>1
<1>4. continuations # 0 =>
        Product(continuations - 1) + IterationsPerCont = Product(continuations)
  BY <1>1
<1>5. Product(continuations) <= Product(MaxContinuations)
  <2>1. MaxContinuations - continuations \in Nat
    BY <1>1
  <2>2. Product(MaxContinuations) =
          Product(continuations) + Product(MaxContinuations - continuations)
    BY <1>1
  <2> QED
    BY <1>1, <1>2, <2>1, <2>2
<1>6. /\ MaxSteps = MaxIterations + Product(MaxContinuations)
      /\ StepsBefore = IF continuations = 0 THEN 0
                       ELSE MaxIterations + Product(continuations - 1)
      /\ IterLimit = IF continuations = 0 THEN MaxIterations ELSE IterationsPerCont
  BY DEF MaxSteps, StepsBefore, IterLimit
<1>7. /\ Product(MaxContinuations) \in Nat
      /\ continuations # 0 => Product(continuations - 1) \in Nat
  BY <1>1, <1>2
<1> HIDE DEF Product
<1> QED
  BY <1>1, <1>3, <1>4, <1>5, <1>6, <1>7

(* A session starts with an empty ledger and no run. *)
LEMMA InitHolds == Init => RunInv
<1> SUFFICES ASSUME Init PROVE RunInv
  OBVIOUS
<1>1. MaxSteps \in Nat /\ MaxContinuations \in Nat
  <2>1. continuations \in 0..MaxContinuations
    BY RunAssumption DEF Init
  <2> QED
    BY <2>1, BudgetFacts, RunAssumption
<1>2. TypeOK
  <2>1. runEnds \in Seq(Statuses \cup {"stopped"}) /\ turns \in Seq(TurnType)
    BY DEF Init
  <2>2. /\ iteration \in 0..MaxSteps /\ step \in 0..MaxSteps
        /\ continuations \in 0..MaxContinuations /\ attempt \in 0..MaxRetries
        /\ fileChanges \subseteq 1..step
    BY <1>1 DEF Init, MaxRetries
  <2> QED
    BY <2>1, <2>2 DEF Init, TypeOK, PCs, Closings, TurnType
<1>3. BudgetIsKept /\ LogEndsOnce
  BY DEF Init, BudgetIsKept, LogEndsOnce, LoopPCs
<1> QED
  BY <1>2, <1>3 DEF RunInv

-----------------------------------------------------------------------------
(* Each action keeps the invariant of a run, whichever host owns it.       *)

(* A stop, an abort or the timeout only raises a flag: a run that ended    *)
(* because of an interruption stays backed by it.                          *)
LEMMA SignalsHold == RunInv /\ (RequestStop \/ Abort \/ Timeout) => RunInv'
<1> SUFFICES ASSUME RunInv, RequestStop \/ Abort \/ Timeout PROVE RunInv'
  OBVIOUS
<1>1. /\ UNCHANGED <<pc, control, fileChanges, closing, replay, outcome>>
      /\ stopFlag' \in BOOLEAN /\ aborted' \in BOOLEAN /\ timer' \in BOOLEAN
      /\ abortRequested' \in BOOLEAN
      /\ stopFlag => stopFlag'
      /\ aborted => aborted'
  BY DEF RunInv, TypeOK, RequestStop, Abort, Timeout
<1>2. /\ turns' \in Seq(TurnType) /\ Len(turns') = Len(turns)
      /\ lastTerminal' \in {"none", "done", "error"}
  <2>1. CASE Timeout
    <3>1. turns \in Seq(TurnType) /\ NoDigest \in DigestType
      BY DEF RunInv, TypeOK, TurnType, DigestType
    <3>2. turns' = Fold(turns, Event("error", NoDigest)) /\ lastTerminal' = "error"
      BY <2>1 DEF Timeout, EmitBareError, Emit, Event
    <3> QED
      BY <3>1, <3>2, FoldFacts
  <2>2. CASE RequestStop \/ Abort
    BY <2>2 DEF RunInv, TypeOK, TurnType, RequestStop, Abort, host
  <2> QED
    BY <2>1, <2>2
<1>3. TypeOK'
  BY <1>1, <1>2 DEF RunInv, TypeOK, TurnType, control, replay, MaxSteps
<1>4. BudgetIsKept'
  BY <1>1 DEF RunInv, BudgetIsKept, IterLimit, StepsBefore, control
<1>5. ASSUME NEW reason, Backed(reason) PROVE Backed(reason)'
  <2>1. step' = step
    BY <1>1 DEF control
  <2>2. reason = "max_iterations" => step' = MaxSteps
    BY <1>5, <2>1 DEF Backed
  <2>3. reason \in {"aborted", "stopped"} => stopFlag' \/ aborted'
    <3>1. reason \in {"aborted", "stopped"} => stopFlag \/ aborted
      BY <1>5 DEF Backed
    <3> QED
      BY <1>1, <3>1
  <2> QED
    BY <2>2, <2>3 DEF Backed, MaxSteps
<1>6. turns' = <<>> <=> turns = <<>>
  BY <1>2 DEF RunInv, TypeOK
<1>7. LogEndsOnce'
  BY <1>1, <1>5, <1>6 DEF RunInv, LogEndsOnce, LogOpen, LogEnded, replay
<1> QED
  BY <1>3, <1>4, <1>7 DEF RunInv

(* A new run starts its budget and its log afresh. *)
LEMMA BeginHolds == RunInv /\ Begin => RunInv'
<1> SUFFICES ASSUME RunInv, Begin PROVE RunInv'
  OBVIOUS
<1>1. turns' \in Seq(TurnType)
  BY BeginTurnFacts DEF RunInv, TypeOK, TurnType, Begin
<1>2. 0 \in 0..MaxContinuations /\ MaxSteps \in Nat /\ 1 \in 0..MaxSteps
  <2>1. MaxSteps \in Nat /\ IterLimit \in Nat \ {0} /\ IterLimit <= MaxSteps
    BY BudgetFacts DEF RunInv, TypeOK
  <2> QED
    BY <2>1, RunAssumption
<1>3. TypeOK'
  <2>1. /\ iteration' \in 0..MaxSteps /\ step' \in 0..MaxSteps
        /\ continuations' \in 0..MaxContinuations /\ attempt' \in 0..MaxRetries
        /\ fileChanges' \subseteq 1..step'
    BY <1>2 DEF Begin, MaxRetries
  <2>2. runEnds' \in Seq(Statuses \cup {"stopped"}) /\ timer' \in BOOLEAN
    BY RunAssumption DEF Begin
  <2> QED
    BY <1>1, <2>1, <2>2 DEF RunInv, TypeOK, TurnType, Begin, PCs, Closings
<1>4. BudgetIsKept'
  BY RunAssumption DEF Begin, BudgetIsKept, LoopPCs, IterLimit, StepsBefore
<1>5. LogEndsOnce'
  BY DEF Begin, LogEndsOnce, LogOpen, LoopPCs
<1> QED
  BY <1>3, <1>4, <1>5 DEF RunInv

(* The step that starts is within the budget. *)
LEMMA StartStepHolds == RunInv /\ StartStep => RunInv'
<1> SUFFICES ASSUME RunInv, StartStep PROVE RunInv'
  OBVIOUS
<1>1. /\ step = StepsBefore + iteration - 1 /\ iteration \in 1..IterLimit
      /\ step' = step + 1
  BY DEF RunInv, BudgetIsKept, LoopPCs, StartStep
<1>2. step' \in 1..MaxSteps /\ step' = StepsBefore + iteration
  <2>1. /\ StepsBefore \in Nat /\ IterLimit \in Nat \ {0} /\ MaxSteps \in Nat
        /\ StepsBefore + IterLimit <= MaxSteps
    BY BudgetFacts DEF RunInv, TypeOK
  <2>2. PICK k : k = StepsBefore
    OBVIOUS
  <2> QED
    BY <1>1, <2>1, <2>2
<1>3. TypeOK'
  <2>1. step' \in 0..MaxSteps /\ fileChanges' \subseteq 1..step'
    BY <1>1, <1>2 DEF RunInv, TypeOK, StartStep
  <2> QED
    BY <2>1 DEF RunInv, TypeOK, StartStep, signals, replay, host, PCs
<1>4. BudgetIsKept'
  BY <1>1, <1>2 DEF StartStep, BudgetIsKept, LoopPCs, IterLimit, StepsBefore
<1>5. LogEndsOnce'
  BY DEF RunInv, StartStep, LogEndsOnce, LogOpen, LoopPCs, replay
<1> QED
  BY <1>3, <1>4, <1>5 DEF RunInv

(* From one await to the next within a step. *)
LEMMA WithinStepHolds ==
  ASSUME RunInv,
         \/ SnapshotTaken \/ SendRequest \/ RetryLater \/ BackoffOver \/ ToolCalls
         \/ pc = "compact" /\ Compacted
  PROVE  RunInv'
<1>1. /\ pc \in LoopPCs \ {"top", "continue"} /\ pc' \in LoopPCs \ {"top", "continue"}
      /\ UNCHANGED <<iteration, continuations, step, signals, fileChanges, closing,
                     replay, host, abortRequested, outcome>>
      /\ attempt' \in 0..MaxRetries
      /\ pc' = "backoff" => attempt' < MaxRetries
  BY DEF RunInv, TypeOK, BudgetIsKept, SnapshotTaken, SendRequest, RetryLater, BackoffOver, ToolCalls,
     Compacted, LoopPCs, control, MaxRetries
<1>2. TypeOK'
  BY <1>1 DEF RunInv, TypeOK, signals, replay, host, LoopPCs, PCs
<1>3. BudgetIsKept'
  BY <1>1 DEF RunInv, BudgetIsKept, LoopPCs, IterLimit, StepsBefore
<1>4. LogEndsOnce'
  BY <1>1 DEF RunInv, LogEndsOnce, LogOpen, LoopPCs, replay
<1> QED
  BY <1>2, <1>3, <1>4 DEF RunInv

(* The loop is left with a reason that is not known to be an interruption, *)
(* or with "aborted" once the signal is.                                   *)
LEMMA CloseHolds ==
  ASSUME RunInv,
         \/ CompactionFails \/ AttemptAborted \/ StreamAborted
         \/ RequestFails \/ FinalAnswer
  PROVE  RunInv'
<1>1. /\ pc \in LoopPCs /\ pc' = "report"
      /\ closing' \in {"error", "aborted", "completed"}
      /\ closing' = "aborted" => aborted
      /\ UNCHANGED <<control, signals, fileChanges, replay, abortRequested, outcome>>
  BY DEF CompactionFails, AttemptAborted, StreamAborted, RequestFails, FinalAnswer,
     CloseWith, LoopPCs
<1>2. /\ turns' \in Seq(TurnType) /\ lastTerminal' \in {"none", "done", "error"}
  <2>1. CASE RequestFails
    <3>1. turns \in Seq(TurnType) /\ NoDigest \in DigestType
      BY DEF RunInv, TypeOK, TurnType, DigestType
    <3>2. turns' = Fold(turns, Event("error", NoDigest)) /\ lastTerminal' = "error"
      BY <2>1 DEF RequestFails, EmitBareError, Emit, Event
    <3> QED
      BY <3>1, <3>2, FoldFacts
  <2>2. CASE ~RequestFails
    BY <2>2 DEF RunInv, TypeOK, TurnType, CompactionFails, AttemptAborted,
       StreamAborted, FinalAnswer, Quietly, host
  <2> QED
    BY <2>1, <2>2
<1>3. TypeOK'
  BY <1>1, <1>2 DEF RunInv, TypeOK, TurnType, control, signals, replay, PCs, Closings, Statuses
<1>4. BudgetIsKept'
  BY <1>1 DEF BudgetIsKept, LoopPCs
<1>5. LogEndsOnce'
  BY <1>1 DEF RunInv, LogEndsOnce, LogOpen, Backed, LoopPCs, Statuses, signals, replay
<1> QED
  BY <1>3, <1>4, <1>5 DEF RunInv

(* The step ends: within the round the next iteration is counted, and the  *)
(* run that has used up its last round has taken MaxSteps steps.           *)
LEMMA ToolsDoneHolds == RunInv /\ ToolsDone => RunInv'
<1> SUFFICES ASSUME RunInv, ToolsDone PROVE RunInv'
  OBVIOUS
<1>1. /\ pc = "tools" /\ step = StepsBefore + iteration /\ iteration \in 1..IterLimit
      /\ closing = "no" /\ LogOpen
      /\ UNCHANGED <<step, attempt, signals, replay, host, abortRequested, outcome>>
  BY DEF RunInv, BudgetIsKept, LogEndsOnce, LoopPCs, ToolsDone
<1>2. /\ MaxSteps \in Nat /\ StepsBefore \in Nat /\ IterLimit \in Nat \ {0}
      /\ IterLimit <= MaxSteps
      /\ continuations = MaxContinuations => StepsBefore + IterLimit = MaxSteps
      /\ continuations \in 0..MaxContinuations
  BY BudgetFacts DEF RunInv, TypeOK
<1>3. fileChanges' \subseteq 1..step'
  BY <1>1, <1>2 DEF RunInv, TypeOK, ToolsDone
<1>4. CASE iteration < IterLimit
  <2>1. /\ pc' = "top" /\ iteration' = iteration + 1
        /\ UNCHANGED <<continuations, closing>>
    BY <1>4 DEF ToolsDone
  <2>2. TypeOK'
    BY <1>1, <1>2, <1>3, <1>4, <2>1 DEF RunInv, TypeOK, signals, replay, host, PCs
  <2>3. BudgetIsKept'
    BY <1>1, <1>2, <1>4, <2>1 DEF BudgetIsKept, LoopPCs, IterLimit, StepsBefore
  <2>4. LogEndsOnce'
    BY <1>1, <2>1 DEF LogEndsOnce, LogOpen, LoopPCs, replay
  <2> QED
    BY <2>2, <2>3, <2>4 DEF RunInv
<1>5. CASE ~(iteration < IterLimit) /\ continuations >= MaxContinuations
  <2>1. /\ pc' = "report" /\ closing' = "max_iterations"
        /\ UNCHANGED <<iteration, continuations>>
    BY <1>5 DEF ToolsDone
  <2>2. TypeOK'
    BY <1>1, <1>3, <2>1 DEF RunInv, TypeOK, signals, replay, host, PCs, Closings, Statuses
  <2>3. BudgetIsKept'
    BY <2>1 DEF BudgetIsKept, LoopPCs
  <2>4. step' = MaxSteps
    BY <1>1, <1>2, <1>5, RunAssumption
  <2>5. LogEndsOnce'
    BY <1>1, <2>1, <2>4 DEF LogEndsOnce, LogOpen, LoopPCs, Backed, Statuses, replay, MaxSteps
  <2> QED
    BY <2>2, <2>3, <2>5 DEF RunInv
<1>6. CASE ~(iteration < IterLimit) /\ ~(continuations >= MaxContinuations)
  <2>1. /\ pc' = "continue" /\ continuations' = continuations + 1
        /\ UNCHANGED <<iteration, closing>>
    BY <1>6 DEF ToolsDone
  <2>2. continuations' \in 1..MaxContinuations
    BY <1>2, <1>6, <2>1, RunAssumption
  <2>3. TypeOK'
    BY <1>1, <1>3, <2>1, <2>2 DEF RunInv, TypeOK, signals, replay, host, PCs
  <2>4. StepsBefore' = StepsBefore + IterLimit
    <3>1. StepsBefore' = MaxIterations + continuations * IterationsPerCont
      BY <1>2, <2>1, RunAssumption DEF StepsBefore
    <3>2. CASE continuations = 0
      BY <3>1, <3>2, RunAssumption DEF StepsBefore, IterLimit
    <3>3. CASE continuations # 0
      <4>1. continuations * IterationsPerCont
              = (continuations - 1) * IterationsPerCont + IterationsPerCont
        BY <1>2, RunAssumption
      <4>2. continuations - 1 \in Nat
        BY <1>2, <3>3, RunAssumption
      <4> QED
        BY <3>1, <3>3, <4>1, <4>2, RunAssumption DEF StepsBefore, IterLimit
    <3> QED
      BY <3>2, <3>3
  <2>5. BudgetIsKept'
    <3>1. iteration = IterLimit /\ step' = StepsBefore' /\ continuations' # 0
      BY <1>1, <1>2, <1>6, <2>2, <2>4
    <3> QED
      BY <2>1, <3>1 DEF BudgetIsKept, LoopPCs
  <2>6. LogEndsOnce'
    BY <1>1, <2>1 DEF LogEndsOnce, LogOpen, LoopPCs, replay
  <2> QED
    BY <2>3, <2>5, <2>6 DEF RunInv
<1> QED
  BY <1>4, <1>5, <1>6

(* A continuation's compaction is over: a round of its own size begins. *)
LEMMA ContinueHolds ==
  ASSUME RunInv, pc = "continue", Compacted
  PROVE  RunInv'
<1>1. /\ pc' = "top" /\ iteration' = 1
      /\ UNCHANGED <<continuations, step, attempt, signals, fileChanges, closing,
                     replay, host, abortRequested, outcome>>
  BY DEF Compacted
<1>2. /\ continuations # 0 /\ step = StepsBefore /\ StepsBefore \in Nat
      /\ MaxSteps \in Nat /\ IterLimit \in Nat \ {0} /\ IterLimit <= MaxSteps
  BY BudgetFacts DEF RunInv, TypeOK, BudgetIsKept
<1>3. TypeOK'
  BY <1>1, <1>2 DEF RunInv, TypeOK, signals, replay, host, PCs
<1>4. BudgetIsKept'
  BY <1>1, <1>2 DEF BudgetIsKept, LoopPCs, IterLimit, StepsBefore
<1>5. LogEndsOnce'
  BY <1>1 DEF RunInv, LogEndsOnce, LogOpen, LoopPCs, replay
<1> QED
  BY <1>3, <1>4, <1>5 DEF RunInv

(* The digest of a run says something.                                     *)
LEMMA DigestFacts ==
  ASSUME TypeOK, NEW how \in Statuses
  PROVE  /\ Digest(how) \in DigestType /\ Digest(how) # NoDigest
         /\ Digest(how).status = how /\ Digest(how).files = fileChanges
<1>1. fileChanges \in SUBSET (1..MaxSteps)
  <2>1. MaxSteps \in Nat /\ step \in 0..MaxSteps /\ fileChanges \subseteq 1..step
    BY BudgetFacts DEF TypeOK
  <2> QED
    BY <2>1
<1> QED
  BY <1>1 DEF Digest, DigestType, NoDigest, Statuses

(* The terminal events of a run carry its digest: they leave the ledger's  *)
(* last turn closed, with the run's reason and file changes.               *)
LEMMA FoldClosingFacts ==
  ASSUME TypeOK, NEW how \in Statuses
  PROVE  LET new == FoldClosing(how)
         IN  /\ new \in Seq(TurnType) /\ Len(new) = Len(turns)
             /\ ~HasOpenTurn(new)
             /\ ClosedKept(turns, new)
             /\ \A t \in 1..Len(turns) : t # Len(turns) => new[t] = turns[t]
             /\ ~HasOpenTurn(turns) => new = turns
             /\ HasOpenTurn(turns) => new[Len(turns)] =
                  [status |-> how, digest |-> Digest(how)]
<1>1. turns \in Seq(TurnType)
  BY DEF TypeOK, TurnType
<1>2. /\ Digest(how) \in DigestType /\ Digest(how) # NoDigest
      /\ Digest(how).status = how
  BY DigestFacts
<1> DEFINE type == IF how = "completed" THEN "done" ELSE "error"
           one  == Fold(turns, Event(type, Digest(how)))
<1>3. /\ one \in Seq(TurnType) /\ Len(one) = Len(turns)
      /\ ~HasOpenTurn(one)
      /\ ClosedKept(turns, one)
      /\ \A t \in 1..Len(turns) : t # Len(turns) => one[t] = turns[t]
      /\ ~HasOpenTurn(turns) => one = turns
      /\ HasOpenTurn(turns) => one[Len(turns)] =
           [status |-> how, digest |-> Digest(how)]
  <2>1. type \in {"done", "error"}
    OBVIOUS
  <2> HIDE DEF type
  <2> QED
    BY <1>1, <1>2, <2>1, FoldFacts
<1>4. FoldClosing(how) = one
  <2>1. CASE how = "aborted"
    <3>1. FoldClosing(how) = Fold(one, Event("done", Digest(how)))
      BY <2>1 DEF FoldClosing
    <3> HIDE DEF one
    <3> QED
      BY <3>1, <1>1, <1>2, <1>3, FoldFacts
  <2>2. CASE how # "aborted"
    BY <2>2 DEF FoldClosing
  <2> QED
    BY <2>1, <2>2
<1> HIDE DEF one
<1> QED
  BY <1>3, <1>4

(* A stop that is seen at the loop's head ends the log without a report.   *)
LEMMA StopAtTopHolds == RunInv /\ StopAtTop => RunInv'
<1> SUFFICES ASSUME RunInv, StopAtTop PROVE RunInv'
  OBVIOUS
<1>1. turns' \in Seq(TurnType) /\ Len(turns') = Len(turns)
  <2>1. turns \in Seq(TurnType) /\ Digest("aborted") \in DigestType
    BY DigestFacts DEF RunInv, TypeOK, TurnType, Statuses
  <2>2. turns' = Fold(turns, Event("done", Digest("aborted")))
    BY DEF StopAtTop, Emit
  <2> QED
    BY <2>1, <2>2, FoldFacts
<1>2. /\ runEnds = <<>> /\ runEnds' = <<"stopped">> /\ finalized'
      /\ pc' = "finalize" /\ closing' = "stopped" /\ stopFlag
      /\ lastTerminal' = "done"
      /\ UNCHANGED <<control, signals, fileChanges, abortRequested, outcome>>
  BY DEF RunInv, LogEndsOnce, LogOpen, LoopPCs, StopAtTop, Emit, Event
<1>3. TypeOK'
  <2>1. runEnds' \in Seq(Statuses \cup {"stopped"}) /\ finalized' \in BOOLEAN
    BY <1>2 DEF StopAtTop
  <2> QED
    BY <1>1, <1>2, <2>1 DEF RunInv, TypeOK, TurnType, control, signals, PCs, Closings
<1>4. BudgetIsKept'
  BY <1>2 DEF BudgetIsKept, LoopPCs
<1>5. LogEndsOnce'
  <2>1. Backed("stopped")'
    BY <1>2 DEF Backed, signals
  <2> QED
    BY <1>2, <2>1 DEF LogEndsOnce, LogEnded, LoopPCs
<1> QED
  BY <1>3, <1>4, <1>5 DEF RunInv

(* The report's reason goes into the log, unless the log has ended.        *)
LEMMA ReportWrittenHolds == RunInv /\ ReportWritten => RunInv'
<1> SUFFICES ASSUME RunInv, ReportWritten PROVE RunInv'
  OBVIOUS
<1>1. /\ pc = "report" /\ closing \in Statuses /\ Backed(closing)
      /\ LogOpen \/ (closing = "error" /\ LogEnded)
  BY DEF RunInv, LogEndsOnce, LoopPCs, ReportWritten
<1>2. /\ pc' = "finalize" /\ closing' = closing
      /\ lastTerminal' \in {"none", "done", "error"}
      /\ UNCHANGED <<control, signals, fileChanges, abortRequested, outcome>>
      /\ turns' = FoldClosing(closing)
  BY DEF ReportWritten
<1>3. turns' \in Seq(TurnType) /\ Len(turns') = Len(turns)
  BY <1>1, <1>2, FoldClosingFacts DEF RunInv
<1>4. LogEnded'
  <2>1. \A reason : Backed(reason) => Backed(reason)'
    BY <1>2 DEF Backed, signals, control, MaxSteps
  <2>2. CASE LogOpen
    <3>1. runEnds' = <<closing>> /\ finalized'
      BY <2>2 DEF LogOpen, ReportWritten
    <3> QED
      BY <1>1, <2>1, <3>1 DEF LogEnded
  <2>3. CASE LogEnded
    <3>1. runEnds' = runEnds /\ finalized'
      BY <2>3 DEF LogEnded, ReportWritten
    <3> QED
      BY <2>1, <2>3, <3>1 DEF LogEnded
  <2> QED
    BY <1>1, <2>2, <2>3
<1>5. TypeOK'
  <2>1. PICK reason \in Statuses \cup {"stopped"} : runEnds' = <<reason>>
    BY <1>4 DEF LogEnded
  <2>2. runEnds' \in Seq(Statuses \cup {"stopped"})
    BY <2>1
  <2>3. finalized' \in BOOLEAN
    BY DEF ReportWritten
  <2> QED
    BY <1>1, <1>2, <1>3, <2>2, <2>3 DEF RunInv, TypeOK, TurnType, control, signals, PCs, Closings
<1>6. BudgetIsKept'
  BY <1>2 DEF BudgetIsKept, LoopPCs
<1>7. LogEndsOnce'
  BY <1>1, <1>2, <1>4 DEF LogEndsOnce, LoopPCs
<1> QED
  BY <1>5, <1>6, <1>7 DEF RunInv

(* The second report of an exhausted run finds its log at its end.         *)
LEMMA ThrowExhaustedHolds == RunInv /\ ThrowExhausted => RunInv'
<1> SUFFICES ASSUME RunInv, ThrowExhausted PROVE RunInv'
  OBVIOUS
<1>1. /\ pc' = "report" /\ closing' = "error" /\ LogEnded
      /\ UNCHANGED <<control, signals, fileChanges, replay, host, abortRequested, outcome>>
  BY DEF RunInv, LogEndsOnce, LoopPCs, ThrowExhausted, CloseWith, Quietly
<1>2. TypeOK'
  BY <1>1 DEF RunInv, TypeOK, control, signals, replay, host, PCs, Closings, Statuses
<1>3. BudgetIsKept'
  BY <1>1 DEF BudgetIsKept, LoopPCs
<1>4. LogEnded'
  BY <1>1 DEF LogEnded, Backed, replay, signals, control, MaxSteps
<1>5. LogEndsOnce'
  BY <1>1, <1>4 DEF LogEndsOnce, LoopPCs, Backed, Statuses
<1> QED
  BY <1>2, <1>3, <1>5 DEF RunInv

(* The run is over: the host may still close its turn.                     *)
LEMMA FinishHolds == RunInv /\ Finish => RunInv'
<1> SUFFICES ASSUME RunInv, Finish PROVE RunInv'
  OBVIOUS
<1>1. /\ pc' = "idle" /\ timer' = FALSE /\ LogEnded
      /\ UNCHANGED <<control, stopFlag, aborted, fileChanges, closing, replay,
                     lastTerminal, abortRequested>>
      /\ outcome' \in {"none", "completed", "error", "aborted"}
  BY DEF RunInv, LogEndsOnce, LoopPCs, Finish
<1>2. turns' \in Seq(TurnType)
  <2>1. turns \in Seq(TurnType) /\ NoDigest \in DigestType
    BY DEF RunInv, TypeOK, TurnType, DigestType
  <2>2. (IF outcome' = "completed" THEN "completed" ELSE "error") \in Statuses
    BY DEF Statuses
  <2> QED
    BY <2>1, <2>2, CompleteTurnFacts DEF Finish
<1>3. TypeOK'
  BY <1>1, <1>2 DEF RunInv, TypeOK, TurnType, control, replay, PCs, Closings
<1>4. BudgetIsKept'
  BY <1>1 DEF BudgetIsKept, LoopPCs
<1>5. LogEnded'
  BY <1>1 DEF LogEnded, Backed, replay, control, MaxSteps
<1>6. LogEndsOnce'
  BY <1>1, <1>5 DEF LogEndsOnce, LoopPCs
<1> QED
  BY <1>3, <1>4, <1>6 DEF RunInv

(* RunInv is inductive. *)
LEMMA NextHolds == RunInv /\ [Next]_vars => RunInv'
<1> SUFFICES ASSUME RunInv, [Next]_vars PROVE RunInv'
  OBVIOUS
<1>1. CASE Environment
  BY <1>1, BeginHolds, SignalsHold DEF Environment
<1>2. CASE Engine
  <2>1. CASE StartStep
    BY <2>1, StartStepHolds
  <2>2. CASE SnapshotTaken \/ SendRequest \/ RetryLater \/ BackoffOver \/ ToolCalls
    BY <2>2, WithinStepHolds
  <2>3. CASE Compacted
    BY <2>3, WithinStepHolds, ContinueHolds DEF Compacted
  <2>4. CASE \/ CompactionFails \/ AttemptAborted \/ StreamAborted
             \/ RequestFails \/ FinalAnswer
    BY <2>4, CloseHolds
  <2>5. CASE ToolsDone
    BY <2>5, ToolsDoneHolds
  <2>6. CASE StopAtTop \/ ReportWritten \/ ThrowExhausted \/ Finish
    BY <2>6, StopAtTopHolds, ReportWrittenHolds, ThrowExhaustedHolds, FinishHolds
  <2> QED
    BY <1>2, <2>1, <2>2, <2>3, <2>4, <2>5, <2>6 DEF Engine
<1>3. CASE UNCHANGED vars
  BY <1>3 DEF RunInv, TypeOK, BudgetIsKept, IterLimit, StepsBefore, LogEndsOnce,
     LogOpen, LogEnded, Backed, vars, control, signals, replay, host
<1> QED
  BY <1>1, <1>2, <1>3 DEF Next, SessionOver

(* The invariant of every run. *)
THEOREM RunIsInvariant == Spec => []RunInv
BY InitHolds, NextHolds, PTL DEF Spec

(* The engine's, the log's and the ledger's variables keep their types: no *)
(* step is taken beyond the budget, no request is tried a fourth time.     *)
THEOREM TypeCorrect == Spec => []TypeOK
<1>1. RunInv => TypeOK
  BY DEF RunInv
<1> QED
  BY <1>1, RunIsInvariant, PTL

(* Whichever host runs the agent: the log of a run has at most one end,    *)
(* and has it when the run is over; an interruption is given as its reason *)
(* only if there was one, an exhausted budget only if it was used up.      *)
THEOREM LogOfARunEndsOnce == Spec => []LogEndsOnce
<1>1. RunInv => LogEndsOnce
  BY DEF RunInv
<1> QED
  BY <1>1, RunIsInvariant, PTL

-----------------------------------------------------------------------------
(* What a step may never do.                                               *)

(* The steps that write to the ledger, and what they write.                *)
LEMMA LedgerSteps ==
  ASSUME RunInv, [Next]_vars
  PROVE  \/ turns' = turns
         \/ Begin
         \/ Timeout /\ turns' = Fold(turns, Event("error", NoDigest))
         \/ RequestFails /\ turns' = Fold(turns, Event("error", NoDigest))
         \/ StopAtTop /\ turns' = Fold(turns, Event("done", Digest("aborted")))
         \/ ReportWritten /\ closing \in Statuses /\ turns' = FoldClosing(closing)
         \/ /\ Finish /\ ~FoldsEveryTerminal
            /\ \E fallback \in Statuses : turns' = CompleteTurn(turns, NoDigest, fallback)
<1>1. CASE Environment
  BY <1>1 DEF Environment, RequestStop, Abort, Timeout, EmitBareError, Emit, Event, host
<1>2. CASE Engine
  <2>1. CASE Finish
    BY <2>1 DEF Finish, Statuses
  <2>2. CASE ReportWritten
    BY <2>2 DEF RunInv, LogEndsOnce, ReportWritten
  <2>3. CASE StopAtTop \/ RequestFails
    BY <2>3 DEF StopAtTop, RequestFails, EmitBareError, Emit, Event
  <2>4. CASE ~(Finish \/ ReportWritten \/ StopAtTop \/ RequestFails)
    BY <1>2, <2>4 DEF Engine, StartStep, SnapshotTaken, Compacted, CompactionFails,
       SendRequest, AttemptAborted, StreamAborted, RetryLater, BackoffOver,
       FinalAnswer, ToolCalls, ToolsDone, ThrowExhausted, Quietly, host
  <2> QED
    BY <2>1, <2>2, <2>3, <2>4
<1>3. CASE UNCHANGED vars
  BY <1>3 DEF vars, host
<1> QED
  BY <1>1, <1>2, <1>3 DEF Next, SessionOver

(* A late terminal event, the next turn's beginning and the host's own     *)
(* completion leave a closed turn as it is, under either host.             *)
THEOREM ClosedTurnsAreFinal == Spec => ClosedTurnIsFinal
<1> DEFINE Final == \A t \in DOMAIN turns :
                      turns[t].status # "open" => turns'[t] = turns[t]
<1>1. RunInv /\ [Next]_vars => Final
  <2> SUFFICES ASSUME RunInv, [Next]_vars PROVE Final
    OBVIOUS
  <2>1. /\ TypeOK /\ turns \in Seq(TurnType) /\ DOMAIN turns = 1..Len(turns)
        /\ NoDigest \in DigestType /\ Digest("aborted") \in DigestType
    BY DigestFacts DEF RunInv, TypeOK, TurnType, DigestType, Statuses
  <2>2. Begin => ClosedKept(turns, turns')
    BY <2>1, BeginTurnFacts DEF Begin
  <2>3. closing \in Statuses /\ turns' = FoldClosing(closing) => ClosedKept(turns, turns')
    BY <2>1, FoldClosingFacts
  <2>4. ASSUME NEW type \in {"done", "error"}, NEW d \in DigestType,
               turns' = Fold(turns, Event(type, d))
        PROVE  ClosedKept(turns, turns')
    BY <2>1, <2>4, FoldFacts
  <2>5. ASSUME NEW fallback \in Statuses, turns' = CompleteTurn(turns, NoDigest, fallback)
        PROVE  ClosedKept(turns, turns')
    BY <2>1, <2>5, CompleteTurnFacts
  <2>6. turns' = turns => ClosedKept(turns, turns')
    BY DEF ClosedKept
  <2>7. ClosedKept(turns, turns')
    BY <2>1, <2>2, <2>3, <2>4, <2>5, <2>6, LedgerSteps
  <2> QED
    BY <2>1, <2>7 DEF ClosedKept
<1> QED
  BY <1>1, RunIsInvariant, PTL DEF Spec, ClosedTurnIsFinal

(* After a stop no further step starts, and once the signal is aborted no  *)
(* request is sent, be it as a retry: for any number of attempts and steps. *)
THEOREM InterruptionsAreHeld == Spec => InterruptionsHold
<1> DEFINE Held == /\ stopFlag /\ stopFlag' => step' = step
                   /\ aborted /\ pc' = "stream" => pc = "stream"
<1>1. [Next]_vars => Held
  <2> SUFFICES ASSUME [Next]_vars PROVE Held
    OBVIOUS
  <2>1. CASE Begin
    BY <2>1 DEF Begin
  <2>2. CASE StartStep
    BY <2>2 DEF StartStep
  <2>3. CASE SendRequest
    BY <2>3 DEF SendRequest, control
  <2>4. CASE ~(Begin \/ StartStep \/ SendRequest)
    <3>1. step' = step
      BY <2>4 DEF Next, Environment, Engine, RequestStop, Abort, Timeout, SnapshotTaken,
         StopAtTop, Compacted, CompactionFails, CloseWith, AttemptAborted, StreamAborted,
         RetryLater, BackoffOver, RequestFails, FinalAnswer, ToolCalls, ToolsDone,
         ReportWritten, ThrowExhausted, Finish, SessionOver, vars, control
    <3>2. pc' = "stream" => pc = "stream"
      BY <2>4 DEF Next, Environment, Engine, RequestStop, Abort, Timeout, SnapshotTaken,
         StopAtTop, Compacted, CompactionFails, CloseWith, AttemptAborted, StreamAborted,
         RetryLater, BackoffOver, RequestFails, FinalAnswer, ToolCalls, ToolsDone,
         ReportWritten, ThrowExhausted, Finish, SessionOver, vars
    <3> QED
      BY <3>1, <3>2
  <2> QED
    BY <2>1, <2>2, <2>3, <2>4
<1> QED
  BY <1>1, PTL DEF Spec, InterruptionsHold

-----------------------------------------------------------------------------
(* The receipts of the desktop, which folds only terminals with a digest.  *)

(* On the desktop only the run's own digest closes a turn: a bare error is *)
(* not folded, and the host finds the turn closed when the run is over.    *)
LEMMA DesktopLedgerSteps ==
  ASSUME FoldsEveryTerminal = FALSE, DesktopInv, [Next]_vars
  PROVE  turns' = turns \/ Begin \/ StopAtTop \/ ReportWritten
<1>1. turns \in Seq(TurnType) /\ NoDigest \in DigestType
  BY DEF DesktopInv, RunInv, TypeOK, TurnType, DigestType
<1>2. Fold(turns, Event("error", NoDigest)) = turns
  BY <1>1, FoldFacts
<1>3. ASSUME Finish, NEW fallback \in Statuses,
             turns' = CompleteTurn(turns, NoDigest, fallback)
      PROVE  turns' = turns
  <2>1. ~HasOpenTurn(turns)
    BY <1>3 DEF DesktopInv, RunInv, LogEndsOnce, LogEnded, LedgerFollowsLog, Recorded,
       Finish
  <2> QED
    BY <1>1, <1>3, <2>1, CompleteTurnFacts
<1> QED
  BY <1>2, <1>3, LedgerSteps DEF DesktopInv

(* The receipts and the ledger's agreement with the log are kept.          *)
LEMMA DesktopHolds ==
  ASSUME FoldsEveryTerminal = FALSE, DesktopInv, [Next]_vars
  PROVE  DesktopInv'
<1>1. RunInv'
  BY NextHolds DEF DesktopInv
<1>2. turns \in Seq(TurnType) /\ turns' \in Seq(TurnType) /\ TypeOK
  BY <1>1 DEF DesktopInv, RunInv, TypeOK, TurnType
<1>3. CASE Begin
  <2>1. ~HasOpenTurn(turns)
    BY <1>3 DEF DesktopInv, RunInv, LogEndsOnce, LogEnded, LedgerFollowsLog, Recorded,
       HasOpenTurn, Begin
  <2>2. /\ Len(turns') = Len(turns) + 1
        /\ turns'[Len(turns')] = OpenedTurn /\ HasOpenTurn(turns')
        /\ \A t \in 1..Len(turns) : turns'[t] = turns[t]
    BY <1>2, <1>3, <2>1, BeginTurnFacts DEF Begin
  <2>3. ReceiptEveryTurn'
    BY <1>2, <2>2 DEF DesktopInv, ReceiptEveryTurn, OpenedTurn
  <2>4. LedgerFollowsLog'
    BY <1>3, <2>2 DEF LedgerFollowsLog, HasOpenTurn, Begin
  <2> QED
    BY <1>1, <2>3, <2>4 DEF DesktopInv
<1>4. CASE StopAtTop
  <2>1. /\ HasOpenTurn(turns) /\ runEnds = <<>>
        /\ runEnds' = Append(runEnds, "stopped")
        /\ turns' = Fold(turns, Event("done", Digest("aborted")))
        /\ fileChanges' = fileChanges /\ finalized'
    BY <1>4 DEF DesktopInv, RunInv, LogEndsOnce, LogOpen, LedgerFollowsLog, LoopPCs,
       StopAtTop, Emit
  <2>2. /\ Digest("aborted") \in DigestType /\ Digest("aborted") # NoDigest
        /\ Digest("aborted").status = "aborted" /\ Digest("aborted").files = fileChanges
    BY <1>2, DigestFacts DEF Statuses
  <2>3. /\ Len(turns') = Len(turns) /\ ~HasOpenTurn(turns')
        /\ turns'[Len(turns)] = [status |-> "aborted", digest |-> Digest("aborted")]
        /\ \A t \in 1..Len(turns) : t # Len(turns) => turns'[t] = turns[t]
    BY <1>2, <2>1, <2>2, FoldFacts
  <2>4. ReceiptEveryTurn'
    BY <1>2, <2>2, <2>3 DEF DesktopInv, ReceiptEveryTurn
  <2>5. runEnds'[1] = "stopped"
    BY <2>1
  <2>6. LedgerFollowsLog'
    BY <1>2, <2>1, <2>2, <2>3, <2>5 DEF LedgerFollowsLog, Recorded, HasOpenTurn
  <2> QED
    BY <1>1, <2>4, <2>6 DEF DesktopInv
<1>5. CASE ReportWritten
  <2>1. /\ closing \in Statuses /\ turns' = FoldClosing(closing)
        /\ fileChanges' = fileChanges /\ finalized'
        /\ LogOpen \/ LogEnded
    BY <1>5 DEF DesktopInv, RunInv, LogEndsOnce, ReportWritten
  <2>2. /\ Digest(closing) # NoDigest /\ Digest(closing).files = fileChanges
    BY <1>2, <2>1, DigestFacts
  <2>3. CASE LogOpen
    <3>1. /\ HasOpenTurn(turns) /\ runEnds' = Append(<<>>, closing)
      BY <1>5, <2>3 DEF DesktopInv, LogOpen, LedgerFollowsLog, ReportWritten
    <3>2. /\ Len(turns') = Len(turns) /\ ~HasOpenTurn(turns')
          /\ turns'[Len(turns)] = [status |-> closing, digest |-> Digest(closing)]
          /\ \A t \in 1..Len(turns) : t # Len(turns) => turns'[t] = turns[t]
      BY <1>2, <2>1, <3>1, FoldClosingFacts
    <3>3. ReceiptEveryTurn'
      BY <1>2, <2>2, <3>2 DEF DesktopInv, ReceiptEveryTurn
    <3>4. runEnds'[1] = closing /\ closing # "stopped"
      BY <2>1, <3>1 DEF Statuses
    <3>5. LedgerFollowsLog'
      BY <1>2, <2>1, <2>2, <3>1, <3>2, <3>4 DEF LedgerFollowsLog, Recorded, HasOpenTurn
    <3> QED
      BY <1>1, <3>3, <3>5 DEF DesktopInv
  <2>4. CASE LogEnded
    <3>1. Recorded /\ runEnds' = runEnds
      BY <1>5, <2>4 DEF DesktopInv, LogEnded, LedgerFollowsLog, ReportWritten
    <3>2. turns' = turns
      BY <1>2, <2>1, <3>1, FoldClosingFacts DEF Recorded
    <3>3. ReceiptEveryTurn' /\ LedgerFollowsLog'
      BY <2>1, <3>1, <3>2 DEF DesktopInv, ReceiptEveryTurn, LedgerFollowsLog, Recorded
    <3> QED
      BY <1>1, <3>3 DEF DesktopInv
  <2> QED
    BY <2>1, <2>3, <2>4
<1>6. CASE ~(Begin \/ StopAtTop \/ ReportWritten)
  <2>1. turns' = turns
    BY <1>6, DesktopLedgerSteps
  <2>2. UNCHANGED <<runEnds, finalized>> /\ (pc' # "idle" => pc # "idle")
    BY <1>6 DEF Next, Environment, Engine, RequestStop, Abort, Timeout, StartStep,
       SnapshotTaken, Compacted, CompactionFails, CloseWith, SendRequest,
       AttemptAborted, StreamAborted, RetryLater, BackoffOver, RequestFails,
       FinalAnswer, ToolCalls, ToolsDone, ThrowExhausted, Finish, SessionOver, vars, replay
  <2>3. finalized => fileChanges' = fileChanges
    <3>1. CASE ToolsDone
      BY <3>1 DEF DesktopInv, RunInv, LogEndsOnce, LogOpen, LoopPCs, ToolsDone
    <3>2. CASE ~ToolsDone
      BY <1>6, <3>2 DEF Next, Environment, Engine, RequestStop, Abort, Timeout, StartStep,
         SnapshotTaken, Compacted, CompactionFails, CloseWith, SendRequest,
         AttemptAborted, StreamAborted, RetryLater, BackoffOver, RequestFails,
         FinalAnswer, ToolCalls, ThrowExhausted, Finish, SessionOver, vars
    <3> QED
      BY <3>1, <3>2
  <2>4. ReceiptEveryTurn' /\ LedgerFollowsLog'
    BY <2>1, <2>2, <2>3 DEF DesktopInv, ReceiptEveryTurn, LedgerFollowsLog, Recorded
  <2> QED
    BY <1>1, <2>4 DEF DesktopInv
<1> QED
  BY <1>3, <1>4, <1>5, <1>6

(* Between two turns the last one is recorded, so DesktopInv is enough.    *)
LEMMA DesktopInvSuffices == DesktopInv => ReceiptsAreSound
<1> SUFFICES ASSUME DesktopInv PROVE ReceiptsAreSound
  OBVIOUS
<1>1. TypeOK /\ ReceiptEveryTurn
  BY DEF DesktopInv, RunInv
<1>2. ASSUME pc = "idle", turns # <<>> PROVE LogEnded /\ Recorded
  BY <1>2 DEF DesktopInv, RunInv, LogEndsOnce, LoopPCs, LedgerFollowsLog, LogEnded
<1>3. ReceiptIsComplete
  BY <1>2 DEF ReceiptIsComplete, Recorded
<1>4. ReplayAgreesWithReceipt
  <2> SUFFICES ASSUME pc = "idle", turns # <<>>
               PROVE  /\ Len(runEnds) = 1 /\ finalized
                      /\ LET reason == runEnds[1]
                             status == turns[Len(turns)].status
                         IN  /\ status = (IF reason = "stopped" THEN "aborted" ELSE reason)
                             /\ status = "aborted" => stopFlag \/ aborted
                             /\ status = "max_iterations" => step = MaxSteps
    BY DEF ReplayAgreesWithReceipt
  <2>1. PICK reason \in Statuses \cup {"stopped"} : runEnds = <<reason>> /\ Backed(reason)
    BY <1>2 DEF LogEnded
  <2>2. Len(runEnds) = 1 /\ runEnds[1] = reason /\ finalized
    BY <1>2, <2>1 DEF LogEnded
  <2>3. turns[Len(turns)].status = (IF reason = "stopped" THEN "aborted" ELSE reason)
    BY <1>2, <2>2 DEF Recorded
  <2>4. reason \in {"aborted", "stopped"} => stopFlag \/ aborted
    BY <2>1 DEF Backed
  <2>5. reason = "max_iterations" => step = MaxSteps
    BY <2>1 DEF Backed
  <2> QED
    BY <2>2, <2>3, <2>4, <2>5
<1> QED
  BY <1>1, <1>3, <1>4 DEF ReceiptsAreSound

(* Whatever ends a turn of a desktop session, its receipt is there, lists  *)
(* every file change of the turn, and says what the replay log says.       *)
THEOREM DesktopReceiptsAreSound ==
  ASSUME FoldsEveryTerminal = FALSE
  PROVE  Spec => []ReceiptsAreSound
<1>1. Init => DesktopInv
  BY InitHolds DEF Init, DesktopInv, ReceiptEveryTurn, LedgerFollowsLog
<1>2. DesktopInv /\ [Next]_vars => DesktopInv'
  BY DesktopHolds
<1> QED
  BY <1>1, <1>2, DesktopInvSuffices, PTL DEF Spec

-----------------------------------------------------------------------------
(* Guarded calls and commands. *)

Places == {"none", "profile", "spawned", "running", "start", "started", "refused", "send",
           "answered"}

Command ==
  [at : Places, file : Names \cup {NoName}, shell : {"none", "alive", "zero", "nonzero", "signal"},
   held : BOOLEAN, timedOut : BOOLEAN, ok : BOOLEAN]

Guarded ==
  [at : {"idle", "fn", "asking", "telling", "giving_up", "resolved", "rejected"},
   tool : BOOLEAN, class : {"none", "RECOVERABLE", "AGENT_ERROR", "ENVIRONMENT_ERROR"},
   attempts : Nat, runs : Nat, repaired : Nat, told : Nat]

Types ==
  /\ executor \in {"sandbox", "direct", "container"}
  /\ cmd \in [Calls -> Command]
  /\ profiles \subseteq Names /\ lost \subseteq Names
  /\ box \in [running : BOOLEAN, up : BOOLEAN, stop : {"no", "asked", "done"}]
  /\ breaker \in [state : {"CLOSED", "OPEN", "HALF_OPEN"}, fails : Nat, elapsed : BOOLEAN]
  /\ guard \in [Calls -> Guarded]

(* What each executor makes of a command.                                  *)
PlacesFit ==
  \A c \in Calls :
    /\ executor # "sandbox" => cmd[c].file = NoName /\ cmd[c].at # "profile"
    /\ executor # "container" => cmd[c].at \notin {"start", "started", "refused", "send"}
    /\ executor = "container" => cmd[c].at # "spawned"
    /\ cmd[c].at = "profile" => cmd[c].file # NoName

(* A profile's file that exists is one that a command still removes, or    *)
(* was lost by one that never began.                                       *)
Owned(n) == \E c \in Calls : cmd[c].file = n /\ cmd[c].at \in {"spawned", "running"}
ProfilesOwned == \A n \in profiles : n \in lost \/ Owned(n)

(* Of the commands that start the container at most one has; it has it up, *)
(* and nobody believes it runs unless a stop is ending.                    *)
BoxFits ==
  /\ box.running /\ box.stop # "done" => box.up
  /\ box.stop = "asked" => box.running
  /\ \A c \in Calls : cmd[c].at = "started" =>
       /\ box.up /\ (box.running => box.stop = "done")
       /\ \A d \in Calls : cmd[d].at = "started" => d = c

(* A command runs only while the guarded function does.                    *)
GuardFits(g, c) ==
  /\ g.at # "fn" => c.at \in {"none", "answered"}
  /\ g.runs > 0 => g.runs = 1 + g.repaired
  /\ g.at \in {"fn", "asking", "telling", "giving_up"} => g.runs > 0
  /\ g.repaired <= g.attempts /\ g.told <= g.attempts
  /\ g.at \in {"asking", "telling"} => g.repaired < g.attempts /\ g.told < g.attempts
  /\ g.attempts <= MaxAttempts(g.class)
  /\ g.class = "none" <=> g.attempts = 0
  /\ g.at = "giving_up" => g.attempts > 0
  /\ g.at \in {"asking", "telling", "giving_up"} => ~c.ok
  /\ g.at \in {"idle", "resolved", "rejected"} => g = [Idle EXCEPT !.at = g.at, !.tool = g.tool]
  /\ ~g.tool /\ g.at = "resolved" => c.ok
  /\ ~g.tool /\ g.at = "rejected" => ~c.ok

GuardsFit == \A c \in Calls : GuardFits(guard[c], cmd[c])

BreakerFits == breaker.state = "CLOSED" => breaker.fails < Threshold

RepairInv == Types /\ PlacesFit /\ ProfilesOwned /\ BoxFits /\ GuardsFit /\ BreakerFits

-----------------------------------------------------------------------------
(* Commands.                                                               *)

(* What a command begins with is one that has done nothing yet.            *)
LEMMA BegunFacts ==
  ASSUME Types, NEW r \in Begun
  PROVE  /\ r \in Command
         /\ r.at \in {"profile", "spawned", "send", "start"}
         /\ executor # "sandbox" => r.file = NoName /\ r.at # "profile"
         /\ executor # "container" => r.at \notin {"start", "send"}
         /\ executor = "container" => r.at # "spawned"
         /\ r.at = "profile" => r.file # NoName
<1>1. CASE executor = "sandbox"
  <2>1. PICK n \in Names : r = [NoCommand EXCEPT !.at = "profile", !.file = n]
    BY <1>1 DEF Begun
  <2>2. r = [at |-> "profile", file |-> n, shell |-> "none",
             held |-> FALSE, timedOut |-> FALSE, ok |-> FALSE]
    BY <2>1 DEF NoCommand
  <2> QED
    BY <1>1, <2>2, SandboxAssumption DEF Command, Places
<1>2. CASE executor = "direct"
  BY <1>2 DEF Types, Begun, NoCommand, Command, Places
<1>3. CASE executor = "container"
  BY <1>3 DEF Types, Begun, NoCommand, Command, Places
<1> QED
  BY <1>1, <1>2, <1>3 DEF Types

(* A command that moves on, wherever its executor may take it.             *)
Fits(r) ==
  /\ executor # "sandbox" => r.file = NoName /\ r.at # "profile"
  /\ executor # "container" => r.at \notin {"start", "started", "refused", "send"}
  /\ executor = "container" => r.at # "spawned"
  /\ r.at = "profile" => r.file # NoName

LEMMA Moved ==
  ASSUME RepairInv, NEW c \in Calls, NEW r \in Command, Becomes(c, r), Fits(r),
         executor' = executor
  PROVE  /\ cmd' \in [Calls -> Command] /\ PlacesFit'
         /\ \A d \in Calls : cmd'[d] = IF d = c THEN r ELSE cmd[d]
<1>1. cmd' \in [Calls -> Command]
  BY DEF RepairInv, Types, Becomes
<1>2. \A d \in Calls : cmd'[d] = IF d = c THEN r ELSE cmd[d]
  BY DEF RepairInv, Types, Becomes
<1>3. PlacesFit'
  <2>1. \A d \in Calls : Fits(cmd[d])
    BY DEF RepairInv, PlacesFit, Fits
  <2>2. \A d \in Calls : Fits(cmd'[d])
    BY <1>2, <2>1
  <2> QED
    BY <2>2 DEF PlacesFit, Fits
<1> QED
  BY <1>1, <1>2, <1>3

(* While the guarded function runs, what its command does is all right.    *)
LEMMA GuardsStay ==
  ASSUME RepairInv, NEW c \in Calls, ~Free(c), UNCHANGED <<breaker, guard>>,
         \A d \in Calls \ {c} : cmd'[d] = cmd[d]
  PROVE  GuardsFit' /\ BreakerFits'
<1>1. guard[c].at = "fn"
  BY DEF RepairInv, GuardsFit, GuardFits, Free
<1>2. ASSUME NEW d \in Calls PROVE GuardFits(guard'[d], cmd'[d])
  <2>1. CASE d = c
    BY <1>1, <2>1 DEF RepairInv, GuardsFit, GuardFits
  <2>2. CASE d # c
    BY <2>2 DEF RepairInv, GuardsFit
  <2> QED
    BY <2>1, <2>2
<1> QED
  BY <1>2 DEF GuardsFit, BreakerFits, RepairInv

(* A command that keeps its file, or has none, leaves it owned.            *)
LEMMA OwnersStay ==
  ASSUME RepairInv, NEW c \in Calls, UNCHANGED <<profiles, lost>>,
         \A d \in Calls \ {c} : cmd'[d] = cmd[d],
         /\ cmd[c].at \in {"spawned", "running"} /\ cmd[c].file # NoName
            => cmd'[c].at \in {"spawned", "running"} /\ cmd'[c].file = cmd[c].file
  PROVE  ProfilesOwned'
<1> SUFFICES ASSUME NEW n \in profiles, n \notin lost PROVE Owned(n)'
  BY DEF ProfilesOwned
<1>1. PICK d \in Calls : cmd[d].file = n /\ cmd[d].at \in {"spawned", "running"}
  BY DEF RepairInv, ProfilesOwned, Owned
<1>2. n # NoName
  BY SandboxAssumption DEF RepairInv, Types
<1>3. cmd'[d].file = n /\ cmd'[d].at \in {"spawned", "running"}
  BY <1>1, <1>2
<1> QED
  BY <1>3 DEF Owned

(* A command that removes its file owns none of the others.                *)
LEMMA OwnersLeave ==
  ASSUME RepairInv, NEW c \in Calls, Unlinks(c),
         \A d \in Calls \ {c} : cmd'[d] = cmd[d]
  PROVE  ProfilesOwned' /\ profiles' \subseteq Names /\ lost' \subseteq Names
<1>3. profiles' \subseteq Names /\ lost' \subseteq Names
  BY DEF Unlinks, Unlinked, RepairInv, Types
<1> SUFFICES ASSUME NEW n \in profiles \ {cmd[c].file}, n \notin lost PROVE Owned(n)'
  BY <1>3 DEF ProfilesOwned, Unlinks, Unlinked
<1>1. PICK d \in Calls : cmd[d].file = n /\ cmd[d].at \in {"spawned", "running"}
  BY DEF RepairInv, ProfilesOwned, Owned
<1>2. d # c
  BY <1>1
<1> QED
  BY <1>1, <1>2 DEF Owned

(* What a command that never began leaves behind is lost.                  *)
LEMMA OwnersLose ==
  ASSUME RepairInv, NEW c \in Calls, NEW left \in SUBSET (Names \cap {cmd[c].file}),
         profiles' = profiles \cup left, lost \subseteq lost', lost' \subseteq lost \cup left,
         cmd[c].file \in profiles' => cmd[c].file \in lost' \/ cmd[c].at = "profile",
         \A d \in Calls \ {c} : cmd'[d] = cmd[d], left \subseteq lost'
  PROVE  ProfilesOwned' /\ profiles' \subseteq Names /\ lost' \subseteq Names
<1>1. profiles' \subseteq Names /\ lost' \subseteq Names
  BY DEF RepairInv, Types
<1> SUFFICES ASSUME NEW n \in profiles, n \notin lost' PROVE Owned(n)'
  BY <1>1 DEF ProfilesOwned
<1>2. PICK d \in Calls : cmd[d].file = n /\ cmd[d].at \in {"spawned", "running"}
  BY DEF RepairInv, ProfilesOwned, Owned
<1>3. d # c
  BY <1>2
<1> QED
  BY <1>2, <1>3 DEF Owned

(* A command that is not at the start of the container, nor gets there,    *)
(* leaves what is known of it.                                             *)
LEMMA BoxStays ==
  ASSUME RepairInv, NEW c \in Calls, UNCHANGED box, cmd'[c].at # "started",
         \A d \in Calls \ {c} : cmd'[d] = cmd[d]
  PROVE  BoxFits'
<1>1. \A d \in Calls : cmd'[d].at = "started" => d # c /\ cmd[d].at = "started"
  OBVIOUS
<1> QED
  BY <1>1 DEF RepairInv, BoxFits

-----------------------------------------------------------------------------
(* The steps of a command.                                                 *)

(* A step of a command that moves it to r and leaves the container and the *)
(* guards alone.                                                           *)
LEMMA CommandMoves ==
  ASSUME RepairInv, NEW c \in Calls, NEW r \in Command, Becomes(c, r), Fits(r), ~Free(c),
         UNCHANGED <<executor, box, breaker, guard>>, r.at # "started",
         profiles' \subseteq Names, lost' \subseteq Names, ProfilesOwned'
  PROVE  RepairInv'
<1>1. /\ cmd' \in [Calls -> Command] /\ PlacesFit'
      /\ \A d \in Calls : cmd'[d] = IF d = c THEN r ELSE cmd[d]
  BY Moved
<1>2. Types'
  BY <1>1 DEF RepairInv, Types
<1>3. GuardsFit' /\ BreakerFits'
  BY <1>1, GuardsStay
<1>4. BoxFits'
  BY <1>1, BoxStays
<1> QED
  BY <1>1, <1>2, <1>3, <1>4 DEF RepairInv

(* A command that is answered gives its file up, or has none.              *)
LEMMA AnswerKeeps ==
  ASSUME RepairInv, NEW c \in Calls, NEW ok \in BOOLEAN, Becomes(c, Answered(ok)), ~Free(c),
         UNCHANGED <<executor, box, breaker, guard>>,
         \/ Unlinks(c)
         \/ UNCHANGED <<profiles, lost>> /\ cmd[c].file = NoName
         \/ \E left \in SUBSET {cmd[c].file} :
              /\ cmd[c].at = "profile"
              /\ profiles' = profiles \cup left /\ lost' = lost \cup left
         \/ profiles' = profiles /\ lost' = lost \cup (profiles \cap {cmd[c].file})
  PROVE  RepairInv'
<1> DEFINE r == Answered(ok)
<1>1. r \in Command /\ Fits(r) /\ r.at = "answered"
  BY DEF Answered, NoCommand, Command, Places, Fits
<1> HIDE DEF r
<1>2. Becomes(c, r)
  BY DEF r
<1>3. \A d \in Calls : cmd'[d] = IF d = c THEN r ELSE cmd[d]
  BY <1>1, <1>2, Moved
<1>4. ProfilesOwned' /\ profiles' \subseteq Names /\ lost' \subseteq Names
  <2>1. CASE Unlinks(c)
    BY <1>3, <2>1, OwnersLeave
  <2>2. CASE UNCHANGED <<profiles, lost>> /\ cmd[c].file = NoName
    BY <1>3, <2>2, OwnersStay DEF RepairInv, Types
  <2>3. ASSUME NEW left \in SUBSET {cmd[c].file}, cmd[c].at = "profile",
               profiles' = profiles \cup left, lost' = lost \cup left
        PROVE  ProfilesOwned' /\ profiles' \subseteq Names /\ lost' \subseteq Names
    <3>1. cmd[c].file \in Names
      BY <2>3 DEF RepairInv, Types, PlacesFit, Command
    <3> QED
      BY <1>3, <2>3, <3>1, OwnersLose
  <2>4. CASE profiles' = profiles /\ lost' = lost \cup (profiles \cap {cmd[c].file})
    <3> DEFINE left == profiles \cap {cmd[c].file}
    <3>1. left \in SUBSET (Names \cap {cmd[c].file}) /\ profiles' = profiles \cup left
      BY <2>4 DEF RepairInv, Types
    <3> QED
      BY <1>3, <2>4, <3>1, OwnersLose
  <2> QED
    BY <2>1, <2>2, <2>3, <2>4
<1> QED
  BY <1>1, <1>2, <1>4, CommandMoves

(* A profile that is written is its command's from then on.                *)
LEMMA WriteProfileKeeps ==
  ASSUME RepairInv, NEW c \in Calls, WriteProfile(c), UNCHANGED <<breaker, guard>>
  PROVE  RepairInv'
<1>1. cmd[c] \in Command /\ cmd[c].at = "profile" /\ ~Free(c) /\ executor = "sandbox"
  BY DEF RepairInv, Types, PlacesFit, WriteProfile, Free
<1>2. CASE /\ profiles' = profiles \cup {cmd[c].file} /\ lost' = lost \ {cmd[c].file}
           /\ Becomes(c, [cmd[c] EXCEPT !.at = "spawned"])
  <2> DEFINE r == [cmd[c] EXCEPT !.at = "spawned"]
  <2>1. r \in Command /\ Fits(r) /\ r.at = "spawned" /\ r.file = cmd[c].file
    BY <1>1 DEF Command, Places, Fits
  <2> HIDE DEF r
  <2>2. UNCHANGED <<executor, box>>
    BY DEF WriteProfile
  <2>3. \A d \in Calls : cmd'[d] = IF d = c THEN r ELSE cmd[d]
    BY <1>2, <2>1, <2>2, Moved DEF r
  <2>4. ProfilesOwned'
    <3> SUFFICES ASSUME NEW n \in profiles', n \notin lost' PROVE Owned(n)'
      BY DEF ProfilesOwned
    <3>1. CASE n = cmd[c].file
      BY <2>1, <2>3, <3>1 DEF Owned
    <3>2. CASE n # cmd[c].file
      <4>1. PICK d \in Calls : cmd[d].file = n /\ cmd[d].at \in {"spawned", "running"}
        BY <1>2, <3>2 DEF RepairInv, ProfilesOwned, Owned
      <4>2. d # c
        BY <4>1, <1>1
      <4> QED
        BY <4>1, <4>2, <2>3 DEF Owned
    <3> QED
      BY <3>1, <3>2
  <2>5. cmd[c].file # NoName => profiles' \subseteq Names /\ lost' \subseteq Names
    BY <1>1, <1>2 DEF RepairInv, Types, Command
  <2>6. cmd[c].file # NoName
    BY <1>1 DEF RepairInv, PlacesFit
  <2> QED
    BY <1>1, <1>2, <2>1, <2>2, <2>4, <2>5, <2>6, CommandMoves DEF r
<1>3. CASE /\ Becomes(c, Answered(FALSE))
           /\ \E left \in SUBSET {cmd[c].file} :
                profiles' = profiles \cup left /\ lost' = lost \cup left
  BY <1>1, <1>3, AnswerKeeps DEF WriteProfile
<1> QED
  BY <1>2, <1>3 DEF WriteProfile

(* sandbox-exec and the shell keep their file.                             *)
LEMMA LaunchKeeps ==
  ASSUME RepairInv, NEW c \in Calls, Launch(c), UNCHANGED <<breaker, guard>>
  PROVE  RepairInv'
<1> DEFINE r == [cmd[c] EXCEPT !.at = "running",
                   !.shell = IF executor = "sandbox" /\ cmd[c].file \notin profiles
                             THEN "nonzero" ELSE "alive"]
<1>1. cmd[c] \in Command /\ cmd[c].at = "spawned" /\ ~Free(c)
  BY DEF RepairInv, Types, Launch, Free
<1>2. r \in Command /\ Fits(r) /\ r.at = "running" /\ r.file = cmd[c].file
  BY <1>1 DEF Command, Places, Fits, RepairInv, PlacesFit
<1>3. Becomes(c, r) /\ UNCHANGED <<executor, box, profiles, lost>>
  BY DEF Launch
<1> HIDE DEF r
<1>4. \A d \in Calls : cmd'[d] = IF d = c THEN r ELSE cmd[d]
  BY <1>2, <1>3, Moved
<1>5. ProfilesOwned' /\ profiles' \subseteq Names /\ lost' \subseteq Names
  BY <1>1, <1>2, <1>3, <1>4, OwnersStay DEF RepairInv, Types
<1> QED
  BY <1>1, <1>2, <1>3, <1>5, CommandMoves

LEMMA SpawnFailsKeeps ==
  ASSUME RepairInv, NEW c \in Calls, SpawnFails(c), UNCHANGED <<breaker, guard>>
  PROVE  RepairInv'
BY AnswerKeeps DEF SpawnFails, Free

LEMMA SpawnThrowsKeeps ==
  ASSUME RepairInv, NEW c \in Calls, SpawnThrows(c), UNCHANGED <<breaker, guard>>
  PROVE  RepairInv'
BY AnswerKeeps DEF SpawnThrows, Free

LEMMA CloseKeeps ==
  ASSUME RepairInv, NEW c \in Calls, Close(c), UNCHANGED <<breaker, guard>>
  PROVE  RepairInv'
<1>1. (cmd[c].shell = "zero") \in BOOLEAN
  OBVIOUS
<1> QED
  BY <1>1, AnswerKeeps DEF Close, Free

(* The timer: only a command in the container, which has no file, is       *)
(* answered by it.                                                         *)
LEMMA TimeOutKeeps ==
  ASSUME RepairInv, NEW c \in Calls, TimeOut(c), UNCHANGED <<breaker, guard>>
  PROVE  RepairInv'
<1>1. cmd[c] \in Command /\ cmd[c].at = "running" /\ ~Free(c) /\ Becomes(c, OnTimeout(cmd[c]))
      /\ UNCHANGED <<executor, box, profiles, lost>>
  BY DEF RepairInv, Types, TimeOut, Free
<1>2. CASE executor = "container"
  <2>1. OnTimeout(cmd[c]) = Answered(FALSE) /\ cmd[c].file = NoName
    BY <1>2 DEF OnTimeout, RepairInv, PlacesFit
  <2> QED
    BY <1>1, <2>1, AnswerKeeps
<1>3. CASE executor # "container"
  <2> DEFINE r == OnTimeout(cmd[c])
  <2>1. \/ r = [cmd[c] EXCEPT !.timedOut = TRUE, !.shell = IF @ = "alive" THEN "signal" ELSE @]
        \/ r = [cmd[c] EXCEPT !.timedOut = TRUE]
    BY <1>3 DEF OnTimeout, RepairInv, Types
  <2>2. r \in Command /\ r.at = "running" /\ r.file = cmd[c].file
    BY <1>1, <2>1 DEF Command
  <2>3. Fits(r)
    BY <2>2, <1>1 DEF Fits, RepairInv, PlacesFit
  <2> HIDE DEF r
  <2>4. Becomes(c, r)
    BY <1>1 DEF r
  <2>5. \A d \in Calls : cmd'[d] = IF d = c THEN r ELSE cmd[d]
    BY <1>1, <2>2, <2>3, <2>4, Moved
  <2>6. ProfilesOwned' /\ profiles' \subseteq Names /\ lost' \subseteq Names
    BY <1>1, <2>2, <2>5, OwnersStay DEF RepairInv, Types
  <2> QED
    BY <1>1, <2>2, <2>3, <2>4, <2>6, CommandMoves
<1> QED
  BY <1>2, <1>3

(* What the command does to its shell and its output moves neither.        *)
LEMMA ProcessKeeps ==
  ASSUME RepairInv, NEW c \in Calls, Process(c), UNCHANGED <<breaker, guard>>
  PROVE  RepairInv'
<1>1. cmd[c] \in Command /\ cmd[c].at = "running" /\ ~Free(c)
      /\ UNCHANGED <<executor, box, profiles, lost>>
  BY DEF RepairInv, Types, Process, Free
<1>2. PICK r : /\ Becomes(c, r)
               /\ \/ \E s \in {"zero", "nonzero", "signal"} : r = [cmd[c] EXCEPT !.shell = s]
                  \/ r = [cmd[c] EXCEPT !.held = TRUE]
                  \/ r = [cmd[c] EXCEPT !.held = FALSE]
  BY DEF Process
<1>3. r \in Command /\ r.at = "running" /\ r.file = cmd[c].file
  BY <1>1, <1>2 DEF Command
<1>4. Fits(r)
  BY <1>3, <1>1 DEF Fits, RepairInv, PlacesFit
<1>5. \A d \in Calls : cmd'[d] = IF d = c THEN r ELSE cmd[d]
  BY <1>1, <1>2, <1>3, <1>4, Moved
<1>6. ProfilesOwned' /\ profiles' \subseteq Names /\ lost' \subseteq Names
  BY <1>1, <1>3, <1>5, OwnersStay DEF RepairInv, Types
<1> QED
  BY <1>1, <1>2, <1>3, <1>4, <1>6, CommandMoves

(* The container's commands have no files.                                 *)
LEMMA BoxMoves ==
  ASSUME RepairInv, NEW c \in Calls, NEW r \in Command, Becomes(c, r), Fits(r),
         cmd[c].at \in {"start", "started", "refused", "send"},
         UNCHANGED <<executor, profiles, lost, breaker, guard>>,
         box' \in [running : BOOLEAN, up : BOOLEAN, stop : {"no", "asked", "done"}], BoxFits'
  PROVE  RepairInv'
<1>1. /\ cmd' \in [Calls -> Command] /\ PlacesFit'
      /\ \A d \in Calls : cmd'[d] = IF d = c THEN r ELSE cmd[d]
  BY Moved
<1>2. ~Free(c)
  BY DEF Free
<1>3. Types'
  BY <1>1 DEF RepairInv, Types
<1>4. GuardsFit' /\ BreakerFits'
  BY <1>1, <1>2, GuardsStay
<1>5. ProfilesOwned'
  BY <1>1, OwnersStay
<1> QED
  BY <1>1, <1>3, <1>4, <1>5 DEF RepairInv

LEMMA StartBoxKeeps ==
  ASSUME RepairInv, NEW c \in Calls, StartBox(c), UNCHANGED <<breaker, guard>>
  PROVE  RepairInv'
<1>1. cmd[c] \in Command /\ cmd[c].at = "start" /\ executor = "container"
      /\ UNCHANGED <<executor, profiles, lost>>
  BY DEF RepairInv, Types, StartBox, PlacesFit
<1>2. box \in [running : BOOLEAN, up : BOOLEAN, stop : {"no", "asked", "done"}]
  BY DEF RepairInv, Types
<1>3. ASSUME NEW r, r \in {[cmd[c] EXCEPT !.at = "started"], [cmd[c] EXCEPT !.at = "refused"]}
      PROVE  r \in Command /\ Fits(r)
  BY <1>1, <1>3 DEF Command, Places, Fits, RepairInv, PlacesFit
<1>4. CASE ~box.up /\ box' = [box EXCEPT !.up = TRUE] /\ Becomes(c, [cmd[c] EXCEPT !.at = "started"])
  <2> DEFINE r == [cmd[c] EXCEPT !.at = "started"]
  <2>1. r \in Command /\ Fits(r) /\ Becomes(c, r)
    BY <1>3, <1>4
  <2>2. \A d \in Calls : cmd'[d] = IF d = c THEN r ELSE cmd[d]
    BY <1>1, <2>1, Moved
  <2> HIDE DEF r
  <2>3. /\ box'.running = box.running /\ box'.up = TRUE /\ box'.stop = box.stop
        /\ box' \in [running : BOOLEAN, up : BOOLEAN, stop : {"no", "asked", "done"}]
    BY <1>2, <1>4
  <2>4. BoxFits'
    BY <1>4, <2>2, <2>3 DEF BoxFits, RepairInv
  <2> QED
    BY <1>1, <2>1, <2>3, <2>4, BoxMoves
<1>5. CASE box' \in {box, [box EXCEPT !.up = TRUE]} /\ Becomes(c, [cmd[c] EXCEPT !.at = "refused"])
  <2> DEFINE r == [cmd[c] EXCEPT !.at = "refused"]
  <2>1. r \in Command /\ Fits(r) /\ Becomes(c, r) /\ r.at = "refused"
    BY <1>1, <1>3, <1>5 DEF Command
  <2> HIDE DEF r
  <2>2. \A d \in Calls : cmd'[d] = IF d = c THEN r ELSE cmd[d]
    BY <1>1, <2>1, Moved
  <2>3. /\ box'.running = box.running /\ (box.up => box'.up) /\ box'.stop = box.stop
        /\ box' \in [running : BOOLEAN, up : BOOLEAN, stop : {"no", "asked", "done"}]
    BY <1>2, <1>5
  <2>4. \A d \in Calls : cmd'[d].at = "started" => cmd[d].at = "started"
    BY <2>1, <2>2
  <2>5. BoxFits'
    BY <2>3, <2>4 DEF BoxFits, RepairInv
  <2> QED
    BY <1>1, <2>1, <2>3, <2>5, BoxMoves
<1> QED
  BY <1>4, <1>5 DEF StartBox

LEMMA StartedKeeps ==
  ASSUME RepairInv, NEW c \in Calls, Started(c), UNCHANGED <<breaker, guard>>
  PROVE  RepairInv'
<1>1. cmd[c] \in Command /\ UNCHANGED <<executor, profiles, lost>>
  BY DEF RepairInv, Types, Started
<1>2. box \in [running : BOOLEAN, up : BOOLEAN, stop : {"no", "asked", "done"}]
  BY DEF RepairInv, Types
<1>3. CASE /\ cmd[c].at = "started"
           /\ box' = [box EXCEPT !.running = TRUE] /\ Becomes(c, [cmd[c] EXCEPT !.at = "send"])
  <2> DEFINE r == [cmd[c] EXCEPT !.at = "send"]
  <2>1. r \in Command /\ Fits(r) /\ Becomes(c, r) /\ r.at = "send"
    BY <1>1, <1>3 DEF Command, Places, Fits, RepairInv, PlacesFit
  <2> HIDE DEF r
  <2>2. \A d \in Calls : cmd'[d] = IF d = c THEN r ELSE cmd[d]
    BY <1>1, <2>1, Moved
  <2>3. /\ box'.running = TRUE /\ box'.up = box.up /\ box'.stop = box.stop
        /\ box' \in [running : BOOLEAN, up : BOOLEAN, stop : {"no", "asked", "done"}]
    BY <1>2, <1>3
  <2>4. \A d \in Calls : cmd'[d].at # "started"
    BY <1>3, <2>1, <2>2 DEF RepairInv, BoxFits
  <2>5. BoxFits'
    BY <1>3, <2>3, <2>4 DEF BoxFits, RepairInv
  <2> QED
    BY <1>1, <1>3, <2>1, <2>3, <2>5, BoxMoves
<1>4. CASE cmd[c].at = "refused" /\ UNCHANGED box /\ Becomes(c, Answered(FALSE))
  <2>1. cmd[c].file = NoName /\ ~Free(c)
    BY <1>4 DEF RepairInv, PlacesFit, Free
  <2> QED
    BY <1>1, <1>4, <2>1, AnswerKeeps
<1> QED
  BY <1>3, <1>4 DEF Started

LEMMA SendKeeps ==
  ASSUME RepairInv, NEW c \in Calls, Send(c), UNCHANGED <<breaker, guard>>
  PROVE  RepairInv'
<1>1. cmd[c] \in Command /\ cmd[c].at = "send" /\ UNCHANGED <<executor, profiles, lost, box>>
      /\ cmd[c].file = NoName /\ executor = "container" /\ ~Free(c)
  BY DEF RepairInv, Types, PlacesFit, Send, Free
<1>2. CASE Becomes(c, [cmd[c] EXCEPT !.at = "running", !.shell = "alive"])
  <2> DEFINE r == [cmd[c] EXCEPT !.at = "running", !.shell = "alive"]
  <2>1. r \in Command /\ Fits(r) /\ Becomes(c, r) /\ r.at = "running"
    BY <1>1, <1>2 DEF Command, Places, Fits
  <2> HIDE DEF r
  <2>2. \A d \in Calls : cmd'[d] = IF d = c THEN r ELSE cmd[d]
    BY <1>1, <2>1, Moved
  <2>3. ProfilesOwned' /\ profiles' \subseteq Names /\ lost' \subseteq Names
    BY <1>1, <2>2, OwnersStay DEF RepairInv, Types
  <2> QED
    BY <1>1, <2>1, <2>3, CommandMoves
<1>3. CASE Becomes(c, Answered(FALSE))
  BY <1>1, <1>3, AnswerKeeps
<1> QED
  BY <1>2, <1>3 DEF Send

(* Whatever a command does, and whatever is done to it. *)
LEMMA CommandsKeep ==
  ASSUME RepairInv, NEW c \in Calls, Exec(c) \/ Process(c), UNCHANGED <<breaker, guard>>
  PROVE  RepairInv'
BY WriteProfileKeeps, LaunchKeeps, SpawnFailsKeeps, SpawnThrowsKeeps, TimeOutKeeps, CloseKeeps,
   StartBoxKeeps, StartedKeeps, SendKeeps, ProcessKeeps DEF Exec

LEMMA StopSessionKeeps ==
  ASSUME RepairInv, StopSession, UNCHANGED <<breaker, guard>>
  PROVE  RepairInv'
<1>1. UNCHANGED <<executor, cmd, profiles, lost>>
  BY DEF StopSession
<1>2. box \in [running : BOOLEAN, up : BOOLEAN, stop : {"no", "asked", "done"}]
  BY DEF RepairInv, Types
<1>3. box' \in [running : BOOLEAN, up : BOOLEAN, stop : {"no", "asked", "done"}] /\ BoxFits'
  <2>1. CASE box.stop = "no" /\ box.running /\ box' = [box EXCEPT !.stop = "asked"]
    BY <1>1, <1>2, <2>1 DEF RepairInv, BoxFits
  <2>2. CASE box.stop = "asked" /\ box' = [box EXCEPT !.stop = "done", !.up = FALSE]
    BY <1>1, <1>2, <2>2 DEF RepairInv, BoxFits
  <2>3. CASE box.stop = "asked" /\ box' = [box EXCEPT !.stop = "done"]
    BY <1>1, <1>2, <2>3 DEF RepairInv, BoxFits
  <2>4. CASE box.stop = "done" /\ box' = [box EXCEPT !.stop = "no", !.running = FALSE]
    BY <1>1, <1>2, <2>4 DEF RepairInv, BoxFits
  <2> QED
    BY <2>1, <2>2, <2>3, <2>4 DEF StopSession
<1> QED
  BY <1>1, <1>3 DEF RepairInv, Types, PlacesFit, ProfilesOwned, Owned, GuardsFit, BreakerFits

-----------------------------------------------------------------------------
(* Guarded calls.                                                          *)

LEMMA RetriesRange ==
  ASSUME NEW class \in {"none", "RECOVERABLE", "AGENT_ERROR", "ENVIRONMENT_ERROR"}
  PROVE  /\ MaxAttempts(class) = IF class = "none" THEN 0
                                ELSE IF class = "RECOVERABLE" THEN 3 ELSE 1
BY DEF MaxAttempts

(* The next attempt is asked for while there is one left.                  *)
LEMMA NextFits ==
  ASSUME NEW g \in Guarded, NEW c, g.class # "none", c.ok = FALSE,
         c.at \in {"none", "answered"}, g.attempts <= MaxAttempts(g.class),
         g.runs > 0, g.runs = 1 + g.repaired,
         g.repaired <= g.attempts, g.told <= g.attempts
  PROVE  NextAttempt(g) \in Guarded /\ GuardFits(NextAttempt(g), c)
<1>1. MaxAttempts(g.class) \in {1, 3}
  BY RetriesRange DEF Guarded
<1>2. CASE g.attempts >= MaxAttempts(g.class)
  <2> DEFINE h == [g EXCEPT !.at = "giving_up"]
  <2>1. NextAttempt(g) = h
    BY <1>2 DEF NextAttempt
  <2>2. h \in Guarded /\ h.at = "giving_up" /\ h.class = g.class /\ h.attempts = g.attempts
        /\ h.runs = g.runs /\ h.repaired = g.repaired /\ h.told = g.told
    BY DEF Guarded
  <2> HIDE DEF h
  <2>3. g.attempts \in Nat /\ g.attempts > 0
    BY <1>1, <1>2 DEF Guarded
  <2>4. GuardFits(h, c)
    BY <2>2, <2>3 DEF GuardFits
  <2> QED
    BY <2>1, <2>2, <2>4
<1>3. CASE ~(g.attempts >= MaxAttempts(g.class))
  <2> DEFINE h == [g EXCEPT !.at = "asking", !.attempts = @ + 1]
  <2>1. NextAttempt(g) = h
    BY <1>3 DEF NextAttempt
  <2>3. g.attempts \in Nat /\ g.repaired \in Nat /\ g.told \in Nat
    BY DEF Guarded
  <2>5. PICK n \in Nat : n = g.attempts + 1
    BY <2>3
  <2>6. h = [g EXCEPT !.at = "asking", !.attempts = n]
    BY <2>5
  <2> HIDE DEF h
  <2>7. h \in Guarded /\ h.at = "asking" /\ h.class = g.class /\ h.attempts = n
        /\ h.runs = g.runs /\ h.repaired = g.repaired /\ h.told = g.told
    BY <2>6 DEF Guarded
  <2>2. h \in Guarded /\ h.at = "asking" /\ h.class = g.class /\ h.attempts = g.attempts + 1
        /\ h.runs = g.runs /\ h.repaired = g.repaired /\ h.told = g.told
    BY <2>5, <2>7
  <2>4. GuardFits(h, c)
    BY <1>1, <1>3, <2>2, <2>3 DEF GuardFits
  <2> QED
    BY <2>1, <2>2, <2>4
<1> QED
  BY <1>2, <1>3

(* A call that settles keeps nothing but how. *)
Agrees(tool, at, c) ==
  /\ c.at \in {"none", "answered"}
  /\ ~tool /\ at = "resolved" => c.ok
  /\ ~tool /\ at = "rejected" => ~c.ok

LEMMA SettledFits ==
  ASSUME NEW at \in {"resolved", "rejected"}, NEW old \in Guarded, NEW c,
         Agrees(old.tool, at, c)
  PROVE  /\ [Idle EXCEPT !.at = at, !.tool = old.tool] \in Guarded
         /\ GuardFits([Idle EXCEPT !.at = at, !.tool = old.tool], c)
<1> DEFINE g == [Idle EXCEPT !.at = at, !.tool = old.tool]
<1>1. Idle \in Guarded
  BY DEF Idle, Guarded
<1>2. g \in Guarded /\ g.at = at /\ g.tool = old.tool /\ g.class = Idle.class
      /\ g.attempts = Idle.attempts /\ g.runs = Idle.runs /\ g.repaired = Idle.repaired
      /\ g.told = Idle.told
  BY <1>1 DEF Guarded
<1>3. g = [Idle EXCEPT !.at = g.at, !.tool = g.tool]
  BY <1>2
<1>4. MaxAttempts("none") = 0
  BY DEF MaxAttempts
<1>5. Idle.class = "none" /\ Idle.attempts = 0 /\ Idle.runs = 0 /\ Idle.repaired = 0
      /\ Idle.told = 0
  BY DEF Idle
<1> HIDE DEF g
<1>6. GuardFits(g, c)
  BY <1>2, <1>3, <1>4, <1>5 DEF GuardFits, Agrees
<1> QED
  BY <1>2, <1>6 DEF g

(* A call moves on without its command. *)
LEMMA GuardMoves ==
  ASSUME RepairInv, NEW c \in Calls, NEW g \in Guarded, Goes(c, g), GuardFits(g, cmd[c]),
         UNCHANGED sandboxVars, BreakerFits',
         breaker' \in [state : {"CLOSED", "OPEN", "HALF_OPEN"}, fails : Nat, elapsed : BOOLEAN]
  PROVE  RepairInv'
<1>1. guard' \in [Calls -> Guarded] /\ \A d \in Calls : guard'[d] = IF d = c THEN g ELSE guard[d]
  BY DEF RepairInv, Types, Goes
<1>2. UNCHANGED <<executor, cmd, profiles, lost, box>>
  BY DEF sandboxVars
<1>3. GuardsFit'
  BY <1>1, <1>2 DEF RepairInv, GuardsFit
<1>4. Types'
  BY <1>1, <1>2 DEF RepairInv, Types
<1> QED
  BY <1>2, <1>3, <1>4 DEF RepairInv, PlacesFit, ProfilesOwned, Owned, BoxFits

(* The function is run, for the first time or again. *)
LEMMA RunKeeps ==
  ASSUME RepairInv, NEW c \in Calls, Free(c), NEW g \in Guarded, RunFn(c, g),
         g.repaired <= g.attempts, g.told <= g.attempts, g.attempts <= MaxAttempts(g.class),
         g.class = "none" <=> g.attempts = 0, g.runs = g.repaired, BreakerFits',
         breaker' \in [state : {"CLOSED", "OPEN", "HALF_OPEN"}, fails : Nat, elapsed : BOOLEAN]
  PROVE  RepairInv'
<1> DEFINE h == [g EXCEPT !.at = "fn", !.runs = @ + 1]
<1>2. Goes(c, h)
  BY DEF RunFn
<1>3. g.runs \in Nat
  BY DEF Guarded
<1>14. PICK n \in Nat : n = g.runs + 1
  BY <1>3
<1>15. h = [g EXCEPT !.at = "fn", !.runs = n]
  BY <1>14
<1> HIDE DEF h
<1>1. /\ h \in Guarded /\ h.at = "fn" /\ h.runs = n /\ h.repaired = g.repaired
      /\ h.attempts = g.attempts /\ h.told = g.told /\ h.class = g.class /\ h.tool = g.tool
  BY <1>15 DEF Guarded
<1>4. \A r : GuardFits(h, r)
  BY <1>1, <1>3, <1>14 DEF GuardFits
<1>5. PICK r \in Begun : Becomes(c, r)
  BY DEF RunFn
<1>6. UNCHANGED <<executor, profiles, lost, box>>
  BY DEF RunFn
<1>7. r \in Command /\ Fits(r) /\ r.at # "started"
  BY <1>5, BegunFacts DEF RepairInv, Fits
<1>8. /\ cmd' \in [Calls -> Command] /\ PlacesFit'
      /\ \A d \in Calls : cmd'[d] = IF d = c THEN r ELSE cmd[d]
  BY <1>5, <1>6, <1>7, Moved
<1>9. guard' \in [Calls -> Guarded] /\ \A d \in Calls : guard'[d] = IF d = c THEN h ELSE guard[d]
  BY <1>1, <1>2 DEF RepairInv, Types, Goes
<1>10. GuardsFit'
  BY <1>4, <1>8, <1>9 DEF RepairInv, GuardsFit
<1>11. Types'
  BY <1>6, <1>8, <1>9 DEF RepairInv, Types
<1>12. ProfilesOwned'
  BY <1>6, <1>8, OwnersStay DEF Free
<1>13. BoxFits'
  BY <1>6, <1>7, <1>8, BoxStays
<1> QED
  BY <1>8, <1>10, <1>11, <1>12, <1>13 DEF RepairInv

LEMMA CallKeeps ==
  ASSUME RepairInv, NEW c \in Calls, Call(c)
  PROVE  RepairInv'
<1>1. Free(c) /\ UNCHANGED breaker
  BY DEF RepairInv, GuardsFit, GuardFits, Call, Quiet, Free
<1>8. PICK t \in {TRUE} \cup {breaker.fails >= MaxFails} : RunFn(c, [Idle EXCEPT !.tool = t])
  BY DEF Call
<1>9. (breaker.fails >= MaxFails) \in BOOLEAN
  OBVIOUS
<1>2. t \in BOOLEAN
  BY <1>9
<1>3. Idle \in Guarded
  BY DEF Idle, Guarded
<1> DEFINE g == [Idle EXCEPT !.tool = t]
<1>4. g \in Guarded /\ g.class = Idle.class /\ g.attempts = Idle.attempts /\ g.runs = Idle.runs
      /\ g.repaired = Idle.repaired /\ g.told = Idle.told
  BY <1>2, <1>3 DEF Guarded
<1>5. Idle.class = "none" /\ Idle.attempts = 0 /\ Idle.runs = 0 /\ Idle.repaired = 0
      /\ Idle.told = 0 /\ MaxAttempts("none") = 0
  BY DEF Idle, MaxAttempts
<1>6. RunFn(c, g)
  BY <1>8
<1> HIDE DEF g
<1>7. breaker' \in [state : {"CLOSED", "OPEN", "HALF_OPEN"}, fails : Nat, elapsed : BOOLEAN]
      /\ BreakerFits'
  BY <1>1 DEF RepairInv, Types, BreakerFits
<1> QED
  BY <1>1, <1>4, <1>5, <1>6, <1>7, RunKeeps

(* What is known of a call's breaker when the breaker is left alone.       *)
LEMMA BreakerStays ==
  ASSUME RepairInv, UNCHANGED breaker
  PROVE  /\ BreakerFits'
         /\ breaker' \in [state : {"CLOSED", "OPEN", "HALF_OPEN"}, fails : Nat, elapsed : BOOLEAN]
BY DEF RepairInv, Types, BreakerFits

LEMMA RefuseKeeps ==
  ASSUME RepairInv, NEW c \in Calls, Refuse(c)
  PROVE  RepairInv'
<1>6. guard[c] = Idle /\ Idle.at = "idle"
  BY DEF Refuse, Idle
<1>7. guard[c].at = "idle"
  BY <1>6
<1>1. cmd[c].at \in {"none", "answered"}
  BY <1>7 DEF RepairInv, GuardsFit, GuardFits
<1>2. Idle \in Guarded
  BY DEF Idle, Guarded
<1> DEFINE old == [Idle EXCEPT !.tool = TRUE]
<1>3. old \in Guarded /\ old.tool = TRUE
  BY <1>2 DEF Guarded
<1> HIDE DEF old
<1>4. /\ [Idle EXCEPT !.at = "resolved", !.tool = old.tool] \in Guarded
      /\ GuardFits([Idle EXCEPT !.at = "resolved", !.tool = old.tool], cmd[c])
  <2>1. Agrees(old.tool, "resolved", cmd[c])
    BY <1>1, <1>3 DEF Agrees
  <2> QED
    BY <2>1, <1>3, SettledFits
<1>5. Goes(c, [Idle EXCEPT !.at = "resolved", !.tool = old.tool]) /\ UNCHANGED <<sandboxVars, breaker>>
  BY <1>3 DEF Refuse
<1> QED
  BY <1>4, <1>5, BreakerStays, GuardMoves

(* A call settles as the last run of its function did.                     *)
LEMMA SettlesKeeps ==
  ASSUME RepairInv, NEW c \in Calls, NEW at \in {"resolved", "rejected"}, Settles(c, at),
         cmd[c].at \in {"none", "answered"},
         at = "resolved" => ~Rejects(c), at = "rejected" => ~cmd[c].ok,
         UNCHANGED sandboxVars, BreakerFits',
         breaker' \in [state : {"CLOSED", "OPEN", "HALF_OPEN"}, fails : Nat, elapsed : BOOLEAN]
  PROVE  RepairInv'
<1>1. guard[c] \in Guarded
  BY DEF RepairInv, Types
<1>2. Agrees(guard[c].tool, at, cmd[c])
  BY DEF Rejects, Agrees
<1>3. /\ [Idle EXCEPT !.at = at, !.tool = guard[c].tool] \in Guarded
      /\ GuardFits([Idle EXCEPT !.at = at, !.tool = guard[c].tool], cmd[c])
  BY <1>1, <1>2, SettledFits
<1> QED
  BY <1>3, GuardMoves DEF Settles

LEMMA ResolvesKeeps ==
  ASSUME RepairInv, NEW c \in Calls, Resolves(c)
  PROVE  RepairInv'
BY BreakerStays, SettlesKeeps DEF Resolves, FnDone

(* What is thrown and asked about again, or given up.                      *)
LEMMA NextKeeps ==
  ASSUME RepairInv, NEW c \in Calls, NEW g \in Guarded, Goes(c, NextAttempt(g)),
         cmd[c].at \in {"none", "answered"}, cmd[c].ok = FALSE,
         g.class # "none", g.attempts <= MaxAttempts(g.class), g.runs > 0,
         g.runs = 1 + g.repaired, g.repaired <= g.attempts, g.told <= g.attempts,
         UNCHANGED sandboxVars, BreakerFits',
         breaker' \in [state : {"CLOSED", "OPEN", "HALF_OPEN"}, fails : Nat, elapsed : BOOLEAN]
  PROVE  RepairInv'
<1>1. NextAttempt(g) \in Guarded /\ GuardFits(NextAttempt(g), cmd[c])
  BY NextFits
<1> QED
  BY <1>1, GuardMoves

(* The breaker counts, and is closed only with fewer failures than open it. *)
Breakers == [state : {"CLOSED", "OPEN", "HALF_OPEN"}, fails : Nat, elapsed : BOOLEAN]
Shut(b) == b.state = "CLOSED" => b.fails < Threshold

LEMMA FailedFits ==
  ASSUME NEW b \in Breakers, Shut(b), NEW class
  PROVE  /\ Failed(b, class) \in Breakers /\ Shut(Failed(b, class))
         /\ LookedAt(b) \in Breakers /\ Shut(LookedAt(b))
         /\ ~IsOpen(b) => ~IsOpen(LookedAt(b))
         /\ IsOpen(b) => Failed(b, class).state = "OPEN" /\ LookedAt(b) = b
<1>1. PICK n \in Nat : n = b.fails + 1
  BY DEF Breakers
<1>2. Failed(b, class) \in Breakers /\ Shut(Failed(b, class))
      /\ (IsOpen(b) => Failed(b, class).state = "OPEN")
  <2>1. CASE class \notin {"FATAL", "ENVIRONMENT_ERROR"}
    BY <2>1 DEF Failed, IsOpen
  <2>2. CASE class \in {"FATAL", "ENVIRONMENT_ERROR"} /\ n >= Threshold
    BY <1>1, <2>2, RepairAssumption DEF Failed, Breakers, Shut
  <2>3. CASE class \in {"FATAL", "ENVIRONMENT_ERROR"} /\ n < Threshold
    <3>1. Failed(b, class) = [b EXCEPT !.fails = n]
      BY <1>1, <2>3, RepairAssumption DEF Failed
    <3> QED
      BY <2>3, <3>1 DEF Breakers, Shut, IsOpen
  <2> QED
    BY <2>1, <2>2, <2>3, RepairAssumption
<1>3. LookedAt(b) \in Breakers /\ Shut(LookedAt(b)) /\ (IsOpen(b) => LookedAt(b) = b)
      /\ (~IsOpen(b) => ~IsOpen(LookedAt(b)))
  <2>1. CASE b.state = "OPEN" /\ b.elapsed
    BY <2>1 DEF LookedAt, Breakers, Shut, IsOpen
  <2>2. CASE ~(b.state = "OPEN" /\ b.elapsed)
    BY <2>2 DEF LookedAt
  <2> QED
    BY <2>1, <2>2
<1> QED
  BY <1>2, <1>3

LEMMA InterceptKeeps ==
  ASSUME RepairInv, NEW c \in Calls, Intercept(c)
  PROVE  RepairInv'
<1>1. /\ guard[c] \in Guarded /\ breaker \in Breakers /\ Shut(breaker)
      /\ cmd[c] \in Command
  BY DEF RepairInv, Types, Breakers, BreakerFits, Shut
<1>2. /\ guard[c].at = "fn" /\ cmd[c].at \in {"none", "answered"} /\ cmd[c].ok = FALSE
      /\ guard[c].attempts = 0 /\ UNCHANGED sandboxVars
  BY <1>1 DEF Intercept, FnDone, Rejects, Command
<1>3. GuardFits(guard[c], cmd[c])
  BY DEF RepairInv, GuardsFit
<1>4. guard[c].runs > 0 /\ guard[c].runs = 1 + guard[c].repaired
      /\ guard[c].repaired = 0 /\ guard[c].told = 0
  BY <1>1, <1>2, <1>3 DEF GuardFits, Guarded
<1>5. PICK class \in Classes :
        IF class = "FATAL"
        THEN Settles(c, "rejected") /\ UNCHANGED breaker
        ELSE /\ breaker' = LookedAt(Failed(breaker, class))
             /\ IF IsOpen(Failed(breaker, class)) THEN Settles(c, "rejected")
                ELSE Goes(c, NextAttempt([guard[c] EXCEPT !.class = class]))
  BY DEF Intercept
<1>6. breaker' \in Breakers /\ Shut(breaker')
  <2>1. Failed(breaker, class) \in Breakers /\ Shut(Failed(breaker, class))
    BY <1>1, FailedFits
  <2>2. LookedAt(Failed(breaker, class)) \in Breakers /\ Shut(LookedAt(Failed(breaker, class)))
    BY <2>1, FailedFits
  <2> QED
    BY <1>1, <1>5, <2>2
<1>7. breaker' \in [state : {"CLOSED", "OPEN", "HALF_OPEN"}, fails : Nat, elapsed : BOOLEAN]
      /\ BreakerFits'
  BY <1>6 DEF Breakers, Shut, BreakerFits
<1>8. CASE Settles(c, "rejected")
  BY <1>2, <1>7, <1>8, SettlesKeeps
<1>9. CASE class # "FATAL" /\ Goes(c, NextAttempt([guard[c] EXCEPT !.class = class]))
  <2> DEFINE g == [guard[c] EXCEPT !.class = class]
  <2>1. class \in {"RECOVERABLE", "AGENT_ERROR", "ENVIRONMENT_ERROR"}
    BY <1>9 DEF Classes
  <2>2. g \in Guarded /\ g.class = class /\ g.attempts = guard[c].attempts
        /\ g.runs = guard[c].runs /\ g.repaired = guard[c].repaired /\ g.told = guard[c].told
    BY <1>1, <2>1 DEF Guarded
  <2>3. Goes(c, NextAttempt(g))
    BY <1>9
  <2> HIDE DEF g
  <2>4. MaxAttempts(class) \in {1, 3}
    BY <2>1, RetriesRange
  <2>5. /\ g.class # "none" /\ g.attempts <= MaxAttempts(g.class) /\ g.runs > 0
        /\ g.runs = 1 + g.repaired /\ g.repaired <= g.attempts /\ g.told <= g.attempts
    BY <1>2, <1>4, <2>1, <2>2, <2>4
  <2> QED
    BY <1>2, <1>7, <2>2, <2>3, <2>5, NextKeeps
<1> QED
  BY <1>5, <1>8, <1>9

LEMMA FailsAgainKeeps ==
  ASSUME RepairInv, NEW c \in Calls, FailsAgain(c)
  PROVE  RepairInv'
<1>1. guard[c] \in Guarded /\ cmd[c] \in Command /\ GuardFits(guard[c], cmd[c])
  BY DEF RepairInv, Types, GuardsFit
<1>2. /\ guard[c].at = "fn" /\ cmd[c].at \in {"none", "answered"} /\ cmd[c].ok = FALSE
      /\ guard[c].attempts > 0 /\ UNCHANGED <<sandboxVars, breaker>>
      /\ Goes(c, NextAttempt(guard[c]))
  BY <1>1 DEF FailsAgain, FnDone, Rejects, Command
<1>3. /\ guard[c].class # "none" /\ guard[c].attempts <= MaxAttempts(guard[c].class)
      /\ guard[c].runs > 0 /\ guard[c].runs = 1 + guard[c].repaired
      /\ guard[c].repaired <= guard[c].attempts /\ guard[c].told <= guard[c].attempts
  BY <1>1, <1>2 DEF GuardFits, Guarded
<1> QED
  BY <1>1, <1>2, <1>3, BreakerStays, NextKeeps

(* While the repair agent is asked, or the harness told.                   *)
LEMMA AskingFacts ==
  ASSUME RepairInv, NEW c \in Calls, guard[c].at \in {"asking", "telling"}
  PROVE  /\ guard[c] \in Guarded /\ cmd[c].at \in {"none", "answered"} /\ cmd[c].ok = FALSE
         /\ guard[c].class # "none" /\ guard[c].attempts > 0
         /\ guard[c].attempts <= MaxAttempts(guard[c].class)
         /\ guard[c].runs > 0 /\ guard[c].runs = 1 + guard[c].repaired
         /\ guard[c].repaired < guard[c].attempts /\ guard[c].told < guard[c].attempts
<1>1. guard[c] \in Guarded /\ cmd[c] \in Command /\ GuardFits(guard[c], cmd[c])
  BY DEF RepairInv, Types, GuardsFit
<1> QED
  BY <1>1 DEF GuardFits, Guarded, Command

LEMMA RepairedKeeps ==
  ASSUME RepairInv, NEW c \in Calls, guard[c].at = "asking", Repaired(c)
  PROVE  RepairInv'
<1>1. /\ guard[c] \in Guarded /\ cmd[c].at \in {"none", "answered"}
      /\ guard[c].class # "none" /\ guard[c].attempts > 0
      /\ guard[c].attempts <= MaxAttempts(guard[c].class)
      /\ guard[c].runs = 1 + guard[c].repaired
      /\ guard[c].repaired < guard[c].attempts /\ guard[c].told < guard[c].attempts
  BY AskingFacts
<1>2. guard[c].repaired \in Nat /\ guard[c].attempts \in Nat /\ guard[c].told \in Nat
  BY <1>1 DEF Guarded
<1>3. PICK n \in Nat : n = guard[c].repaired + 1
  BY <1>2
<1> DEFINE g == [guard[c] EXCEPT !.repaired = @ + 1]
<1>4. g = [guard[c] EXCEPT !.repaired = n]
  BY <1>3
<1>5. RunFn(c, g) /\ breaker' = Succeeded
  BY DEF Repaired
<1> HIDE DEF g
<1>6. g \in Guarded /\ g.class = guard[c].class /\ g.attempts = guard[c].attempts
      /\ g.runs = guard[c].runs /\ g.repaired = n /\ g.told = guard[c].told
  BY <1>1, <1>4 DEF Guarded
<1>7. Free(c)
  BY <1>1 DEF Free
<1>8. breaker' \in [state : {"CLOSED", "OPEN", "HALF_OPEN"}, fails : Nat, elapsed : BOOLEAN]
      /\ BreakerFits'
  BY <1>5, RepairAssumption DEF Succeeded, BreakerFits
<1>9. /\ g.repaired <= g.attempts /\ g.told <= g.attempts /\ g.attempts <= MaxAttempts(g.class)
      /\ (g.class = "none" <=> g.attempts = 0) /\ g.runs = g.repaired
  BY <1>1, <1>2, <1>3, <1>6
<1> QED
  BY <1>5, <1>6, <1>7, <1>8, <1>9, RunKeeps

LEMMA RepairAgentKeeps ==
  ASSUME RepairInv, NEW c \in Calls, RepairAgent(c)
  PROVE  RepairInv'
<1>1. guard[c].at = "asking"
  BY DEF RepairAgent
<1>2. /\ guard[c] \in Guarded /\ cmd[c].at \in {"none", "answered"} /\ cmd[c].ok = FALSE
      /\ guard[c].class # "none" /\ guard[c].attempts > 0
      /\ guard[c].attempts <= MaxAttempts(guard[c].class)
      /\ guard[c].runs > 0 /\ guard[c].runs = 1 + guard[c].repaired
      /\ guard[c].repaired < guard[c].attempts /\ guard[c].told < guard[c].attempts
  BY <1>1, AskingFacts
<1>3. CASE Repaired(c)
  BY <1>1, <1>3, RepairedKeeps
<1>4. CASE Goes(c, [guard[c] EXCEPT !.at = "telling"]) /\ UNCHANGED <<sandboxVars, breaker>>
  <2> DEFINE g == [guard[c] EXCEPT !.at = "telling"]
  <2>1. g \in Guarded /\ g.at = "telling" /\ g.class = guard[c].class
        /\ g.attempts = guard[c].attempts /\ g.runs = guard[c].runs
        /\ g.repaired = guard[c].repaired /\ g.told = guard[c].told
    BY <1>2 DEF Guarded
  <2>2. Goes(c, g)
    BY <1>4
  <2> HIDE DEF g
  <2>3. guard[c].repaired \in Nat /\ guard[c].attempts \in Nat /\ guard[c].told \in Nat
    BY <1>2 DEF Guarded
  <2>4. GuardFits(g, cmd[c])
    BY <1>2, <2>1, <2>3 DEF GuardFits
  <2> QED
    BY <1>4, <2>1, <2>2, <2>4, BreakerStays, GuardMoves
<1>5. CASE Goes(c, NextAttempt(guard[c])) /\ UNCHANGED <<sandboxVars, breaker>>
  <2>1. guard[c].repaired \in Nat /\ guard[c].attempts \in Nat /\ guard[c].told \in Nat
    BY <1>2 DEF Guarded
  <2>2. guard[c].repaired <= guard[c].attempts /\ guard[c].told <= guard[c].attempts
    BY <1>2, <2>1
  <2> QED
    BY <1>2, <1>5, <2>2, BreakerStays, NextKeeps
<1> QED
  BY <1>3, <1>4, <1>5 DEF RepairAgent

LEMMA TellKeeps ==
  ASSUME RepairInv, NEW c \in Calls, Tell(c)
  PROVE  RepairInv'
<1>1. UNCHANGED <<sandboxVars, breaker>>
  BY DEF Tell
<1>2. CASE guard[c].at = "telling"
  <2>1. /\ guard[c] \in Guarded /\ cmd[c].at \in {"none", "answered"} /\ cmd[c].ok = FALSE
        /\ guard[c].class # "none"
        /\ guard[c].attempts <= MaxAttempts(guard[c].class)
        /\ guard[c].runs > 0 /\ guard[c].runs = 1 + guard[c].repaired
        /\ guard[c].repaired < guard[c].attempts /\ guard[c].told < guard[c].attempts
    BY <1>2, AskingFacts
  <2>2. guard[c].repaired \in Nat /\ guard[c].attempts \in Nat /\ guard[c].told \in Nat
    BY <2>1 DEF Guarded
  <2>3. PICK n \in Nat : n = guard[c].told + 1
    BY <2>2
  <2> DEFINE g == [guard[c] EXCEPT !.told = @ + 1]
  <2>4. g = [guard[c] EXCEPT !.told = n]
    BY <2>3
  <2>5. Goes(c, NextAttempt(g))
    BY <1>2 DEF Tell
  <2> HIDE DEF g
  <2>6. g \in Guarded /\ g.class = guard[c].class /\ g.attempts = guard[c].attempts
        /\ g.runs = guard[c].runs /\ g.repaired = guard[c].repaired /\ g.told = n
    BY <2>1, <2>4 DEF Guarded
  <2>7. g.repaired <= g.attempts /\ g.told <= g.attempts
    BY <2>1, <2>2, <2>3, <2>6
  <2> QED
    BY <1>1, <2>1, <2>5, <2>6, <2>7, BreakerStays, NextKeeps
<1>3. CASE guard[c].at = "giving_up"
  <2>1. Settles(c, "rejected")
    BY <1>3 DEF Tell
  <2>2. ~cmd[c].ok /\ cmd[c].at \in {"none", "answered"}
    BY <1>3 DEF RepairInv, GuardsFit, GuardFits
  <2> QED
    BY <1>1, <2>1, <2>2, BreakerStays, SettlesKeeps
<1> QED
  BY <1>2, <1>3 DEF Tell

LEMMA ElapseKeeps ==
  ASSUME RepairInv, Elapse
  PROVE  RepairInv'
<1>1. breaker' = [breaker EXCEPT !.elapsed = TRUE] /\ UNCHANGED <<sandboxVars, guard>>
  BY DEF Elapse
<1>2. UNCHANGED <<executor, cmd, profiles, lost, box>>
  BY <1>1 DEF sandboxVars
<1>3. breaker' \in [state : {"CLOSED", "OPEN", "HALF_OPEN"}, fails : Nat, elapsed : BOOLEAN]
      /\ BreakerFits'
  BY <1>1 DEF RepairInv, Types, BreakerFits
<1> QED
  BY <1>1, <1>2, <1>3 DEF RepairInv, Types, PlacesFit, ProfilesOwned, Owned, BoxFits, GuardsFit

-----------------------------------------------------------------------------
LEMMA InitEstablishes == RepairInit => RepairInv
<1> SUFFICES ASSUME RepairInit PROVE RepairInv
  OBVIOUS
<1>1. /\ executor \in {"sandbox", "direct", "container"} /\ profiles = {} /\ lost = {}
      /\ cmd = [c \in Calls |-> NoCommand] /\ guard = [c \in Calls |-> Idle]
      /\ box = [running |-> FALSE, up |-> FALSE, stop |-> "no"]
      /\ breaker = [state |-> "CLOSED", fails |-> 0, elapsed |-> FALSE]
  BY DEF RepairInit, InitSandbox, Executor
<1>2. NoCommand \in Command /\ NoCommand.at = "none" /\ NoCommand.file = NoName
  BY DEF NoCommand, Command, Places
<1>3. Idle \in Guarded /\ Idle.at = "idle" /\ Idle.tool = FALSE /\ Idle.class = "none"
      /\ Idle.attempts = 0 /\ Idle.runs = 0 /\ Idle.repaired = 0 /\ Idle.told = 0
  BY DEF Idle, Guarded
<1>4. Types
  BY <1>1, <1>2, <1>3 DEF Types
<1>5. GuardFits(Idle, NoCommand)
  <2>1. MaxAttempts("none") = 0
    BY DEF MaxAttempts
  <2>2. Idle = [Idle EXCEPT !.at = Idle.at, !.tool = Idle.tool]
    BY <1>3 DEF Idle
  <2> QED
    BY <1>2, <1>3, <2>1, <2>2 DEF GuardFits
<1>6. GuardsFit
  BY <1>1, <1>5 DEF GuardsFit
<1>7. PlacesFit /\ BoxFits /\ ProfilesOwned
  BY <1>1, <1>2 DEF PlacesFit, BoxFits, ProfilesOwned
<1>8. BreakerFits
  BY <1>1, RepairAssumption DEF BreakerFits
<1> QED
  BY <1>4, <1>6, <1>7, <1>8 DEF RepairInv

LEMMA StepKeeps == RepairInv /\ [RepairNext]_repairVars => RepairInv'
<1> SUFFICES ASSUME RepairInv, [RepairNext]_repairVars PROVE RepairInv'
  OBVIOUS
<1>1. ASSUME NEW c \in Calls, Step(c) PROVE RepairInv'
  BY <1>1, ResolvesKeeps, InterceptKeeps, FailsAgainKeeps, RepairAgentKeeps, TellKeeps,
     CommandsKeep DEF Step
<1>2. CASE UNCHANGED repairVars
  BY <1>2 DEF repairVars, sandboxVars, RepairInv, Types, PlacesFit, ProfilesOwned, Owned, BoxFits,
              GuardsFit, BreakerFits
<1> QED
  BY <1>1, <1>2, CallKeeps, RefuseKeeps, CommandsKeep, ElapseKeeps, StopSessionKeeps DEF RepairNext

LEMMA InvHolds == RepairSpec => []RepairInv
BY InitEstablishes, StepKeeps, PTL DEF RepairSpec

LEMMA InvSuffices == RepairInv => RepairIsSound
<1> SUFFICES ASSUME RepairInv PROVE RepairIsSound
  OBVIOUS
<1>1. ASSUME NEW c \in Calls
      PROVE  /\ cmd[c].file \in Names \cup {NoName} /\ guard[c].class \in Classes \cup {"none"}
             /\ guard[c].class = "none" => guard[c].attempts = 0
             /\ guard[c].runs > 0 => guard[c].runs = 1 + guard[c].repaired
             /\ guard[c].repaired <= guard[c].attempts /\ guard[c].told <= guard[c].attempts
             /\ guard[c].attempts <= (IF guard[c].class = "RECOVERABLE" THEN 3 ELSE 1)
             /\ guard[c].class # "FATAL"
             /\ ~guard[c].tool /\ guard[c].at = "resolved" => cmd[c].ok
             /\ ~guard[c].tool /\ guard[c].at = "rejected" => ~cmd[c].ok
  <2>1. guard[c] \in Guarded /\ cmd[c] \in Command /\ GuardFits(guard[c], cmd[c])
    BY DEF RepairInv, Types, GuardsFit
  <2>2. guard[c].class \in {"none", "RECOVERABLE", "AGENT_ERROR", "ENVIRONMENT_ERROR"}
        /\ guard[c].attempts \in Nat
    BY <2>1 DEF Guarded
  <2>3. guard[c].attempts <= (IF guard[c].class = "RECOVERABLE" THEN 3 ELSE 1)
    BY <2>1, <2>2, RetriesRange DEF GuardFits
  <2> QED
    BY <2>1, <2>2, <2>3 DEF GuardFits, Command, Classes
<1>2. RepairTypeOK /\ RepairsAreBounded /\ LastRunDecides
  BY <1>1 DEF RepairTypeOK, RepairsAreBounded, LastRunDecides, RepairInv, Types
<1>3. NoProfileLeft
  BY DEF NoProfileLeft, Free, RepairInv, ProfilesOwned, Owned
<1>4. RunningIsTrue
  BY DEF RunningIsTrue, RepairInv, BoxFits
<1> QED
  BY <1>2, <1>3, <1>4 DEF RepairIsSound

(* However the failures, repairs and escalations of guarded calls and the  *)
(* ends of their commands follow each other: the function is run again     *)
(* only for a claimed repair and within the limits of its error's class, a *)
(* call ends as its last run did, no profile is left over but of a command *)
(* that never began, and a container believed to run is up                 *)
(* (RepairIsSound).                                                        *)
THEOREM RepairsAreSound == RepairSpec => []RepairIsSound
BY InvHolds, InvSuffices, PTL

-----------------------------------------------------------------------------
(* The breaker. *)

BreakerMoves ==
  /\ \A c \in Calls :
       (guard[c].attempts = 0 /\ guard'[c].attempts = 1) => ~IsOpen(breaker')
  /\ breaker'.state = "CLOSED" => breaker'.fails < Threshold
  /\ (IsOpen(breaker) /\ ~IsOpen(breaker') /\ breaker'.state # "OPEN") =>
       \E c \in Calls : guard[c].at = "asking" /\ guard'[c].at = "fn"

(* A step that begins no repair and keeps an open breaker open. *)
LEMMA CalmMoves ==
  ASSUME RepairInv', IsOpen(breaker) => breaker'.state = "OPEN",
         \A c \in Calls : ~(guard[c].attempts = 0 /\ guard'[c].attempts = 1)
  PROVE  BreakerMoves
BY DEF BreakerMoves, RepairInv, BreakerFits, IsOpen

(* Who goes: the others stay where they are. *)
LEMMA GoesFacts ==
  ASSUME RepairInv, NEW c \in Calls, NEW g, Goes(c, g)
  PROVE  \A d \in Calls : guard'[d] = IF d = c THEN g ELSE guard[d]
BY DEF RepairInv, Types, Goes

LEMMA BreakerStep ==
  ASSUME RepairInv, RepairInv', RepairNext
  PROVE  BreakerMoves
<1>1. CASE UNCHANGED guard /\ (UNCHANGED breaker \/ Elapse)
  <2>1. IsOpen(breaker) => breaker'.state = "OPEN"
    BY <1>1 DEF Elapse, IsOpen, RepairInv, Types
  <2>2. \A c \in Calls : ~(guard[c].attempts = 0 /\ guard'[c].attempts = 1)
    BY <1>1
  <2> QED
    BY <2>1, <2>2, CalmMoves
(* Calls that begin or settle have no attempts. *)
<1>2. ASSUME NEW c \in Calls, NEW g, Goes(c, g), g.attempts = 0,
             IsOpen(breaker) => breaker'.state = "OPEN"
      PROVE  BreakerMoves
  <2>1. \A d \in Calls : ~(guard[d].attempts = 0 /\ guard'[d].attempts = 1)
    BY <1>2, GoesFacts
  <2> QED
    BY <1>2, <2>1, CalmMoves
(* Calls that had an attempt begin no repair. *)
<1>3. ASSUME NEW c \in Calls, NEW g, Goes(c, g), guard[c].attempts > 0,
             IsOpen(breaker) => breaker'.state = "OPEN"
      PROVE  BreakerMoves
  <2>1. \A d \in Calls : ~(guard[d].attempts = 0 /\ guard'[d].attempts = 1)
    BY <1>3, GoesFacts
  <2> QED
    BY <1>3, <2>1, CalmMoves
<1>4. Idle.attempts = 0
  BY DEF Idle
<1>5. ASSUME NEW c \in Calls, NEW at, Settles(c, at), IsOpen(breaker) => breaker'.state = "OPEN"
      PROVE  BreakerMoves
  <2>1. PICK g : g = [Idle EXCEPT !.at = at, !.tool = guard[c].tool]
    OBVIOUS
  <2>2. g.attempts = 0
    BY <2>1 DEF Idle
  <2> QED
    BY <1>2, <1>5, <2>1, <2>2 DEF Settles
<1>6. ASSUME NEW c \in Calls, Call(c) PROVE BreakerMoves
  <2>1. PICK t : RunFn(c, [Idle EXCEPT !.tool = t]) /\ UNCHANGED breaker
    BY <1>6 DEF Call
  <2>2. PICK g : g = [[Idle EXCEPT !.tool = t] EXCEPT !.at = "fn", !.runs = @ + 1]
    OBVIOUS
  <2>3. g.attempts = 0
    BY <2>2 DEF Idle
  <2>4. Goes(c, g)
    BY <2>1, <2>2 DEF RunFn
  <2> QED
    BY <1>2, <2>1, <2>3, <2>4 DEF IsOpen
<1>7. ASSUME NEW c \in Calls, Refuse(c) PROVE BreakerMoves
  <2>1. PICK g : g = [Idle EXCEPT !.at = "resolved", !.tool = TRUE]
    OBVIOUS
  <2>2. g.attempts = 0
    BY <2>1 DEF Idle
  <2>3. Goes(c, g) /\ UNCHANGED breaker
    BY <1>7, <2>1 DEF Refuse
  <2> QED
    BY <1>2, <2>2, <2>3 DEF IsOpen
<1>8. ASSUME NEW c \in Calls, Intercept(c) PROVE BreakerMoves
  <2>1. breaker \in Breakers /\ Shut(breaker)
    BY DEF RepairInv, Types, Breakers, BreakerFits, Shut
  <2>2. PICK class \in Classes :
          IF class = "FATAL"
          THEN Settles(c, "rejected") /\ UNCHANGED breaker
          ELSE /\ breaker' = LookedAt(Failed(breaker, class))
               /\ IF IsOpen(Failed(breaker, class)) THEN Settles(c, "rejected")
                  ELSE Goes(c, NextAttempt([guard[c] EXCEPT !.class = class]))
    BY <1>8 DEF Intercept
  <2>3. Failed(breaker, class) \in Breakers /\ Shut(Failed(breaker, class))
        /\ (IsOpen(breaker) => Failed(breaker, class).state = "OPEN")
    BY <2>1, FailedFits
  <2>4. CASE Settles(c, "rejected")
    <3>1. IsOpen(breaker) => breaker'.state = "OPEN"
      <4>1. CASE UNCHANGED breaker
        BY <4>1 DEF IsOpen
      <4>2. CASE breaker' = LookedAt(Failed(breaker, class)) /\ IsOpen(Failed(breaker, class))
        BY <2>3, <4>2, FailedFits
      <4>3. CASE breaker' = LookedAt(Failed(breaker, class)) /\ ~IsOpen(Failed(breaker, class))
                 /\ IsOpen(breaker)
        BY <2>1, <2>2, <2>3, <4>3, FailedFits DEF IsOpen, LookedAt, Breakers, Failed
      <4> QED
        BY <2>2, <4>1, <4>2, <4>3
    <3> QED
      BY <1>5, <2>4, <3>1
  <2>5. CASE ~IsOpen(Failed(breaker, class)) /\ breaker' = LookedAt(Failed(breaker, class))
    <3>1. ~IsOpen(breaker')
      BY <2>3, <2>5, FailedFits
    <3>2. ~IsOpen(breaker)
      BY <2>1, <2>3, <2>5 DEF IsOpen, Failed, Breakers
    <3> QED
      BY <3>1, <3>2 DEF BreakerMoves, RepairInv, BreakerFits
  <2> QED
    BY <2>2, <2>4, <2>5
<1>9. ASSUME NEW c \in Calls, FailsAgain(c) PROVE BreakerMoves
  BY <1>3, <1>9 DEF FailsAgain, IsOpen
<1>10. ASSUME NEW c \in Calls, RepairAgent(c) PROVE BreakerMoves
  <2>1. guard[c].attempts > 0 /\ guard[c].at = "asking" /\ guard[c] \in Guarded
    BY <1>10, AskingFacts DEF RepairAgent
  <2>2. CASE UNCHANGED breaker
    <3>1. PICK g : Goes(c, g)
      BY <1>10 DEF RepairAgent, Repaired, RunFn
    <3> QED
      BY <1>3, <2>1, <2>2, <3>1 DEF IsOpen
  <2>3. CASE Repaired(c)
    <3>1. breaker' = Succeeded
      BY <2>3 DEF Repaired
    <3>2. PICK g : g = [[guard[c] EXCEPT !.repaired = @ + 1] EXCEPT !.at = "fn", !.runs = @ + 1]
      OBVIOUS
    <3>3. Goes(c, g)
      BY <2>3, <3>2 DEF Repaired, RunFn
    <3>4. g.at = "fn"
      BY <2>1, <3>2 DEF Guarded
    <3>5. guard'[c].at = "fn"
      BY <3>3, <3>4, GoesFacts
    <3>6. ~IsOpen(breaker')
      BY <3>1 DEF Succeeded, IsOpen
    <3> QED
      BY <2>1, <3>5, <3>6 DEF BreakerMoves, RepairInv, BreakerFits
  <2> QED
    BY <1>10, <2>2, <2>3 DEF RepairAgent
<1>11. ASSUME NEW c \in Calls, Tell(c) PROVE BreakerMoves
  <2>1. UNCHANGED breaker
    BY <1>11 DEF Tell
  <2>2. PICK g : Goes(c, g)
    BY <1>11 DEF Tell, Settles
  <2>3. guard[c].attempts > 0
    BY <1>11, AskingFacts DEF Tell, RepairInv, GuardsFit, GuardFits
  <2> QED
    BY <1>3, <2>1, <2>2, <2>3 DEF IsOpen
<1>12. ASSUME NEW c \in Calls, Resolves(c) PROVE BreakerMoves
  BY <1>5, <1>12 DEF Resolves, IsOpen
<1> QED
  BY <1>1, <1>6, <1>7, <1>8, <1>9, <1>10, <1>11, <1>12 DEF RepairNext, Step, Elapse

(* An open breaker begins no repair, is closed only with fewer failures    *)
(* than open it, and only by a repair another call had under way.          *)
THEOREM TheBreakerHolds == RepairSpec => BreakerHolds
<1>1. RepairInv /\ RepairInv' /\ [RepairNext]_repairVars => [BreakerMoves]_repairVars
  BY BreakerStep
<1>2. [][BreakerMoves]_repairVars => BreakerHolds
  BY PTL DEF BreakerHolds, BreakerMoves
<1> QED
  BY <1>1, <1>2, InvHolds, PTL DEF RepairSpec
=============================================================================
