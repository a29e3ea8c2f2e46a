------------------------------- MODULE Repair -------------------------------
(***************************************************************************)
(* Guarded calls: withErrorInterception, the circuit breaker and the       *)
(* repair agent (src/src/repair), around the shell commands of Sandbox.    *)
(* A failure of the guarded function is classified and counted, and unless *)
(* the breaker is open, the repair agent is asked what to do; when it has  *)
(* repaired something, the function is run again.                          *)
(*                                                                         *)
(* The guarded calls share the breaker of their agent.  An agent guards    *)
(* executeTool, which reports every failure in its value and never         *)
(* rejects; another caller's function rejects when its command fails.      *)
(***************************************************************************)
EXTENDS Sandbox

CONSTANTS
  Threshold,   \* failures that open the breaker
  MaxFails     \* bound: failures counted when a call begins

ASSUME RepairAssumption == Threshold \in Nat \ {0} /\ MaxFails \in Nat

VARIABLES
  breaker,   \* its state, the failures counted, and whether its time is up
  guard      \* guard[c]: see Idle

repairVars == <<sandboxVars, breaker, guard>>

(* Where a call is; whether it guards executeTool; its error's class; the  *)
(* attempts to repair it; the runs of its function; how often the repair   *)
(* agent claimed success, and how often the harness was told.              *)
Idle == [at |-> "idle", tool |-> FALSE, class |-> "none", attempts |-> 0,
         runs |-> 0, repaired |-> 0, told |-> 0]

Classes == {"RECOVERABLE", "AGENT_ERROR", "ENVIRONMENT_ERROR", "FATAL"}

MaxAttempts(class) ==
  CASE class = "RECOVERABLE" -> 3
    [] class \in {"AGENT_ERROR", "ENVIRONMENT_ERROR"} -> 1
    [] OTHER -> 0

RepairInit ==
  /\ InitSandbox
  /\ breaker = [state |-> "CLOSED", fails |-> 0, elapsed |-> FALSE]
  /\ guard = [c \in Calls |-> Idle]

-----------------------------------------------------------------------------
(* CircuitBreaker. *)

IsOpen(b) == b.state = "OPEN" /\ ~b.elapsed

(* isOpen lets the next call try once the time is up. *)
LookedAt(b) == IF b.state = "OPEN" /\ b.elapsed THEN [b EXCEPT !.state = "HALF_OPEN"] ELSE b

(* A mutation of Failed: it takes one failure more. *)
FailedLate(b, class) ==
  IF class \notin {"FATAL", "ENVIRONMENT_ERROR"} THEN b
  ELSE IF b.fails >= Threshold
       THEN [state |-> "OPEN", fails |-> b.fails + 1, elapsed |-> FALSE]
       ELSE [b EXCEPT !.fails = @ + 1]

Failed(b, class) ==
  IF class \notin {"FATAL", "ENVIRONMENT_ERROR"} THEN b
  ELSE IF b.fails + 1 >= Threshold
       THEN [state |-> "OPEN", fails |-> b.fails + 1, elapsed |-> FALSE]
       ELSE [b EXCEPT !.fails = @ + 1]

Succeeded == [state |-> "CLOSED", fails |-> 0, elapsed |-> FALSE]

Elapse ==
  /\ IsOpen(breaker) /\ breaker' = [breaker EXCEPT !.elapsed = TRUE]
  /\ UNCHANGED <<sandboxVars, guard>>

-----------------------------------------------------------------------------
(* withErrorInterception. *)

Goes(c, r) == guard' = [guard EXCEPT ![c] = r]

Settles(c, at) == Goes(c, [Idle EXCEPT !.at = at, !.tool = guard[c].tool])
Quiet(g) == g.at \in {"idle", "resolved", "rejected"}

(* The function is run. *)
RunFn(c, g) ==
  /\ Goes(c, [g EXCEPT !.at = "fn", !.runs = @ + 1])
  /\ \E r \in Begun : Becomes(c, r)
  /\ UNCHANGED <<executor, profiles, lost, box>>

Call(c) ==
  /\ Quiet(guard[c])
  /\ \E t \in {TRUE} \cup {breaker.fails >= MaxFails} : RunFn(c, [Idle EXCEPT !.tool = t])
  /\ UNCHANGED breaker

(* An agent's call that nobody approves, or whose tool or arguments are    *)
(* not known, is answered without a command.                               *)
Refuse(c) ==
  /\ guard[c] = Idle /\ Goes(c, [Idle EXCEPT !.at = "resolved", !.tool = TRUE])
  /\ UNCHANGED <<sandboxVars, breaker>>

FnDone(c) == guard[c].at = "fn" /\ cmd[c].at = "answered"
Rejects(c) == ~guard[c].tool /\ ~cmd[c].ok

Resolves(c) ==
  /\ FnDone(c) /\ ~Rejects(c) /\ Settles(c, "resolved")
  /\ UNCHANGED <<sandboxVars, breaker>>

(* The next attempt, or none. *)
NextAttempt(g) ==
  IF g.attempts >= MaxAttempts(g.class) THEN [g EXCEPT !.at = "giving_up"]
  ELSE [g EXCEPT !.at = "asking", !.attempts = @ + 1]

(* The first failure is classified, counted, and thrown at once if it is   *)
(* fatal or the breaker is open.                                           *)
Intercept(c) ==
  /\ FnDone(c) /\ Rejects(c) /\ guard[c].attempts = 0
  /\ \E class \in Classes :
       LET b == Failed(breaker, class) IN
       IF class = "FATAL"
       THEN Settles(c, "rejected") /\ UNCHANGED breaker
       ELSE /\ breaker' = LookedAt(b)
            /\ IF IsOpen(b) THEN Settles(c, "rejected")
               ELSE Goes(c, NextAttempt([guard[c] EXCEPT !.class = class]))
  /\ UNCHANGED sandboxVars

(* A failure after a repair is an attempt that failed: it is not counted.  *)
FailsAgain(c) ==
  /\ FnDone(c) /\ Rejects(c) /\ guard[c].attempts > 0
  /\ Goes(c, NextAttempt(guard[c]))
  /\ UNCHANGED <<sandboxVars, breaker>>

(* A mutation of Repaired: the function is taken to work now. *)
RepairedIsDone(c) ==
  /\ breaker' = Succeeded
  /\ Settles(c, "resolved")
  /\ UNCHANGED sandboxVars

Repaired(c) ==
  /\ breaker' = Succeeded
  /\ RunFn(c, [guard[c] EXCEPT !.repaired = @ + 1])

(* The repair agent repairs, escalates, neither, or throws.  *)
RepairAgent(c) ==
  LET last == guard[c].attempts >= MaxAttempts(guard[c].class) IN
  /\ guard[c].at = "asking"
  /\ \/ Repaired(c)
     \/ /\ Goes(c, [guard[c] EXCEPT !.at = "telling"])
        /\ UNCHANGED <<sandboxVars, breaker>>
     \/ /\ Goes(c, IF last THEN [guard[c] EXCEPT !.at = "telling"] ELSE NextAttempt(guard[c]))
        /\ UNCHANGED <<sandboxVars, breaker>>
     \/ /\ Goes(c, NextAttempt(guard[c]))
        /\ UNCHANGED <<sandboxVars, breaker>>

(* onRepairTriggered; what is thrown after it is caught by the attempt's   *)
(* own handler, so the harness may be told twice, and asked again.         *)
Tell(c) ==
  /\ guard[c].at \in {"telling", "giving_up"}
  /\ IF guard[c].at = "telling" THEN Goes(c, NextAttempt([guard[c] EXCEPT !.told = @ + 1]))
     ELSE Settles(c, "rejected")
  /\ UNCHANGED <<sandboxVars, breaker>>

-----------------------------------------------------------------------------
Step(c) ==
  \/ Resolves(c) \/ Intercept(c) \/ FailsAgain(c) \/ RepairAgent(c) \/ Tell(c)
  \/ Exec(c) /\ UNCHANGED <<breaker, guard>>

RepairNext ==
  \/ \E c \in Calls :
       \/ Call(c) \/ Refuse(c) \/ Step(c)
       \/ Process(c) /\ UNCHANGED <<breaker, guard>>
  \/ Elapse
  \/ StopSession /\ UNCHANGED <<breaker, guard>>

(* The program's own steps happen; commands owe nothing, time neither.     *)
Fairness == \A c \in Calls : WF_repairVars(Step(c))

RepairSpec == RepairInit /\ [][RepairNext]_repairVars /\ Fairness

-----------------------------------------------------------------------------
(* Properties. *)

(* Calls, commands and the breaker are as the code's types say. *)
RepairTypeOK ==
  /\ executor \in {"sandbox", "direct", "container"}
  /\ breaker.state \in {"CLOSED", "OPEN", "HALF_OPEN"}
  /\ \A c \in Calls :
       /\ cmd[c].file \in Names \cup {NoName}
       /\ guard[c].class \in Classes \cup {"none"}
       /\ guard[c].class = "none" => guard[c].attempts = 0

(* A function is run again only for a repair the agent claimed, no more    *)
(* often than its error's class allows, and the harness is told once for   *)
(* an attempt and once when the call is given up; a fatal error is never   *)
(* repaired.                                                               *)
RepairsAreBounded ==
  \A c \in Calls :
    LET g == guard[c] IN
    /\ g.runs > 0 => g.runs = 1 + g.repaired
    /\ g.repaired <= g.attempts
    /\ g.attempts <= (IF g.class = "RECOVERABLE" THEN 3 ELSE 1)
    /\ g.class = "FATAL" => g.attempts = 0
    /\ g.told <= g.attempts

(* A guarded call resolves only if the last run of its function did, and   *)
(* rejects only if that failed: a repair alone is not a success, and an    *)
(* escalation between two runs hides none.                                 *)
LastRunDecides ==
  \A c \in Calls :
    ~guard[c].tool =>
    /\ guard[c].at = "resolved" => cmd[c].ok
    /\ guard[c].at = "rejected" => ~cmd[c].ok

(* However failures, repairs and escalations follow each other, and        *)
(* whichever way their commands end: see also the parts in Sandbox.        *)
RepairIsSound ==
  RepairTypeOK /\ RepairsAreBounded /\ LastRunDecides /\ NoProfileLeft /\ RunningIsTrue

(* An open breaker whose time is not up begins no repair, and what has     *)
(* counted as many failures as open it is not closed again but by a        *)
(* repair that another call had under way.                                 *)
BreakerHolds ==
  [][/\ \A c \in Calls :
          (guard[c].attempts = 0 /\ guard'[c].attempts = 1) => ~IsOpen(breaker')
     /\ breaker'.state = "CLOSED" => breaker'.fails < Threshold
     /\ (IsOpen(breaker) /\ ~IsOpen(breaker') /\ breaker'.state # "OPEN") =>
          \E c \in Calls : guard[c].at = "asking" /\ guard'[c].at = "fn"]_repairVars

(* What a timer cannot end: a shell asked to end that does not, where it   *)
(* is only asked, and a process that holds the output, where it is not     *)
(* let go of.                                                              *)
Blocked(c) ==
  \/ executor = "direct" /\ cmd[c].timedOut /\ cmd[c].shell = "alive"
  \/ executor # "direct" /\ cmd[c].held

(* A guarded call ends, with all its repairs and runs; if it does not, its *)
(* command has been blocked like that from some time on.                   *)
CallsEnd ==
  \A c \in Calls :
    <>[]~Quiet(guard[c]) => <>[]Blocked(c)
=============================================================================
