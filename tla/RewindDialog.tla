---------------------------- MODULE RewindDialog ----------------------------
(***************************************************************************)
(* The dialog that restores the workdir to the state before a turn         *)
(* (renderer/components/RewindDialog.tsx), and its requests to the         *)
(* session's host, which plans anew for each of them (rewindPlan and       *)
(* rewindApply in main/sessionHost.ts).  What a plan is and does is in     *)
(* module Rewind; here a plan is its first turn and the number of turns    *)
(* there were when it was made.                                            *)
(*                                                                         *)
(* Requests are answered in any order.  A turn may start and end under the *)
(* open dialog, and while files are being restored.                        *)
(***************************************************************************)
EXTENDS Integers, FiniteSets

CONSTANTS
  MaxTurns,    \* bound: turns of the session
  MaxRequests  \* bound: requests under way

ASSUME RewindDialogAssumption == MaxTurns \in Nat \ {0} /\ MaxRequests \in Nat \ {0}

VARIABLES
  turns,    \* turns of the session that ended, all of them with changes
  host,     \* the session's status at its host
  told,     \* status and turns as the window was last told
  rewinder, \* the dialog, NoRewinder if it is closed
  requests  \* the requests under way; mine: of the last generation

rewindVars == <<turns, host, told, rewinder, requests>>

NoPlan == [target |-> 0, of |-> 0]
NoRewinder == [open |-> FALSE]
OpenRewinder == [open |-> TRUE, target |-> 0, plan |-> NoPlan, result |-> NoPlan,
           error |-> FALSE, busy |-> FALSE]

(* What matters here of snapshot. *)
HostSnapshot == [status |-> host, turns |-> turns]

InitRewindDialog ==
  /\ turns \in 0..MaxTurns /\ host = "idle"
  /\ told = HostSnapshot
  /\ rewinder = NoRewinder /\ requests = {}

-----------------------------------------------------------------------------
(* The session. *)

HostTurns(from, to) ==
  /\ host = from /\ host' = to
  /\ turns' = IF to = "idle" THEN turns + 1 ELSE turns
  /\ UNCHANGED <<told, rewinder, requests>>

BeginTurn == turns < MaxTurns /\ HostTurns("idle", "running")
AskInTurn == HostTurns("running", "waiting")
AnswerInTurn == HostTurns("waiting", "running")
FinishTurn == HostTurns("running", "idle")

Tell ==
  /\ told # HostSnapshot /\ told' = HostSnapshot
  /\ UNCHANGED <<turns, host, rewinder, requests>>

-----------------------------------------------------------------------------
(* The dialog. *)

OpenRewind ==
  /\ ~rewinder.open /\ told.status = "idle"
  /\ rewinder' = OpenRewinder
  /\ UNCHANGED <<turns, host, told, requests>>

(* ++gen.  Of the requests before, two that are the same and that nobody   *)
(* awaits any more are one.                                                *)
Disown(Q) == {[q EXCEPT !.mine = FALSE] : q \in Q}

CloseRewind ==
  /\ rewinder.open /\ rewinder' = NoRewinder
  /\ requests' = Disown(requests)
  /\ UNCHANGED <<turns, host, told>>

Ask(op, target) ==
  /\ requests' = Disown(requests) \cup
       {[op |-> op, target |-> target, mine |-> TRUE, at |-> "sent", got |-> NoPlan]}
  /\ Cardinality(requests') <= MaxRequests
  /\ UNCHANGED <<turns, host, told>>

(* pick: at any time, of any turn listed. *)
Pick(t) ==
  /\ rewinder.open /\ t \in 1..told.turns
  /\ rewinder' = [OpenRewinder EXCEPT !.target = t, !.busy = TRUE]
  /\ Ask("plan", t)

(* canRestore, and restore: an agent that waits is not running. *)
Restore ==
  /\ rewinder.open /\ rewinder.plan # NoPlan /\ rewinder.result = NoPlan
  /\ ~rewinder.busy /\ told.status # "running"
  /\ rewinder' = [rewinder EXCEPT !.busy = TRUE, !.error = FALSE]
  /\ Ask("restore", rewinder.target)

(* The host's rewindPlan, and rewindApply, which assertIdle may refuse. *)
HandleRewind(q) ==
  /\ q.at = "sent"
  /\ requests' = (requests \ {q}) \cup
       {[q EXCEPT !.at = "answered",
                  !.got = IF q.op = "restore" /\ host # "idle" THEN NoPlan
                          ELSE [target |-> q.target, of |-> turns]]}
  /\ UNCHANGED <<turns, host, told, rewinder>>

(* A mutation of IsLast: the generation is not looked at. *)
IsLastOrNot(q) == rewinder.open

(* mine = gen.current, in a dialog that is open. *)
IsLast(q) == q.mine

RewindAnswered(q) ==
  /\ q.at = "answered" /\ requests' = requests \ {q}
  /\ rewinder' =
       IF ~IsLast(q) THEN rewinder
       ELSE IF q.got = NoPlan THEN [rewinder EXCEPT !.busy = FALSE, !.error = TRUE]
       ELSE IF q.op = "plan" THEN [rewinder EXCEPT !.busy = FALSE, !.plan = q.got]
       ELSE [rewinder EXCEPT !.busy = FALSE, !.result = q.got]
  /\ UNCHANGED <<turns, host, told>>

RewindNext ==
  \/ BeginTurn \/ AskInTurn \/ AnswerInTurn \/ FinishTurn \/ Tell
  \/ OpenRewind \/ CloseRewind \/ Restore
  \/ \E t \in 1..MaxTurns : Pick(t)
  \/ \E q \in requests : HandleRewind(q) \/ RewindAnswered(q)

-----------------------------------------------------------------------------
(* Properties. *)

RewindTypeOK ==
  /\ turns \in 0..MaxTurns /\ told.turns <= turns
  /\ host \in {"idle", "running", "waiting"}

(* Whatever the user picks, and however late and out of order the answers  *)
(* come: the plan and the result that are shown are of the turn that is    *)
(* marked, so Restore restores what is shown; and the dialog is busy       *)
(* exactly while an answer it will take is under way (RewindDialog.tsx,    *)
(* gen).                                                                   *)
ShowsThePick ==
  rewinder.open =>
    /\ rewinder.plan # NoPlan => rewinder.plan.target = rewinder.target
    /\ rewinder.result # NoPlan =>
         rewinder.result.target = rewinder.target /\ rewinder.result.of >= rewinder.plan.of
    /\ rewinder.busy <=> \E q \in requests : q.mine
=============================================================================
