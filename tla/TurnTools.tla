----------------------------- MODULE TurnTools -----------------------------
(***************************************************************************)
(* What one assistant turn promises about the tool calls the model asked   *)
(* for, whatever schedule executes them.                                   *)
(*                                                                         *)
(* Mutating calls take effect in the order the model wrote them, one after *)
(* the other; read-only calls look at the working directory at any moment; *)
(* a call whose arguments did not parse is never executed; and the model   *)
(* gets every answer at once, in call order.                               *)
(*                                                                         *)
(* What a call observes is the set of mutating calls whose effect it found *)
(* in the working directory.                                               *)
(***************************************************************************)
EXTENDS Integers

CONSTANT NumCalls   \* tool calls in the turn

VARIABLES
  kind,       \* kind[c]: what assessToolRisk and the argument parser say of c
  acted,      \* the calls that have had their effect, or will have none
  applied,    \* the mutating calls whose effect is in the working directory
  output,     \* output[c]: what call c observed
  transcript  \* the tool messages given to the model

turnVars == <<kind, acted, applied, output, transcript>>

Calls    == 1..NumCalls
Kinds    == {"parse_error", "low", "mutating"}
Mutating == {c \in Calls : kind[c] = "mutating"}
Refused  == {c \in Calls : kind[c] = "parse_error"}

Init ==
  /\ kind \in [Calls -> Kinds]
  /\ acted = Refused
  /\ applied = {}
  /\ output = [c \in Calls |-> {}]
  /\ transcript = <<>>

(* Call c takes effect: a mutating call may succeed or fail, and only once *)
(* every mutating call written before it has taken effect.                 *)
Act(c) ==
  /\ c \notin acted
  /\ c \in Mutating => \A b \in Mutating : b < c => b \in acted
  /\ acted' = acted \cup {c}
  /\ applied' \in {applied, applied \cup ({c} \cap Mutating)}
  /\ output' = [output EXCEPT ![c] = applied]
  /\ UNCHANGED <<kind, transcript>>

Answer ==
  /\ acted = Calls
  /\ transcript = <<>>
  /\ transcript' = [c \in Calls |-> [call |-> c, value |-> output[c]]]
  /\ UNCHANGED <<kind, acted, applied, output>>

Next == (\E c \in Calls : Act(c)) \/ Answer

Spec == Init /\ [][Next]_turnVars
=============================================================================
