--------------------------------- MODULE Tui ---------------------------------
(***************************************************************************)
(* The terminal renderer, createTuiRenderer (src/src/tui.ts): what an      *)
(* agent event does to the spinner, the narration of the model's thinking, *)
(* the cards of the tool history and the receipts box.                     *)
(* The spinner redraws its line five times a second until it is stopped,   *)
(* so it must be off when something else owns the line.  A REPL has one    *)
(* renderer for all its turns and replays.  Wording, layout, the rest of   *)
(* the dashboard and the throttle of the narration are left out.           *)
(***************************************************************************)
EXTENDS Integers, Sequences

CONSTANTS
  Tools,     \* names of tools
  CardCap    \* the most cards the history keeps: 20 in the code

ASSUME TuiAssumption == CardCap \in Nat \ {0}

(* Whether a spinner is drawn; in the middle of thinking; the cards; the   *)
(* last digest rendered is of this turn; receipts boxes written in it.     *)
Blank == [spin |-> FALSE, think |-> FALSE, cards |-> <<>>, shown |-> FALSE, boxes |-> 0]

-----------------------------------------------------------------------------
(* Events: the type, a tool's name, and the digest that comes with it: a   *)
(* new object, the same as the one before, or none.                        *)
Ev(type) == [type |-> type, name |-> "none", digest |-> "none"]
CallEv(n) == [Ev("tool_call") EXCEPT !.name = n]
ResultEv(n) == [Ev("tool_result") EXCEPT !.name = n]
EndEv(type, digest) == [Ev(type) EXCEPT !.digest = digest]

(* The events that end with a spinner, and those that end without one.     *)
Spinning == {"iteration", "tool_call", "tool_result", "continuation", "model_switch",
             "background", "role_start"}

(* A mutation of Stopping: an error leaves the spinner alone. *)
StoppingNotOnError == {"compact", "spec_plan", "done", "role_complete", "escalation", "task_over"}

Stopping == {"compact", "spec_plan", "done", "error", "role_complete", "escalation", "task_over"}

(* Only the first text of a round stops the spinner.                       *)
Spin(s, e) ==
  \/ e.type \in Spinning
  \/ s.spin /\ e.type \notin Stopping /\ (e.type = "thinking" => s.think)

Thinks(s, e) ==
  \/ e.type = "thinking"
  \/ s.think /\ e.type \notin {"iteration", "tool_call", "tool_result", "spec_plan", "done", "error"}

Running(cards) == {i \in DOMAIN cards : cards[i].running}
Newest(cards) ==
  IF Len(cards) > CardCap THEN SubSeq(cards, Len(cards) - CardCap + 1, Len(cards)) ELSE cards

LastOf(I) == CHOOSE i \in I : \A j \in I : j <= i

(* The most recent running card of the name, or else the most recent.      *)
Marked(cards, name) ==
  LET same == {i \in Running(cards) : cards[i].name = name}
      any  == IF same # {} THEN same ELSE Running(cards)
  IN IF any = {} THEN cards ELSE [cards EXCEPT ![LastOf(any)].running = FALSE]

Cards(s, e) ==
  CASE e.type = "tool_call"   -> Newest(Append(s.cards, [name |-> e.name, running |-> TRUE]))
    [] e.type = "tool_result" -> Marked(s.cards, e.name)
    [] OTHER -> s.cards

(* A mutation of Boxed: a digest that is already shown is shown again.     *)
BoxedAlways(s, e) == e.type \in {"done", "error"} /\ e.digest # "none"

Boxed(s, e) ==
  /\ e.type \in {"done", "error"} /\ e.digest # "none"
  /\ e.digest = "new" \/ ~s.shown

OnEvent(s, e) ==
  [spin  |-> Spin(s, e),
   think |-> Thinks(s, e),
   cards |-> Cards(s, e),
   shown |-> s.shown \/ Boxed(s, e),
   boxes |-> s.boxes + IF Boxed(s, e) THEN 1 ELSE 0]

(* Events in a row.                                                        *)
Rendered(s, es) ==
  LET after[i \in 0..Len(es)] == IF i = 0 THEN s ELSE OnEvent(after[i - 1], es[i])
  IN after[Len(es)]

(* A turn begins: what was shown of the one before stays, and its digest   *)
(* is another object.                                                      *)
NextTurn(s) == [s EXCEPT !.shown = FALSE, !.boxes = 0]
=============================================================================
