----------------------------- MODULE RouterData -----------------------------
(***************************************************************************)
(* What the front ends of 9rh see of the 9router daemon: a table of        *)
(* providers, combos, keys, models and usage, which anyone may change and  *)
(* anyone may read, while the daemon answers or does not.  The desktop's   *)
(* router page (RouterPanels) and the slash commands of the command line   *)
(* (RouterCommands) show what they last read of it.                        *)
(*                                                                         *)
(* The table is the number of changes made to it.  A request is answered   *)
(* with the table of some moment between its start and its answer, or      *)
(* fails, by a refusal or by the client's own limit.                       *)
(***************************************************************************)
EXTENDS Integers

CONSTANT MaxChanges   \* bound: changes to the table

ASSUME DataAssumption == MaxChanges \in Nat

VARIABLES
  table,   \* the changes made so far
  up       \* the daemon answers within the clients' limits

dataVars == <<table, up>>

(* Nothing read yet, or no answer. *)
None == -1

Versions == 0..MaxChanges

InitData == table = 0 /\ up \in BOOLEAN

(* A change, whoever makes it; the last is one that changes nothing. *)
Changed(n) == IF n < MaxChanges THEN n + 1 ELSE n

(* The dashboard, another client, or usage itself. *)
Outside ==
  /\ up /\ table < MaxChanges
  /\ table' = table + 1 /\ UNCHANGED up

(* The daemon stops, starts, or is too slow for the limits. *)
Flips == up' = ~up /\ UNCHANGED table

DataTypeOK == table \in Versions /\ up \in BOOLEAN

=============================================================================
