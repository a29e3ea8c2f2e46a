--------------------------- MODULE SessionLedger ---------------------------
(***************************************************************************)
(* The per-session record of turns (src/src/ledger.ts), as operators on a  *)
(* sequence of turns.  A turn is open until its first completion; its      *)
(* receipt is the digest that completion carried, if it carried one.       *)
(***************************************************************************)
EXTENDS Integers, Sequences

Statuses == {"completed", "error", "aborted", "max_iterations"}

(* A digest: the turn's status, and the file changes the harness observed. *)
NoDigest == [status |-> "none", files |-> {}]

OpenedTurn == [status |-> "open", digest |-> NoDigest]

HasOpenTurn(turns) ==
  turns # <<>> /\ turns[Len(turns)].status = "open"

(* A mutation of CompleteTurn: the last completion wins. *)
CompleteTurnLastWins(turns, digest, fallback) ==
  IF turns # <<>>
  THEN [turns EXCEPT ![Len(turns)] =
          [status |-> IF digest # NoDigest THEN digest.status ELSE fallback,
           digest |-> digest]]
  ELSE turns

(* completeTurn: the first completion wins, later ones are ignored. *)
CompleteTurn(turns, digest, fallback) ==
  IF HasOpenTurn(turns)
  THEN [turns EXCEPT ![Len(turns)] =
          [status |-> IF digest # NoDigest THEN digest.status ELSE fallback,
           digest |-> digest]]
  ELSE turns

(* beginTurn: a turn still open is closed as an error first. *)
BeginTurn(turns) ==
  LET closed == IF HasOpenTurn(turns)
                THEN [turns EXCEPT ![Len(turns)].status = "error"]
                ELSE turns
  IN  Append(closed, OpenedTurn)

(* onAgentEvent, for the two events that complete a turn: done and error. *)
OnTerminal(turns, event) ==
  CompleteTurn(turns, event.digest,
               IF event.type = "done" THEN "completed" ELSE "error")
=============================================================================
