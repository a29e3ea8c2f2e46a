------------------------------ MODULE Playback ------------------------------
(***************************************************************************)
(* The playback of a recorded run: the main process reads a log and sends  *)
(* its events at their pace (ReplayService in main/replayService.ts,       *)
(* renderEventLog in flightRecorder.ts), the page of replays shows them    *)
(* (useReplay in state/replayStore.ts, ReplaysPage.tsx).                   *)
(*                                                                         *)
(* Calls and what comes back keep their orders.  The events of a playback  *)
(* up to its first pause, and even its end, come before the answer that    *)
(* tells the page which playback it is.  A page that is left and opened    *)
(* again is another page, which does not get the answers of the first.     *)
(***************************************************************************)
EXTENDS Integers, Sequences, FiniteSets

CONSTANTS
  MaxPlays,  \* bound: starts, and calls under way
  Length     \* events of a log

ASSUME PlaybackAssumption == MaxPlays \in Nat /\ Length \in Nat \ {0}

VARIABLES
  calls,    \* the page's calls on their way to the main process
  current,  \* ReplayService.current, 0 for null
  aborted,  \* ReplayService.aborted
  players,  \* players[p]: playback p; they are numbered as they are started
  wire,     \* what is on its way to the page
  page      \* the hook of the page that is open, Closed if none is

playVars == <<calls, current, aborted, players, wire, page>>

Closed == [open |-> FALSE]

(* A session view of which only the playback and its blocks matter. *)
ReplayView(p) == [of |-> p, blocks |-> <<>>]

(* view is of playback 0 if there is none; blocks are what is shown of it. *)
(* crowded says that a start was asked for while another was not answered  *)
(* (history).                                                              *)
Opened == [open |-> TRUE, starting |-> FALSE, early |-> <<>>, view |-> ReplayView(0),
           status |-> [of |-> 0, state |-> "none"], blocks |-> <<>>, crowded |-> FALSE]

InitPlayback ==
  /\ calls = <<>> /\ current = 0 /\ aborted = {}
  /\ players = <<>> /\ wire = <<>> /\ page = Closed

-----------------------------------------------------------------------------
(* The main process. *)

(* start, up to its await; a current playback is to stop. *)
HandleStart ==
  /\ calls # <<>> /\ Head(calls).op = "start" /\ calls' = Tail(calls)
  /\ current' = Len(players) + 1
  /\ aborted' = IF current = 0 THEN aborted ELSE aborted \cup {current}
  /\ players' = Append(players, [at |-> "reading", sent |-> 0, mine |-> Head(calls).mine])
  /\ UNCHANGED <<wire, page>>

(* stop. *)
HandleStop ==
  /\ calls # <<>> /\ Head(calls).op = "stop" /\ calls' = Tail(calls)
  /\ aborted' = IF Head(calls).of = current THEN aborted \cup {current} ELSE aborted
  /\ UNCHANGED <<current, players, wire, page>>

Message(kind, p, state, seq) == [kind |-> kind, of |-> p, state |-> state, seq |-> seq]
Events(p, n) == [i \in 1..(n - players[p].sent) |-> Message("event", p, "none", players[p].sent + i)]
Status(p, state) == IF state = "playing" THEN <<>> ELSE <<Message("status", p, state, 0)>>

(* How far renderEventLog gets until it pauses or ends, and what it is     *)
(* then: aborted is looked at before each event, but not between a pause   *)
(* and its event.  After the last event there may be entries that show     *)
(* nothing, before which it is looked at too.                              *)
Reaches(p, paused) ==
  LET next == players[p].sent + (IF paused THEN 1 ELSE 0) IN
  IF p \in aborted
  THEN {<<next, "aborted">>} \cup (IF next = Length THEN {<<next, "done">>} ELSE {})
  ELSE {<<n, "playing">> : n \in (players[p].sent + 1)..(Length - 1)} \cup {<<Length, "done">>}

(* It gets there; the end is followed by finally. *)
GetsTo(p, n, state) ==
  /\ players' = [players EXCEPT ![p].sent = n, ![p].at = state]
  /\ IF state = "playing" THEN UNCHANGED <<current, aborted>>
     ELSE /\ aborted' = aborted \ {p}
          /\ current' = IF current = p THEN 0 ELSE current

(* The log is read: what comes before the first pause, and the answer.     *)
ReadLog(p) ==
  /\ players[p].at = "reading"
  /\ \E r \in Reaches(p, FALSE) :
       /\ GetsTo(p, r[1], r[2])
       /\ wire' = wire \o Events(p, r[1]) \o Status(p, r[2]) \o <<Message("reply", p, "playing", 0)>>
  /\ UNCHANGED <<calls, page>>

(* It cannot be read: the playback stays current. *)
FailRead(p) ==
  /\ players[p].at = "reading"
  /\ players' = [players EXCEPT ![p].at = "error"]
  /\ wire' = Append(wire, Message("reply", p, "error", 0))
  /\ UNCHANGED <<calls, current, aborted, page>>

(* A pause is over. *)
Resume(p) ==
  /\ players[p].at = "playing"
  /\ \E r \in Reaches(p, TRUE) :
       /\ GetsTo(p, r[1], r[2])
       /\ wire' = wire \o Events(p, r[1]) \o Status(p, r[2])
  /\ UNCHANGED <<calls, page>>

-----------------------------------------------------------------------------
(* The page. *)

OpenPage ==
  /\ ~page.open /\ page' = Opened
  /\ UNCHANGED <<calls, current, aborted, players, wire>>

StatusIs(state) == page.open /\ page.status.state = state

(* start, up to its await. *)
Play ==
  /\ page.open /\ ~StatusIs("playing")
  /\ Len(players) + Cardinality({i \in DOMAIN calls : calls[i].op = "start"}) < MaxPlays
  /\ calls' = Append(calls, [op |-> "start", of |-> 0, mine |-> TRUE])
  /\ page' = [page EXCEPT !.starting = TRUE, !.early = <<>>, !.blocks = <<>>,
                          !.view = ReplayView(0), !.crowded = @ \/ page.starting]
  /\ UNCHANGED <<current, aborted, players, wire>>

(* stop: the playback that is watched, or else the one of the status. *)
Stop ==
  /\ StatusIs("playing")
  /\ Len(calls) < MaxPlays
  /\ calls' = Append(calls, [op |-> "stop", mine |-> TRUE,
                             of |-> IF page.view.of # 0 THEN page.view.of ELSE page.status.of])
  /\ UNCHANGED <<current, aborted, players, wire, page>>

(* The page is left, and stops what it shows as playing. *)
ClosePage ==
  LET disowned == [i \in DOMAIN calls |-> [calls[i] EXCEPT !.mine = FALSE]] IN
  /\ page.open /\ page' = Closed
  /\ calls' = IF StatusIs("playing")
              THEN Append(disowned, [op |-> "stop", of |-> page.status.of, mine |-> FALSE])
              ELSE disowned
  /\ players' = [p \in DOMAIN players |-> [players[p] EXCEPT !.mine = FALSE]]
  /\ UNCHANGED <<current, aborted, wire>>

(* apply, of more events of the playback that the page pg watches. *)
Applied(pg, seqs) ==
  LET blocks == pg.view.blocks \o seqs IN
  IF seqs = <<>> THEN pg
  ELSE [pg EXCEPT !.view = [of |-> pg.view.of, blocks |-> blocks], !.blocks = blocks]

(* The events of playback p that came before the answer to a start. *)
EarlyOf(pg, p) == IF p \in DOMAIN pg.early THEN pg.early[p] ELSE <<>>

KeptEarly(pg, m) ==
  [p \in DOMAIN pg.early \cup {m.of} |->
     IF p = m.of THEN Append(EarlyOf(pg, p), m.seq) ELSE pg.early[p]]

(* A mutation of StatusAfter: the answer always says "playing". *)
StatusAfterReply(status, p) == [of |-> p, state |-> "playing"]

(* Unless the playback's end came before the answer to its start. *)
StatusAfter(status, p) == IF status.of = p THEN status ELSE [of |-> p, state |-> "playing"]

(* What a message does to the page. *)
Received(m) ==
  CASE m.kind = "event" /\ page.starting -> [page EXCEPT !.early = KeptEarly(page, m)]
    [] m.kind = "event" /\ ~page.starting ->
         IF m.of = page.view.of THEN Applied(page, <<m.seq>>) ELSE page
    [] m.kind = "status" ->
         IF page.starting \/ page.view.of = m.of
         THEN [page EXCEPT !.status = [of |-> m.of, state |-> m.state]] ELSE page
    [] m.kind = "reply" /\ ~players[m.of].mine -> page
    [] m.kind = "reply" /\ players[m.of].mine /\ m.state = "error" ->
         [page EXCEPT !.starting = FALSE, !.early = <<>>]
    [] OTHER ->
         Applied([page EXCEPT !.starting = FALSE, !.early = <<>>, !.view = ReplayView(m.of),
                              !.status = StatusAfter(page.status, m.of)],
                 EarlyOf(page, m.of))

Receive ==
  /\ wire # <<>> /\ wire' = Tail(wire)
  /\ page' = IF page.open THEN Received(Head(wire)) ELSE page
  /\ UNCHANGED <<calls, current, aborted, players>>

PlaybackNext ==
  \/ HandleStart \/ HandleStop \/ Receive
  \/ \E p \in DOMAIN players : ReadLog(p) \/ FailRead(p) \/ Resume(p)
  \/ OpenPage \/ Play \/ Stop \/ ClosePage

-----------------------------------------------------------------------------
(* Properties. *)

PlaybackTypeOK ==
  /\ current \in 0..Len(players) /\ aborted \subseteq DOMAIN players
  /\ Len(players) <= MaxPlays
  /\ \A p \in DOMAIN players : players[p].sent \in 0..Length

Over(p) == players[p].at \notin {"reading", "playing"}

(* Whatever else plays, another playback has been told to stop: at most    *)
(* one goes on to its end (the comment of ReplayService.current).          *)
OneGoesOn == \A p \in DOMAIN players : Over(p) \/ p = current \/ p \in aborted

(* What the page shows of the playback it watches is a beginning of it,    *)
(* without a gap, though the first events come before the page knows whose *)
(* they are; and when nothing plays and nothing is under way, the page     *)
(* does not say that something plays.  Both hold on a page that did not    *)
(* ask for a start while another was not answered.                         *)
PlaybackIsWhole ==
  /\ OneGoesOn
  /\ page.open /\ ~page.crowded =>
       /\ page.blocks = page.view.blocks
       /\ \A i \in DOMAIN page.blocks : page.blocks[i] = i
       /\ calls = <<>> /\ wire = <<>> /\ (\A p \in DOMAIN players : Over(p)) => ~StatusIs("playing")
=============================================================================
