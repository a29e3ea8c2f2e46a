---------------------------- MODULE SessionStream ----------------------------
(***************************************************************************)
(* How the window of the desktop application follows its sessions.  The    *)
(* main process keeps the sessions (sessionRegistry.ts), numbers what each *)
(* of them says and retains the last of it in a ring (emitEvent and        *)
(* history in sessionHost.ts), and pushes envelopes and snapshots to the   *)
(* window (index.ts, ipc.ts).  The window (renderer/state/sessionsStore.ts,*)
(* transcript.ts, hud.ts) folds envelopes into a transcript; it asks for   *)
(* the history it lacks, one fetch per session at a time.                  *)
(*                                                                         *)
(* The window may be closed or reloaded at any moment: what was on its way *)
(* is lost, and the next window starts from nothing.  Pushes and replies   *)
(* reach a window in the order they were sent.  A callback of the main     *)
(* process, and a task of the window, run alone.                           *)
(***************************************************************************)
EXTENDS Integers, SequencesExt, FiniteSetsExt

CONSTANTS
  Sessions,    \* the sessions that may be created
  CallIds,     \* ids of a turn's tool calls
  RingCap,     \* RING_CAP: envelopes a session retains
  MaxEvents,   \* bound: what a session says
  MaxWindows,  \* bound: windows opened
  MaxInFlight  \* bound: messages on their way to the window

ASSUME StreamAssumption ==
  /\ RingCap \in Nat \ {0}
  /\ MaxEvents \in Nat /\ MaxWindows \in Nat \ {0} /\ MaxInFlight \in Nat \ {0}

VARIABLES
  phase,    \* phase[s]: none, creating, live (in the registry), removed
  host,     \* host[s]: status, turns begun, aborting: what a snapshot tells
  open,     \* open[s]: tool calls of the turn that have no result yet
  last,     \* last[s]: lastTerminal, the turn's last done or error
  log,      \* log[s]: everything s has said; the n-th has seq n (history)
  ring,     \* ring[s]: the seqs retained
  windows,  \* windows opened so far
  window,   \* is there a window
  channel,  \* pushes and replies on their way to the window
  calls,    \* the window's requests the main process has not answered
  views,    \* byId: of each session known, its snapshot, the turn the view
            \* began with, and the envelopes folded into it
  chain     \* catchUps: per session, the fetches to make, the first under way

main     == <<phase, host, open, last, log, ring>>
renderer == <<views, chain>>
wire     == <<channel, calls>>
streamVars == <<main, renderer, wire, windows, window>>

NoView == [snap |-> {}]
Idle   == [status |-> "idle", turns |-> 0, aborting |-> FALSE]

Runs(s) == host[s].status = "running"

StreamInit ==
  /\ phase = [s \in Sessions |-> "none"]
  /\ host = [s \in Sessions |-> Idle]
  /\ open = [s \in Sessions |-> {}] /\ last = [s \in Sessions |-> "none"]
  /\ log = [s \in Sessions |-> <<>>] /\ ring = [s \in Sessions |-> {}]
  /\ windows = 0 /\ window = FALSE
  /\ channel = <<>> /\ calls = {}
  /\ views = [s \in Sessions |-> NoView]
  /\ chain = [s \in Sessions |-> <<>>]

-----------------------------------------------------------------------------
(* The main process. *)

(* send: nothing, when the window is gone. *)
Sent(messages) == IF window THEN channel \o messages ELSE channel

(* changed: silent once the session is disposed. *)
Told(s, h) ==
  IF phase[s] = "removed" THEN <<>> ELSE <<[kind |-> "changed", of |-> s, snap |-> h]>>

(* A mutation of Evicted: whatever is oldest goes. *)
EvictedOldest(kept, said) ==
  IF Cardinality(kept) <= RingCap THEN kept ELSE kept \ {Min(kept)}

(* Beyond the cap the oldest thinking goes, or the oldest, if none thinks. *)
Evicted(kept, said) ==
  LET thoughts == {n \in kept : said[n].kind = "thinking"} IN
  IF Cardinality(kept) <= RingCap THEN kept
  ELSE kept \ {Min(IF thoughts # {} THEN thoughts ELSE kept)}

(* emitEvent, and the snapshot h that follows some events. *)
Emit(s, e, h, told) ==
  /\ host' = [host EXCEPT ![s] = h]
  /\ IF phase[s] = "removed"
     THEN /\ channel' = Sent(IF told THEN Told(s, h) ELSE <<>>)
          /\ UNCHANGED <<log, ring>>
     ELSE LET n == Len(log[s]) + 1 IN
          /\ log' = [log EXCEPT ![s] = Append(@, e)]
          /\ ring' = [ring EXCEPT ![s] = Evicted(@ \cup {n}, log'[s])]
          /\ channel' = Sent(<<[kind |-> "event", of |-> s, seq |-> n]>>
                             \o IF told THEN Told(s, h) ELSE <<>>)
  /\ UNCHANGED <<phase, calls, renderer, windows, window>>

Event(kind, turn, what) == [kind |-> kind, turn |-> turn, what |-> what]

(* Room in the channel, and seqs left for the end of the turn. *)
MayEmit(s, reserve) ==
  /\ Len(channel) < MaxInFlight
  /\ Len(log[s]) + reserve < MaxEvents

(* run: the turn begins. *)
RunBegin(s) ==
  LET h == [status |-> "running", turns |-> host[s].turns + 1, aborting |-> FALSE] IN
  /\ phase[s] = "live" /\ views[s] # NoView
  /\ ~Runs(s) /\ MayEmit(s, 2)
  /\ last' = [last EXCEPT ![s] = "none"]
  /\ UNCHANGED open
  /\ Emit(s, Event("turn_start", h.turns, "task"), h, TRUE)

(* The engine streams a thought, calls a tool, reports a result. *)
Think(s) ==
  /\ Runs(s) /\ last[s] = "none" /\ MayEmit(s, 2)
  /\ UNCHANGED <<open, last>>
  /\ Emit(s, Event("thinking", host[s].turns, "text"), host[s], FALSE)

ToolCall(s, c) ==
  /\ Runs(s) /\ last[s] = "none" /\ c \notin open[s] /\ MayEmit(s, 3)
  /\ open' = [open EXCEPT ![s] = @ \cup {c}]
  /\ UNCHANGED last
  /\ Emit(s, Event("tool_call", host[s].turns, c), host[s], FALSE)

ToolResult(s, c) ==
  /\ Runs(s) /\ c \in open[s] /\ MayEmit(s, 2)
  /\ open' = [open EXCEPT ![s] = @ \ {c}]
  /\ UNCHANGED last
  /\ Emit(s, Event("tool_result", host[s].turns, c), host[s], FALSE)

(* A terminal event of the engine; an interrupted run reports an error and *)
(* then that it is done.  What run's catch reports is an error too.        *)
Terminal(s, kind) ==
  /\ Runs(s) /\ open[s] = {} /\ MayEmit(s, 1)
  /\ last[s] = "none" \/ (last[s] = "error" /\ kind = "done")
  /\ last' = [last EXCEPT ![s] = kind]
  /\ UNCHANGED open
  /\ Emit(s, Event(kind, host[s].turns, "digest"), host[s], TRUE)

Outcome(s) ==
  CASE host[s].aborting    -> "aborted"
    [] last[s] = "error"   -> "error"
    [] OTHER               -> "completed"

(* run's last lines, once the engine's promise settles. *)
RunEnd(s) ==
  LET h == [host[s] EXCEPT !.status = IF Outcome(s) = "error" THEN "error" ELSE "idle",
                           !.aborting = FALSE] IN
  /\ Runs(s) /\ last[s] # "none" /\ MayEmit(s, 0)
  /\ UNCHANGED <<open, last>>
  /\ Emit(s, Event("turn_end", host[s].turns, Outcome(s)), h, TRUE)

(* abort: what the engine does of it is above. *)
AbortSession(s) ==
  /\ phase[s] = "live" /\ views[s] # NoView
  /\ Runs(s) /\ Len(channel) < MaxInFlight
  /\ host' = [host EXCEPT ![s].aborting = TRUE]
  /\ channel' = Sent(Told(s, host'[s]))
  /\ UNCHANGED <<phase, open, last, log, ring, calls, renderer, windows, window>>

(* remove: dispose, and the registry forgets the session; its run goes on. *)
RemoveSession(s) ==
  /\ phase[s] = "live" /\ views[s] # NoView
  /\ phase' = [phase EXCEPT ![s] = "removed"]
  /\ host' = [host EXCEPT ![s].aborting = Runs(s)]
  /\ channel' = Sent(<<[kind |-> "removed", of |-> s]>>)
  /\ UNCHANGED <<open, last, log, ring, calls, renderer, windows, window>>

(* create: the directory, the backend and the model are awaited first. *)
Created(s) ==
  LET call == [kind |-> "create", of |-> s] IN
  /\ phase[s] = "creating"
  /\ phase' = [phase EXCEPT ![s] = "live"]
  /\ channel' = Sent(IF call \in calls THEN <<[kind |-> "created", of |-> s, snap |-> host[s]]>>
                     ELSE <<>>)
  /\ calls' = calls \ {call}
  /\ UNCHANGED <<host, open, last, log, ring, renderer, windows, window>>

Live == {s \in Sessions : phase[s] = "live"}

(* list: the snapshots of the sessions there are. *)
ListSessions ==
  /\ [kind |-> "list"] \in calls
  /\ channel' = Sent(<<[kind |-> "listed", snaps |-> [s \in Live |-> host[s]]]>>)
  /\ calls' = calls \ {[kind |-> "list"]}
  /\ UNCHANGED <<main, renderer, windows, window>>

(* history: refused for a session the registry does not know. *)
History(s) ==
  \E c \in calls :
    /\ c.kind = "history" /\ c.of = s
    /\ channel' = Sent(<<[kind |-> "history", of |-> s, ok |-> s \in Live,
                          seqs |-> {n \in ring[s] : n > c.since}]>>)
    /\ calls' = calls \ {c}
    /\ UNCHANGED <<main, renderer, windows, window>>

-----------------------------------------------------------------------------
(* The transcript: what the envelopes of a view have been folded into. *)

Block(kind, n, turn, what, status) ==
  [kind |-> kind, id |-> n, turn |-> turn, what |-> what, status |-> status]

(* receiptsIndex: where the turn's receipts card is, 0 if there is none. *)
CardOf(blocks, turn) ==
  LET mine(i, kind) == blocks[i].kind = kind /\ blocks[i].turn = turn
      cards == {i \in DOMAIN blocks :
                  /\ mine(i, "receipts")
                  /\ \A j \in DOMAIN blocks : j > i => ~mine(j, "user")}
  IN  IF cards = {} THEN 0 ELSE Max(cards)

(* A mutation of Receipts: a second terminal event leaves a card of its own. *)
ReceiptsOfEach(blocks, n, turn, status) ==
  Append(blocks, Block("receipts", n, turn, "digest", status))

(* receipts: a second terminal event updates the card. *)
Receipts(blocks, n, turn, status) ==
  LET i == CardOf(blocks, turn) IN
  IF i = 0 THEN Append(blocks, Block("receipts", n, turn, "digest", status))
  ELSE [blocks EXCEPT ![i].status = status]

(* turn_end: a turn without a card gets one. *)
Ended(blocks, n, turn, outcome) ==
  CASE CardOf(blocks, turn) = 0 ->
         Append(blocks, Block("receipts", n, turn, "digest",
                              IF outcome = "aborted" THEN "aborted" ELSE "error"))
    [] CardOf(blocks, turn) # 0 /\ outcome = "aborted" -> Receipts(blocks, n, turn, "aborted")
    [] OTHER -> blocks

(* The running block of a call; there is at most one. *)
RunningBlocks(blocks, c) ==
  {i \in DOMAIN blocks : /\ blocks[i].kind = "tool" /\ blocks[i].what = c
                         /\ blocks[i].status = "running"}

(* The blocks the n-th event leaves, in a turn. *)
BlocksAfter(blocks, n, turn, e) ==
  CASE e.kind = "turn_start" -> Append(blocks, Block("user", n, turn, e.what, "over"))
    [] e.kind = "thinking" ->
         IF blocks # <<>> /\ Last(blocks).kind = "thinking" /\ Last(blocks).turn = turn
         THEN blocks
         ELSE Append(blocks, Block("thinking", n, turn, e.what, "over"))
    [] e.kind = "tool_call" -> Append(blocks, Block("tool", n, turn, e.what, "running"))
    [] e.kind = "tool_result" ->
         IF RunningBlocks(blocks, e.what) = {}
         THEN Append(blocks, Block("tool", n, turn, e.what, "over"))
         ELSE [blocks EXCEPT ![Min(RunningBlocks(blocks, e.what))].status = "over"]
    [] e.kind = "done"     -> Receipts(blocks, n, turn, "completed")
    [] e.kind = "error"    -> Receipts(blocks, n, turn, "error")
    [] e.kind = "turn_end" -> Ended(blocks, n, turn, e.what)

(* applyHudEvent: what the session seems to be doing. *)
ActivityAfter(activity, e) ==
  CASE e.kind \in {"turn_start", "thinking", "tool_result"} -> "thinking"
    [] e.kind = "tool_call"         -> "tool"
    [] e.kind \in {"done", "error"} -> e.kind
    [] e.kind = "turn_end" -> IF activity \in {"done", "error"} THEN activity ELSE "idle"

EmptyView(snap) == [snap |-> snap, base |-> snap.turns, applied |-> {}]

LastSeq(view) == IF view.applied = {} THEN 0 ELSE Max(view.applied)

(* Was the envelope not applied before? *)
Fresh(view, n) == n > LastSeq(view)

(* applyEnvelopes, of envelopes in order: those applied already are skipped. *)
ApplyAll(view, seqs) == [view EXCEPT !.applied = @ \cup {n \in seqs : Fresh(view, n)}]

(* applyEnvelope: the n-th event is folded into v. *)
ApplyEnvelope(v, n, e) ==
  LET turn == IF e.kind = "turn_start" THEN e.turn ELSE v.turn
  IN  [blocks |-> BlocksAfter(v.blocks, n, turn, e), turn |-> turn,
       activity |-> ActivityAfter(v.activity, e)]

(* All that was applied, from emptySessionView on. *)
Fold(s) ==
  LET k == LastSeq(views[s])
      f[n \in 0..k] ==
        IF n = 0 THEN [blocks |-> <<>>, turn |-> views[s].base, activity |-> "idle"]
        ELSE IF n \in views[s].applied THEN ApplyEnvelope(f[n - 1], n, log[s][n])
        ELSE f[n - 1]
  IN  f[k]

-----------------------------------------------------------------------------
(* The window's store. *)

(* The tasks of the window run to their end: a fetch that can be made, or  *)
(* be skipped, goes before the next message.                               *)
Waits(s)  == chain[s] # <<>> /\ ~Head(chain[s]).asked
AtRest    == window /\ \A s \in Sessions : ~Waits(s)
Received(kind) == AtRest /\ channel # <<>> /\ Head(channel).kind = kind

Link(pending) == [pending |-> pending, asked |-> FALSE]

(* mergeSnapshot. *)
Merged(s, snap) == IF views[s] = NoView THEN EmptyView(snap) ELSE [views[s] EXCEPT !.snap = snap]

Receive == channel' = Tail(channel) /\ UNCHANGED <<main, windows, window>>

(* The head of the chain begins: its envelope may be next by now, and is   *)
(* applied; otherwise the history since the view's last is asked for.      *)
StartFetch(s) ==
  LET l == Head(chain[s]) IN
  /\ window /\ Waits(s)
  /\ CASE views[s] = NoView ->
            /\ chain' = [chain EXCEPT ![s] = Tail(@)]
            /\ UNCHANGED <<views, calls>>
       [] views[s] # NoView /\ l.pending # 0 /\ l.pending <= LastSeq(views[s]) + 1 ->
            /\ views' = [views EXCEPT ![s] = ApplyAll(@, {l.pending})]
            /\ chain' = [chain EXCEPT ![s] = Tail(@)]
            /\ UNCHANGED calls
       [] OTHER ->
            /\ calls' = calls \cup {[kind |-> "history", of |-> s, since |-> LastSeq(views[s])]}
            /\ chain' = [chain EXCEPT ![s] = <<[l EXCEPT !.asked = TRUE]>> \o Tail(@)]
            /\ UNCHANGED views
  /\ UNCHANGED <<main, channel, windows, window>>

(* A mutation of FetchOver: a fetch that settled keeps its place. *)
FetchKept(s) == chain[s]

(* The fetch settles, whatever came of it, and the next in the chain goes. *)
FetchOver(s) == Tail(chain[s])

(* The answer to a fetch: the history, then the envelope that was waiting. *)
OnHistory ==
  LET m == Head(channel)
      pending == {Head(chain[m.of]).pending} \ {0}
  IN  /\ Received("history")
      /\ views' = IF m.ok /\ views[m.of] # NoView
                  THEN [views EXCEPT ![m.of] = ApplyAll(ApplyAll(@, m.seqs), pending)] ELSE views
      /\ chain' = [chain EXCEPT ![m.of] = FetchOver(m.of)]
      /\ Receive /\ UNCHANGED calls

(* May the envelope be applied at once: nothing is missing, nor fetched. *)
IsNext(s, n) == n = LastSeq(views[s]) + 1 /\ chain[s] = <<>>

(* onEnvelope. *)
OnEnvelope ==
  LET m == Head(channel)
      s == m.of
      known == views[s] # NoView
  IN  /\ Received("event")
      /\ CASE ~known \/ (known /\ m.seq <= LastSeq(views[s])) -> UNCHANGED renderer
           [] known /\ m.seq > LastSeq(views[s]) /\ IsNext(s, m.seq) ->
                /\ views' = [views EXCEPT ![s] = ApplyAll(@, {m.seq})]
                /\ UNCHANGED chain
           [] known /\ m.seq > LastSeq(views[s]) /\ ~IsNext(s, m.seq) ->
                /\ chain' = [chain EXCEPT ![s] = Append(@, Link(m.seq))]
                /\ UNCHANGED views
      /\ Receive /\ UNCHANGED calls

(* The history of a session seen for the first time is fetched. *)
FetchedWhenNew(s) == IF views[s] = NoView THEN Append(chain[s], Link(0)) ELSE chain[s]

(* onSessionChanged. *)
OnChanged ==
  LET m == Head(channel) IN
  /\ Received("changed")
  /\ views' = [views EXCEPT ![m.of] = Merged(m.of, m.snap)]
  /\ chain' = [chain EXCEPT ![m.of] = FetchedWhenNew(m.of)]
  /\ Receive /\ UNCHANGED calls

(* removeView. *)
OnRemoved ==
  /\ Received("removed")
  /\ views' = [views EXCEPT ![Head(channel).of] = NoView]
  /\ Receive /\ UNCHANGED <<chain, calls>>

(* The history of every session listed is fetched. *)
FetchedWhenListed(s) == Append(chain[s], Link(0))

(* The reply to refresh: these sessions and no others. *)
OnListed ==
  LET snaps == Head(channel).snaps IN
  /\ Received("listed")
  /\ views' = [s \in Sessions |-> IF s \in DOMAIN snaps THEN Merged(s, snaps[s]) ELSE NoView]
  /\ chain' = [s \in Sessions |->
                 IF s \in DOMAIN snaps THEN FetchedWhenListed(s) ELSE chain[s]]
  /\ Receive /\ UNCHANGED calls

(* The reply to create. *)
OnCreated ==
  /\ Received("created")
  /\ views' = [views EXCEPT ![Head(channel).of] = Merged(Head(channel).of, Head(channel).snap)]
  /\ Receive /\ UNCHANGED <<chain, calls>>

(* The user creates a session. *)
Create(s) ==
  /\ AtRest /\ phase[s] = "none"
  /\ phase' = [phase EXCEPT ![s] = "creating"]
  /\ calls' = calls \cup {[kind |-> "create", of |-> s]}
  /\ UNCHANGED <<host, open, last, log, ring, renderer, channel, windows, window>>

(* initSessionsStore: subscribe, then refresh. *)
OpenWindow ==
  /\ ~window /\ windows < MaxWindows
  /\ window' = TRUE /\ windows' = windows + 1
  /\ calls' = {[kind |-> "list"]}
  /\ UNCHANGED <<main, renderer, channel>>

(* The window is closed, or begins to reload. *)
CloseWindow ==
  /\ window /\ windows < MaxWindows
  /\ window' = FALSE
  /\ channel' = <<>> /\ calls' = {}
  /\ views' = [s \in Sessions |-> NoView]
  /\ chain' = [s \in Sessions |-> <<>>]
  /\ UNCHANGED <<main, windows>>

-----------------------------------------------------------------------------
EngineOf(s) ==
  \/ RunBegin(s) \/ Think(s) \/ RunEnd(s) \/ AbortSession(s) \/ RemoveSession(s)
  \/ \E c \in CallIds : ToolCall(s, c) \/ ToolResult(s, c)
  \/ \E kind \in {"done", "error"} : Terminal(s, kind)

Reply == ListSessions \/ \E s \in Sessions : Created(s) \/ History(s)

Task ==
  \/ OnEnvelope \/ OnChanged \/ OnRemoved \/ OnListed \/ OnCreated \/ OnHistory
  \/ \E s \in Sessions : StartFetch(s)

StreamNext ==
  \/ \E s \in Sessions : EngineOf(s) \/ Create(s)
  \/ Reply \/ Task \/ OpenWindow \/ CloseWindow

(* Both processes run what they have to run. *)
Fairness == WF_streamVars(Task) /\ WF_streamVars(Reply)

StreamSpec == StreamInit /\ [][StreamNext]_streamVars /\ Fairness

-----------------------------------------------------------------------------
(* Properties. *)

Known == {s \in Sessions : views[s] # NoView}

(* The ring holds no more than its cap and never what was not said; a      *)
(* window knows only what was said; the channel and the chains are those   *)
(* of a window that is there.                                              *)
StreamTypeOK ==
  /\ phase \in [Sessions -> {"none", "creating", "live", "removed"}]
  /\ \A s \in Sessions :
       /\ ring[s] \subseteq 1..Len(log[s]) /\ Cardinality(ring[s]) <= RingCap
       /\ s \in Known => LastSeq(views[s]) \in 0..Len(log[s])
       /\ open[s] \subseteq CallIds
  /\ ~window => channel = <<>> /\ calls = {} /\ Known = {}

(* The turn the n-th event of s is of, and what the transcript should show *)
(* for the first k events: the task of each turn, each tool call with its  *)
(* result if there was one, and one card per turn, which tells how the     *)
(* turn ended.                                                             *)
CardAt(s, n, k) ==
  LET turn == log[s][n].turn
      ends == {i \in 1..k : log[s][i].turn = turn /\ log[s][i].kind \in {"done", "error"}}
      aborted == \E i \in 1..k : log[s][i] = Event("turn_end", turn, "aborted")
  IN  CASE aborted -> "aborted"
        [] ~aborted /\ ends = {} -> "error"
        [] ~aborted /\ ends # {} -> IF log[s][Max(ends)].kind = "done" THEN "completed" ELSE "error"

IsCard(s, n) ==
  /\ log[s][n].kind \in {"done", "error", "turn_end"}
  /\ \A i \in 1..(n - 1) :
       ~(log[s][i].turn = log[s][n].turn /\ log[s][i].kind \in {"done", "error"})

Answered(s, n, k) ==
  \E i \in (n + 1)..k : log[s][i] = Event("tool_result", log[s][n].turn, log[s][n].what)

Shows(s, n) == log[s][n].kind \in {"turn_start", "tool_call"} \/ IsCard(s, n)

Shown(s, n, k) ==
  LET e == log[s][n] IN
  CASE e.kind = "turn_start" -> Block("user", n, e.turn, "task", "over")
    [] e.kind = "tool_call"  -> Block("tool", n, e.turn, e.what,
                                      IF Answered(s, n, k) THEN "over" ELSE "running")
    [] OTHER -> Block("receipts", n, e.turn, "digest", CardAt(s, n, k))

Expected(s, k) == {Shown(s, n, k) : n \in {i \in 1..k : Shows(s, i)}}

InOrder(blocks) == \A i, j \in DOMAIN blocks : i < j => blocks[i].id < blocks[j].id

(* As long as the ring can hold all that is not a thought, a window has    *)
(* every such envelope up to the last it has, whenever it was opened and   *)
(* whatever it missed (the comment at the eviction in emitEvent).          *)
IsWhole(s) ==
  \A n \in 1..LastSeq(views[s]) : log[s][n].kind # "thinking" => n \in views[s].applied

OnlyThoughtsAreLost ==
  \A s \in Known :
    Cardinality({n \in DOMAIN log[s] : log[s][n].kind # "thinking"}) <= RingCap => IsWhole(s)

(* When nothing is on its way, the window agrees with the main process: it *)
(* shows each session that has begun a turn and none that was removed, and *)
(* of each the present state and all that is retained.  While a turn runs, *)
(* the last thought may be neither retained nor shown; once it has ended,  *)
(* all that was said has been shown to its end.                            *)
AgreesAtRest ==
  (AtRest /\ channel = <<>> /\ calls = {}) =>
    /\ Known \subseteq Live
    /\ \A s \in Live : log[s] # <<>> => s \in Known
    /\ \A s \in Known :
         /\ views[s].snap = host[s]
         /\ \A n \in ring[s] : n <= LastSeq(views[s])
         /\ ~Runs(s) => LastSeq(views[s]) = Len(log[s])

(* At every moment of the conversation between window and main process,    *)
(* and when it rests.                                                      *)
WindowIsSound == StreamTypeOK /\ OnlyThoughtsAreLost /\ AgreesAtRest

(* However often the window was reloaded, and whatever it repeated or      *)
(* received late, its transcript is that of the events up to its last,     *)
(* thoughts aside, if it has those, each block once and in the order of    *)
(* the events; and it says that something is being done only while a turn  *)
(* runs.                                                                   *)
TranscriptIsFaithful ==
  \A s \in Known :
    /\ IsWhole(s) =>
         LET blocks == Fold(s).blocks IN
         /\ InOrder(blocks)
         /\ {b \in Range(blocks) : b.kind # "thinking"} = Expected(s, LastSeq(views[s]))
    /\ s \in Live /\ ~Runs(s) /\ LastSeq(views[s]) = Len(log[s]) =>
         Fold(s).activity \in {"idle", "done", "error"}

(* The window catches up with a session, in the end, unless it closes or   *)
(* the session is removed: no fetch is left waiting for another.           *)
EventuallyShown ==
  \A s \in Sessions :
    (window /\ s \in Live /\ log[s] # <<>>)
      ~> (~window \/ s \notin Live \/ (s \in Known /\ \A n \in ring[s] : n <= LastSeq(views[s])))
=============================================================================
