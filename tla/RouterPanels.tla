---------------------------- MODULE RouterPanels ----------------------------
(***************************************************************************)
(* The router page of the desktop application: one mounted panel at a time *)
(* (pages/RouterPage.tsx), each of which reads a list by the useAsync hook,*)
(* on mount, by polling while the page is visible, and on demand, and lets *)
(* the user change what is listed: switch, test and delete providers, edit *)
(* and delete combos, create and delete keys (components/router).  The     *)
(* usage panel also follows a stream that the main process keeps open      *)
(* (main/ipc.ts, usageStream in main/routerClient.ts).                     *)
(*                                                                         *)
(* Requests are answered in any order.  What a panel awaited when it is    *)
(* left goes on at the daemon and is, to the next panel, a change made by  *)
(* somebody else.  A panel's lists do not interact, so each has one; the   *)
(* catalog of models that the editor of combos searches is left out.       *)
(***************************************************************************)
EXTENDS RouterData, Bags

CONSTANTS
  Items,        \* what a list holds
  MaxReads,     \* bound: reads under way
  MaxJobs,      \* bound: changes under way
  MinPoll,      \* MIN_POLL_MS
  DefaultPoll,  \* DEFAULT_POLL_MS
  Polls         \* the intervals that may be saved, 0 for none

ASSUME PanelAssumption ==
  /\ MaxReads \in Nat \ {0} /\ MaxJobs \in Nat \ {0}
  /\ MinPoll \in Nat \ {0} /\ DefaultPoll \in Nat /\ DefaultPoll >= MinPoll
  /\ Polls \subseteq Nat /\ None \notin Items /\ 0 \notin Items

VARIABLES
  tab,       \* the panel mounted, "away" if none is
  visible,   \* the document is not hidden
  poll,      \* pollDefault and pollLoaded: the interval, and its request
  reads,     \* the reads under way, a bag
  shown,     \* what useAsync returns
  jobs,      \* the changes under way, a bag
  busy,      \* the item being changed, None if none is
  deleting,  \* the item whose deletion is to be confirmed
  editor,    \* the dialog of a new or edited combo, or of a new key
  link,      \* the stream of usage: off, trying, open, waiting
  live       \* the totals the stream last brought to the panel

hookVars   == <<poll, reads, shown>>
dialogVars == <<jobs, busy, deleting, editor>>
streamVars == <<link, live>>
panelVars  == <<tab, visible, hookVars, dialogVars, streamVars>>

Tabs == {"providers", "combos", "keys", "models", "usage"}

(* The key that is being created, to busy. *)
NewKey == 0

Unread == [data |-> None, error |-> FALSE, loading |-> FALSE]

InitPanels ==
  /\ tab = "away" /\ visible = TRUE
  /\ poll = [every |-> DefaultPoll, load |-> "no"]
  /\ reads = EmptyBag /\ shown = Unread
  /\ jobs = EmptyBag /\ busy = None /\ deleting = None /\ editor = "closed"
  /\ link = "off" /\ live = None

Mounted == tab # "away"

-----------------------------------------------------------------------------
(* useAsync. *)

(* closes: who awaits it closes the dialog then. *)
Read(closes) == [got |-> None, stale |-> FALSE, closes |-> closes]

One(x) == SetToBag({x})
Swap(bag, x, y) == (bag (-) One(x)) (+) One(y)

Loading == [shown EXCEPT !.loading = TRUE]

(* refresh. *)
Refresh(closes) ==
  /\ BagCardinality(reads) < MaxReads
  /\ reads' = reads (+) One(Read(closes))
  /\ shown' = Loading

(* The teardown of the effect: a read of before cannot show its answer.    *)
(* Only who awaits it still learns of it.                                  *)
Outdated ==
  SetToBag({[q EXCEPT !.stale = TRUE] : q \in {q \in BagToSet(reads) : q.closes}})

(* The daemon reads its table. *)
Serve(q) ==
  /\ up /\ q.got = None
  /\ reads' = Swap(reads, q, [q EXCEPT !.got = table])
  /\ UNCHANGED <<dataVars, tab, visible, poll, shown, dialogVars, streamVars>>

(* The answer, or the failure, of a read. *)
Answer(q, ok) ==
  /\ IF ok THEN q.got # None ELSE ~up
  /\ reads' = reads (-) One(q)
  /\ shown' = IF q.stale THEN shown
              ELSE IF ok THEN [data |-> q.got, error |-> FALSE, loading |-> FALSE]
              ELSE [shown EXCEPT !.error = TRUE, !.loading = FALSE]
  /\ deleting' = IF q.closes THEN None ELSE deleting
  /\ UNCHANGED <<dataVars, tab, visible, poll, jobs, busy, editor, streamVars>>

(* The timer, while the page is visible. *)
Poll ==
  /\ Mounted /\ visible /\ poll.every > 0
  /\ Refresh(FALSE)
  /\ UNCHANGED <<dataVars, tab, visible, poll, dialogVars, streamVars>>

(* The page is hidden, or seen again: then a timer's effect reads at once. *)
Hide ==
  /\ visible /\ visible' = FALSE
  /\ UNCHANGED <<dataVars, tab, hookVars, dialogVars, streamVars>>

Show ==
  /\ ~visible /\ visible' = TRUE
  /\ IF Mounted /\ poll.every > 0 THEN Refresh(FALSE) ELSE UNCHANGED <<reads, shown>>
  /\ UNCHANGED <<dataVars, tab, poll, dialogVars, streamVars>>

(* The Refresh button, or Retry beside an error. *)
Demand ==
  /\ Mounted /\ Refresh(FALSE)
  /\ UNCHANGED <<dataVars, tab, visible, poll, dialogVars, streamVars>>

(* A mutation of SetPollDefault: no least interval. *)
SetPollDefaultAsIs(ms) == ms

(* setPollDefault. *)
SetPollDefault(ms) == IF ms >= MinPoll THEN ms ELSE DefaultPoll

(* The answer of loadPollDefault: another interval is another effect.      *)
PollLoaded(ms) ==
  /\ poll.load = "asked"
  /\ poll' = [every |-> SetPollDefault(ms), load |-> "done"]
  /\ IF Mounted /\ poll'.every # poll.every
     THEN /\ BagCardinality(Outdated) < MaxReads
          /\ reads' = Outdated (+) One(Read(FALSE))
          /\ shown' = Loading
     ELSE UNCHANGED <<reads, shown>>
  /\ UNCHANGED <<dataVars, tab, visible, dialogVars, streamVars>>

(* apply of the settings page, at once and whether the save succeeds. *)
SavePoll(ms) ==
  /\ ~Mounted
  /\ poll' = [poll EXCEPT !.every = SetPollDefault(ms)]
  /\ UNCHANGED <<dataVars, tab, visible, reads, shown, dialogVars, streamVars>>

-----------------------------------------------------------------------------
(* RouterPage. *)

(* What a panel that is left forgets. *)
Fresh ==
  /\ jobs' = EmptyBag /\ busy' = None /\ deleting' = None /\ editor' = "closed"
  /\ live' = None

(* A panel is mounted, and the one before unmounted: usageStreamStart and  *)
(* usageStreamStop reach the main process in their order, at once here.    *)
Mount(t) ==
  /\ tab # t /\ tab' = t /\ Fresh
  /\ link' = IF t = "usage" THEN "trying" ELSE "off"
  /\ poll' = IF poll.load = "no" THEN [poll EXCEPT !.load = "asked"] ELSE poll
  /\ reads' = One(Read(FALSE))
  /\ shown' = [Unread EXCEPT !.loading = TRUE]
  /\ UNCHANGED <<dataVars, visible>>

(* Another page, or another window: a window that is closed or reloaded    *)
(* does not unmount what it shows.  Its stream goes on for nobody, and the *)
(* next panel takes it over: as good as a new one.                         *)
Leave(reloaded) ==
  /\ Mounted /\ tab' = "away" /\ Fresh
  /\ link' = "off"
  /\ poll' = IF reloaded THEN [every |-> DefaultPoll, load |-> "no"] ELSE poll
  /\ reads' = EmptyBag /\ shown' = Unread
  /\ UNCHANGED <<dataVars, visible>>

-----------------------------------------------------------------------------
(* Changes.  The buttons of the item that is busy are disabled; the cross  *)
(* of a dialog and its Escape key never are.                               *)

Begin(what, id) ==
  /\ BagCardinality(jobs) < MaxJobs
  /\ jobs' = jobs (+) One([what |-> what, id |-> id, done |-> FALSE, own |-> TRUE])

(* act and test of ProvidersTable: the switch, Test, or (closing) a        *)
(* deletion confirmed.                                                     *)
Act(id, closing) ==
  /\ tab = "providers" /\ busy # id
  /\ deleting = IF closing THEN id ELSE None
  /\ Begin(IF closing THEN "delete" ELSE "act", id) /\ busy' = id
  /\ UNCHANGED <<dataVars, tab, visible, hookVars, deleting, editor, streamVars>>

(* Delete, of a row. *)
AskDelete(id) ==
  /\ tab \in {"providers", "combos", "keys"} /\ deleting = None /\ editor = "closed"
  /\ tab = "providers" => busy # id
  /\ shown.data # None
  /\ deleting' = id
  /\ UNCHANGED <<dataVars, tab, visible, hookVars, jobs, busy, editor, streamVars>>

Keep ==
  /\ deleting # None /\ deleting' = None
  /\ UNCHANGED <<dataVars, tab, visible, hookVars, jobs, busy, editor, streamVars>>

(* remove of CombosPanel and of KeysPanel. *)
Unlist ==
  /\ tab \in {"combos", "keys"} /\ deleting # None /\ busy = None
  /\ Begin("remove", deleting) /\ busy' = deleting
  /\ UNCHANGED <<dataVars, tab, visible, hookVars, deleting, editor, streamVars>>

(* New combo, Edit, New key. *)
OpenEditor ==
  /\ tab \in {"combos", "keys"} /\ editor = "closed" /\ deleting = None
  /\ editor' = "open"
  /\ UNCHANGED <<dataVars, tab, visible, hookVars, jobs, busy, deleting, streamVars>>

(* The save of an editor that is closed is no longer its own. *)
Disowned(bag) ==
  LET own == {job \in BagToSet(bag) : job.what = "save" /\ job.own}
  IN (bag (-) SetToBag(own)) (+) SetToBag({[job EXCEPT !.own = FALSE] : job \in own})

CloseEditor ==
  /\ editor # "closed" /\ editor' = "closed"
  /\ jobs' = Disowned(jobs)
  /\ UNCHANGED <<dataVars, tab, visible, hookVars, busy, deleting, streamVars>>

(* save of ComboEditor. *)
Save ==
  /\ tab = "combos" /\ editor = "open"
  /\ Begin("save", None) /\ editor' = "saving"
  /\ UNCHANGED <<dataVars, tab, visible, hookVars, busy, deleting, streamVars>>

(* create of KeysPanel: the Enter key asks nobody whether it is busy. *)
CreateKey ==
  /\ tab = "keys" /\ editor = "open"
  /\ Begin("create", NewKey) /\ busy' = NewKey
  /\ UNCHANGED <<dataVars, tab, visible, hookVars, deleting, editor, streamVars>>

(* The daemon makes the change. *)
Perform(job) ==
  /\ up /\ ~job.done
  /\ jobs' = Swap(jobs, job, [job EXCEPT !.done = TRUE])
  /\ table' = Changed(table)
  /\ UNCHANGED <<up, tab, visible, hookVars, busy, deleting, editor, streamVars>>

(* A mutation of Unbusy: only a success resets it. *)
UnbusyWhenDone(job, ok) == IF job.what = "save" \/ ~ok THEN busy ELSE None

(* setBusy at the end of a change, done or failed. *)
Unbusy(job, ok) == IF job.what = "save" THEN busy ELSE None

(* The editor after a change.  A save that succeeds closes whatever editor *)
(* is open by then; a key that was created is shown, the dialog open or    *)
(* not.                                                                    *)
EditorAfter(job, ok) ==
  CASE job.what = "save" /\ ok         -> "closed"
    [] job.what = "save" /\ ~ok        -> IF job.own THEN "open" ELSE editor
    [] job.what = "create" /\ ok       -> "created"
    [] OTHER                           -> editor

(* A failed save or creation reads nothing; everything else reads again.   *)
Return(job, ok) ==
  LET left == jobs (-) One(job) IN
  /\ ok => job.done
  /\ busy' = Unbusy(job, ok)
  /\ editor' = EditorAfter(job, ok)
  /\ jobs' = IF editor' = "closed" THEN Disowned(left) ELSE left
  /\ deleting' = IF job.what = "remove" THEN None ELSE deleting
  /\ IF job.what \in {"save", "create"} /\ ~ok
     THEN UNCHANGED <<reads, shown>>
     ELSE Refresh(job.what = "delete")
  /\ UNCHANGED <<dataVars, tab, visible, poll, streamVars>>

-----------------------------------------------------------------------------
(* The stream of usage.  Its messages reach the window at once; how long   *)
(* usageStream waits, and its connection while nobody looks, is left out.  *)

Link(from, to) ==
  /\ tab = "usage" /\ link = from /\ link' = to
  /\ UNCHANGED <<dataVars, tab, visible, hookVars, dialogVars, live>>

(* readSse connects. *)
Connect == up /\ Link("trying", "open")

(* It cannot, or the stream ends. *)
Drop == ~up /\ \E from \in {"trying", "open"} : Link(from, "waiting")

(* The backoff is over. *)
Retry == Link("waiting", "trying")

(* A message: the totals of now. *)
Push ==
  /\ link = "open" /\ up /\ tab = "usage" /\ live # table
  /\ live' = table
  /\ UNCHANGED <<dataVars, tab, visible, hookVars, dialogVars, link>>

-----------------------------------------------------------------------------
(* Who is at work: the window's timers, and requests on their way. *)
Serves  == \E q \in BagToSet(reads) : Serve(q)
Answers == \E q \in BagToSet(reads), ok \in BOOLEAN : Answer(q, ok)
Streams == Connect \/ Retry \/ Push
Returns == \E job \in BagToSet(jobs), ok \in BOOLEAN : Return(job, ok)

UserOfPanels ==
  \/ Hide \/ Show \/ Demand
  \/ \E t \in Tabs : Mount(t)
  \/ \E reloaded \in BOOLEAN : Leave(reloaded)
  \/ \E id \in Items : AskDelete(id) \/ \E closing \in BOOLEAN : Act(id, closing)
  \/ Keep \/ Unlist \/ OpenEditor \/ CloseEditor \/ Save \/ CreateKey

PanelsNext ==
  \/ UserOfPanels
  \/ Poll \/ \E ms \in Polls : PollLoaded(ms) \/ SavePoll(ms)
  \/ Serves \/ Answers
  \/ \E job \in BagToSet(jobs) : Perform(job)
  \/ Returns
  \/ Drop \/ Streams

-----------------------------------------------------------------------------
(* Properties. *)

Seen == Versions \cup {None}

(* The variables of the page keep their types. *)
PanelsTypeOK ==
  /\ tab \in Tabs \cup {"away"} /\ visible \in BOOLEAN
  /\ poll.every \in Nat /\ poll.load \in {"no", "asked", "done"}
  /\ shown \in [data : Seen, error : BOOLEAN, loading : BOOLEAN]
  /\ \A q \in BagToSet(reads) : q.got \in Seen
  /\ BagCardinality(reads) <= MaxReads /\ BagCardinality(jobs) <= MaxJobs
  /\ busy \in Items \cup {None, NewKey} /\ deleting \in Items \cup {None}
  /\ editor \in {"closed", "open", "saving", "created"}
  /\ live \in Seen
  /\ link \in {"off", "trying", "open", "waiting"}

(* What disables a button or shows a spinner is under way: a spinner has   *)
(* a read of its own, the busy item a change, a saving editor its save.    *)
(* A panel whose request failed can be used again.                         *)
NothingIsStuck ==
  /\ shown.loading => \E q \in BagToSet(reads) : ~q.stale
  /\ busy # None => \E job \in BagToSet(jobs) : job.id = busy
  /\ editor = "saving" => \E job \in BagToSet(jobs) : job.what = "save" /\ job.own

(* What the panel shows: the usage panel prefers the stream. *)
Displayed == IF tab = "usage" /\ live # None THEN live ELSE shown.data

=============================================================================
