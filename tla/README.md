# A verification project for 9rh

9rh is a coding agent: a language model works on a directory through tools
(read, write, shell, search, ...), driven by a loop in `src/src/agent.ts`,
hosted by a command line (`src/src/index.ts`) or a desktop application
(`src/desktop/src/main`). This project models its control in TLA+, checks the
models with TLC on small instances, and proves the central safety properties
with TLAPS for every value of the constants.

Contents: 1 Inventory, 2 Modules and code, 3 Runs, 4 Fairness, 5 Proofs,
6 What the runs found, 7 Abstractions and what is left out, 8 Plan.

## 1 Inventory

### Components, their state and their operations

| Component (source) | State | Operations |
| --- | --- | --- |
| Bounded pool and mutation lock (`src/src/parallel.ts`) | shared item counter, one slot per item, first error; the promise chain `tail` | `mapPool`, `AsyncLock.run` |
| Tool calls of a turn (`src/src/agent.ts` 1093-1170) | the assistant's calls, their results, the conversation | assess risk, run under the lock or not, append the answers |
| Agent loop (`src/src/agent.ts`) | iteration, continuation, step and attempt counters; `stopFlag`, `abortController`, timeout; `report.fileChanges` | `run`, `requestStop`, `abort`, retries, compaction, terminal events |
| Session ledger (`src/src/ledger.ts`, receipts in `src/src/reports`) | a list of turns, each with status and digest | `beginTurn`, `onAgentEvent`, `completeTurn` |
| Desktop session host (`src/desktop/src/main/sessionHost.ts`) | `status`, `abortRequested`, `lastTerminal`, one slot for a pending question, work dir | `run`, `stop`, `abort`, `dispose`, `answerAsk`, `decideApproval`, `setWorkDir`, `rewindApply` |
| Desktop window's sessions (`src/desktop/src/renderer/state`, `main/sessionRegistry.ts`) | main process: ring of envelopes per session, sequence number; window: snapshots, transcript, activity, fetches under way | `emitEvent`, `history`, `list`, `create`, `remove`; `applyEnvelope`, `onSnapshot`, `catchUp`; close and reopen the window |
| Router control (`src/src/init.ts`, `src/desktop/src/main/routerProcess.ts`, `routerUpdate.ts`) | installed copies, daemons, port; one update under way | `ensureRouter`, `start`, `stop`, `restart`, `update`, `forceUpdate` |
| Router page (`renderer/pages/RouterPage.tsx`, `components/router`, `state/useAsync.ts`, `state/routerStore.ts`) | what a panel shows, reads and changes under way, dialogs, the poll interval, the stream of usage | mount, poll, read, switch, test, edit, delete, create; `usageStream` |
| Window's pages and dialogs (`pages/AgentPage.tsx`, `app/App.tsx`, `components/Composer.tsx`, `TeamSuggestDialog.tsx`, `RewindDialog.tsx`) | the active session, the one dialog, the composer's text, the plan shown | submit, pick, cancel, select and remove sessions; `pick`, `restore` |
| Recorded runs (`main/replayService.ts`, `state/replayStore.ts`, `src/src/flightRecorder.ts`) | the current playback, those told to stop; what the page shows | `start`, `stop`, `renderEventLog` |
| Settings (`src/src/config.ts`, `main/appState.ts`, `pages/SettingsPage.tsx`, `NewSessionDialog.tsx`, `backends/detect.ts`) | config.json, desktop.json, forms | `updateUserConfig`, `updateAppState`, `detectBackend` |
| Router commands (`src/src/commands.ts`) | caches of lists, of connections and of models | one operation per command; `fetchModels`, `/refresh`, `/reload` |
| Command line and REPL (`src/src/index.ts`, `src/src/replInput.ts`) | ledger, the line, lines pending, queue of inputs, picker, question | keys, pastes, the coalescer's timer, slash commands, runs, replays |
| Terminal interface (`src/src/tui.ts`) | spinner, thinking, cards of tool calls, receipts box | one operation per event of the agent |
| Team orchestrator (`src/src/orchestrator`) | per-task state, plan and strategy caches, task history, conflict log | `orchestrate`, one call per role, `resolveConflict` |
| Rewind and change recording (`src/src/rewind.ts`, `src/src/reports/workdirSnapshot.ts`, `agent.ts` 729-840) | files, git index, one list of change records per turn | record by `write_file`, by shell snapshots in and outside git; `planRewind`, `applyRewind` |
| Replay log and engine (`src/src/replay/eventLogger.ts`, `replayEngine.ts`) | pending events, scheduled drain, write stream, the file; position, recorded outputs | `log`, `finalize`; `load`, `replay` |
| Checkpoints and branches (`src/src/replay`) | branch index, checkpoint files | `createBranch`, prune |
| Repair (`src/src/repair`) | one circuit breaker, attempts per guarded call | intercept, attempt, escalate, record |
| Sandbox (`src/src/sandbox`) | profile files, shells, the container | run under a profile, directly, in a container; start and stop it |
| Tools, backends, reasoner, prompt shaping, reports | I/O, presentation, or bookkeeping no decision reads | see `components` in PROJECT.json |

### Interactions

```
 user ── command line / desktop host ──> Agent.run ──> model API (streamed)
            │   ▲  terminal events          │
            ▼   │                           ▼
        session ledger               mapPool + AsyncLock ──> tools ──> files, shell
            │ receipts                      │
            ▼                               ▼ change records, replay log
          rewind  <─────────────────  report.fileChanges
```

The host calls `run` once per turn and opens the turn in the ledger. The
engine's terminal events (`done`, `error`) carry the receipt (digest) back to
the ledger by callback; rewind works from those receipts only. The
orchestrator is an alternative driver: its implementer is an agent, its other
roles are single calls of the model.

In the desktop application the main process numbers what a session says and
pushes it to the window, which folds it into a transcript and fetches what it
lacks; window and main process share nothing but these messages. On the command
line the agent's events go straight to the terminal's renderer, which shares
the screen and the keyboard with readline, pickers and questions. Every host
starts the router daemon when it is down; the desktop also stops, restarts and
updates it, while sessions go on.

### Which behaviours are hard

Everything runs on one JavaScript thread, so interleaving happens at `await`s
only, but there are many of them: the workers of a turn's pool and the lock's
chain; stop, abort and timeout arriving at any await of the loop; several
terminal events for one turn, of which the first wins; orchestrator tasks that
share caches; questions to the user, answered late, twice or never; checks made
before an await and relied on after it; a crash while the replay log is being
written; the user's editor writing files between a rewind's check and its
write; a window that is closed while pushes and replies are on their way;
daemons that leave the port before they exit, or ignore a request to stop,
while an update counts them; guarded calls that share a breaker and a repair
agent; commands that leave a process behind; lines, pastes and keys that arrive
while a picker or a run has the terminal; answers to the window's requests that
come late, out of order, or to a page, session or dialog that is gone; files of
settings with several writers; caches filled from caches. `hazards` in PROJECT.json lists each with its line.

### What makes each component correct

* Pool: every item once, each value in its item's slot, no more than `limit`
  in flight, no dispatch after a failure, and the promise settles only when
  nothing is running any more.
* Turn: mutating calls one at a time and in call order, an answer for every
  call in call order, no wait that never ends.
* Loop, ledger, host: every turn ends once, with a receipt that lists every
  recorded change; a closed turn never changes; after a stop no further step,
  after an abort no further request.
* Orchestrator: nothing completes that the reviewer has not approved in its
  delivered version; a rejection by the auditor is final; every conflict is
  settled; every task ends.
* Session: a call that waits for the user can be answered, nothing gated runs
  without a yes to that very call, the status shown is the engine's, an aborted
  turn ends without the user.
* Replay: the log is what was logged, complete once finalized; a replay
  executes the recorded calls, in their order.
* Window: what it shows of a session is what the session said, with no gaps but
  those of the ring, and it catches up.
* Router: a success reported is one; a forced update leaves no daemon of before
  whose command line tells what it is; a stop leaves none listening; every update
  ends.
* Repair, sandbox: a call is reported successful only if its last run was; the
  breaker is not closed at its threshold; no profile outlives a command that was
  begun; the container believed running runs; every call ends, or a process
  it left holds it.
* REPL: a line entered is part of one input, and every input is run, before or
  after the end of input; the prompt comes back without a spinner or a running
  card above it; a turn's receipts are written once.
* Router page and commands: what is shown is recent, a followed panel comes to
  show what is there, and nothing stays busy with no request under way.
* Window: a task runs in the session it was typed for, and is not lost on its
  way; a restore is of the turn shown; the page of recorded runs shows one run
  from its beginning, and knows when it is over.
* Settings: whoever writes one, the others stay as they were saved, as long as the
  file can be read and written.
* Rewind: what only `write_file` changed, and no shell command claims to have
  changed, comes back exactly; nothing that no record of an undone turn tells of is
  overwritten.

## 2 Modules and code

| Module | Models | Extends, instantiates |
| --- | --- | --- |
| `MapPool` | `mapPool` | - |
| `TurnTools` | abstract: what a turn promises about its tool calls | - |
| `ToolBatch` | the batch in `Agent.run`, with `AsyncLock` | instance of `MapPool` (the pool) and of `TurnTools` (refinement) |
| `SessionLedger` | `SessionLedger`, as operators on a sequence of turns | - |
| `AgentRun` | `Agent.run` with the host and the ledger | extends `SessionLedger` |
| `Orchestrator` | `Orchestrator.orchestrate` | - |
| `Rewind` | recording of changes, `planRewind`, `applyRewind` | - |
| `SessionHost` | `SessionHost` between its clients and its engine | - |
| `EventLogger` | `EventLogger`, Node's stream and a crash | - |
| `ReplayEngine` | what the agent logs, and `ReplayEngine` | extends `EventLogger` |
| `SessionStream` | sessions of the main process, their rings, the channel, the window's store | - |
| `RouterControl` | `ensureRouter`, `RouterProcess`, `RouterUpdater` | - |
| `Sandbox` | executors of shell commands | - |
| `Repair` | `withErrorInterception`, breaker, repair agent | extends `Sandbox` |
| `Tui` | the renderer, as operators on a screen | - |
| `Repl` | `runRepl` with its coalescer, pickers and runs | extends `Tui` |
| `RouterData` | what clients see of the daemon: a table that anyone changes | - |
| `RouterPanels` | the router page, `useAsync`, the stream of usage | extends `RouterData` |
| `RouterCommands` | the commands that read the router, and their caches | extends `RouterData` |
| `Settings` | the two files of settings and their writers, `detectBackend` | - |
| `Workbench` | composer, suggestion of a team, dialogs, sessions | - |
| `RewindDialog` | the dialog that plans and restores, over `SessionHost` | - |
| `Playback` | `ReplayService`, `renderEventLog`, `useReplay` | - |
| `Console` | composes the seven above | extends them |
| `MapPoolProofs`, `ToolBatchProofs`, `OrchestratorProofs`, `ReplayEngineProofs`, `ConsoleProofs` | theorems | extend the module in the name |
| `AgentProofs` | theorems about `AgentRun` and `Repair` | extends both |
| `CommandLineProofs` | theorems about `Repl` and `Rewind` | extends both |
| `DesktopProofs` | theorems about `RouterControl`, `SessionHost` and `SessionStream` | extends the three |

Where a module of proofs extends systems that have nothing to do with each
other, the names of all but one carry a prefix (`HostSpec`, `RewindSpec`,
`RepairSpec`, `StreamSpec`); the variables are different anyway.

In every module an action is what the code does between two awaits. The
correspondence, definition by definition and line by line, is `map` in
PROJECT.json; here is how to read each module next to the code.

**MapPool.** `job[w]` is the item worker `w` is awaiting. `Init` is the state
after `Array.from` has run every worker up to its first await. `Resolve` is
the continuation of `results[i] = await fn(...)` together with the head of the
loop (`Pull`), since no await separates them; `Reject` is the catch block;
`Settle` is the resumption of `Promise.all`. `Width` is
`max(1, min(limit, items.length || 1))`.

**ToolBatch.** `phase[c]` says how far call `c` has come; a call that fails
to parse has its value at the pull, a low-risk call starts at the pull, any
other call is queued on the lock. The chain of promises is a sequence of
numbered runs: `issued` runs are queued, `settled` have finished, and a run
starts when its `ticket` is `settled + 1`. That is exactly
`tail = tail.then(fn, fn)` without the promises. `Act` is the moment the tool
touches the working directory, `Complete` the settling of its promise with
the worker's next pull. `AppendResults` is the loop at `agent.ts` 1154-1164.
The mapped function contains its errors, hence `MayReject <- {}`.

**TurnTools.** The promise: mutating calls act one after the other in call
order, others at any moment, and all answers are given at once, in call order.
`ToolBatch` implements it under the mapping `acted <- ` the calls that have
acted or never will.

**SessionLedger, AgentRun.** `pc` is the await the engine is at: `top` (entry
of an iteration), `snapshot`, `compact`, `attempt` and `stream` (a request
with at most three attempts and a `backoff` between them), `tools` (the
batch, one await here), `continue` (the compaction before a continuation),
`report` (writing the report), `finalize` (closing the replay log). Each exit
of the loop goes through `CloseWith`, `StopAtTop` or `ToolsDone`, each with
the terminal events of its branch. `FoldsEveryTerminal` distinguishes the
hosts: the command line folds every event into the ledger (`withLedger`), the
desktop only those with a digest, closing a turn that stays open in its
`finally`. A run that uses up its iterations throws inside its own `try`, and
the handler closes it a second time (`ThrowExhausted`); the replay log and the
ledger have to ignore that.

**Orchestrator.** `pc[t]` is the role task `t` waits for. One action per role
(`Architect`, `PreAudit`, `Implement`, `Audit`, `Strategise`, `Review`,
`Revise`), each followed by the code's decisions up to the next call;
`RoleFails` is a throw at any of them. A delivery is numbered (`version`) and a
judgement remembers which version it was of, so that "approved" can be said
of the delivered version.

**Rewind.** `disk` and `index` hold contents, `records[t]` the file changes of
turn `t`'s receipt. A tool call is several steps, as the code has awaits between
them: a `write_file` reads its file (`WriteBegin`), writes it (`WriteTool`), reads it
again and is recorded (`WriteEnd`); a `run_bash` takes its first snapshot (`BashBegin`),
changes files (`BashChange`), takes the second and compares (`BashLook`), reads what
changed, and the index (`BashRead`), and is recorded (`BashEnd`). Calls hold the lock,
but a `run_bash` that is taken to be read-only does not (`locked` is false), so
between its steps others may write; `moved` are the files whose size or time it
will find changed. What it records is what the two snapshots can tell: in git the
content before comes from the index, outside git there is none; long contents are cut
without a mark (`Clipped`). Each read or write may fail, and a write that fails
may leave the file empty. `EndTurn` may lose the receipt.
A record has a place, its turn and its number in it; `plan` is the set of places left to
apply, and the one applied next is the newest of them (`IsNext`), which is the order
`planRewind` puts them in. `Check` and `Restore` are the two sides of the await in
`applyRewind`. `atStart`, `others`, `undone` and `raced` (the file was edited since it
was compared) are history variables for the properties; `others` is marked by
everything that has to do with a file but a recorded `write_file`: the user, a
command that changes it or claims to have, a call that failed, a restore that failed.
The user may edit the file at any moment.

**SessionHost.** `slot` is `pending` with `pendingResolve` (the call whose
promise it resolves); `call[c]` says whether gated call `c` has asked and still
waits, `engines` counts turns whose promise has not settled. `Run` is `run` up to
the engine's first await, `End` the rest of it. `Ask` is `waitFor`, which
refuses at once when the session is aborted or removed; `Answer` is any answer a
client sends, late or repeated ones too; `Abandon` is `abort`, with its
dismissal of the question, and `Dispose` the same for good. `setWorkDir` and
`rewindApply` are two actions each, one on either side of their await. The
agent's lock is the guard `LockHeld`: that gated calls are mutating ones, hence
serialised, is what the code's comment "One slot is enough" relies on; that the
lock serialises is `ToolBatch`'s theorem `MutationsKeepOrder`. What the engine
does between questions is `AgentRun`.

**EventLogger, ReplayEngine.** An event is in memory (`pending`), in the stream,
or in the file; `drain` is a scheduled `drainPending`. `closing` follows
`finalize` from await to await. `Crash` keeps what is on disk and may leave a
torn last line. `Recordable` is the order in which `Agent.run` logs: a step and
its checkpoint, each call when it is executed, the results after the batch.
`Replay` is the body of the loop in `replay` for one event.

**SessionStream.** `log[s]` is all that session `s` has said (history), `ring[s]`
the sequence numbers still retained: beyond the cap the oldest thinking goes
first. `channel` carries pushes and replies in the order they were sent, and
nothing when the window is closed. The window's `views[s]` is a snapshot and the
set of envelopes folded so far, which are folded in order: a history, and then the
envelope that waited for it, are applied one after the other and each skips what is
not newer than what was applied (`ApplyAll`). `ApplyEnvelope` folds one envelope as `transcript.ts`
and `hud.ts` do, `Fold` all that were applied. `chain[s]` is
`catchUps`: the first fetch may be under way, the others wait. `OnEnvelope`,
`OnChanged`, `OnRemoved`, `OnListed`, `OnCreated` and `OnHistory` are the window's
handlers; each runs alone. `OpenWindow` is a first window or one after a crash,
a reload or a close; the view starts from nothing.

**RouterControl.** `disk[i]` is the version installed in directory `i`, `daemon[p]`
a process with the version it was started from, `foreign` another program on the
port. `at[a]`, `doing[a]` say what a user or the updater is doing and at which of
its awaits. A wait with a limit may end before what it waits for. `Listed` is
the list of processes (`ps` false: Windows, where the list is empty), filtered by
`isDaemonCommand`: a daemon is `named` when its command line names the directory of
its package, which that of one started by a link on `PATH` or by `npx` need not.
Daemons, npm and the mirror are external.

**Sandbox, Repair.** `cmd[c].at` is where `exec` of command `c` is: its profile is
written (`profile`), it is to be spawned, spawned, or it closes; in a
container it starts or is sent. `held` is a process left behind that keeps the
output open; Node's `close` waits for it. `profiles` are the files that exist;
two commands of the same millisecond share one. A write of a profile that fails may
leave the file, and a `spawn` that throws leaves it (`SpawnThrows`): `lost` remembers
them. `guard[c]` is the invocation of
`withErrorInterception` around it: class of the error, attempts, runs. A guard
around `executeTool` (`tool`) never sees a failure.

**Tui, Repl.** `Tui` gives the renderer's effect of each event on a `screen`
(spinner, thinking, cards, whether the receipts were shown). `Repl` has the line,
the pending lines of a paste (`pending`, submitted by `Settle`), the chain of
inputs (`queue`), what the input in progress awaits (`stage`), who reads keys
besides readline (`owner`), and the agent's run (`run`). `pickerActive` is `flag`. Keys are
actions: Enter, Escape, Ctrl+C, Ctrl+D, each with readline's part and that of the other
listener. `owed`, `source` and `cut` are history.

**RouterData, RouterPanels, RouterCommands.** `table` counts the changes made to
what the daemon keeps, so what a client shows is the number it last read. `reads` is the bag
of `refresh` calls of one `useAsync` under way: `Serve` is the moment the daemon
reads, `Answer` the answer or failure; a `stale` read is one whose `gen.current`
is no longer `mine`, kept only when somebody awaits it (`closes`). `jobs` is the
bag of changes under way, `busy` the one item the tables remember. `Mount`, `Leave`,
`PollLoaded` are effects and their teardown. `link` is the state of
`usageStream`. In `RouterCommands`, `asks[w]` is the request for list `w` of the
command that runs (`cmd`), `native` and `models` the two caches, an entry's `left`
the time until it expires; `models` keeps the connections with which it was
reconciled (`conns`), which may come from `native`. `gone` and `since` are
history: how long ago a value was replaced, and the last clearing of the caches.

**Settings.** An update goes from `read` over `write` to `fill`, with the file
empty (`Torn`) between the last two: that is `writeFile`. Every read of a file may
fail, and then has the defaults (`Reads`), which an update goes on to write back. `HasTurn` is the chain of
`updateAppState`. `form[s]` is a section of the settings page, which saves all its
fields; `held` is what `main` read at its start, which `--set-default-model` writes
back. `kept` and `spoiled` are history.

**Workbench.** `tasks[t]` is where a typed text is: in the box, `asked` (the main
process is asked whether it suggests a team), in the dialog, sent, run, refused,
lost. `active`, `agents` and `modal` are the sidebar's session, the page and
`modalState`, one for the whole window. `engine` are the sessions whose host runs,
`view` those the window believes to run. `moved` and `excused` are history: the
tasks whose session was left while they were asked about, and those that the
user's own moves may have cost.

**RewindDialog.** A request keeps its generation by `mine`; the dialog's state is
`rewinder`. `told` lags behind the host's `turns` and status, so the session may begin a
turn under the open dialog. What a plan holds is in `Rewind`.

**Playback.** A playback sends its events and its end on `wire`, with the reply to
`start` behind those of its first stretch (`ReadLog`), as IPC keeps the order of
what the main process sends. `early`, `starting`, `view`, `status` of the page are
those of `useReplay`. `crowded` is history: a start was asked for while another
was not answered.

**Console.** Page and commands share the daemon's table, and each is somebody outside
to the other; the rest shares files and hosts that are in the modules above. One of
the six (`front`) moves in a behaviour, the others stand still: the run checks six
systems side by side, with their sums and not their products of states.

## 3 Runs

All twelve pass; where the documentation promises more than the code does, a
definition says what it promises (section 6). Distinct states and time are those of two workers.

| Run | Question | Instance and why it suffices | States, time |
| --- | --- | --- | --- |
| `map_pool` (`MapPool.cfg`) | Is the pool correct with rejections in flight? | 5 items, limits 0, 1, 3, 9 (below, at, inside and above the range), 2 items that may reject: two rejections in either order while a third worker is busy and items are left | 2.5 k, 1 s |
| `tool_batch` (`ToolBatch.cfg`) | Do lock and pool together keep a turn's order, and implement `TurnTools`? | 4 calls, each of every kind, 1 or 3 at a time: a queued mutation with read-only calls around it, and one still to be pulled | 15 k, 3 s |
| `desktop_turns` (`AgentRunDesktop.cfg`) | Does every turn of the desktop end once, with a complete receipt? | 2 turns (a closed one beside an open one), 2 + 1 iterations (one continuation), all three retries, stop, abort and timeout at every await | 138 k, 13 s |
| `team` (`Orchestrator.cfg`) | Are the judges heeded, and do tasks stay apart? | 2 tasks with equal or different texts, trivial or not, 1 revision: both sides of the bound on revisions, and a shared cache entry | 196 k, 33 s |
| `rewind` (`Rewind.cfg`) | Does a rewind restore, and never clobber? | 1 file, 2 turns, 1 shell command at a time, with the lock or without, beside 1 `write_file`, 3 changes and commands, 2 rewinds: two records for a file in one turn or two, each possibly false, with an edit between or after them, and a second rewind | 5.06 M, 120 s |
| `session_host` (`SessionHost.cfg`) | Can every question be answered, and only by its own answer? Does an abort end the turn? | 2 turns of 2 gated calls (a late answer meets another call, or another turn), 2 directories, 1 rewind; abort, removal and any answer at any moment | 45 k, 3 s |
| `replay` (`Replay.cfg`) | Is the log whole, and does a replay follow it? | 2 steps, 2 calls, a drain every 2 events (so that events wait in all three places), a crash at any moment, replay from each step | 227 k, 9 s |
| `session_stream` (`SessionStream.cfg`) | Does the window show what the session said, and catch up? | 1 session (no handler relates two), 7 events over a ring of 4 (three evictions, of thinking and of others, and a thought that comes to a ring full of others), 2 calls, 2 windows, 2 messages in flight (a push overtaken by a fetch) | 1.00 M, 150 s |
| `router_control` (`RouterControl.cfg`) | Does an update report the truth beside a user's start, stop and restart? | 2 copies, one on PATH, 3 daemons (the one of before, one a user starts, one the update starts), 1 user, update and forced update, each daemon named or not | 1.77 M, 153 s |
| `repair` (`Repair.cfg`) | Do guarded commands end, tell the truth and leave nothing? | 2 calls at a time, 1 profile name (they share it), threshold 2, 2 failures before | 793 k, 121 s |
| `repl` (`Repl.cfg`) | Is no input lost, and is the prompt clean? | 2 lines of 6 kinds, 1 round of 2 tool calls, 2 tools, 2 cards kept (eviction with a third) | 247 k, 74 s |
| `console` (`Console.cfg`) | Do pages, dialogs, commands and settings show what is there, and keep what they are given? | 1 change at the router, 2 reads and 2 changes under way (two answers out of order, a change beside another), 1 row, lists kept for 2 ticks (one expires while the other lives); 2 updates of a file, 1 fault (a failed write or a process that ends); 2 sessions and 2 tasks (one in the box while one is asked about); 2 turns and 3 requests of the dialog; 2 playbacks of 2 events | 725 k, 148 s |

Rewind handles one record, hence one file, at a time, and a shell command records
each of its files as if it were alone; so one file is enough there (the theorem is for
any number). Properties, in words:

* `PoolIsSound` (each item once, nothing running when it settles, the limit
  kept), `NoDispatchAfterFailure`, `PoolSettles`: the pool's correctness above.
* `BatchIsSound`: `MutationsInCallOrder` (a mutating call starts only when all
  mutating calls before it are over), `AnswersAreComplete` (the conversation
  gets every call's own answer, and nothing is still running then), `LockHasOwner`
  (the run at the head of the chain is always in a worker's hands: no wait on
  oneself). `SequentialAtOne`: with concurrency 1 each call sees exactly the
  writes before it. `TurnSpec`: the refinement. `BatchReturns`: liveness.
* `ReceiptsAreSound` relates the ledger to what the engine did
  (`ReceiptEveryTurn`, `ReceiptIsComplete`) and to the replay log
  (`ReplayAgreesWithReceipt`), `InterruptionsHold` (no step after a stop, no
  request after an abort) and `ClosedTurnIsFinal` say what a step may never do,
  `TurnEnds` is liveness.
* `OutcomesAreJust` (`CompletedMeansApproved`, `SecurityIsNotOverridden`,
  `ConflictsAreSettled`, `HistoryIsExact`), `PlanIsKept`, `TasksEnd` for the team.
* `RewindIsSound` (what only `write_file` calls changed, and no `run_bash` call claims
  to have changed, comes back, unless reading or restoring it failed), `NeverClobbers`.
  `NeverClobbers` is about the file as it was when it was compared.
* `SessionIsSound` ties each waiting call to the slot, the slot to the status and
  the status to the engine; `NothingUnapproved` each granted call to a yes to its
  own request; `AbortEnds` is liveness.
* `LogIsWhole` relates file, stream and memory to what was logged,
  `ReplayIsSound` the calls a replay executes to those of the run,
  `FinalizeReturns` is liveness.
* `WindowIsSound`: as long as the ring can hold all that is not a thought, only
  thoughts are missing before the last envelope the window has
  (`OnlyThoughtsAreLost`), and with nothing on its way the window knows what the main
  process knows (`AgreesAtRest`). `TranscriptIsFaithful`: the transcript folded from
  it, thoughts aside, has what the session's events call for, each card once and in
  the order of the events. `EventuallyShown` is
  liveness.
* `ReportsAreTrue` (an update reported as done is, `UpdateOkIsTrue`; a forced one
  leaves no old daemon that is `Named`, `ForceLeavesNoneOld`; a stop has stopped, `StopStops`);
  `UpdateEnds` is liveness.
* `RepairIsSound` (a result reported is that of the last run; attempts are
  bounded; `NoProfileLeft`: none but of commands that never began; `RunningIsTrue`, of
  the container), `BreakerHolds`;
  `CallsEnd` is liveness, with the one exception the code has (a process left
  behind).
* `LinesAreKept` (`InputsAreKept`, `NothingLostAtClose`), `ScreenIsSound`
  (`PromptIsFree`, `ReceiptsShownOnce`); `InputsAreBegun` is liveness.
* `ConsoleIsSound`: a row, button or dialog is busy only while a request of it is
  under way (`NothingIsStuck`). `ListingsAreRecent`: what a command shows is at
  most as old as its caches allow, and not of before a refresh. `SavedIsKept`: a
  file holds every update written to it, until a write or a read of it fails or (of
  config.json) two updates overlap. `TasksArrive`: a task goes where it was
  typed, and none is lost but by the user's own moves. `ShowsThePick`: plan and
  result are of the turn picked. `PlaybackIsWhole`: no gap at the start of a
  playback, one goes on at a time, and the page knows its end. `PanelSettles` is
  liveness.

For each property of a passing run PROJECT.json names a mutant, a plausible bug
in the modelled code (operators commented "A mutation of ..." in the
modules), that makes TLC report the property violated.

Bounds: `NumItems`, `NumCalls`, `MaxTurns` (turns of a session), `MaxSteps` of
`ReplayEngine`, `Calls`, `Dirs`, `MaxChanges`, `MaxRewinds` and `Tasks` bound the instance and nothing in the code;
`MaxIterations`, `MaxContinuations`, `IterationsPerCont`, `MaxRevisions`,
`FlushEvery` and `Limits` are the code's own options with small values. `MaxRetries = 3`
of `AgentRun` and `MaxAttempts` of `Repair` are the code's. `HasTimeout` is the agent's option `timeoutMs`, which neither host
sets but an embedder may; the desktop's run has it so that the timer's bare
error is part of what is checked. `RingCap`, `Threshold`
and `CardCap` are constants of the code with small values; `MaxEvents`,
`MaxWindows`, `MaxInFlight`, `Pids`, `Looks`, `MaxFails`, `MaxLines`, `MaxRounds`
and `MaxCalls` bound the instance. `MinPoll`, `DefaultPoll` and `TTL` are constants
of the code with small values; `MaxChanges`, `MaxReads`, `MaxJobs`, `Items`,
`MaxSaves`, `MaxFaults`, `Sessions`, `MaxTasks`, `MaxTurns`, `MaxRequests`,
`MaxPlays` and `Length` bound the instance of `console`. Deadlock is checked in the runs of the
modules up to `ReplayEngine`, where the end of a session, of a batch, of all
tasks is an explicit stuttering action; in the others the system may stop, as
the user may stop acting and the bounds end what may happen.

## 4 Fairness

* `MapPool`: weak fairness for each worker and for `Settle`: the caller's
  functions settle, and the event loop runs continuations.
* `ToolBatch`: the same for `Acquire`, `Act`, `Complete`, `PoolResolves`,
  `AppendResults`. It is justified by the tools' timeouts (shell, fetch), by
  file operations that settle, and by an approval prompt a human answers; that
  last one is an assumption about the human. A shell command that leaves a process
  with its output open outlasts its timeout (section 6, Sandbox): for such a command
  the fairness of `Complete` is an assumption too, and while it runs the lock is held.
* `AgentRun`: weak fairness for the engine as a whole: requests are answered
  or fail, tools end, files get written. User and clock are under no
  obligation: `TurnEnds` holds without stop, abort or timeout ever happening.
* `Orchestrator`: weak fairness for the answer or failure of each task's
  current role. Starting a task is under no obligation.
* `Rewind`: none; its properties are safety properties.
* `SessionHost`: weak fairness of `End` alone: the engine's promise settles when
  no call waits for the user (`AgentRun`, `Orchestrator`). Clients owe nothing:
  `AbortEnds` holds though nobody answers. `End` is enabled or not only by
  whether a call waits, and after an abort no call waits again.
* `ReplayEngine`: weak fairness of the logger's own progress, which is the event
  loop running the scheduled drain and the stream writing what it has.

* `SessionStream`: weak fairness for the window's tasks and for the main process's
  replies: both event loops run what is queued. Sessions owe no event, the user
  no window.
* `RouterControl`: weak fairness for each actor's next step: each wait has a
  limit. Daemons owe nothing.
* `Repair`: weak fairness for each call's own next step (timers, events of the
  shell it spawned). Commands owe no end, and time need not pass for the breaker.
* `Repl`: weak fairness for the coalescer's timer, the chain of inputs, the end
  of requests, of commands and of runs. The user owes no key.

* `Console`: weak fairness for the page's timer, while the page is visible, for
  the daemon's reading and the answers, and for the stream of usage. The answer of
  a request that fails is bounded by the client's own limit. The daemon need not be
  up: `PanelSettles` is about a panel that is looked at, of a daemon that answers,
  from some moment on. The user, and the settings, owe nothing.

The tool batch has no fairness that spans the choice of worker: each action of
each call is fair by itself, since once enabled it stays enabled.

## 5 Proofs

All theorems are proved for every value of the constants under the assumption
each module states by name (`PoolAssumption`: the limits are integers and
rejecting items are items; `BatchAssumption`: at least one call;
`PipelineAssumption`: trivial texts are texts, the bound is a natural;
`RewindAssumption`: no file, nothing recorded and too much are no contents of
files; `CommandAssumption`: lists are kept for at least a tick, and none has the name
of a state of the command line; `PlaybackAssumption`: a log has an event;
`RouterAssumption`: the updater is no user, directories and daemons are numbers and
there is a daemon; `SandboxAssumption`: no name is not a name; `ReplAssumption`:
texts are of the kinds there are, a run has a round and a round a call;
`TuiAssumption`: a card is kept; the others: bounds are naturals, and names that
stand for nothing are no names). Each inductive
invariant was checked with TLC on the instance of its run before it was proved.

**MapPoolProofs.** `TypeCorrect`; `PoolIsCorrect` (`PoolIsSound`);
`FailureStopsDispatch` (`NoDispatchAfterFailure`). That a quiet pool is settled
is not inductive: that a resolved pool has every slot
filled needs to know that the counter has passed the end. The invariant
`PoolInv` adds `AllBusy` (unless the pool has failed or the counter is past
the end, each of the first `Width` workers holds an item; this is why a quiet
pool without a failure has used up the items) and the form of `firstError`.
The limit is a cardinality: only the first `Width` workers ever run
(`OnlyStarted`), so the items in flight are at most as many (`FlightIsBounded`).

**ToolBatchProofs.** `TypeCorrect`, `BatchIsCorrect` (`BatchIsSound`, from
`MutationsKeepOrder`, `TurnIsAnswered` and `LockIsOwned`), `BatchImplementsTurn`
(`TurnSpec`). A batch
step is a step of the pool or leaves the pool alone, so the pool's invariant is
taken over by instance. The lock's argument is in `BatchInv`: calls are pulled
in order, so the tickets of the mutating calls pulled so far are `1..issued`,
increasing with the calls and without gaps (`TicketsFit`; for the calls pulled
at the start, lemma `Numbering` gets it from cardinalities), and `ChainFits`: a
ticket up to `settled` belongs to a call
that is over, a larger one to a call that is waiting or, only for
`settled + 1`, under way. `PhasesFit`, `ResultsFit` and `AnswersFit` tie
phases, slots and transcript together. For the refinement, `Acquire`,
`PoolResolves` and the settling of a call map to stutters, `Act` maps to
`Turn!Act` (whose guard is `MutationsInCallOrder`), `AppendResults` to
`Turn!Answer`. `OneWorkerIsSequential` (`SequentialAtOne`) is from an invariant of
its own, `AloneInv`: with one worker every call before the one pulled last is over
(`OneAtATime`), so what a call finds, all that has taken effect, is what the calls
before it did.

**AgentProofs, of `AgentRun`.** `TypeCorrect`, `LogOfARunEndsOnce`, `ClosedTurnsAreFinal`
(`ClosedTurnIsFinal`), `InterruptionsAreHeld` (`InterruptionsHold`) hold under either
host's rule of folding; `DesktopReceiptsAreSound` (`ReceiptsAreSound`) assumes the
desktop's, `FoldsEveryTerminal = FALSE`, and is false without (section 6).
`RunInv` adds to the types `BudgetIsKept` (`step` is what the rounds before and
this round's `iteration` come to, which is why a run that has used up its
budget has taken `MaxSteps` steps) and `LogEndsOnce` (the replay log is open while
the loop runs and has one end afterwards, whose reason the run's state backs; a
run closed a second time by its handler finds the log ended). `DesktopInv` adds
that a turn of the ledger is open exactly as long as the log is, and that the
turn of a run that is over has the receipt of what the run changed
(`LedgerFollowsLog`); so terminal events that come later find nothing to close. The
lemmas on `CompleteTurn`, `BeginTurn` and `Fold` say which turns each leaves
alone.

**AgentProofs, of `Repair`.** `RepairsAreSound` (`RepairIsSound`) and `TheBreakerHolds`
(`BreakerHolds`), for any number of callers and of names of profiles, under every
executor. `RepairInv` adds to the types what each executor makes of a command
(`PlacesFit`); that a profile's file which exists is `lost`, or owned by a command that will
still remove it (`ProfilesOwned`: "some command of that name is past writing it" is
enough, since of two commands that share a file either removes it, and then there is none);
that of the commands that start the container at most one has, and has it up
(`BoxFits`, the argument for `RunningIsTrue`); and how a guard counts (`GuardsFit`:
the runs are one more than the repairs claimed, and a command runs only while its
guarded function does).

**CommandLineProofs, of `Rewind`.** `RewindsAreSound` (`RewindIsSound`) and `RewindsNeverClobber`
(`NeverClobbers`), from `RewindInv`. That a rewind restores is not inductive, and
the obvious strengthening ("each record's before is the after of the one before
it") is false after a rewind to a later turn, since the next record starts from an
older content. What is inductive: of a file
that only recorded `write_file` calls had to do with since turn `t` (`OnlyWritten`), what it holds is what it held
when `t` began or what some record since then says was written (`DiskIsKnown`; while
a `write_file` is at it, that is said of what the call read and will record), and
the content before each such record is one of these too, of an earlier record
(`BeforeIsKnown`). With `PlanIsRest` (what is left of a plan is everything older than
any of it) the step of a rewind that writes a record's content back keeps
`LeftSuffices`: the content is that at the start or of a record still left. When
none is left, it is that at the start. A turn a rewind went back past is
`undone` and excepted, since its records no longer tell what the file went
through. `CheckedIsNext` (the record that was compared is the next, and still fits
unless `raced`) gives `NeverClobbers`. Places instead of a sequence make a plan's
order a relation (`Earlier`), which the lemmas `LogFacts` (a record that is logged
gets a place after all others) and `RecordsAreOrdered` are about.

**OrchestratorProofs.** `TypeCorrect`, `JudgesAreHeeded` (`OutcomesAreJust`),
`PlansAreKept` (`PlanIsKept`). Every action changes one task; the lemma that a
step of the pipeline is one of a few `Moves` of a task reduces the fifteen ways
out of the stages to what each does to the judgements. `TaskInv` says what holds
of a task at each stage (at the reviewer no rejection has been given and the last
decision asked for a revision; over and completed, the last review is an
approval of the current version, ...), and `PipelineInv` is its conjunction
over the tasks. For the conflicts, a step either is `Calm` (it adds none that is
open) or settles the one it adds, of its own task (`OwnSettled`), and leaves those
of others (`OthersSettled`); the history grows exactly when a task delivers
(`Delivers`, `HistoryKept`).

**DesktopProofs, of `SessionHost`.** `TypeCorrect`, `SessionIsCorrect` (`SessionIsSound`),
`OnlyTheApproved` (`NothingUnapproved`).
`NothingUnapproved` is not inductive: an accepted answer grants the call in the
slot, so what is in the slot has to be that call's own latest request
(`SlotIsAsked`, the converse of `QuestionIsHeld`), and a granted call must not
ask again in its turn (`GrantedIsOver`), or its request would be another than
the one approved. The actions that resolve the slot (an answer, an abort, a
removal) share one lemma, those that leave the turn alone another.

**DesktopProofs, of `RouterControl`.** `TheReportsAreTrue` (`ReportsAreTrue`), for any
number of users, daemons and install directories. `RouterInv`: one program
has the port (`OneListens`); the copies an update is about are to do, done or what it
failed at (`InstallsFit`), so an update that does not fail has replaced the
one on PATH, or all; what it expects is what npm installs (`ExpectedFits`); once a
forced update has seen nobody, no older daemon that is `Named` is alive and none can be
started, as no older copy is left to start from (`OnlyNewAlive`); a daemon that was there when a stop began
never listens again once the stop is past its wait (`BeforeFits`).

**DesktopProofs, of `SessionStream`.** `TheWindowIsSound` (`WindowIsSound`), for any
number of sessions, events, windows and messages on their way, and any ring. At
rest the window agrees because, at any other moment, what is retained and
not applied is on its way (`Delivered`): as an envelope at least as late, as a
link of the chain that will fetch, as a request, or in the answer to one (`Coming`).
To keep that through an answer, the answer must have all that is retained after the
view's last up to some `k` that the waiting envelope is not beyond (`AnswersFit`), and
it must be the only one: of a session one fetch is under way, and it is the first of
its chain (`FetchFits`). `OnlyThoughtsAreLost` needs that the ring still has every event
that is no thought while those fit (`RingFits`). That the window has the sessions there
are is a matter of order: nobody is told of a session before it is there (`NotYet`), of one that is there nothing comes before the list it was
missing in (`Here`), and of one that was removed nothing after the news of it (`Gone`);
the last snapshot on its way is the present one (`SnapsFit`). A session's last event
is the end of a turn unless one runs (`LogFits`), and an end is never evicted at
once, so an idle session is seen to its end. What a step adds to the channel, or
takes from its head, is dealt with by lemmas about sequences (`JoinedFacts`,
`AddedFacts`, `TakenFacts`); sessions a message is not about by one lemma
(`OthersFit`).
`TheTranscriptIsFaithful` (`TranscriptIsFaithful`) needs to know what a session may say
(`TurnsInv`, inductive beside `StreamInv`). Of each event (`Orderly`): turns only rise, one begins
with its task and says nothing once it has ended, it ends after its result, a
tool result is of a call that was made in its turn and waits, and a call is not made
again before it was answered; of the whole (`TurnFits`): the calls not answered are those
open, of the present turn, and none is once it has its result. The fold of the
view up to its `n`-th event then `Transcribes` those events: each call has a block of its own,
running until it is answered, and each turn one card. That is an induction over the events
of one state (`EventTranscribed` is its step), not over the steps of the program; what each kind of
event does to the blocks is a lemma of its own (`BlockUpdated`). What the view seems to be
doing follows from its last event (`LogFits`), as nothing but thoughts is missing.

**CommandLineProofs, of `Repl`.** `TheLinesAreKept` (`LinesAreKept`): the inputs queued,
flattened, and the lines pending are what was entered and not begun; the lemmas
on `Flat` and `Rendered`, recursive functions over sequences, unfold them at both
ends, by induction over the numbers, which is got from their well-foundedness
(`LeastOf`, `NatInd`, as in `DesktopProofs`), since the library's induction theorems cannot
be used.
`TheScreenIsSound` (`ScreenIsSound`), from `ScreenInv`: no more cards run than there are
calls told and not answered (`CardsFit`), so when the answers are in no card runs, and
which cards an event changes is a matter of cardinalities; the spinner turns in
a run or for a replay (`SpinFits`); the boxes shown are those of the run that ended last
(`BoxesFit`); and who reads keys does so at a place that hands them back (`OwnerFits`,
`FlagFits`).

**ReplayEngineProofs.** `LogKeepsEverything` (`LogIsWhole`). The first part,
`NothingLost`, is inductive for sequences (lemma `MoveHead` for the line that
goes from stream to file, associativity for the drain); the second, that a
finalized log is complete, needs what `finalize` has waited for at each of its
awaits (`ClosingFits`). The events' set is existentially quantified, so the
proof does not depend on what the agent logs.
`ReplaysFollowTheRun` (`ReplayIsSound`): the engine takes an event's step from the
last event that has one, a start or a checkpoint, and a call from that step and its
place in it. `EngineInv` says that each logged event's own step is the one before's,
plus one for a start (`StepsRise`), and that a call's name is its step and its place
(`CallsAreNamed`), so the two counts agree (`StepAt`); and the file that a
replay reads is a beginning of the log (`FileIsRead`), to which later writes only
add (`LogOnlyGrows`), so the position of an answer, `Cardinality(Due(n))`, stays
what it was when the call was replayed.

**ConsoleProofs.** A step of `Console` moves one part and leaves the others
(lemma `Parts`), so each theorem but the first is about one of them.
`TheConsoleIsSound` (`ConsoleIsSound`): every variable of the seven modules keeps to its
kind and its bound, and nothing on the router's page is stuck. Reads and
changes under way are bags, of which the library knows no theorems; lemmas on sums
over bags (by induction on the number of their elements) say that a bag loses and
gains one (`SumTakes`, `SumSame`). A spinner has a read of its own that is not stale
(`ShownFits`), as whatever makes reads stale stops the spinner or begins another; a
busy item has its change under way (`BusyFits`), as any answer but that of a save
clears it.
`SettingsAreKept` (`SavedIsKept`): at most one update of a file is at work, of
desktop.json the first in the chain, of config.json the only one as long as the
file is not spoiled (`OneWorks`), and what it is about to write is what was saved
with its own patch (`WritesOnKept`), as a read that failed spoils the file.
`TasksAreDelivered` (`TasksArrive`): a task that is asked about belongs to the active
session, or its session was left (`StillHere`); there is one dialog (`OneDialog`), and
of two tasks not sent yet both are excused (`TwoAreExcused`), so whatever the composer
or a dialog drops was already excused.
`TheDialogShowsThePick` (`ShowsThePick`): at most one request is of the dialog's
generation, and it is of the turn marked (`OneIsMine`); it is the next step of the
dialog (`MineIsNext`), and its answer is of the turn it asked about (`AnswersFit`).
`ListsShownAreRecent` (`ListingsAreRecent`): an entry that will live for `left` more
ticks was replaced at most `TTL - left` ticks ago, its connections at most
`2 * TTL - left` (`Young`, `EntryKeeps`); what a command under way was answered is
of now or of such an entry (`AskKeeps`).
`PlaybacksAreWhole` (`PlaybackIsWhole`): the wire holds the events of each playback in
their order, each sent once (`WireFits`); a page that did not ask for a start beside
another has at most one under way, as a call, a playback that reads, or an answer
(`OneStart`). Of the playback that is watched or will be (`Watched`) the page has a
beginning, kept or shown, and the wire has all the rest that was sent (`Unbroken`), so
the next event to come is the next one. The status says "playing" only while the
playback plays or its end is on the wire; an answer that says so is on the wire with
the same (`EndCame`), or right behind the end, which the page then has
(`StatusFits`). Playbacks that speak share the lemmas about what they add
(`Spoke`), the page's receiving those about the first message (`Takes`).

Only model-checked: liveness, which is out of the prover's reach. Not proved
because false of the code: what section 6 lists.

## 6 What the runs found

Seen, and kept as definitions that no run checks: each names what the
documentation says and does not hold when it is added to the configuration
named.

* `DeletesOnlyCreated` (`Rewind.cfg`): outside a git work tree a file that a shell
  command edited is recorded without a content before, which `recordToAction`
  (`rewind.ts` 81) takes for "created": the rewind of that turn deletes a file that
  was there before it. The documentation (274) says a rewind deletes what the
  turn created.
* `NothingIsCutShort` (`Rewind.cfg`): the change of a shell command is recorded with
  contents already cut to their limit, and the mark that they were is dropped
  (`agent.ts` 780-786), so `planRewind` takes them for whole and writes the cut content
  back. The comment at `rewind.ts` 12-13 says truncated records are skipped.
* `TranscriptIsSequential` (`ToolBatch.cfg`): the documentation
  (`docs/full-documentation.md` 153) says the transcript is identical to that of
  sequential execution. The order of the messages is; their content is not, as a
  read-only call may run before a write that precedes it, or after one that
  follows it (`agent.ts` 1141).
* `ReceiptIsComplete` with `FoldsEveryTerminal <- TRUE` (`AgentRunDesktop.cfg`): a
  request that fails for good is first reported by an `error` without a digest; the
  command line (`index.ts` 294) folds that into the ledger, which closes the
  turn, so the receipt that follows is ignored and the turn's file changes are
  unknown to `/rewind`. The desktop host guards against it (`sessionHost.ts` 365-368).
* `IdleOnly` (`SessionHost.cfg`): `setWorkDir` tests that no turn is running, awaits
  `stat`, and then changes the directory, of a turn that may have begun meanwhile;
  `rewindApply` has the same gap (432, 539). The documentation (397, 426) says both
  are for an idle session.
* `DivergenceIsReported` (`Replay.cfg`): an output is recorded when the replay comes
  to the `tool_result`, which the log has after the `tool_call` it belongs to, so
  at the call there is nothing to compare with, and no difference of outputs is
  ever reported (`replayEngine.ts` 139). The documentation (719) says the engine
  looks the output up before it executes the call.

Seen while modelling, without a definition:

* Rewind: a `run_bash` that is taken to be read-only (a prefix such as `cat`, without a
  redirection: `roles.ts` 192-201; so also `cat x; rm y`) has no lock (`agent.ts` 1141),
  and its snapshots (717, 777) may lie around a `write_file` of the same turn. It
  records that call's change as its own, with the index's content before, or none: a
  rewind then writes the index's content, or deletes the file, and skips the true
  record. `RewindIsSound` excepts the files a `run_bash` call claims. A turn whose first
  `error` has no digest is closed without a receipt (`ledger.ts` 291-311), and its
  changes cannot be undone. A restore that fails half way leaves the file empty, and
  says so.
* Repair is out of reach of the agent: `executeTool` (`tools.ts` 760-849) reports
  every failure in its value, so `withErrorInterception` around it never sees
  one, the breaker never opens and no incident is written from there, though the
  documentation (767, 782, 819) describes that. "3 consecutive" failures (782) are
  any three: a success counts nothing back. A repair in flight closes a breaker
  another call opened. Nothing in `src` instantiates the container's executor or
  appends to the playbook.
* Sandbox: an answer waits for `close` (`sandboxer.ts` 345), hence for every process
  that holds the output, timer or not; the documentation (594, 605) says the
  timeout bounds a command. `CallsEnd` excepts exactly this. The file of a profile
  stays when its write fails after the file was made, or `spawn` throws
  (`sandboxer.ts` 307-327): `NoProfileLeft` excepts those. A container whose
  start timed out is up while the session thinks it is not.
* Stream: a thought that is said while the ring is full of what is not a thought is
  the one evicted, at once (`sessionHost.ts` 380-385), so a window that is opened
  then lacks the end of what was said until the next envelope comes; the comment
  there speaks of old reasoning. It is why `AgreesAtRest` speaks of what is retained, and
  was seen when the property was to be stated for any size of the ring. A window
  that is reloaded between `create` and its reply owns a session
  it did not ask for; two `refresh` replies of one generation may arrive out of
  order; more than `RingCap` events that are not thinking evict a `turn_start`.
* REPL: a `/replay` that is stopped or whose log is cut leaves the spinner running
  over the prompt (`index.ts` 977; `PromptIsFree` excepts it by `cut`); a run
  that uses up its iterations has its receipts written twice (`agent.ts` 1262);
  `/done`'s text (`commands.ts` 996) says Ctrl+C interrupts the agent, Ctrl+C
  ends the process (`index.ts` 812-822), and queued inputs with it; `/models` or
  `/switch` with the router down rejects unhandled; Enter in the palette never runs
  the focused command; `/allow-skill-install` (`commands.ts` 565) changes nothing
  the run reads (`index.ts` 321).
* Router page: two answers of one `useAsync` (same generation) may come in the
  other order, so an older list is shown until the next poll; `ProvidersTable` has one
  `busy` for all its rows; Enter in the dialog of a new key does not look at `busy`
  (`KeysPanel.tsx` 41); an editor of combos that is closed while it saves closes
  the editor open when the answer comes; a provider's deletion dialog stays until
  the list is read again; the answer of `loadPollDefault` may replace an interval
  saved meanwhile, and an interval is applied though its save fails; `readSse`
  that throws loses `gotData`, so the wait doubles after a good connection.
* Commands: the list of models has no key, so it survives `/setup` with another
  key; `/doctor` asks for the keys twice, always. `/models` or `/switch` with the router down
  rejects the chain of inputs (`index.ts` 1081), which nothing handles: the process ends.
* Router: a forced update says "no 9router process left" (`routerUpdate.ts` 492) while a
  daemon runs that was started by name (`init.ts` 146) or by `npx`: its command line
  (`.../bin/9router`) is not one for `isDaemonCommand` (100-105), so it is neither
  listed nor killed. `ForceLeavesNoneOld` speaks of those that are `Named`.
* Settings: a file that cannot be read is taken for one that sets nothing
  (`appState.ts` 25, `config.ts` 61), and the next update writes that back over it;
  `SavedIsKept` excepts it by `spoiled`. Two updates of config.json that overlap lose one of them, and a reader
  in between sees an empty file and then writes only its own field; `SavedIsKept`
  excepts this too. `--set-default-model` writes the default provider back
  as it was when the process started, and the other way round. `readAppState` is
  outside the chain of updates (`appState.ts` 35), so a dialog opened during a
  write has no recent directories and then saves it so. The settings page writes
  every field, so it undoes what the command line changed since it was opened.
  A new session reads config.json twice.
* Window: a task whose question is answered after the user went to another session
  opens its dialog there and runs there (`AgentPage.tsx` 131; `TasksArrive`
  excepts it by `moved`); Rewind, Model, Brief and Skills of the palette open on
  another page and are closed at once by the effect at `AgentPage.tsx` 107; leaving
  the page loses the composer's text, a refused task is gone from it, and Cancel
  of the team dialog replaces what was typed since. The dialogs for questions and
  approvals have no key, so typed text is carried to another session's question.
* Restoring: picking another turn while a restore is under way loses its result,
  and a second restore may begin; Restore is offered while a session waits for
  an answer, and is refused; a restore plans anew, so it may do more than was shown.
* Recorded runs: of two starts before the first is answered the second loses its
  first events, and if the earlier reply comes last, the page says "playing" for
  ever; a page left before its start is answered leaves the playback running,
  though the comment at `replayStore.ts` 94 says it is stopped; a log that cannot be read
  stays `current`.
* A graceful stop writes no HTML report though the documentation says each run
  does. A rewind compares a file and writes it after an await, so an edit saved
  exactly in between is overwritten; a comparison and a write are two system calls
  whatever the program does, so `Rewind` remembers it (`raced`) instead of excluding
  it. A crash in the middle of a line makes the whole log unreadable to `load` and
  `readEventLog`. After a graceful stop the digest says aborted while the host
  reports completed (`sessionHost.ts` 277). A revised delivery goes back to the
  reviewer only: the auditor's clearance is for an earlier version (`orchestrator.ts` 437).

## 7 Abstractions and what is left out

* A payload is a model value; a plan is the three flags the pipeline reads; a
  tool is its one effect. Token counts, prompt text, line counts, rendering and
  logging are left out.
* `AgentRun`: whether a cancelled request is recognised as such
  (`isAbortError`) is left open, both outcomes are explored. The exit at the
  loop's head for an open circuit breaker (`agent.ts` 991-994) is left out:
  `executeTool` returns its errors instead of throwing, so the breaker never
  opens from there. The replay log's creation does not fail
  (`createWriteStream` reports its errors later, without a listener); reports
  are on, so every digest exists; both hosts configure `onToolApproval`.
* `ToolBatch`: a tool acts at one instant; a command that acts several times
  is seen by a read-only call in parts, which only adds to what
  section 6 says of `TranscriptIsSequential`.
* `Rewind`: contents are equal or different, very large or not, and the cut part of a
  large one is equal to no other; a change is seen by size and time, which always
  differ; commits and staging during a turn are left out, so the index stands still;
  turns and rewinds do not overlap, as in the command line's queue. The desktop's
  `rewindApply` has no such queue: `SessionHost` shows what follows.
* `SessionHost`: a team's turn asks nothing (`runTeam` passes no callbacks); the
  event ring and the settings that no decision reads are left out; a restored
  file is a count.
* `EventLogger`, `ReplayEngine`: only events the engine acts on are recorded;
  call ids are unique in a run; the stream does not fail; `init` is over;
  `flush` and `readEventLog`, which the agent does not call, signature and
  `llmProvider` are left out. `executeTool` returns its errors, so the engine's
  catch block is not reached.
* `SessionStream`: sessions do not interact, so one is enough; ask and approval
  events are events like others; the engine's order of events is that of a turn.
* `RouterPanels`: a panel has one list, and the panel of logs, the search among
  models, layout and wording are left out; the messages of usage reach the window
  at once, and the wait before the next attempt has no length.
* `RouterCommands`: what a command prints is left out; ages count ticks while no
  command runs, so a command takes no time.
* `Settings`: settings always written together are one key, a saved value is the
  number of its save; one command line and one dialog at a time; a test of a
  connection changes nothing.
* `Workbench`: turns run or not (`SessionStream` and `AgentRun` have the rest); the dialogs of
  one session are one, as are those of none. A session created in the dialog is
  not followed here.
* `RewindDialog`: every turn has changes; two requests that are alike and that
  nobody awaits are one.
* `Playback`: an event is its number; speed is left out, as a pause may be of any
  length; the list of recorded runs is left out.
* `RouterControl`: a version is old or new; a copy npm replaces while a daemon runs
  it is replaced at once; the dashboard's HTTP is left out but for the version.
* `Repair`, `Sandbox`: what a command does is whether it succeeds; the repair agent is
  a claim; incident files, playbook and platform detection are left out.
* `Tui`, `Repl`: the line is empty or not, its text the kind of input it is; layout,
  colours, history, completion and the splash are left out. A run of the agent is
  its events in their order (`AgentRun` has the rest).
* `mapPool`'s limit is a number: `NaN` is kept out by `parsePositiveInt`.
* Not modelled at all, with the reason each: see `components` in
  PROJECT.json. In short: what each tool does, HTTP and the parsing of streams are
  I/O; reports and most of terminal and renderer are presentation; prompt shaping
  and the orchestrator's dispatch are pure text heuristics; `runDoctor`
  (`--doctor`) only prints; the reasoner's state is read by no decision; checkpoints and branches are written and never read.

## 8 Plan

The order is by how much of the program's behaviour depends on a part:
the turn (`MapPool`, `TurnTools`, `ToolBatch`), the run around it
(`SessionLedger`, `AgentRun`), the team (`Orchestrator`), undoing
(`Rewind`), the session and its questions (`SessionHost`), the log and its
replay (`EventLogger`, `ReplayEngine`), the window (`SessionStream`), the router
(`RouterControl`), commands and repair (`Sandbox`, `Repair`), the terminal (`Tui`,
`Repl`), and what is around the sessions (`RouterPanels`, `RouterCommands`,
`Settings`, `Workbench`, `RewindDialog`, `Playback`): these are done. Next would be an
abstract session that `AgentRun` implements (a queue of turns, each open,
then closed once with its receipt), shared by both hosts.
