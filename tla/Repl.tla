-------------------------------- MODULE Repl --------------------------------
(***************************************************************************)
(* The interactive session of the command line, runRepl (src/src/          *)
(* index.ts): readline and its line, the coalescer that makes one input of *)
(* the lines of a paste (src/src/replInput.ts), the promise chain that     *)
(* runs the inputs one after the other, the pickers and questions that     *)
(* read keys of their own (src/src/tui.ts), and the renderer (Tui).        *)
(*                                                                         *)
(* Every key reaches readline first, which is never paused for a picker or *)
(* a question, and then whoever else listens to stdin.  What one chunk of  *)
(* input sets off before the next await is one action.  The model's API,   *)
(* the router and the user are external.                                   *)
(***************************************************************************)
EXTENDS Tui

CONSTANTS
  Texts,      \* the lines that may be typed, each named by its kind
  MaxLines,   \* bound: lines entered
  MaxRounds,  \* maxIterations of a run of the agent
  MaxCalls    \* bound: tool calls of an answer

Kinds == {"task", "models", "replay", "team", "command", "exit"}

ASSUME ReplAssumption ==
  /\ Texts \subseteq Kinds
  /\ MaxLines \in Nat /\ MaxRounds \in Nat \ {0} /\ MaxCalls \in Nat \ {0}

VARIABLES
  line,     \* rl.line, "blank" when it is empty
  pending,  \* pendingLines of the coalescer
  queue,    \* inputs submitted and not begun
  owed,     \* history: the lines entered and not yet part of an input begun
  entered,  \* bound: how many lines were entered
  open,     \* readline is not closed
  hears,    \* stdin flows
  stage,    \* what the input being processed awaits; "gone" after the end
  owner,    \* who reads keys besides readline
  flag,     \* pickerActive
  screen,   \* the renderer
  run,      \* the agent's run
  source,   \* history: whose events were rendered last
  cut,      \* history: a replay ended with cards running
  exited    \* how the process ended, "no" before

inputVars == <<line, pending, queue, owed, entered, open>>
keyVars == <<hears, owner, flag>>
runVars == <<screen, run, source, cut>>
vars == <<inputVars, keyVars, stage, runVars, exited>>

NoRun == [at |-> "over", round |-> 0, continued |-> FALSE, batch |-> <<>>]

Init ==
  /\ line = "blank" /\ pending = <<>> /\ queue = <<>> /\ owed = <<>> /\ entered = 0
  /\ open = TRUE /\ hears = TRUE /\ owner = "none" /\ flag = FALSE
  /\ stage = "idle" /\ exited = "no"
  /\ screen = Blank /\ run = NoRun /\ source = "none" /\ cut = FALSE

-----------------------------------------------------------------------------
(* Lines and inputs. *)

Alive == stage # "gone"

(* Submit the pending lines.  A mutation: they stay pending.               *)
FlushKeeps ==
  /\ queue' = IF pending = <<>> THEN queue ELSE Append(queue, pending)
  /\ UNCHANGED pending

Flush ==
  /\ queue' = IF pending = <<>> THEN queue ELSE Append(queue, pending)
  /\ pending' = <<>>

(* The timer of the coalescer goes off. *)
Settle ==
  /\ Alive /\ pending # <<>> /\ Flush
  /\ UNCHANGED <<line, owed, entered, open, keyVars, stage, runVars, exited>>

(* trim(): the blank lines at both ends go.                                *)
Trimmed(lines) ==
  LET text == {i \in DOMAIN lines : lines[i] # "blank"}
  IN IF text = {} THEN <<>>
     ELSE SubSeq(lines, CHOOSE i \in text : \A j \in text : i <= j, LastOf(text))

(* A command is one line; several lines are a task, whatever they say.     *)
KindOf(lines) ==
  LET t == Trimmed(lines)
  IN IF t = <<>> THEN "blank" ELSE IF Len(t) = 1 THEN t[1] ELSE "task"

-----------------------------------------------------------------------------
(* What an input sets off. *)

ToPrompt == stage' = "idle" /\ owner' = "none"
Ends(how) == exited' = how /\ stage' = "gone"

(* pickFromList and its like listen to stdin and make it flow again.       *)
Listens(who) == owner' = who /\ hears' = TRUE

(* offerTeamPipeline, runTeamPipeline, and makeAgent and run: sandbox      *)
(* status and test plan come before the first round.                       *)
BeginTeam ==
  /\ stage' = "team" /\ owner' = "none" /\ flag' = FALSE
  /\ screen' = NextTurn(screen) /\ run' = NoRun /\ source' = "run"
  /\ UNCHANGED <<hears, cut>>

BeginAgent ==
  /\ stage' = "agent" /\ owner' = "none" /\ flag' = FALSE
  /\ \E es \in {<<>>, <<Ev("background")>>, <<Ev("spec_plan")>>, <<Ev("background"), Ev("spec_plan")>>} :
       screen' = Rendered(NextTurn(screen), es)
  /\ run' = [NoRun EXCEPT !.at = "round"] /\ source' = "run"
  /\ UNCHANGED <<hears, cut>>

OfferTeam ==
  /\ stage' = "offer" /\ Listens("picker") /\ flag' = TRUE
  /\ UNCHANGED runVars

Rest == UNCHANGED <<keyVars, runVars>>

(* processSubmittedInput, up to its first await.                           *)
Process(kind) ==
  CASE kind = "blank" -> stage' = "idle" /\ Rest /\ UNCHANGED exited
    [] kind = "exit"  -> Ends("exit") /\ Rest
    [] kind = "task"  -> (BeginAgent \/ BeginTeam \/ OfferTeam) /\ UNCHANGED exited
    [] kind = "team"  -> \/ stage' = "idle" /\ Rest /\ UNCHANGED exited
                         \/ BeginTeam /\ UNCHANGED exited
    [] OTHER -> stage' = kind /\ Rest /\ UNCHANGED exited

Take ==
  /\ stage = "idle" /\ queue # <<>>
  /\ queue' = Tail(queue)
  /\ owed' = SubSeq(owed, Len(Head(queue)) + 1, Len(owed))
  /\ Process(KindOf(Head(queue)))
  /\ UNCHANGED <<line, pending, entered, open>>

(* fetchModels answers: with nothing to choose from, with the very model   *)
(* that was named, or with a list.  It is not guarded: when it throws, no  *)
(* one handles the rejection of the chain and the process ends.            *)
Fetched ==
  /\ stage = "models"
  /\ \/ ToPrompt /\ UNCHANGED <<hears, flag, exited>>
     \/ Listens("picker") /\ flag' = TRUE /\ stage' = "pick" /\ UNCHANGED exited
     \/ Ends("crash") /\ UNCHANGED keyVars
  /\ UNCHANGED <<inputVars, runVars>>

(* executeSlashCommand answers, and never throws.                          *)
CommandDone ==
  /\ stage = "command" /\ ToPrompt
  /\ UNCHANGED <<inputVars, hears, flag, runVars, exited>>

(* listRunLogs, and after the picker readEventLog, which reads an          *)
(* unreadable log as an empty one.                                         *)
Listed ==
  /\ stage = "replay"
  /\ \/ ToPrompt /\ UNCHANGED <<hears, flag>>
     \/ Listens("picker") /\ flag' = TRUE /\ stage' = "logs"
  /\ UNCHANGED <<inputVars, runVars, exited>>

LogRead ==
  /\ stage = "reading"
  /\ \/ ToPrompt /\ UNCHANGED <<hears, flag>>
     \/ Listens("replay") /\ flag' = TRUE /\ stage' = "replaying"
  /\ UNCHANGED <<inputVars, runVars, exited>>

-----------------------------------------------------------------------------
(* A replay: renderEventLog feeds recorded events to the renderer, until   *)
(* the log ends or a key stops it.  Of the end of a run nothing is played. *)

Recorded == {Ev("iteration"), Ev("thinking"), Ev("compact"), Ev("spec_plan")}
              \cup {CallEv(n) : n \in Tools} \cup {ResultEv(n) : n \in Tools}

Playing == stage \in {"replaying", "stopping"}

ReplayEvent ==
  /\ stage = "replaying"
  /\ \E e \in Recorded : screen' = OnEvent(screen, e)
  /\ source' = "replay"
  /\ UNCHANGED <<inputVars, keyVars, stage, run, cut, exited>>

ReplayEnd ==
  /\ Playing /\ ToPrompt /\ flag' = FALSE
  /\ cut' = (cut \/ Running(screen.cards) # {})
  /\ UNCHANGED <<inputVars, hears, screen, run, source, exited>>

-----------------------------------------------------------------------------
(* The events of a team's run, which ends without the pipeline's last      *)
(* event when the task is escalated.                                       *)

TeamEvent ==
  /\ stage = "team"
  /\ \E type \in {"role_start", "role_complete"} : screen' = OnEvent(screen, Ev(type))
  /\ UNCHANGED <<inputVars, keyVars, stage, run, source, cut, exited>>

TeamEnd ==
  /\ stage = "team" /\ ToPrompt
  /\ \E es \in {<<Ev("task_over"), EndEv("done", "new")>>, <<Ev("task_over"), EndEv("error", "new")>>,
                 <<Ev("escalation"), EndEv("error", "new")>>} :
       screen' = Rendered(screen, es)
  /\ UNCHANGED <<inputVars, hears, flag, run, source, cut, exited>>

-----------------------------------------------------------------------------
(* The events of the agent's run (see AgentRun for the run itself).  In an *)
(* answer, calls whose arguments do not parse are answered without being   *)
(* announced; all results are told after the last call has ended.          *)

Runs(at) == stage = "agent" /\ run.at = at
Shows(es) == screen' = Rendered(screen, es)
StaysInRun == UNCHANGED <<inputVars, hears, flag, stage, source, cut, exited>>

Round ==
  /\ Runs("round") /\ run.round < MaxRounds
  /\ \E es \in {<<>>, <<Ev("compact")>>} : Shows(<<Ev("iteration"), Ev("background")>> \o es)
  /\ run' = [run EXCEPT !.at = "model", !.round = @ + 1]
  /\ UNCHANGED owner /\ StaysInRun

Think ==
  /\ Runs("model") /\ Shows(<<Ev("thinking")>>)
  /\ UNCHANGED <<run, owner>> /\ StaysInRun

Answer ==
  /\ Runs("model")
  /\ \E n \in 1..MaxCalls :
       \E batch \in [1..n -> [name : Tools, at : {"new", "unparsed"}]] :
         run' = [run EXCEPT !.at = "tools", !.batch = batch]
  /\ UNCHANGED <<screen, owner>> /\ StaysInRun

Call(i) ==
  /\ Runs("tools") /\ run.batch[i].at = "new"
  /\ Shows(<<CallEv(run.batch[i].name)>>)
  /\ run' = [run EXCEPT !.batch[i].at = "called"]
  /\ UNCHANGED owner /\ StaysInRun

(* interactiveToolApproval and interactiveAskUser, one at a time behind    *)
(* the mutation lock: neither sets pickerActive.                           *)
Ask(i) ==
  /\ Runs("tools") /\ run.batch[i].at = "called" /\ owner = "none"
  /\ \E who \in {"approve", "picker"} : Listens(who)
  /\ run' = [run EXCEPT !.batch[i].at = "asking"]
  /\ UNCHANGED <<inputVars, flag, stage, screen, source, cut, exited>>

(* The results, and what the size of an output adds.                       *)
Results ==
  /\ Runs("tools")
  /\ \A i \in DOMAIN run.batch : run.batch[i].at \in {"called", "answered", "unparsed"}
  /\ \E es \in {<<>>, <<Ev("compact")>>} :
       Shows([i \in DOMAIN run.batch |-> ResultEv(run.batch[i].name)] \o es)
  /\ run' = [run EXCEPT !.at = "round", !.batch = <<>>]
  /\ UNCHANGED owner /\ StaysInRun

(* A mutation of Continue: the continuations are not counted. *)
ContinueForever ==
  /\ Runs("round") /\ run.round = MaxRounds
  /\ Shows(<<Ev("compact"), Ev("continuation")>>)
  /\ run' = [run EXCEPT !.round = 0]
  /\ UNCHANGED owner /\ StaysInRun

(* One continuation, with fresh iterations. *)
Continue ==
  /\ Runs("round") /\ run.round = MaxRounds /\ ~run.continued
  /\ \E es \in {<<>>, <<Ev("model_switch")>>} : Shows(es \o <<Ev("compact"), Ev("continuation")>>)
  /\ run' = [run EXCEPT !.round = 0, !.continued = TRUE]
  /\ UNCHANGED owner /\ StaysInRun

EndsRun(at, es) ==
  /\ ToPrompt /\ Shows(es) /\ run' = [NoRun EXCEPT !.at = at]
  /\ UNCHANGED <<inputVars, hears, flag, source, cut, exited>>

Done == Runs("model") /\ EndsRun("over", <<EndEv("done", "new")>>)

(* A failure, or one that isAbortError takes for an abort.                 *)
Fail ==
  /\ Runs("model")
  /\ \/ EndsRun("over", <<EndEv("error", "new")>>)
     \/ EndsRun("over", <<EndEv("error", "new"), EndEv("done", "same")>>)

(* Out of iterations: the error is told, thrown, and told again.           *)
Exhaust ==
  /\ Runs("round") /\ run.round = MaxRounds
  /\ EndsRun("exhausted", <<EndEv("error", "new"), EndEv("error", "new")>>)

AgentStep ==
  \/ Round \/ Think \/ Answer \/ Results \/ Continue \/ Done \/ Fail \/ Exhaust
  \/ \E i \in DOMAIN run.batch : Call(i) \/ Ask(i)
-----------------------------------------------------------------------------
(* Keys.  First what the owner of a picker or a question makes of a chunk  *)
(* of input, readline having had it already.                               *)

Owns(who) == owner = who /\ hears

(* The question is answered. *)
Reply ==
  /\ owner' = "none"
  /\ LET batch == run.batch
         Told(c) == IF c.at = "asking" THEN [c EXCEPT !.at = "answered"] ELSE c
     IN run' = [run EXCEPT !.batch = [i \in DOMAIN batch |-> Told(batch[i])]]
  /\ UNCHANGED <<flag, stage, screen, source, cut>>

AnswerAsk == Reply /\ UNCHANGED hears

PickerGone == ToPrompt /\ flag' = FALSE /\ UNCHANGED <<hears, runVars>>

(* An item is picked: a model or a turn to rewind to, a log, a team or the *)
(* agent, an option or the one that asks for a text.                       *)
Picked ==
  CASE stage = "pick"  -> PickerGone
    [] stage = "logs"  -> /\ stage' = "reading" /\ owner' = "none" /\ flag' = FALSE
                          /\ UNCHANGED <<hears, runVars>>
    [] stage = "offer" -> BeginAgent \/ BeginTeam
    [] stage = "agent" -> \/ AnswerAsk
                          \/ /\ owner' = "free"
                             /\ UNCHANGED <<hears, flag, stage, runVars>>

Dismissed ==
  CASE stage \in {"pick", "logs"} -> PickerGone
    [] stage = "offer" -> BeginAgent
    [] stage = "agent" -> AnswerAsk

OwnerGets(key) ==
  CASE Owns("approve") -> AnswerAsk
    [] Owns("free") /\ key # "text" -> AnswerAsk
    [] Owns("picker") /\ key = "enter" -> Picked
    [] Owns("picker") /\ key \in {"esc", "ctrl_c"} -> Dismissed
    [] Owns("replay") /\ key \in {"esc", "ctrl_c"} /\ stage = "replaying" ->
         stage' = "stopping" /\ UNCHANGED <<keyVars, runVars>>
    [] OTHER -> UNCHANGED <<keyVars, stage, runVars>>

(* A text is typed, or recalled from the history. *)
Type(t) ==
  /\ Alive /\ open /\ line = "blank" /\ line' = t
  /\ OwnerGets("text")
  /\ UNCHANGED <<pending, queue, owed, entered, open, exited>>

Enter ==
  /\ Alive
  /\ IF open
     THEN /\ entered < MaxLines /\ entered' = entered + 1
          /\ pending' = Append(pending, line) /\ owed' = Append(owed, line) /\ line' = "blank"
          /\ UNCHANGED <<queue, open>>
     ELSE owner # "none" /\ hears /\ UNCHANGED inputVars
  /\ OwnerGets("enter")
  /\ UNCHANGED exited

(* With the palette of commands open, Esc drops the line. *)
Esc ==
  /\ Alive
  /\ \/ owner # "none" /\ hears /\ UNCHANGED line
     \/ open /\ ~flag /\ line # "blank" /\ line \notin {"task", "exit"} /\ line' = "blank"
  /\ OwnerGets("esc")
  /\ UNCHANGED <<pending, queue, owed, entered, open, exited>>

(* Ctrl+C clears the line, and on an empty line ends the process, whatever *)
(* it is doing.  Once readline is closed it is a signal, unless someone    *)
(* reads keys.                                                             *)
CtrlC ==
  /\ Alive
  /\ \/ /\ open /\ line # "blank" /\ line' = "blank" /\ OwnerGets("ctrl_c")
        /\ UNCHANGED <<pending, queue, owed, entered, open, exited>>
     \/ /\ ~open /\ owner # "none" /\ hears /\ OwnerGets("ctrl_c")
        /\ UNCHANGED <<inputVars, exited>>
     \/ /\ IF open THEN line = "blank" ELSE owner = "none" \/ ~hears
        /\ Ends("sigint") /\ UNCHANGED <<inputVars, keyVars, runVars>>

(* A mutation of CtrlD: what is pending is not submitted. *)
CtrlDDrops ==
  /\ Alive /\ open /\ line = "blank" /\ open' = FALSE /\ hears' = FALSE
  /\ IF Owns("approve") THEN Reply ELSE UNCHANGED <<owner, flag, stage, runVars>>
  /\ UNCHANGED <<pending, queue, line, owed, entered, exited>>

(* Ctrl+D on an empty line closes readline, which pauses stdin: the lines  *)
(* pending are submitted, and the process ends after the last input.       *)
CtrlD ==
  /\ Alive /\ open /\ line = "blank" /\ open' = FALSE /\ hears' = FALSE
  /\ Flush
  /\ IF Owns("approve") THEN Reply ELSE UNCHANGED <<owner, flag, stage, runVars>>
  /\ UNCHANGED <<line, owed, entered, exited>>

-----------------------------------------------------------------------------
(* The end of the process. *)

Close ==
  /\ ~open /\ stage = "idle" /\ queue = <<>> /\ Ends("close")
  /\ UNCHANGED <<inputVars, keyVars, runVars>>

(* A picker that hears no keys keeps nothing alive; a spinner does. *)
Drain ==
  /\ Alive /\ owner # "none" /\ ~hears /\ ~Playing /\ ~screen.spin /\ Ends("drained")
  /\ UNCHANGED <<inputVars, keyVars, runVars>>

Chain == Take \/ Fetched \/ CommandDone \/ Listed \/ LogRead \/ AgentStep

Next ==
  \/ Settle \/ Chain \/ ReplayEvent \/ ReplayEnd \/ TeamEvent \/ TeamEnd
  \/ (\E t \in Texts : Type(t)) \/ Enter \/ Esc \/ CtrlC \/ CtrlD
  \/ Close \/ Drain

(* Timers go off, requests, commands, runs and replays end; the user need  *)
(* not press any key.                                                      *)
Fairness ==
  /\ WF_vars(Settle) /\ WF_vars(Chain) /\ WF_vars(Close)
  /\ WF_vars(ReplayEnd) /\ WF_vars(TeamEnd)

Spec == Init /\ [][Next]_vars /\ Fairness

-----------------------------------------------------------------------------
(* Properties. *)

Flat(inputs) ==
  LET upTo[i \in 0..Len(inputs)] == IF i = 0 THEN <<>> ELSE upTo[i - 1] \o inputs[i]
  IN upTo[Len(inputs)]

(* However lines, pastes, timers and runs interleave, the inputs not begun *)
(* and the lines still pending are exactly the lines entered, in order,    *)
(* none lost and none twice.                                               *)
InputsAreKept == Flat(queue) \o pending = owed

(* A session closed by the end of its input ends after every line entered  *)
(* before was run.                                                         *)
NothingLostAtClose == exited = "close" => owed = <<>>

(* No line is lost or doubled, while the session lasts and when it ends. *)
LinesAreKept == InputsAreKept /\ NothingLostAtClose

(* When the prompt waits for a line, keys reach the palette of commands,   *)
(* and the renderer is done: no card shows a tool as running, unless a     *)
(* replay was left in the middle, and no spinner draws over the prompt,    *)
(* unless a replay was the last to show one.                               *)
PromptIsFree ==
  stage = "idle" =>
    /\ ~flag /\ owner = "none"
    /\ Running(screen.cards) = {} \/ cut
    /\ screen.spin => source = "replay"

(* Each turn shows its receipts, and shows them once even when its last    *)
(* two events carry them: only a run that is out of iterations tells its   *)
(* failure twice, each time with receipts of its own.                      *)
ReceiptsShownOnce ==
  stage = "idle" /\ source = "run" => screen.boxes = IF run.at = "exhausted" THEN 2 ELSE 1

(* What is left on the screen by a run, a replay or a command, however it  *)
(* ended.                                                                  *)
ScreenIsSound == PromptIsFree /\ ReceiptsShownOnce

(* The session never hangs by itself: again and again all lines entered    *)
(* are begun, or the user is asked something, or the process has ended.    *)
InputsAreBegun == []<>(owed = <<>> \/ owner \in {"picker", "approve", "free"} \/ exited # "no")
=============================================================================
