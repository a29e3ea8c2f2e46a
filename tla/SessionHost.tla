---------------------------- MODULE SessionHost ----------------------------
(***************************************************************************)
(* One session of the desktop application, SessionHost (src/desktop/src/   *)
(* main/sessionHost.ts), between its clients and its engine.  Clients (the *)
(* renderer, through IPC) run, abort and remove the session, answer its    *)
(* questions, change its working directory and rewind it, at any moment.   *)
(* The engine, one promise per turn, asks the user before it executes a    *)
(* gated tool call (an approval, or ask_user); the question and the means  *)
(* to answer it are kept in a single slot.  What the engine does besides   *)
(* is AgentRun's subject, and so is a graceful stop.                       *)
(*                                                                         *)
(* setWorkDir and rewindApply test once that no turn is running, and then  *)
(* wait for the file system.                                               *)
(***************************************************************************)
EXTENDS Integers

CONSTANTS
  Calls,      \* the gated calls a turn may make
  Dirs,       \* working directories
  MaxTurns,   \* bound: turns
  MaxRewinds  \* bound: rewinds, of one file each

ASSUME HostAssumption ==
  /\ 0 \notin Calls
  /\ Dirs # {}
  /\ MaxTurns \in Nat /\ MaxRewinds \in Nat

VARIABLES
  status,          \* status
  abortRequested,  \* abortRequested
  disposed,        \* the session was removed
  workDir,         \* workDir
  slot,            \* pending and pendingResolve: a request, the call it is for
  requestSeq,      \* requestSeq
  turns,           \* turns begun
  engines,         \* agent runs and orchestrations under way
  team,            \* the turn is a team's, which asks nothing
  call,            \* call[c]: has the turn's call c asked, and does it wait
  asked,           \* asked[c]: the request call c made, 0 if none
  granted,         \* the calls of the turn that got a yes
  said,            \* the requests the user has said yes to (history)
  moving,          \* the directories setWorkDir is looking at
  rewinds,         \* rewinds begun
  restored         \* files rewinds have restored

client   == <<disposed, said>>
question == <<slot, requestSeq, call, asked, granted>>
turn     == <<abortRequested, turns, engines, team>>
files    == <<workDir, moving, rewinds, restored>>
hostVars == <<status, client, question, turn, files>>

NoRequest == [id |-> 0, for |-> 0]

Running == status \in {"running", "waiting"}

HostInit ==
  /\ status = "idle"
  /\ abortRequested = FALSE /\ disposed = FALSE
  /\ workDir \in Dirs
  /\ slot = NoRequest /\ requestSeq = 0
  /\ turns = 0 /\ engines = 0 /\ team = FALSE
  /\ call = [c \in Calls |-> "none"]
  /\ asked = [c \in Calls |-> 0]
  /\ granted = {} /\ said = {}
  /\ moving = {} /\ rewinds = 0 /\ restored = 0

-----------------------------------------------------------------------------
(* Turns. *)

(* run: refused while a turn is running. *)
Run ==
  /\ ~disposed /\ ~Running /\ turns < MaxTurns
  /\ status' = "running"
  /\ abortRequested' = FALSE
  /\ turns' = turns + 1 /\ engines' = engines + 1
  /\ team' \in BOOLEAN
  /\ call' = [c \in Calls |-> "none"]
  /\ asked' = [c \in Calls |-> 0]
  /\ granted' = {}
  /\ UNCHANGED <<client, slot, requestSeq, files>>

(* The engine's promise settles (a tool batch is over when its calls are), *)
(* and run's last lines clear the slot.  A team, or an interrupted agent,  *)
(* may have asked for less than a turn may ask.                            *)
End ==
  /\ engines > 0
  /\ \A c \in Calls : call[c] # "asking"
  /\ engines' = engines - 1
  /\ status' \in IF abortRequested THEN {"idle"} ELSE {"idle", "error"}
  /\ slot' = NoRequest
  /\ UNCHANGED <<client, requestSeq, call, asked, granted, abortRequested, turns,
                 team, files>>

-----------------------------------------------------------------------------
(* Questions. *)

(* A mutation of LockHeld: gated calls are not serialised. *)
LockIgnored == FALSE

(* A gated call runs under the agent's mutation lock. *)
LockHeld == \E c \in Calls : call[c] = "asking"

(* A mutation of Dismissed: an abort is not noticed. *)
DismissedLate == disposed

(* waitFor: nobody will answer, so the call is refused at once. *)
Dismissed == disposed \/ abortRequested

(* A gated call of the turn asks the user. *)
Ask(c) ==
  /\ engines > 0 /\ ~team
  /\ call[c] = "none" /\ ~LockHeld
  /\ requestSeq' = requestSeq + 1
  /\ asked' = [asked EXCEPT ![c] = requestSeq']
  /\ IF Dismissed
     THEN /\ call' = [call EXCEPT ![c] = "over"]
          /\ UNCHANGED <<status, slot>>
     ELSE /\ call' = [call EXCEPT ![c] = "asking"]
          /\ slot' = [id |-> requestSeq', for |-> c]
          /\ status' = "waiting"
  /\ UNCHANGED <<client, granted, turn, files>>

(* resolvePending: the slot is cleared, and the call in it continues. *)
ResolvePending(yes) ==
  /\ slot' = NoRequest
  /\ status' = IF status = "waiting" THEN "running" ELSE status
  /\ call' = [call EXCEPT ![slot.for] = "over"]
  /\ granted' = IF yes THEN granted \cup {slot.for} ELSE granted
  /\ UNCHANGED <<requestSeq, asked>>

(* A mutation of IsPending: any answer will do. *)
AnyPending(id) == slot # NoRequest

(* assertPending. *)
IsPending(id) == slot # NoRequest /\ slot.id = id

(* answerAsk, decideApproval: the user answers a request once shown, maybe *)
(* late, maybe again; an answer to another request than the pending one is *)
(* refused.                                                                *)
Answer(id, yes) ==
  /\ ~disposed
  /\ said' = IF yes THEN said \cup {id} ELSE said
  /\ IF IsPending(id)
     THEN ResolvePending(yes)
     ELSE UNCHANGED <<status, question>>
  /\ UNCHANGED <<disposed, turn, files>>

(* abort: the turn is marked, and a pending question is dismissed.         *)
Abandon ==
  /\ abortRequested' = (abortRequested \/ Running)
  /\ IF Running /\ slot # NoRequest
     THEN ResolvePending(FALSE)
     ELSE UNCHANGED <<status, question>>
  /\ UNCHANGED <<turns, engines, team>>

Abort == ~disposed /\ Running /\ Abandon /\ UNCHANGED <<client, files>>

(* The registry removes the session, or the application quits. *)
Dispose ==
  /\ ~disposed
  /\ disposed' = TRUE
  /\ Abandon
  /\ UNCHANGED <<said, files>>

-----------------------------------------------------------------------------
(* Operations for an idle session. *)

BeginSetWorkDir(d) ==
  /\ ~disposed /\ ~Running
  /\ moving' = moving \cup {d}
  /\ UNCHANGED <<status, client, question, turn, workDir, rewinds, restored>>

(* stat has answered: the directory is there, or it is not. *)
EndSetWorkDir(d) ==
  /\ d \in moving
  /\ moving' = moving \ {d}
  /\ workDir' \in {d, workDir}
  /\ UNCHANGED <<status, client, question, turn, rewinds, restored>>

BeginRewind ==
  /\ ~disposed /\ ~Running /\ turns > 0
  /\ rewinds < MaxRewinds
  /\ rewinds' = rewinds + 1
  /\ UNCHANGED <<status, client, question, turn, workDir, moving, restored>>

(* applyRewind restores a file (see Rewind). *)
RestoreFile ==
  /\ restored < rewinds
  /\ restored' = restored + 1
  /\ UNCHANGED <<status, client, question, turn, workDir, moving, rewinds>>

-----------------------------------------------------------------------------

Client ==
  \/ Run \/ Abort \/ Dispose
  \/ \E id \in 1..requestSeq, yes \in BOOLEAN : Answer(id, yes)
  \/ \E d \in Dirs : BeginSetWorkDir(d)
  \/ BeginRewind

Engine == End \/ \E c \in Calls : Ask(c)

FileSystem == RestoreFile \/ \E d \in Dirs : EndSetWorkDir(d)

SessionOver == disposed /\ ~Running /\ UNCHANGED hostVars

HostNext == Client \/ Engine \/ FileSystem \/ SessionOver

(* The engine's promise settles unless it waits for the user, who owes     *)
(* nothing (see AgentRun, and Orchestrator for a team's turn).             *)
HostSpec == HostInit /\ [][HostNext]_hostVars /\ WF_hostVars(End)

-----------------------------------------------------------------------------

HostTypeOK ==
  /\ status \in {"idle", "running", "waiting", "error"}
  /\ abortRequested \in BOOLEAN /\ disposed \in BOOLEAN /\ team \in BOOLEAN
  /\ workDir \in Dirs /\ moving \subseteq Dirs
  /\ requestSeq \in Nat
  /\ slot \in {NoRequest} \cup [id : 1..requestSeq, for : Calls]
  /\ turns \in 0..MaxTurns
  /\ engines \in 0..1
  /\ call \in [Calls -> {"none", "asking", "over"}]
  /\ asked \in [Calls -> 0..requestSeq]
  /\ granted \subseteq Calls
  /\ said \subseteq 1..requestSeq
  /\ rewinds \in 0..MaxRewinds
  /\ restored \in 0..rewinds

(* "One slot is enough": a call that waits for the user is the one in the  *)
(* slot, so that its promise can be resolved; and the session shows that   *)
(* it waits exactly when there is a question to answer.                    *)
QuestionIsHeld ==
  /\ \A c \in Calls : call[c] = "asking" => slot = [id |-> asked[c], for |-> c]
  /\ status = "waiting" <=> slot # NoRequest

(* What the session shows is what is going on: it counts as running while, *)
(* and only while, the engine of its one turn has not settled.             *)
StatusIsTrue == engines = IF Running THEN 1 ELSE 0

(* What the session shows and waits for is what is going on. *)
SessionIsSound == QuestionIsHeld /\ StatusIsTrue

(* A gated call is executed only when the user said yes to that very call: *)
(* no late or repeated answer to an earlier question does, and no abort.   *)
NothingUnapproved == \A c \in granted : asked[c] \in said

(* An aborted turn ends, without any answer of the user. *)
AbortEnds == abortRequested /\ Running ~> ~Running

(* "Model and working directory can be changed while the session is idle", *)
(* "Rewind is available only while the session is idle": neither happens   *)
(* to a session whose turn is running.                                     *)
IdleOnly ==
  [][Running => workDir' = workDir /\ restored' = restored]_hostVars
=============================================================================
