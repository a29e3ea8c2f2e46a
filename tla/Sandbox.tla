------------------------------ MODULE Sandbox ------------------------------
(***************************************************************************)
(* How a shell command is run (src/src/sandbox): by sandbox-exec under a   *)
(* profile that is written to a file first, directly by sh, or in a        *)
(* container that the first command starts.  createExecutor picks between  *)
(* the first two; an embedder may bring the third.                         *)
(*                                                                         *)
(* Commands run side by side: read-only commands of one agent, and those   *)
(* of several agents.  A command may leave a process behind that keeps its *)
(* output open: Node's close event waits for it.  The file of a profile is *)
(* named by the millisecond, so commands may share it.  What a command     *)
(* prints is left out.                                                     *)
(***************************************************************************)
EXTENDS Integers

CONSTANTS
  Calls,   \* those who run commands, one each at a time
  Names,   \* the names a profile's file may get
  NoName   \* no file

ASSUME SandboxAssumption == NoName \notin Names

VARIABLES
  executor,   \* "sandbox", "direct" or "container"
  cmd,        \* cmd[c]: the command of c, see NoCommand
  profiles,   \* the files of profiles that exist
  lost,       \* history: those written for a command that never began
  box         \* the container: believed running, up, and its stop

sandboxVars == <<executor, cmd, profiles, lost, box>>

(* Its place in exec; the profile's file; its shell; whether a process it  *)
(* left holds its output; whether its timer fired; the answer.             *)
NoCommand == [at |-> "none", file |-> NoName, shell |-> "none",
              held |-> FALSE, timedOut |-> FALSE, ok |-> FALSE]

(* createExecutor, with useSandbox and without strict. *)
Executor(available, accepted) ==
  IF available /\ accepted THEN "sandbox" ELSE "direct"

InitSandbox ==
  /\ executor \in {Executor(v, a) : v, a \in BOOLEAN} \cup {"container"}
  /\ cmd = [c \in Calls |-> NoCommand]
  /\ profiles = {} /\ lost = {}
  /\ box = [running |-> FALSE, up |-> FALSE, stop |-> "no"]

(* What a command may begin with. *)
Begun ==
  CASE executor = "sandbox"   -> {[NoCommand EXCEPT !.at = "profile", !.file = n] : n \in Names}
    [] executor = "direct"    -> {[NoCommand EXCEPT !.at = "spawned"]}
    [] executor = "container" -> {[NoCommand EXCEPT !.at = IF box.running THEN "send" ELSE "start"]}

Becomes(c, r) == cmd' = [cmd EXCEPT ![c] = r]

(* What goes on in the machine after the answer is left out. *)
Answered(ok) == [NoCommand EXCEPT !.at = "answered", !.ok = ok]
Free(c) == cmd[c].at \in {"none", "answered"}

-----------------------------------------------------------------------------
(* Sandbox.execInSandbox and DirectExecutor.exec. *)

(* A write that fails may have made the file, which nobody removes. *)
WriteProfile(c) ==
  /\ cmd[c].at = "profile"
  /\ \/ /\ profiles' = profiles \cup {cmd[c].file} /\ lost' = lost \ {cmd[c].file}
        /\ Becomes(c, [cmd[c] EXCEPT !.at = "spawned"])
     \/ \E left \in SUBSET {cmd[c].file} :
          /\ profiles' = profiles \cup left /\ lost' = lost \cup left
          /\ Becomes(c, Answered(FALSE))
  /\ UNCHANGED <<executor, box>>

(* sandbox-exec refuses a profile it cannot read. *)
Launch(c) ==
  /\ cmd[c].at = "spawned"
  /\ Becomes(c, [cmd[c] EXCEPT !.at = "running",
                   !.shell = IF executor = "sandbox" /\ cmd[c].file \notin profiles
                             THEN "nonzero" ELSE "alive"])
  /\ UNCHANGED <<executor, profiles, lost, box>>

(* A mutation of Unlinked: the error handler forgets the file. *)
UnlinkedOnClose(c) == IF cmd[c].at = "spawned" THEN profiles ELSE profiles \ {cmd[c].file}

Unlinked(c) == profiles \ {cmd[c].file}

Unlinks(c) == profiles' = Unlinked(c) /\ lost' = lost \cap profiles'

(* The error event: nothing could be spawned. *)
SpawnFails(c) ==
  /\ cmd[c].at = "spawned"
  /\ Becomes(c, Answered(FALSE)) /\ Unlinks(c)
  /\ UNCHANGED <<executor, box>>

(* spawn itself throws: no handler is there to remove the file. *)
SpawnThrows(c) ==
  /\ cmd[c].at = "spawned"
  /\ Becomes(c, Answered(FALSE)) /\ lost' = lost \cup (profiles \cap {cmd[c].file})
  /\ UNCHANGED <<executor, profiles, box>>

(* A mutation of OnTimeout: the command is left alone. *)
OnTimeoutNothing(r) == r

(* The timer kills the shell, or asks it to end and lets go of its output, *)
(* or kills the container's client: the command goes on.                   *)
OnTimeout(r) ==
  CASE executor = "sandbox" ->
         [r EXCEPT !.timedOut = TRUE, !.shell = IF @ = "alive" THEN "signal" ELSE @]
    [] executor = "direct"    -> [r EXCEPT !.timedOut = TRUE]
    [] executor = "container" -> Answered(FALSE)

TimeOut(c) ==
  /\ cmd[c].at = "running" /\ ~cmd[c].timedOut
  /\ Becomes(c, OnTimeout(cmd[c]))
  /\ UNCHANGED <<executor, profiles, lost, box>>

(* The close event: the shell has ended and nobody holds its output. *)
Close(c) ==
  LET letGo == executor = "direct" /\ cmd[c].timedOut IN
  /\ cmd[c].at = "running" /\ cmd[c].shell # "alive"
  /\ ~cmd[c].held \/ letGo
  /\ Becomes(c, Answered(cmd[c].shell = "zero"))
  /\ Unlinks(c)
  /\ UNCHANGED <<executor, box>>

-----------------------------------------------------------------------------
(* What the command itself does. *)

Process(c) ==
  /\ cmd[c].at = "running"
  /\ \/ /\ cmd[c].shell = "alive"
        /\ \E s \in {"zero", "nonzero"} \cup (IF cmd[c].timedOut THEN {"signal"} ELSE {}) :
             Becomes(c, [cmd[c] EXCEPT !.shell = s])
     \/ cmd[c].shell = "alive" /\ Becomes(c, [cmd[c] EXCEPT !.held = TRUE])
     \/ cmd[c].held /\ Becomes(c, [cmd[c] EXCEPT !.held = FALSE])
  /\ UNCHANGED <<executor, profiles, lost, box>>

-----------------------------------------------------------------------------
(* ContainerSessionExecutor. *)

(* The engine starts the container, unless the name is taken or it fails;  *)
(* if its client is killed, nobody knows.                                  *)
StartBox(c) ==
  /\ cmd[c].at = "start"
  /\ \/ ~box.up /\ box' = [box EXCEPT !.up = TRUE] /\ Becomes(c, [cmd[c] EXCEPT !.at = "started"])
     \/ box' \in {box, [box EXCEPT !.up = TRUE]} /\ Becomes(c, [cmd[c] EXCEPT !.at = "refused"])
  /\ UNCHANGED <<executor, profiles, lost>>

(* A mutation of Started: the outcome of the start is not looked at. *)
StartedAnyway(c) ==
  /\ cmd[c].at \in {"started", "refused"}
  /\ box' = [box EXCEPT !.running = TRUE] /\ Becomes(c, [cmd[c] EXCEPT !.at = "send"])
  /\ UNCHANGED <<executor, profiles, lost>>

Started(c) ==
  /\ \/ /\ cmd[c].at = "started"
        /\ box' = [box EXCEPT !.running = TRUE] /\ Becomes(c, [cmd[c] EXCEPT !.at = "send"])
     \/ /\ cmd[c].at = "refused"
        /\ UNCHANGED box /\ Becomes(c, Answered(FALSE))
  /\ UNCHANGED <<executor, profiles, lost>>

Send(c) ==
  /\ cmd[c].at = "send"
  /\ \/ box.up /\ Becomes(c, [cmd[c] EXCEPT !.at = "running", !.shell = "alive"])
     \/ Becomes(c, Answered(FALSE))
  /\ UNCHANGED <<executor, profiles, lost, box>>

(* stopSession: the container is taken for stopped, whatever came of it. *)
StopSession ==
  /\ executor = "container"
  /\ \/ box.stop = "no" /\ box.running /\ box' = [box EXCEPT !.stop = "asked"]
     \/ box.stop = "asked" /\ box' = [box EXCEPT !.stop = "done", !.up = FALSE]
     \/ box.stop = "asked" /\ box' = [box EXCEPT !.stop = "done"]
     \/ box.stop = "done" /\ box' = [box EXCEPT !.stop = "no", !.running = FALSE]
  /\ UNCHANGED <<executor, cmd, profiles, lost>>

-----------------------------------------------------------------------------
(* The steps of a command that the program takes: its timer, its events.   *)
Exec(c) ==
  \/ WriteProfile(c) \/ Launch(c) \/ SpawnFails(c) \/ SpawnThrows(c) \/ TimeOut(c) \/ Close(c)
  \/ StartBox(c) \/ Started(c) \/ Send(c)

-----------------------------------------------------------------------------
(* Properties. *)

(* Once no command is under way, no profile of a command that began is     *)
(* left in /tmp, however commands shared a name and whichever way they     *)
(* ended.  The code leaves those of commands that never began: whose       *)
(* write failed half way, or whose spawn threw.                            *)
NoProfileLeft == (\A c \in Calls : Free(c)) => profiles \subseteq lost

(* A container that is believed to run is up, unless it is being stopped:  *)
(* commands that start it together, or while it stops, or whose start is   *)
(* refused or cut off, never make the executor send to one that is not.    *)
RunningIsTrue == (box.running /\ box.stop = "no") => box.up
=============================================================================
