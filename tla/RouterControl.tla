---------------------------- MODULE RouterControl ----------------------------
(***************************************************************************)
(* Who starts, stops and updates the 9router daemon.  Sessions and users   *)
(* ensure that it runs (src/init.ts); the desktop's router page and its    *)
(* command palette start, stop and restart it (routerProcess.ts), and      *)
(* update it, gracefully or by force (routerUpdate.ts).  Only an update    *)
(* excludes another update: everything else may happen meanwhile.          *)
(*                                                                         *)
(* A daemon runs the copy it was started from, whatever npm does to that   *)
(* copy later.  It may take its time to listen, leave the port before it   *)
(* exits, or ignore a request to stop.  A wait with a limit may end before *)
(* what it waits for has happened, however long the limit is.              *)
(***************************************************************************)
EXTENDS Integers, FiniteSetsExt

CONSTANTS
  Path,      \* the install directories on PATH, numbered in PATH order
  Prefix,    \* npm's default install directory, maybe not on PATH
  Pids,      \* bound: the daemons that may be started
  Users,     \* those who start, stop, restart, or create a session
  Updater,   \* who updates
  Updates,   \* the kinds of update: "update", "force"
  Looks      \* how often the new daemon is asked for its version

Installs == Path \cup {Prefix}
Actors   == Users \cup {Updater}

ASSUME RouterAssumption ==
  /\ Updater \notin Users
  /\ Installs \subseteq Nat \ {0} /\ Pids \subseteq Nat /\ Pids # {}
  /\ Looks \in Nat /\ Updates \subseteq {"update", "force"}

VARIABLES
  disk,     \* disk[i]: the version installed in i, 0 if none
  mirror,   \* the version npm installs
  ps,       \* can processes be listed (not on Windows)
  foreign,  \* another program has the port
  daemon,   \* daemon[p]: its version and state, asked to stop, killed, and
            \* whether its command line names the package's directory
  at,       \* at[a]: where an actor is
  doing,    \* doing[a]: what it is doing
  outcome,  \* outcome[a]: what came of it
  before,   \* before[a]: the daemon that listened when it began (history)
  upd       \* the update's installs to do, those done, whether one failed,
            \* the daemons it last saw, the latest version, the versions the
            \* daemon should report and reports, how often it was asked

world  == <<disk, mirror, ps, foreign>>
actors == <<at, doing, outcome, before>>
vars   == <<world, daemon, actors, upd>>

Old == 1
New == 2
Unborn == [ver |-> 0, state |-> "none", asked |-> FALSE, killed |-> FALSE,
           named |-> FALSE]
NoUpdate == [todo |-> {}, done |-> {}, failed |-> FALSE, seen |-> {},
             latest |-> 0, expected |-> 0, reported |-> 0, looks |-> 0]

Up    == {p \in Pids : daemon[p].state = "up"}
Alive == {p \in Pids : daemon[p].state \in {"starting", "up", "leaving"}}

(* isDaemonCommand: a daemon that was started by a link on PATH, or by     *)
(* npx, may run under a name that does not tell its package's directory.   *)
Named == {p \in Alive : daemon[p].named}

(* Nobody asks for a command line where processes cannot be listed. *)
CommandLines == IF ps THEN BOOLEAN ELSE {FALSE}

(* isPortOpen. *)
PortOpen == foreign \/ Up # {}

(* The copy PATH resolves, 0 if there is none. *)
Resolved(d) ==
  LET found == {i \in Path : d[i] # 0} IN IF found = {} THEN 0 ELSE Min(found)

VersionOf(i) == IF i = 0 THEN 0 ELSE disk[i]

(* What the daemon may report: its version, or nothing in time. *)
Reported == {0} \cup {daemon[p].ver : p \in Up}

Init ==
  /\ disk \in [Installs -> {0, Old}]
  /\ mirror \in {Old, New} /\ ps \in BOOLEAN /\ foreign \in BOOLEAN
  /\ \E s \in {"none", "up", "leaving"}, named \in CommandLines :
       daemon = [p \in Pids |->
                  IF p = Min(Pids) /\ s # "none"
                  THEN [Unborn EXCEPT !.ver = Old, !.state = s, !.named = named]
                  ELSE Unborn]
  /\ foreign => Up = {}
  /\ at = [a \in Actors |-> "idle"] /\ doing = [a \in Actors |-> "none"]
  /\ outcome = [a \in Actors |-> "none"] /\ before = [a \in Actors |-> {}]
  /\ upd = NoUpdate

Goto(a, l) == at' = [at EXCEPT ![a] = l] /\ UNCHANGED <<doing, outcome, before>>

Finish(a, o) ==
  /\ at' = [at EXCEPT ![a] = "over"] /\ outcome' = [outcome EXCEPT ![a] = o]
  /\ UNCHANGED <<doing, before>>

-----------------------------------------------------------------------------
(* Daemons. *)

(* What a daemon was told is forgotten once it is gone. *)
Exited(p) == [Unborn EXCEPT !.ver = daemon[p].ver, !.state = "gone"]

Becomes(p, s) ==
  /\ daemon' = [daemon EXCEPT ![p] = IF s = "gone" THEN Exited(p)
                                     ELSE [daemon[p] EXCEPT !.state = s]]
  /\ UNCHANGED <<world, actors, upd>>

(* The first to ask for the port gets it; another exits. *)
Listen(p) == daemon[p].state = "starting" /\ Becomes(p, IF PortOpen THEN "gone" ELSE "up")

(* A daemon asked to stop gives up the port first. *)
Leave(p) ==
  \/ daemon[p].state = "up" /\ daemon[p].asked /\ Becomes(p, "leaving")
  \/ daemon[p].state \in {"starting", "leaving"} /\ daemon[p].asked /\ Becomes(p, "gone")

Die(p) == p \in Alive /\ daemon[p].killed /\ Becomes(p, "gone")

Asked(ps_) == [p \in Pids |-> IF p \in ps_ /\ p \in Alive
                              THEN [daemon[p] EXCEPT !.asked = TRUE] ELSE daemon[p]]

-----------------------------------------------------------------------------
(* ensureRouter. *)

(* What the actor does once its daemon answers. *)
Started(a) ==
  IF a = Updater THEN Goto(a, "inspect_again") ELSE Finish(a, "ok")

(* A user starts the daemon, or creates a session whose backend is it. *)
Request(a, what) ==
  /\ at[a] = "idle" /\ a \in Users
  /\ at' = [at EXCEPT ![a] = IF what = "start" THEN "health" ELSE "shutdown"]
  /\ doing' = [doing EXCEPT ![a] = what]
  /\ before' = [before EXCEPT ![a] = Up]
  /\ UNCHANGED <<world, daemon, outcome, upd>>

(* A daemon that answers the health check is used as it is. *)
Healthy(a) ==
  /\ at[a] = "health"
  /\ \/ Up # {} /\ Started(a)
     \/ Goto(a, "install")
  /\ UNCHANGED <<world, daemon, upd>>

(* installAndStart: where PATH has no copy, npm installs one, or npx has.  *)
Install(a) ==
  /\ at[a] = "install"
  /\ \/ Resolved(disk) # 0 /\ UNCHANGED disk /\ Goto(a, "port")
     \/ Resolved(disk) = 0 /\ disk' = [disk EXCEPT ![Prefix] = mirror] /\ Goto(a, "port")
     \/ Resolved(disk) = 0 /\ UNCHANGED disk /\ Goto(a, "npx")
     \/ Resolved(disk) = 0 /\ UNCHANGED disk /\ Finish(a, "failed")
  /\ UNCHANGED <<mirror, ps, foreign, daemon, upd>>

(* The port is tried, and if it is closed a daemon is spawned at once; npx *)
(* runs the version npm would install, and a name PATH does not resolve    *)
(* starts nothing.                                                         *)
Spawn(a) ==
  /\ at[a] \in {"port", "npx"}
  /\ IF PortOpen
     THEN Goto(a, "check") /\ UNCHANGED daemon
     ELSE LET ver == IF at[a] = "npx" THEN mirror ELSE VersionOf(Resolved(disk)) IN
          /\ Goto(a, "wait")
          /\ IF ver = 0 THEN UNCHANGED daemon
             ELSE LET unborn == {p \in Pids : daemon[p] = Unborn} IN
                  /\ unborn # {}
                  /\ \E named \in CommandLines :
                       daemon' = [daemon EXCEPT ![Min(unborn)].ver = ver,
                                                ![Min(unborn)].state = "starting",
                                                ![Min(unborn)].named = named]
  /\ UNCHANGED <<world, upd>>

(* 45 looks at the port. *)
AwaitPort(a) ==
  /\ at[a] = "wait"
  /\ \/ PortOpen /\ Goto(a, "check")
     \/ ~PortOpen /\ Finish(a, "failed")
  /\ UNCHANGED <<world, daemon, upd>>

(* The last health check. *)
Check(a) ==
  /\ at[a] = "check"
  /\ \/ Up # {} /\ Started(a)
     \/ Finish(a, "failed")
  /\ UNCHANGED <<world, daemon, upd>>

-----------------------------------------------------------------------------
(* RouterProcess: stop and restart. *)

(* stop has failed: a restart goes on if the port is closed all the same.  *)
AfterStop(a) ==
  IF doing[a] = "restart" /\ ~PortOpen THEN Goto(a, "health") ELSE Finish(a, "failed")

Stopped(a) == IF doing[a] = "restart" THEN Goto(a, "health") ELSE Finish(a, "ok")

(* RouterClient.shutdown: heard, unreachable (which counts as heard), or   *)
(* refused.                                                                *)
Shutdown(a) ==
  /\ at[a] = "shutdown"
  /\ \/ daemon' = Asked(Up) /\ Goto(a, "closing")
     \/ UNCHANGED daemon /\ Goto(a, "closing")
     \/ UNCHANGED daemon /\ AfterStop(a)
  /\ UNCHANGED <<world, upd>>

(* 20 looks at the port. *)
AwaitClosed(a) ==
  /\ at[a] = "closing"
  /\ \/ ~PortOpen /\ Stopped(a)
     \/ PortOpen /\ AfterStop(a)
  /\ UNCHANGED <<world, daemon, upd>>

-----------------------------------------------------------------------------
(* RouterUpdater. *)

Forced == doing[Updater] = "force"

(* Every copy, or the one PATH resolves, or npm's. *)
Targets ==
  LET there == {i \in Installs : disk[i] # 0} IN
  CASE Forced /\ there # {}                -> there
    [] ~Forced /\ Resolved(disk) # 0       -> {Resolved(disk)}
    [] OTHER                               -> {Prefix}

UpdateAsked ==
  /\ at[Updater] = "idle"
  /\ at' = [at EXCEPT ![Updater] = "inspect"]
  /\ \E what \in Updates : doing' = [doing EXCEPT ![Updater] = what]
  /\ before' = [before EXCEPT ![Updater] = Up]
  /\ UNCHANGED <<world, daemon, outcome, upd>>

(* The registry answers what is the latest, or nobody does. *)
Inspect ==
  /\ at[Updater] = "inspect"
  /\ \E latest \in {0, New} : upd' = [NoUpdate EXCEPT !.todo = Targets, !.latest = latest]
  /\ Goto(Updater, "npm")
  /\ UNCHANGED <<world, daemon>>

(* npm installs into each prefix; only a forced update survives a failure. *)
Npm ==
  /\ at[Updater] = "npm" /\ upd.todo # {}
  /\ \E i \in upd.todo :
       \/ /\ disk' = [disk EXCEPT ![i] = mirror]
          /\ upd' = [upd EXCEPT !.todo = @ \ {i}, !.done = @ \cup {i}]
          /\ UNCHANGED actors
       \/ /\ upd' = [upd EXCEPT !.todo = @ \ {i}, !.failed = TRUE]
          /\ UNCHANGED disk
          /\ IF Forced THEN UNCHANGED actors ELSE Finish(Updater, "failed")
  /\ UNCHANGED <<mirror, ps, foreign, daemon>>

NpmDone ==
  /\ at[Updater] = "npm" /\ upd.todo = {}
  /\ IF upd.done = {} THEN Finish(Updater, "failed") ELSE Goto(Updater, "ask")
  /\ UNCHANGED <<world, daemon, upd>>

(* The daemon is asked to shut down; a refusal is noted. *)
AskDaemon ==
  /\ at[Updater] = "ask"
  /\ daemon' \in {daemon, Asked(Up)}
  /\ Goto(Updater, "drain")
  /\ UNCHANGED <<world, upd>>

(* waitPortClosed: forceStop goes on in any case. *)
Drain ==
  /\ at[Updater] = "drain"
  /\ CASE Forced              -> Goto(Updater, "list")
       [] ~Forced /\ ~PortOpen -> Goto(Updater, "health")
       [] ~Forced /\ PortOpen  -> Finish(Updater, "failed")
  /\ UNCHANGED <<world, daemon, upd>>

(* A mutation of Listed: daemons that left the port are not seen. *)
ListedUp == IF ps THEN Named \cap Up ELSE {}

(* daemons: those whose command says so, or none, where processes cannot   *)
(* be listed.                                                              *)
Listed == IF ps THEN Named ELSE {}

(* forceStop: list, ask who is there, list again, kill, list once more.    *)
(* The looks at the list between two steps end when nobody is there or the *)
(* time is up.                                                             *)
List(from, next) ==
  /\ at[Updater] = from
  /\ upd' = [upd EXCEPT !.seen = Listed]
  /\ Goto(Updater, IF Listed = {} THEN "free" ELSE next)
  /\ UNCHANGED <<world, daemon>>

Terminate ==
  /\ at[Updater] = "term"
  /\ daemon' = Asked(upd.seen)
  /\ Goto(Updater, "listterm")
  /\ UNCHANGED <<world, upd>>

Kill ==
  /\ at[Updater] = "kill"
  /\ daemon' = [p \in Pids |-> IF p \in upd.seen /\ p \in Alive
                               THEN [daemon[p] EXCEPT !.killed = TRUE] ELSE daemon[p]]
  /\ Goto(Updater, "listkill")
  /\ UNCHANGED <<world, upd>>

Survived ==
  /\ at[Updater] = "survived" /\ Finish(Updater, "failed")
  /\ UNCHANGED <<world, daemon, upd>>

PortFree ==
  /\ at[Updater] = "free"
  /\ IF PortOpen THEN Finish(Updater, "failed") ELSE Goto(Updater, "health")
  /\ UNCHANGED <<world, daemon, upd>>

(* The copies are looked at, and the daemon is asked for its version. *)
InspectAgain ==
  LET copies == IF Resolved(disk) # 0 THEN {Resolved(disk)} ELSE upd.done IN
  /\ at[Updater] = "inspect_again"
  /\ \E r \in Reported, latest \in {upd.latest, New}, i \in copies :
       upd' = [upd EXCEPT !.reported = r, !.latest = latest, !.expected = disk[i]]
  /\ Goto(Updater, "verify")
  /\ UNCHANGED <<world, daemon>>

(* A mutation of MayLook: a daemon of another version is waited for. *)
MayLookOn == upd.expected # 0 /\ upd.reported # upd.expected

MayLook == upd.expected # 0 /\ upd.reported # upd.expected /\ upd.looks < Looks

(* The daemon is asked again; no answer leaves the last one standing. *)
LookAgain ==
  /\ at[Updater] = "verify" /\ MayLook
  /\ \E r \in Reported :
       upd' = [upd EXCEPT !.reported = IF r = 0 THEN @ ELSE r, !.looks = Min({@ + 1, Looks})]
  /\ UNCHANGED <<world, daemon, actors>>

(* A mutation of Verified: that a daemon answers is enough. *)
VerifiedByAnswer == upd.reported # 0

(* The daemon reports the version of the copy on PATH, no install failed,  *)
(* and that version is the latest, if the latest is known.                 *)
Verified ==
  /\ upd.expected # 0 /\ upd.reported = upd.expected
  /\ ~upd.failed
  /\ upd.reported >= upd.latest

Verify ==
  /\ at[Updater] = "verify" /\ ~MayLook
  /\ Finish(Updater, IF Verified THEN "ok" ELSE "failed")
  /\ UNCHANGED <<world, daemon, upd>>

-----------------------------------------------------------------------------
Update ==
  \/ Inspect \/ Npm \/ NpmDone \/ AskDaemon \/ Drain
  \/ List("list", "term") \/ Terminate \/ List("listterm", "kill")
  \/ Kill \/ List("listkill", "survived") \/ Survived \/ PortFree
  \/ InspectAgain \/ LookAgain \/ Verify

Step(a) ==
  \/ Healthy(a) \/ Install(a) \/ Spawn(a) \/ AwaitPort(a) \/ Check(a)
  \/ Shutdown(a) \/ AwaitClosed(a)
  \/ a = Updater /\ Update

Daemon == \E p \in Pids : Listen(p) \/ Leave(p) \/ Die(p)

Next ==
  \/ \E a \in Actors : Step(a) \/ \E what \in {"start", "stop", "restart"} : Request(a, what)
  \/ UpdateAsked
  \/ Daemon

Spec == Init /\ [][Next]_vars /\ \A a \in Actors : WF_vars(Step(a))

-----------------------------------------------------------------------------
(* Properties. *)

(* One program has the port, and daemons are of a version.  *)
TypeOK ==
  /\ disk \in [Installs -> {0, Old, New}]
  /\ Cardinality(Up) <= 1 /\ (foreign => Up = {})
  /\ \A p \in Pids : daemon[p] # Unborn => daemon[p].ver \in {Old, New}
  /\ upd.todo \cup upd.done \subseteq Installs /\ upd.seen \subseteq Pids
  /\ \A a \in Actors : outcome[a] # "none" => at[a] = "over"

(* An update that reports success has left the copy that is started at the *)
(* version npm installs, and no older than the latest known; a forced one  *)
(* has left no other copy behind.                                          *)
UpdateOkIsTrue ==
  outcome[Updater] = "ok" =>
    /\ VersionOf(Resolved(disk)) \in {0, mirror}
    /\ mirror >= upd.latest
    /\ upd.reported = mirror
    /\ Forced => \A i \in Installs : disk[i] \in {0, mirror}

(* A forced update that succeeds leaves no daemon of an older version, not *)
(* even one that was about to start or to exit, whatever the users of the  *)
(* page did meanwhile; provided that processes can be listed, and that the *)
(* daemon's command line names the directory of its package: of others the *)
(* update says "no 9router process left" while they run.                   *)
ForceLeavesNoneOld ==
  (outcome[Updater] = "ok" /\ Forced /\ ps) => \A p \in Named : daemon[p].ver >= mirror

(* When stop or restart reports success, the daemon there was no longer    *)
(* listens.                                                                *)
StopStops ==
  \A u \in Users :
    (doing[u] \in {"stop", "restart"} /\ outcome[u] = "ok") => before[u] \cap Up = {}

(* A success that is reported is one, of an update, a stop or a restart,   *)
(* whatever happens to the daemons and the files meanwhile.                *)
ReportsAreTrue == TypeOK /\ UpdateOkIsTrue /\ ForceLeavesNoneOld /\ StopStops

(* An update ends, whatever the daemons and the others do.                 *)
UpdateEnds == (at[Updater] = "inspect") ~> (at[Updater] = "over")
=============================================================================
