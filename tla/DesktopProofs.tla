--------------------------- MODULE DesktopProofs ----------------------------
(***************************************************************************)
(* What the desktop application keeps to: updates, stops and restarts of   *)
(* the router's daemon, for any number of users, daemons and install       *)
(* directories; the questions of a session, for any number of gated calls  *)
(* and turns; and what the window knows and shows of its sessions, for any *)
(* number of sessions, events, windows and messages on their way.          *)
(***************************************************************************)
EXTENDS RouterControl, SessionHost, SessionStream, SequenceTheorems, FiniteSetTheorems,
        WellFoundedInduction, TLAPS

-----------------------------------------------------------------------------
(* The router. *)

Versions == {0, Old, New}

Daemons == [ver : Versions, state : {"none", "starting", "up", "leaving", "gone"},
            asked : BOOLEAN, killed : BOOLEAN, named : BOOLEAN]

UpdateRecord ==
  [todo : SUBSET Installs, done : SUBSET Installs, failed : BOOLEAN, seen : SUBSET Pids,
   latest : {0, New}, expected : Versions, reported : Versions, looks : Nat]

Starting == {"health", "install", "port", "npx", "wait", "check"}
Updating == {"inspect", "npm", "ask", "drain", "list", "term", "listterm", "kill", "listkill",
             "survived", "free", "inspect_again", "verify"}

Types ==
  /\ disk \in [Installs -> Versions] /\ mirror \in {Old, New}
  /\ ps \in BOOLEAN /\ foreign \in BOOLEAN
  /\ daemon \in [Pids -> Daemons]
  /\ at \in [Actors -> {"idle", "over", "shutdown", "closing"} \cup Starting \cup Updating]
  /\ doing \in [Actors -> {"none", "start", "stop", "restart", "update", "force"}]
  /\ outcome \in [Actors -> {"none", "ok", "failed"}]
  /\ before \in [Actors -> SUBSET Pids]
  /\ upd \in UpdateRecord

(* Each actor is on its own way, and has an outcome only at its end.       *)
PlacesFit ==
  /\ at[Updater] \in {"idle", "over"} \cup Starting \cup Updating
  /\ \A u \in Users : at[u] \in {"idle", "over", "shutdown", "closing"} \cup Starting
  /\ \A a \in Actors : outcome[a] # "none" => at[a] = "over"

(* One program has the port. *)
OneListens ==
  /\ \A p, q \in Pids : daemon[p].state = "up" /\ daemon[q].state = "up" => p = q
  /\ foreign => \A p \in Pids : daemon[p].state # "up"
  /\ \A p \in Pids : (daemon[p].state = "none" => daemon[p] = Unborn)
                     /\ (daemon[p] # Unborn => daemon[p].ver # 0)

(* Of the copies an update is about, those it has not failed at are done   *)
(* or still to do.                                                         *)
Covered(i) == Forced \/ i = Resolved(disk)

InstallsFit ==
  /\ (at[Updater] \notin {"idle", "inspect"} /\ ~upd.failed) =>
       \A i \in Installs : disk[i] # 0 /\ Covered(i) => i \in upd.todo \/ disk[i] = mirror
  /\ \A i \in upd.done : disk[i] = mirror
  /\ (at[Updater] \notin {"idle", "inspect", "npm"} /\ outcome[Updater] # "failed") => upd.todo = {}

(* What an update that did not fail expects is what npm installs.          *)
ExpectedFits ==
  /\ at[Updater] = "verify" /\ ~upd.failed => upd.expected = mirror
  /\ outcome[Updater] = "ok" => ~upd.failed /\ upd.reported = mirror /\ mirror >= upd.latest

(* Once nobody was seen, only the new version can be started.              *)
OnlyNewNamed ==
  (/\ Forced /\ ps /\ ~upd.failed
   /\ at[Updater] \in {"free", "inspect_again", "verify"} \cup Starting \/ outcome[Updater] = "ok")
  => \A p \in Named : daemon[p].ver = mirror

(* A daemon that has listened never starts again; when a user's stop or    *)
(* restart is past its wait, the daemon there was does not listen.         *)
BeforeFits ==
  /\ \A a \in Actors : \A p \in before[a] : daemon[p].state \in {"up", "leaving", "gone"}
  /\ \A u \in Users :
       (doing[u] \in {"stop", "restart"} /\ at[u] \notin {"idle", "shutdown", "closing"}) =>
         outcome[u] = "failed" \/ \A p \in before[u] : daemon[p].state # "up"

RouterInv ==
  /\ Types /\ PlacesFit /\ OneListens /\ InstallsFit /\ ExpectedFits /\ OnlyNewNamed
  /\ BeforeFits

-----------------------------------------------------------------------------
(* Numbers and sets of numbers.                                            *)

LEMMA LeastOf ==
  ASSUME NEW T, T \subseteq Nat, T # {}
  PROVE  \E m \in T : \A n \in T : m <= n
<1> DEFINE R == OpToRel(<, Nat)
<1>1. IsWellFoundedOn(R, Nat)
  BY NatLessThanWellFounded
<1>2. R = {ss \in Nat \X Nat : ss[1] < ss[2]}
  BY DEF OpToRel, R
<1> HIDE DEF R
<1>3. PICK x \in T : \A y \in T : ~(<<y, x>> \in R)
  BY <1>1, WFMin
<1>4. ASSUME NEW y \in T PROVE x <= y
  <2>1. x \in Nat /\ y \in Nat /\ <<y, x>> \in Nat \X Nat
    OBVIOUS
  <2>2. ~(<<y, x>>[1] < <<y, x>>[2])
    BY <2>1, <1>3, <1>2
  <2> QED
    BY <2>1, <2>2
<1> QED
  BY <1>4

LEMMA MinFacts ==
  ASSUME NEW T, T \subseteq Nat, T # {}
  PROVE  Min(T) \in T /\ \A n \in T : Min(T) <= n
<1>1. PICK m \in T : \A n \in T : m <= n
  BY LeastOf
<1> QED
  BY <1>1 DEF Min

LEMMA MinIs ==
  ASSUME NEW T, T \subseteq Nat, NEW m \in T, \A n \in T : m <= n
  PROVE  Min(T) = m
<1>1. Min(T) \in T /\ \A n \in T : Min(T) <= n
  BY MinFacts
<1>2. Min(T) <= m /\ m <= Min(T) /\ Min(T) \in Nat /\ m \in Nat
  BY <1>1
<1> QED
  BY <1>2

(* The copy PATH resolves is one that is there.                            *)
LEMMA ResolvedFacts ==
  ASSUME NEW d \in [Installs -> Versions]
  PROVE  /\ Resolved(d) \in Path \cup {0}
         /\ Resolved(d) # 0 => Resolved(d) \in Installs /\ d[Resolved(d)] # 0
         /\ Resolved(d) = 0 => \A i \in Path : d[i] = 0
<1> DEFINE found == {i \in Path : d[i] # 0}
<1>1. found \subseteq Nat \ {0} /\ found \subseteq Installs
  BY RouterAssumption DEF Installs
<1>2. found # {} => Min(found) \in found
  BY <1>1, MinFacts
<1>3. Resolved(d) = IF found = {} THEN 0 ELSE Min(found)
  BY DEF Resolved
<1> QED
  BY <1>1, <1>2, <1>3

(* An install makes PATH resolve to it, or changes nothing about that.     *)
LEMMA ResolvedMoves ==
  ASSUME NEW d \in [Installs -> Versions], NEW i \in Installs, NEW v \in {Old, New}
  PROVE  Resolved([d EXCEPT ![i] = v]) \in {i, Resolved(d)}
<1> DEFINE e == [d EXCEPT ![i] = v]
           found == {j \in Path : d[j] # 0}
           now == {j \in Path : e[j] # 0}
<1>1. now \subseteq Nat /\ found \subseteq Nat /\ i \in Nat
  BY RouterAssumption DEF Installs
<1>2. now = found \/ now = found \cup {i}
  BY DEF Installs, Old, New
<1>3. Resolved(d) = (IF found = {} THEN 0 ELSE Min(found))
      /\ Resolved(e) = (IF now = {} THEN 0 ELSE Min(now))
  BY DEF Resolved
<1> HIDE DEF found, now
<1>4. CASE now = found
  BY <1>3, <1>4
<1>5. CASE now = found \cup {i} /\ found = {}
  <2>1. Min(now) \in now
    BY <1>1, <1>5, MinFacts
  <2> QED
    BY <1>3, <1>5, <2>1
<1>6. CASE now = found \cup {i} /\ found # {}
  <2>1. PICK m \in found : \A n \in found : m <= n
    BY <1>1, <1>6, LeastOf
  <2>2. Min(found) = m
    BY <1>1, <2>1, MinIs
  <2>3. CASE m <= i
    <3>1. m \in now /\ \A n \in now : m <= n
      BY <1>6, <2>1, <2>3
    <3>2. Min(now) = m
      BY <1>1, <3>1, MinIs
    <3> QED
      BY <1>3, <1>6, <2>2, <3>2
  <2>4. CASE ~(m <= i)
    <3>1. i \in now /\ \A n \in now : i <= n
      BY <1>1, <1>6, <2>1, <2>4
    <3>2. Min(now) = i
      BY <1>1, <3>1, MinIs
    <3> QED
      BY <1>3, <1>6, <3>2
  <2> QED
    BY <2>3, <2>4
<1> QED
  BY <1>2, <1>4, <1>5, <1>6

-----------------------------------------------------------------------------
(* Daemons.                                                                *)

(* What a step may make of a daemon.                                       *)
Evolves(p) ==
  \/ daemon'[p] = daemon[p]
  \/ daemon[p] = Unborn /\ daemon'[p].state = "starting" /\ daemon'[p].ver # 0
  \/ /\ p \in Alive /\ daemon'[p].ver = daemon[p].ver /\ daemon'[p].named = daemon[p].named
     /\ \/ daemon'[p].state \in {daemon[p].state, "gone"}
        \/ daemon[p].state = "up" /\ daemon'[p].state = "leaving"

LEMMA AskedEvolves ==
  ASSUME Types, NEW S, daemon' = Asked(S)
  PROVE  daemon' \in [Pids -> Daemons] /\ \A p \in Pids : Evolves(p)
<1>1. ASSUME NEW p \in Pids PROVE daemon'[p] \in Daemons /\ Evolves(p)
  BY <1>1 DEF Types, Asked, Alive, Daemons, Evolves
<1> QED
  BY <1>1 DEF Asked

LEMMA KillEvolves ==
  ASSUME Types, Kill
  PROVE  daemon' \in [Pids -> Daemons] /\ \A p \in Pids : Evolves(p)
<1>1. ASSUME NEW p \in Pids PROVE daemon'[p] \in Daemons /\ Evolves(p)
  BY <1>1 DEF Kill, Types, Alive, Daemons, Evolves
<1> QED
  BY <1>1 DEF Kill

(* Daemons that evolve keep the port to one and those that began known.    *)
LEMMA EvolvingKeeps ==
  ASSUME RouterInv, daemon' \in [Pids -> Daemons], \A p \in Pids : Evolves(p),
         foreign' = foreign, before' = before
  PROVE  /\ OneListens'
         /\ \A p \in Pids : daemon'[p].state = "up" => daemon[p].state = "up"
         /\ \A a \in Actors : \A p \in before[a] : daemon'[p].state \in {"up", "leaving", "gone"}
<1>1. \A p \in Pids : daemon'[p].state = "up" => daemon[p].state = "up"
  BY DEF Evolves, Alive, Unborn
<1>2. OneListens'
  <2>1. \A p \in Pids : (daemon'[p].state = "none" => daemon'[p] = Unborn)
                        /\ (daemon'[p] # Unborn => daemon'[p].ver # 0)
    <3> SUFFICES ASSUME NEW p \in Pids
                 PROVE  (daemon'[p].state = "none" => daemon'[p] = Unborn)
                        /\ (daemon'[p] # Unborn => daemon'[p].ver # 0)
      OBVIOUS
    <3>1. daemon[p] # Unborn => daemon[p].ver # 0
      BY DEF RouterInv, OneListens
    <3>2. daemon[p].state = "none" => daemon[p] = Unborn
      BY DEF RouterInv, OneListens
    <3>3. p \in Alive => daemon[p] # Unborn /\ daemon[p].state # "none"
      BY DEF Alive, Unborn
    <3> QED
      BY <3>1, <3>2, <3>3 DEF Evolves
  <2> QED
    BY <1>1, <2>1 DEF RouterInv, OneListens
<1>3. ASSUME NEW a \in Actors, NEW p \in before[a]
      PROVE  daemon'[p].state \in {"up", "leaving", "gone"}
  <2>1. p \in Pids /\ daemon[p].state \in {"up", "leaving", "gone"}
    BY <1>3 DEF RouterInv, Types, BeforeFits
  <2> QED
    BY <2>1 DEF Evolves, Alive, Unborn
<1> QED
  BY <1>1, <1>2, <1>3

-----------------------------------------------------------------------------
(* Actors.                                                                 *)

Moves(a, l, o) ==
  /\ at' = [at EXCEPT ![a] = l] /\ outcome' = [outcome EXCEPT ![a] = o]
  /\ UNCHANGED <<doing, before>>

LEMMA GotoMoves ==
  ASSUME Types, NEW a \in Actors, NEW l, Goto(a, l)
  PROVE  Moves(a, l, outcome[a])
BY DEF Types, Goto, Moves

LEMMA FinishMoves ==
  ASSUME Types, NEW a \in Actors, NEW o, Finish(a, o)
  PROVE  Moves(a, "over", o)
BY DEF Types, Finish, Moves

(* An actor that moves on its own way.                                     *)
OnItsWay(a, l) ==
  IF a = Updater THEN l \in {"idle", "over"} \cup Starting \cup Updating
  ELSE l \in {"idle", "over", "shutdown", "closing"} \cup Starting

LEMMA MovesFit ==
  ASSUME RouterInv, NEW a \in Actors, NEW l, NEW o \in {"none", "ok", "failed"}, Moves(a, l, o),
         OnItsWay(a, l), o # "none" => l = "over"
  PROVE  /\ at' \in [Actors -> {"idle", "over", "shutdown", "closing"} \cup Starting \cup Updating]
         /\ doing' \in [Actors -> {"none", "start", "stop", "restart", "update", "force"}]
         /\ outcome' \in [Actors -> {"none", "ok", "failed"}]
         /\ before' \in [Actors -> SUBSET Pids]
         /\ PlacesFit'
         /\ \A b \in Actors : at'[b] = (IF b = a THEN l ELSE at[b])
                               /\ outcome'[b] = (IF b = a THEN o ELSE outcome[b])
<1>1. l \in {"idle", "over", "shutdown", "closing"} \cup Starting \cup Updating
  BY DEF OnItsWay
<1>2. /\ at' \in [Actors -> {"idle", "over", "shutdown", "closing"} \cup Starting \cup Updating]
      /\ outcome' \in [Actors -> {"none", "ok", "failed"}]
      /\ \A b \in Actors : at'[b] = (IF b = a THEN l ELSE at[b])
                            /\ outcome'[b] = (IF b = a THEN o ELSE outcome[b])
  BY <1>1 DEF Moves, RouterInv, Types
<1>3. Updater \in Actors /\ Updater \notin Users /\ Users \subseteq Actors
  BY RouterAssumption DEF Actors
<1>4. PlacesFit'
  <2>1. at'[Updater] \in {"idle", "over"} \cup Starting \cup Updating
    BY <1>2, <1>3 DEF OnItsWay, RouterInv, PlacesFit
  <2>2. \A u \in Users : at'[u] \in {"idle", "over", "shutdown", "closing"} \cup Starting
    BY <1>2, <1>3 DEF OnItsWay, RouterInv, PlacesFit
  <2>3. \A b \in Actors : outcome'[b] # "none" => at'[b] = "over"
    BY <1>2 DEF RouterInv, PlacesFit
  <2> QED
    BY <2>1, <2>2, <2>3 DEF PlacesFit
<1> QED
  BY <1>2, <1>4 DEF Moves, RouterInv, Types

(* A user who is past the wait stays so, while no daemon comes up that was *)
(* there before.                                                           *)
Past(u) ==
  outcome[u] = "failed" \/ \A p \in before[u] : daemon[p].state # "up"

LEMMA BeforeStays ==
  ASSUME RouterInv, NEW a \in Actors, NEW l, NEW o, Moves(a, l, o),
         \A b \in Actors : at'[b] = (IF b = a THEN l ELSE at[b])
                            /\ outcome'[b] = (IF b = a THEN o ELSE outcome[b]),
         \A b \in Actors : \A p \in before[b] : daemon'[p].state \in {"up", "leaving", "gone"},
         \A p \in Pids : daemon'[p].state = "up" => daemon[p].state = "up" \/ daemon[p].state = "starting",
         a \in Users /\ doing[a] \in {"stop", "restart"} /\ l # "closing" => Past(a) \/ o = "failed",
         a \in Users => outcome[a] # "failed"
  PROVE  BeforeFits'
<1>1. Users \subseteq Actors /\ before' = before /\ doing' = doing
  BY DEF Actors, Moves
<1>2. ASSUME NEW u \in Users, doing[u] \in {"stop", "restart"},
             at'[u] \notin {"idle", "shutdown", "closing"}
      PROVE  outcome'[u] = "failed" \/ \A p \in before[u] : daemon'[p].state # "up"
  <2>1. outcome'[u] = "failed" \/ Past(u)
    BY <1>1, <1>2 DEF RouterInv, BeforeFits, Past
  <2>2. CASE outcome'[u] = "failed"
    BY <2>2
  <2>3. CASE outcome'[u] # "failed"
    <3>1. \A p \in before[u] : daemon[p].state # "up"
      BY <1>1, <2>1, <2>3 DEF Past
    <3>2. \A p \in before[u] : p \in Pids /\ daemon[p].state # "starting"
      BY <1>1 DEF RouterInv, Types, BeforeFits
    <3> QED
      BY <3>1, <3>2
  <2> QED
    BY <2>2, <2>3
<1> QED
  BY <1>1, <1>2 DEF BeforeFits

(* The daemons of which an update depends: it may be past the point where  *)
(* only the new version is started.                                        *)
Settled ==
  /\ Forced /\ ps /\ ~upd.failed
  /\ at[Updater] \in {"free", "inspect_again", "verify"} \cup Starting \/ outcome[Updater] = "ok"

LEMMA SettledStays ==
  ASSUME RouterInv, Settled' => Settled, mirror' = mirror,
         daemon' \in [Pids -> Daemons], \A p \in Pids : Evolves(p),
         Settled => \A p \in Pids : daemon[p] = Unborn => daemon'[p].ver \in {0, mirror}
  PROVE  OnlyNewNamed'
<1> SUFFICES ASSUME Settled, NEW p \in Pids, daemon'[p].state \in {"starting", "up", "leaving"},
                    daemon'[p].named
             PROVE  daemon'[p].ver = mirror
  BY DEF OnlyNewNamed, Settled, Named, Alive
<1>1. p \in Named => daemon[p].ver = mirror
  BY DEF RouterInv, OnlyNewNamed, Settled
<1>2. CASE daemon'[p] = daemon[p]
  BY <1>1, <1>2 DEF Named, Alive
<1>3. CASE daemon[p] = Unborn /\ daemon'[p].ver # 0
  BY <1>3
<1>4. CASE p \in Alive /\ daemon'[p].ver = daemon[p].ver /\ daemon'[p].named = daemon[p].named
  BY <1>1, <1>4 DEF Named
<1> QED
  BY <1>2, <1>3, <1>4 DEF Evolves

-----------------------------------------------------------------------------
(* A daemon that listens, leaves or dies.                                  *)
LEMMA DaemonKeeps ==
  ASSUME RouterInv, NEW p \in Pids, Listen(p) \/ Leave(p) \/ Die(p)
  PROVE  RouterInv'
<1>1. PICK s \in {"up", "leaving", "gone"} :
        /\ Becomes(p, s) /\ p \in Alive
        /\ s = "up" => ~PortOpen /\ daemon[p].state = "starting"
  BY DEF Listen, Leave, Die, Alive
<1>2. /\ daemon' \in [Pids -> Daemons] /\ daemon'[p] \in Daemons
      /\ daemon'[p].state = s /\ daemon'[p].ver = daemon[p].ver
      /\ s # "gone" => daemon'[p].named = daemon[p].named
      /\ \A q \in Pids : q # p => daemon'[q] = daemon[q]
  <2>1. daemon[p] \in Daemons /\ daemon \in [Pids -> Daemons]
    BY DEF RouterInv, Types
  <2>2. CASE s = "gone"
    <3>1. daemon' = [daemon EXCEPT ![p] = Exited(p)]
      BY <1>1, <2>2 DEF Becomes
    <3>2. Exited(p) \in Daemons /\ Exited(p).state = s /\ Exited(p).ver = daemon[p].ver
      BY <2>1, <2>2 DEF Exited, Unborn, Daemons
    <3> QED
      BY <2>1, <2>2, <3>1, <3>2
  <2>3. CASE s # "gone"
    <3>1. daemon' = [daemon EXCEPT ![p] = [daemon[p] EXCEPT !.state = s]]
      BY <1>1, <2>3 DEF Becomes
    <3> QED
      BY <1>1, <2>1, <2>3, <3>1 DEF Daemons
  <2> QED
    BY <2>2, <2>3
<1>3. UNCHANGED <<disk, mirror, ps, foreign, at, doing, outcome, before, upd>>
  BY <1>1 DEF Becomes, world, actors
<1>4. OneListens'
  <2>1. \A q, r \in Pids : daemon'[q].state = "up" /\ daemon'[r].state = "up" => q = r
    BY <1>1, <1>2 DEF RouterInv, OneListens, PortOpen, Up
  <2>2. foreign' => \A q \in Pids : daemon'[q].state # "up"
    BY <1>1, <1>2, <1>3 DEF RouterInv, OneListens, PortOpen, Up
  <2>3. daemon[p].ver # 0
    BY <1>1 DEF RouterInv, OneListens, Alive, Unborn
  <2>4. \A q \in Pids : (daemon'[q].state = "none" => daemon'[q] = Unborn)
                        /\ (daemon'[q] # Unborn => daemon'[q].ver # 0)
    BY <1>2, <2>3 DEF RouterInv, OneListens
  <2> QED
    BY <2>1, <2>2, <2>4 DEF OneListens
<1>5. BeforeFits'
  <2>1. ASSUME NEW a \in Actors, NEW q \in before[a]
        PROVE  /\ daemon'[q].state \in {"up", "leaving", "gone"}
               /\ daemon'[q].state = "up" => daemon[q].state = "up"
    <3>1. q \in Pids /\ daemon[q].state \in {"up", "leaving", "gone"}
      BY <2>1 DEF RouterInv, Types, BeforeFits
    <3> QED
      BY <1>1, <1>2, <3>1
  <2>2. Users \subseteq Actors
    BY DEF Actors
  <2> QED
    BY <1>3, <2>1, <2>2 DEF RouterInv, BeforeFits
<1>6. OnlyNewNamed'
  <2>1. \A q \in Named' : q \in Named /\ daemon'[q].ver = daemon[q].ver
    BY <1>1, <1>2 DEF Named, Alive
  <2> QED
    BY <1>3, <2>1 DEF RouterInv, OnlyNewNamed, Forced
<1>7. Types' /\ PlacesFit' /\ InstallsFit' /\ ExpectedFits'
  BY <1>2, <1>3 DEF RouterInv, Types, PlacesFit, InstallsFit, ExpectedFits, Covered, Forced
<1> QED
  BY <1>4, <1>5, <1>6, <1>7 DEF RouterInv

-----------------------------------------------------------------------------
(* ensureRouter, for whoever calls it.                                     *)

Ensures(a) == Healthy(a) \/ Install(a) \/ Spawn(a) \/ AwaitPort(a) \/ Check(a)

(* Where the caller goes from there.                                       *)
Onward(a, l, o) ==
  \/ l \in Starting /\ o = outcome[a]
  \/ a = Updater /\ l = "inspect_again" /\ o = outcome[a]
  \/ l = "over" /\ o = "failed"
  \/ a # Updater /\ l = "over" /\ o = "ok"

LEMMA StartedMoves ==
  ASSUME Types, NEW a \in Actors, Started(a)
  PROVE  \E l, o : Moves(a, l, o) /\ Onward(a, l, o)
<1>1. CASE a = Updater
  <2>1. Goto(a, "inspect_again")
    BY <1>1 DEF Started
  <2> QED
    BY <1>1, <2>1, GotoMoves DEF Onward
<1>2. CASE a # Updater
  <2>1. Finish(a, "ok")
    BY <1>2 DEF Started
  <2> QED
    BY <1>2, <2>1, FinishMoves DEF Onward
<1> QED
  BY <1>1, <1>2

LEMMA EnsuresMoves ==
  ASSUME Types, NEW a \in Actors, Ensures(a)
  PROVE  at[a] \in Starting /\ \E l, o : Moves(a, l, o) /\ Onward(a, l, o)
<1>1. at[a] \in Starting
  BY DEF Ensures, Healthy, Install, Spawn, AwaitPort, Check, Starting
<1>2. \/ Started(a)
      \/ \E l \in Starting : Goto(a, l)
      \/ Finish(a, "failed")
  BY DEF Ensures, Healthy, Install, Spawn, AwaitPort, Check, Starting
<1>3. CASE Started(a)
  BY <1>1, <1>3, StartedMoves
<1>4. ASSUME NEW l \in Starting, Goto(a, l) PROVE Moves(a, l, outcome[a]) /\ Onward(a, l, outcome[a])
  BY <1>4, GotoMoves DEF Onward
<1>5. CASE Finish(a, "failed")
  BY <1>1, <1>5, FinishMoves DEF Onward
<1> QED
  BY <1>1, <1>2, <1>3, <1>4, <1>5

(* Only an install of a copy where there is none changes the files, and    *)
(* only a spawned daemon the daemons.                                      *)
LEMMA EnsuresWorld ==
  ASSUME RouterInv, NEW a \in Actors, Ensures(a)
  PROVE  /\ UNCHANGED <<mirror, ps, foreign, upd>>
         /\ disk' = disk \/ (Resolved(disk) = 0 /\ disk' = [disk EXCEPT ![Prefix] = mirror])
         /\ daemon' \in [Pids -> Daemons]
         /\ \A p \in Pids :
              \/ daemon'[p] = daemon[p]
              \/ /\ daemon[p] = Unborn /\ daemon'[p].state = "starting" /\ daemon'[p].ver # 0
                 /\ \/ daemon'[p].ver = mirror
                    \/ Resolved(disk) # 0 /\ daemon'[p].ver = disk[Resolved(disk)]
<1>1. CASE Spawn(a) /\ daemon' # daemon
  <2> DEFINE ver == IF at[a] = "npx" THEN mirror ELSE VersionOf(Resolved(disk))
             unborn == {p \in Pids : daemon[p] = Unborn}
             new == Min(unborn)
  <2>1. PICK named \in BOOLEAN :
          /\ ver # 0 /\ unborn # {}
          /\ daemon' = [daemon EXCEPT ![new].ver = ver, ![new].state = "starting",
                                      ![new].named = named]
    BY <1>1 DEF Spawn, CommandLines
  <2>2. unborn \subseteq Nat
    BY RouterAssumption
  <2>3. new \in unborn
    BY <2>1, <2>2, MinFacts
  <2>4. /\ ver \in Versions
        /\ ver = mirror \/ (Resolved(disk) # 0 /\ ver = disk[Resolved(disk)])
    <3>1. Resolved(disk) # 0 => Resolved(disk) \in Installs
      BY ResolvedFacts DEF RouterInv, Types
    <3>2. mirror \in Versions /\ disk \in [Installs -> Versions]
      BY DEF RouterInv, Types, Versions
    <3> QED
      BY <2>1, <3>1, <3>2 DEF VersionOf, Versions
  <2> HIDE DEF ver, new
  <2>5. daemon \in [Pids -> Daemons] /\ new \in Pids /\ daemon[new] = Unborn
    BY <2>3 DEF RouterInv, Types
  <2>6. daemon'[new] = [daemon[new] EXCEPT !.ver = ver, !.state = "starting",
                                                 !.named = named]
        /\ \A p \in Pids : p # new => daemon'[p] = daemon[p]
    BY <2>1, <2>5 DEF Daemons
  <2>7. daemon'[new] \in Daemons /\ daemon'[new].ver = ver /\ daemon'[new].state = "starting"
    BY <2>4, <2>5, <2>6 DEF Daemons, Unborn
  <2>8. daemon' \in [Pids -> Daemons]
    BY <2>1, <2>5, <2>6, <2>7
  <2>9. UNCHANGED <<disk, mirror, ps, foreign, upd>>
    BY <1>1 DEF Spawn, world
  <2> QED
    BY <2>1, <2>4, <2>5, <2>6, <2>7, <2>8, <2>9
<1>2. CASE daemon' = daemon
  BY <1>2 DEF Ensures, Healthy, Install, Spawn, AwaitPort, Check, world, RouterInv, Types
<1> QED
  BY <1>1, <1>2 DEF Ensures, Healthy, Install, Spawn, AwaitPort, Check

(* A copy npm has installed is the mirror's, and the others are as before. *)
LEMMA InstalledFacts ==
  ASSUME RouterInv, NEW i \in Installs, disk' = [disk EXCEPT ![i] = mirror],
         mirror' = mirror, doing' = doing
  PROVE  /\ disk' \in [Installs -> Versions] /\ disk'[i] = mirror
         /\ \A j \in Installs : disk'[j] # mirror => disk'[j] = disk[j]
         /\ \A j \in Installs : Covered(j)' => Covered(j) \/ j = i
<1>1. Resolved(disk') \in {i, Resolved(disk)}
  BY ResolvedMoves DEF RouterInv, Types
<1> QED
  BY <1>1 DEF RouterInv, Types, Versions, Covered, Forced

(* What is installed on the way changes nothing of what the update is      *)
(* about.                                                                  *)
LEMMA InstallsStay ==
  ASSUME RouterInv, UNCHANGED <<mirror, doing, upd>>,
         disk' = disk \/ (Resolved(disk) = 0 /\ disk' = [disk EXCEPT ![Prefix] = mirror]),
         at[Updater] \in {"idle", "inspect"} => at'[Updater] \in {"idle", "inspect"},
         at[Updater] \in {"idle", "inspect", "npm"} =>
           at'[Updater] \in {"idle", "inspect", "npm"} \/ outcome'[Updater] = "failed",
         outcome[Updater] = "failed" => outcome'[Updater] = "failed"
  PROVE  InstallsFit' /\ disk' \in [Installs -> Versions]
<1>1. CASE disk' = disk
  BY <1>1 DEF RouterInv, Types, InstallsFit, Covered, Forced
<1>2. CASE Resolved(disk) = 0 /\ disk' = [disk EXCEPT ![Prefix] = mirror]
  <2>1. /\ disk' \in [Installs -> Versions] /\ disk'[Prefix] = mirror
        /\ \A j \in Installs : disk'[j] # mirror => disk'[j] = disk[j]
        /\ \A j \in Installs : Covered(j)' => Covered(j) \/ j = Prefix
    BY <1>2, InstalledFacts DEF Installs
  <2>2. /\ (at'[Updater] \notin {"idle", "inspect"} /\ ~upd.failed) =>
             \A i \in Installs : disk'[i] # 0 /\ Covered(i)' => i \in upd.todo \/ disk'[i] = mirror
    <3> SUFFICES ASSUME at[Updater] \notin {"idle", "inspect"}, ~upd.failed, NEW i \in Installs,
                        disk'[i] # 0, Covered(i)', disk'[i] # mirror
                 PROVE  i \in upd.todo
      OBVIOUS
    <3>1. disk'[i] = disk[i] /\ Covered(i)
      BY <2>1
    <3> QED
      BY <3>1 DEF RouterInv, InstallsFit
  <2>3. \A i \in upd.done : disk'[i] = mirror
    BY <2>1 DEF RouterInv, InstallsFit, Types, UpdateRecord
  <2>4. (at'[Updater] \notin {"idle", "inspect", "npm"} /\ outcome'[Updater] # "failed") =>
          upd.todo = {}
    BY DEF RouterInv, InstallsFit
  <2> QED
    BY <2>1, <2>2, <2>3, <2>4 DEF InstallsFit
<1> QED
  BY <1>1, <1>2

(* Where only the new version is left, PATH resolves it or nothing.        *)
LEMMA SettledFacts ==
  ASSUME RouterInv, Settled
  PROVE  Resolved(disk) # 0 => disk[Resolved(disk)] = mirror
<1> SUFFICES ASSUME Resolved(disk) # 0 PROVE disk[Resolved(disk)] = mirror
  OBVIOUS
<1>1. Resolved(disk) \in Installs /\ disk[Resolved(disk)] # 0
  BY ResolvedFacts DEF RouterInv, Types
<1>2. at[Updater] \notin {"idle", "inspect", "npm"} /\ outcome[Updater] # "failed"
  <2>1. Updater \in Actors
    BY DEF Actors
  <2> QED
    BY <2>1 DEF RouterInv, PlacesFit, Settled, Starting
<1> QED
  BY <1>1, <1>2 DEF RouterInv, InstallsFit, Settled, Covered

LEMMA EnsuresKeeps ==
  ASSUME RouterInv, NEW a \in Actors, Ensures(a)
  PROVE  RouterInv'
<1>1. PICK l, o : at[a] \in Starting /\ Moves(a, l, o) /\ Onward(a, l, o)
  BY EnsuresMoves DEF RouterInv
<1>2. /\ UNCHANGED <<mirror, ps, foreign, upd>>
      /\ disk' = disk \/ (Resolved(disk) = 0 /\ disk' = [disk EXCEPT ![Prefix] = mirror])
      /\ daemon' \in [Pids -> Daemons]
      /\ \A p \in Pids :
           \/ daemon'[p] = daemon[p]
           \/ /\ daemon[p] = Unborn /\ daemon'[p].state = "starting" /\ daemon'[p].ver # 0
              /\ \/ daemon'[p].ver = mirror
                 \/ Resolved(disk) # 0 /\ daemon'[p].ver = disk[Resolved(disk)]
  BY EnsuresWorld
<1>3. outcome[a] = "none" /\ Updater \in Actors /\ Updater \notin Users
  BY <1>1, RouterAssumption DEF RouterInv, PlacesFit, Types, Starting, Actors
<1>4. OnItsWay(a, l) /\ o \in {"none", "ok", "failed"} /\ (o # "none" => l = "over")
  BY <1>1, <1>3 DEF Onward, OnItsWay, Updating
<1>5. /\ at' \in [Actors -> {"idle", "over", "shutdown", "closing"} \cup Starting \cup Updating]
      /\ doing' \in [Actors -> {"none", "start", "stop", "restart", "update", "force"}]
      /\ outcome' \in [Actors -> {"none", "ok", "failed"}]
      /\ before' \in [Actors -> SUBSET Pids]
      /\ PlacesFit'
      /\ \A b \in Actors : at'[b] = (IF b = a THEN l ELSE at[b])
                            /\ outcome'[b] = (IF b = a THEN o ELSE outcome[b])
  BY <1>1, <1>4, MovesFit
<1>6. UNCHANGED <<doing, before>>
  BY <1>1 DEF Moves
<1>7. \A p \in Pids : Evolves(p)
  BY <1>2 DEF Evolves
<1>8. /\ OneListens'
      /\ \A p \in Pids : daemon'[p].state = "up" => daemon[p].state = "up"
      /\ \A b \in Actors : \A p \in before[b] : daemon'[p].state \in {"up", "leaving", "gone"}
  BY <1>2, <1>6, <1>7, EvolvingKeeps
<1>9. BeforeFits'
  <2>1. a \in Users /\ doing[a] \in {"stop", "restart"} => Past(a)
    BY <1>1 DEF RouterInv, BeforeFits, Past, Starting
  <2> QED
    BY <1>1, <1>3, <1>5, <1>8, <2>1, BeforeStays
<1>10. Updater = a => at[Updater] \in Starting /\ outcome[Updater] = "none"
                      /\ at'[Updater] \in Starting \cup {"inspect_again", "over"}
                      /\ outcome'[Updater] \in {"none", "failed"}
  BY <1>1, <1>3, <1>5 DEF Onward
<1>11. Updater # a => at'[Updater] = at[Updater] /\ outcome'[Updater] = outcome[Updater]
  BY <1>3, <1>5
<1>12. InstallsFit' /\ disk' \in [Installs -> Versions]
  BY <1>2, <1>6, <1>10, <1>11, InstallsStay DEF Starting
<1>13. ExpectedFits'
  BY <1>2, <1>10, <1>11 DEF RouterInv, ExpectedFits, Starting
<1>14. OnlyNewNamed'
  <2>1. Settled' => Settled
    BY <1>2, <1>6, <1>10, <1>11 DEF Settled, Forced
  <2>2. ASSUME Settled, NEW p \in Pids, daemon[p] = Unborn
        PROVE  daemon'[p].ver \in {0, mirror}
    BY <1>2, <2>2, SettledFacts DEF Unborn
  <2> QED
    BY <1>2, <1>7, <2>1, <2>2, SettledStays
<1>15. Types'
  BY <1>2, <1>5, <1>12 DEF RouterInv, Types
<1> QED
  BY <1>5, <1>8, <1>9, <1>12, <1>13, <1>14, <1>15 DEF RouterInv

-----------------------------------------------------------------------------
(* The users of the page.                                                  *)

(* A step of a user that leaves the files and the update alone.            *)
LEMMA UserMoves ==
  ASSUME RouterInv, NEW u \in Users, NEW l, NEW o \in {"none", "ok", "failed"}, Moves(u, l, o),
         OnItsWay(u, l), o # "none" => l = "over", outcome[u] # "failed",
         UNCHANGED <<world, upd>>, daemon' \in [Pids -> Daemons],
         \A p \in Pids : daemon'[p] = daemon[p] \/ (p \in Alive /\ Evolves(p)),
         doing[u] \in {"stop", "restart"} /\ l # "closing" => Past(u) \/ o = "failed"
  PROVE  RouterInv'
<1>1. Updater \in Actors /\ Updater # u /\ u \in Actors
  BY RouterAssumption DEF Actors
<1>2. /\ at' \in [Actors -> {"idle", "over", "shutdown", "closing"} \cup Starting \cup Updating]
      /\ doing' \in [Actors -> {"none", "start", "stop", "restart", "update", "force"}]
      /\ outcome' \in [Actors -> {"none", "ok", "failed"}]
      /\ before' \in [Actors -> SUBSET Pids]
      /\ PlacesFit'
      /\ \A b \in Actors : at'[b] = (IF b = u THEN l ELSE at[b])
                            /\ outcome'[b] = (IF b = u THEN o ELSE outcome[b])
  BY <1>1, MovesFit
<1>3. UNCHANGED <<disk, mirror, ps, foreign, doing, before, upd>>
  BY DEF Moves, world
<1>4. at'[Updater] = at[Updater] /\ outcome'[Updater] = outcome[Updater]
  BY <1>1, <1>2
<1>5. \A p \in Pids : Evolves(p)
  BY DEF Evolves
<1>6. /\ OneListens'
      /\ \A p \in Pids : daemon'[p].state = "up" => daemon[p].state = "up"
      /\ \A b \in Actors : \A p \in before[b] : daemon'[p].state \in {"up", "leaving", "gone"}
  BY <1>3, <1>5, EvolvingKeeps
<1>7. BeforeFits'
  BY <1>1, <1>2, <1>6, BeforeStays
<1>8. OnlyNewNamed'
  <2>1. Settled' => Settled
    BY <1>3, <1>4 DEF Settled, Forced
  <2>2. \A p \in Pids : daemon[p] = Unborn => daemon'[p].ver \in {0, mirror}
    BY DEF Alive, Unborn
  <2> QED
    BY <1>3, <1>5, <2>1, <2>2, SettledStays
<1>9. InstallsFit' /\ ExpectedFits'
  BY <1>3, <1>4 DEF RouterInv, InstallsFit, ExpectedFits, Covered, Forced
<1>10. Types'
  BY <1>2, <1>3 DEF RouterInv, Types
<1> QED
  BY <1>2, <1>6, <1>7, <1>8, <1>9, <1>10 DEF RouterInv

LEMMA UserFacts ==
  ASSUME RouterInv, NEW u \in Users, at[u] # "over"
  PROVE  outcome[u] = "none" /\ u \in Actors /\ u # Updater
BY RouterAssumption DEF RouterInv, Types, PlacesFit, Actors

UserGoes(u) ==
  \E l, o :
    /\ Moves(u, l, o) /\ o \in {"none", "ok", "failed"} /\ OnItsWay(u, l)
    /\ o # "none" => l = "over"
    /\ Past(u) \/ o = "failed"

(* Who has failed to stop the daemon, and goes on only past the port.      *)
LEMMA AfterStopMoves ==
  ASSUME RouterInv, NEW u \in Users, at[u] \in {"shutdown", "closing"}, AfterStop(u)
  PROVE  UserGoes(u)
<1>1. outcome[u] = "none" /\ u \in Actors /\ u # Updater
  BY UserFacts
<1>2. CASE ~PortOpen /\ Goto(u, "health")
  <2>1. Moves(u, "health", "none")
    BY <1>1, <1>2, GotoMoves DEF RouterInv
  <2>2. Past(u)
    BY <1>1, <1>2 DEF PortOpen, Up, Past, RouterInv, Types
  <2> QED
    BY <1>1, <2>1, <2>2 DEF OnItsWay, Starting, UserGoes
<1>3. CASE Finish(u, "failed")
  <2>1. Moves(u, "over", "failed")
    BY <1>1, <1>3, FinishMoves DEF RouterInv
  <2> QED
    BY <1>1, <2>1 DEF OnItsWay, UserGoes
<1> QED
  BY <1>2, <1>3 DEF AfterStop

LEMMA ShutdownKeeps ==
  ASSUME RouterInv, NEW u \in Users, Shutdown(u)
  PROVE  RouterInv'
<1>1. at[u] = "shutdown" /\ UNCHANGED <<world, upd>>
  BY DEF Shutdown
<1>2. outcome[u] = "none" /\ u \in Actors /\ u # Updater
  BY <1>1, UserFacts
<1>3. /\ daemon' \in [Pids -> Daemons]
      /\ \A p \in Pids : daemon'[p] = daemon[p] \/ (p \in Alive /\ Evolves(p))
  <2>1. CASE daemon' = Asked(Up)
    <3>1. daemon' \in [Pids -> Daemons] /\ \A p \in Pids : Evolves(p)
      BY <2>1, AskedEvolves DEF RouterInv
    <3>2. \A p \in Pids : p \notin Alive => daemon'[p] = daemon[p]
      BY <2>1 DEF Asked
    <3> QED
      BY <3>1, <3>2
  <2>2. CASE daemon' = daemon
    BY <2>2 DEF RouterInv, Types
  <2> QED
    BY <2>1, <2>2 DEF Shutdown
<1>4. CASE Goto(u, "closing")
  <2>1. Moves(u, "closing", "none")
    BY <1>2, <1>4, GotoMoves DEF RouterInv
  <2>2. OnItsWay(u, "closing")
    BY <1>2 DEF OnItsWay
  <2> QED
    BY <1>1, <1>2, <1>3, <2>1, <2>2, UserMoves
<1>5. CASE AfterStop(u)
  <2>1. UserGoes(u)
    BY <1>1, <1>5, AfterStopMoves
  <2>2. PICK l, o : /\ Moves(u, l, o) /\ o \in {"none", "ok", "failed"} /\ OnItsWay(u, l)
                    /\ o # "none" => l = "over"
                    /\ Past(u) \/ o = "failed"
    BY <2>1 DEF UserGoes
  <2> QED
    BY <1>1, <1>2, <1>3, <2>2, UserMoves
<1> QED
  BY <1>4, <1>5 DEF Shutdown

LEMMA AwaitClosedKeeps ==
  ASSUME RouterInv, NEW u \in Users, AwaitClosed(u)
  PROVE  RouterInv'
<1>1. at[u] = "closing" /\ UNCHANGED <<world, daemon, upd>>
  BY DEF AwaitClosed
<1>2. outcome[u] = "none" /\ u \in Actors /\ u # Updater
  BY <1>1, UserFacts
<1>3. UserGoes(u)
  <2>1. CASE ~PortOpen /\ Stopped(u)
    <3>1. Past(u)
      BY <1>2, <2>1 DEF PortOpen, Up, Past, RouterInv, Types
    <3>2. CASE Goto(u, "health")
      <4>1. Moves(u, "health", "none")
        BY <1>2, <3>2, GotoMoves DEF RouterInv
      <4> QED
        BY <1>2, <3>1, <4>1 DEF OnItsWay, Starting, UserGoes
    <3>3. CASE Finish(u, "ok")
      <4>1. Moves(u, "over", "ok")
        BY <1>2, <3>3, FinishMoves DEF RouterInv
      <4> QED
        BY <1>2, <3>1, <4>1 DEF OnItsWay, UserGoes
    <3> QED
      BY <2>1, <3>2, <3>3 DEF Stopped
  <2>2. CASE AfterStop(u)
    BY <1>1, <2>2, AfterStopMoves
  <2> QED
    BY <2>1, <2>2 DEF AwaitClosed
<1>4. daemon' \in [Pids -> Daemons] /\ \A p \in Pids : daemon'[p] = daemon[p]
  BY <1>1 DEF RouterInv, Types
<1>5. PICK l, o : /\ Moves(u, l, o) /\ o \in {"none", "ok", "failed"} /\ OnItsWay(u, l)
                  /\ o # "none" => l = "over"
                  /\ Past(u) \/ o = "failed"
  BY <1>3 DEF UserGoes
<1> QED
  BY <1>1, <1>2, <1>4, <1>5, UserMoves

(* Who begins remembers the daemon that listens.                           *)
LEMMA AskKeeps ==
  ASSUME RouterInv, NEW u \in Actors, NEW what \in {"start", "stop", "restart"}, Request(u, what)
  PROVE  RouterInv'
<1> DEFINE l == IF what = "start" THEN "health" ELSE "shutdown"
<1>1. u \in Users /\ at[u] = "idle" /\ u # Updater /\ Updater \in Actors
  BY RouterAssumption DEF Request, Actors
<1>2. UNCHANGED <<disk, mirror, ps, foreign, daemon, outcome, upd>>
  BY DEF Request, world
<1>3. /\ at' = [at EXCEPT ![u] = l] /\ doing' = [doing EXCEPT ![u] = what]
      /\ before' = [before EXCEPT ![u] = Up]
  BY DEF Request
<1>4. l \in {"health", "shutdown"} /\ (what # "start" => l = "shutdown")
  OBVIOUS
<1> HIDE DEF l
<1>5. /\ at' \in [Actors -> {"idle", "over", "shutdown", "closing"} \cup Starting \cup Updating]
      /\ doing' \in [Actors -> {"none", "start", "stop", "restart", "update", "force"}]
      /\ before' \in [Actors -> SUBSET Pids]
      /\ \A b \in Actors : b # u => at'[b] = at[b] /\ doing'[b] = doing[b] /\ before'[b] = before[b]
      /\ at'[u] = l /\ doing'[u] = what /\ before'[u] = Up
  BY <1>3, <1>4 DEF RouterInv, Types, Starting, Up
<1>6. PlacesFit'
  <2>1. outcome[u] = "none"
    BY <1>1, UserFacts
  <2>2. Users \subseteq Actors
    BY DEF Actors
  <2> QED
    BY <1>1, <1>2, <1>4, <1>5, <2>1, <2>2 DEF RouterInv, PlacesFit, Starting
<1>7. BeforeFits'
  <2>1. \A a \in Actors : \A p \in before'[a] : daemon[p].state \in {"up", "leaving", "gone"}
    BY <1>5 DEF RouterInv, BeforeFits, Up
  <2>2. ASSUME NEW v \in Users, doing'[v] \in {"stop", "restart"},
               at'[v] \notin {"idle", "shutdown", "closing"}
        PROVE  outcome[v] = "failed" \/ \A p \in before'[v] : daemon[p].state # "up"
    <3>1. v # u
      BY <1>4, <1>5, <2>2
    <3> QED
      BY <1>5, <2>2, <3>1 DEF RouterInv, BeforeFits, Actors
  <2> QED
    BY <1>2, <2>1, <2>2 DEF BeforeFits
<1>8. OneListens' /\ InstallsFit' /\ ExpectedFits' /\ OnlyNewNamed'
  BY <1>1, <1>2, <1>5 DEF RouterInv, OneListens, InstallsFit, ExpectedFits, OnlyNewNamed, Covered,
                          Forced, Named, Alive
<1>9. Types'
  BY <1>2, <1>5 DEF RouterInv, Types
<1> QED
  BY <1>6, <1>7, <1>8, <1>9 DEF RouterInv

-----------------------------------------------------------------------------
(* The update.                                                             *)

LEMMA UpdaterFacts ==
  ASSUME RouterInv, at[Updater] # "over"
  PROVE  Updater \in Actors /\ Updater \notin Users /\ outcome[Updater] = "none"
BY RouterAssumption DEF RouterInv, Types, PlacesFit, Actors

(* A step of the update that fits what the files and the daemons are.      *)
LEMMA UpdaterMoves ==
  ASSUME RouterInv, NEW l, NEW o \in {"none", "ok", "failed"}, Moves(Updater, l, o),
         OnItsWay(Updater, l), o # "none" => l = "over",
         UNCHANGED <<mirror, ps, foreign>>, disk' \in [Installs -> Versions],
         daemon' \in [Pids -> Daemons],
         \A p \in Pids : daemon'[p] = daemon[p] \/ (p \in Alive /\ Evolves(p)),
         upd' \in UpdateRecord, InstallsFit', ExpectedFits', Settled' => Settled \/ Named = {}
  PROVE  RouterInv'
<1>1. Updater \in Actors /\ Updater \notin Users
  BY RouterAssumption DEF Actors
<1>2. /\ at' \in [Actors -> {"idle", "over", "shutdown", "closing"} \cup Starting \cup Updating]
      /\ doing' \in [Actors -> {"none", "start", "stop", "restart", "update", "force"}]
      /\ outcome' \in [Actors -> {"none", "ok", "failed"}]
      /\ before' \in [Actors -> SUBSET Pids]
      /\ PlacesFit'
      /\ \A b \in Actors : at'[b] = (IF b = Updater THEN l ELSE at[b])
                            /\ outcome'[b] = (IF b = Updater THEN o ELSE outcome[b])
  BY <1>1, MovesFit
<1>3. before' = before
  BY DEF Moves
<1>4. \A p \in Pids : Evolves(p)
  BY DEF Evolves
<1>5. /\ OneListens'
      /\ \A p \in Pids : daemon'[p].state = "up" => daemon[p].state = "up"
      /\ \A b \in Actors : \A p \in before[b] : daemon'[p].state \in {"up", "leaving", "gone"}
  BY <1>3, <1>4, EvolvingKeeps
<1>6. BeforeFits'
  BY <1>1, <1>2, <1>5, BeforeStays
<1>7. OnlyNewNamed'
  <2>1. \A p \in Pids : daemon[p] = Unborn => daemon'[p].ver \in {0, mirror}
    BY DEF Alive, Unborn
  <2>2. CASE Settled' => Settled
    BY <1>4, <2>1, <2>2, SettledStays
  <2>3. CASE Named = {}
    <3>1. ASSUME NEW p \in Pids, p \in Named'
          PROVE  FALSE
      <4>1. p \notin Named /\ (p \in Alive => daemon[p] # Unborn)
        BY <2>3 DEF Alive, Unborn
      <4>2. daemon'[p] = daemon[p] \/ (p \in Alive /\ daemon'[p].named = daemon[p].named)
        BY <4>1 DEF Evolves
      <4> QED
        BY <3>1, <4>1, <4>2 DEF Named, Alive
    <3> QED
      BY <2>3, <3>1 DEF OnlyNewNamed, Named, Alive
  <2> QED
    BY <2>2, <2>3
<1>8. Types'
  BY <1>2 DEF RouterInv, Types
<1> QED
  BY <1>2, <1>5, <1>6, <1>7, <1>8 DEF RouterInv

(* A step that changes nothing the update knows but whom it saw.           *)
SameUpdate ==
  /\ upd' \in UpdateRecord
  /\ upd'.todo = upd.todo /\ upd'.done = upd.done /\ upd'.failed = upd.failed
  /\ upd'.latest = upd.latest /\ upd'.expected = upd.expected /\ upd'.reported = upd.reported

LEMMA UpdateGoesOn ==
  ASSUME RouterInv, NEW l, NEW o \in {"none", "failed"}, Moves(Updater, l, o),
         at[Updater] \in Updating \ {"inspect"},
         l \in (Updating \ {"inspect", "npm", "verify"}) \cup Starting \cup {"over"},
         o # "none" => l = "over", o = "none" => l # "over",
         UNCHANGED <<world, daemon>>, SameUpdate,
         at[Updater] = "npm" => upd.todo = {} \/ o = "failed",
         Settled' => Settled \/ Named = {}
  PROVE  RouterInv'
<1>1. UNCHANGED <<disk, mirror, ps, foreign, doing>>
  BY DEF world, Moves
<1>2. Updater \in Actors /\ outcome[Updater] = "none"
  BY UpdaterFacts DEF Updating
<1>3. at'[Updater] = l /\ outcome'[Updater] = o
  BY <1>2 DEF Moves, RouterInv, Types
<1>4. OnItsWay(Updater, l)
  BY DEF OnItsWay
<1>5. InstallsFit'
  <2>1. (at'[Updater] \notin {"idle", "inspect"} /\ ~upd.failed) =>
          \A i \in Installs : disk[i] # 0 /\ Covered(i) => i \in upd.todo \/ disk[i] = mirror
    BY DEF RouterInv, InstallsFit, Updating
  <2>2. (at'[Updater] \notin {"idle", "inspect", "npm"} /\ outcome'[Updater] # "failed") =>
          upd.todo = {}
    BY <1>2, <1>3 DEF RouterInv, InstallsFit, Updating
  <2>3. Covered(0)' = Covered(0) /\ \A i \in Installs : Covered(i)' = Covered(i)
    BY <1>1 DEF Covered, Forced
  <2> QED
    BY <1>1, <2>1, <2>2, <2>3 DEF SameUpdate, RouterInv, InstallsFit
<1>6. ExpectedFits'
  BY <1>3 DEF ExpectedFits, Starting
<1>7. disk' \in [Installs -> Versions] /\ daemon' \in [Pids -> Daemons]
      /\ \A p \in Pids : daemon'[p] = daemon[p]
  BY <1>1 DEF RouterInv, Types
<1> QED
  BY <1>1, <1>4, <1>5, <1>6, <1>7, UpdaterMoves DEF SameUpdate

(* The steps that only move the update on.                                 *)
LEMMA NpmDoneKeeps ==
  ASSUME RouterInv, NpmDone
  PROVE  RouterInv'
<1>1. at[Updater] = "npm" /\ upd.todo = {} /\ UNCHANGED <<world, daemon, upd>>
  BY DEF NpmDone
<1>2. Updater \in Actors /\ outcome[Updater] = "none"
  BY <1>1, UpdaterFacts
<1>3. SameUpdate
  BY <1>1 DEF SameUpdate, RouterInv, Types
<1>4. Moves(Updater, "over", "failed") \/ Moves(Updater, "ask", "none")
  BY <1>2, FinishMoves, GotoMoves DEF NpmDone, RouterInv
<1>5. ~Settled'
  BY <1>2, <1>4 DEF Moves, Settled, Starting, RouterInv, Types
<1> QED
  BY <1>1, <1>3, <1>4, <1>5, UpdateGoesOn DEF Updating

LEMMA DrainKeeps ==
  ASSUME RouterInv, Drain
  PROVE  RouterInv'
<1>1. at[Updater] = "drain" /\ UNCHANGED <<world, daemon, upd>>
  BY DEF Drain
<1>2. Updater \in Actors /\ outcome[Updater] = "none"
  BY <1>1, UpdaterFacts
<1>3. SameUpdate
  BY <1>1 DEF SameUpdate, RouterInv, Types
<1>4. \/ Moves(Updater, "list", "none")
      \/ ~Forced /\ Moves(Updater, "health", "none")
      \/ Moves(Updater, "over", "failed")
  <2>1. \/ Goto(Updater, "list")
        \/ ~Forced /\ Goto(Updater, "health")
        \/ Finish(Updater, "failed")
    BY DEF Drain
  <2> QED
    BY <1>2, <2>1, FinishMoves, GotoMoves DEF RouterInv
<1>5. ~Settled'
  BY <1>2, <1>4 DEF Moves, Settled, Starting, Forced, RouterInv, Types
<1> QED
  BY <1>1, <1>3, <1>4, <1>5, UpdateGoesOn DEF Updating, Starting

LEMMA SurvivedKeeps ==
  ASSUME RouterInv, Survived
  PROVE  RouterInv'
<1>1. at[Updater] = "survived" /\ UNCHANGED <<world, daemon, upd>>
  BY DEF Survived
<1>2. Updater \in Actors /\ outcome[Updater] = "none"
  BY <1>1, UpdaterFacts
<1>3. SameUpdate
  BY <1>1 DEF SameUpdate, RouterInv, Types
<1>4. Moves(Updater, "over", "failed")
  BY <1>2, FinishMoves DEF Survived, RouterInv
<1>5. ~Settled'
  BY <1>2, <1>4 DEF Moves, Settled, Starting, RouterInv, Types
<1> QED
  BY <1>1, <1>3, <1>4, <1>5, UpdateGoesOn DEF Updating

LEMMA PortFreeKeeps ==
  ASSUME RouterInv, PortFree
  PROVE  RouterInv'
<1>1. at[Updater] = "free" /\ UNCHANGED <<world, daemon, upd>>
  BY DEF PortFree
<1>2. Updater \in Actors /\ outcome[Updater] = "none"
  BY <1>1, UpdaterFacts
<1>3. SameUpdate
  BY <1>1 DEF SameUpdate, RouterInv, Types
<1>4. Moves(Updater, "over", "failed") \/ Moves(Updater, "health", "none")
  BY <1>2, FinishMoves, GotoMoves DEF PortFree, RouterInv
<1>5. Settled' => Settled
  BY <1>1, <1>2, <1>4 DEF Moves, Settled, Starting, RouterInv, Types, Forced, world
<1> QED
  BY <1>1, <1>3, <1>4, <1>5, UpdateGoesOn DEF Updating, Starting

(* A look at the list that finds nobody leaves nobody who is older.        *)
LEMMA ListKeeps ==
  ASSUME RouterInv, NEW from \in {"list", "listterm", "listkill"},
         NEW next \in {"term", "kill", "survived"}, List(from, next)
  PROVE  RouterInv'
<1>1. at[Updater] = from /\ UNCHANGED <<world, daemon>>
  BY DEF List
<1>2. Updater \in Actors /\ outcome[Updater] = "none"
  BY <1>1, UpdaterFacts
<1>3. SameUpdate
  <2>1. upd \in UpdateRecord /\ upd' = [upd EXCEPT !.seen = Listed] /\ Listed \in SUBSET Pids
    BY DEF List, RouterInv, Types, Listed, Named, Alive
  <2> QED
    BY <2>1 DEF SameUpdate, UpdateRecord
<1>4. \/ Listed = {} /\ Moves(Updater, "free", "none")
      \/ Moves(Updater, next, "none")
  BY <1>2, GotoMoves DEF List, RouterInv
<1>5. Settled' => Named = {}
  <2>1. CASE Listed = {} /\ Moves(Updater, "free", "none")
    BY <1>1, <2>1 DEF Settled, Listed, world
  <2>2. CASE Moves(Updater, next, "none")
    BY <1>2, <2>2 DEF Moves, Settled, Starting, RouterInv, Types
  <2> QED
    BY <1>4, <2>1, <2>2
<1>6. at[Updater] \in Updating \ {"inspect"} /\ at[Updater] # "npm"
  BY <1>1 DEF Updating
<1>7. CASE Moves(Updater, "free", "none")
  BY <1>1, <1>3, <1>5, <1>6, <1>7, UpdateGoesOn DEF Updating
<1>8. CASE Moves(Updater, next, "none")
  BY <1>1, <1>3, <1>5, <1>6, <1>8, UpdateGoesOn DEF Updating
<1> QED
  BY <1>4, <1>7, <1>8

(* The steps that ask or kill daemons.                                     *)
LEMMA UpdateAsks ==
  ASSUME RouterInv, NEW l \in {"drain", "listterm", "listkill"}, Moves(Updater, l, "none"),
         at[Updater] \in {"ask", "term", "kill"}, UNCHANGED <<world, upd>>,
         daemon' \in [Pids -> Daemons],
         \A p \in Pids : daemon'[p] = daemon[p] \/ (p \in Alive /\ Evolves(p))
  PROVE  RouterInv'
<1>1. Updater \in Actors /\ outcome[Updater] = "none"
  BY UpdaterFacts
<1>2. at'[Updater] = l /\ outcome'[Updater] = "none"
  BY <1>1 DEF Moves, RouterInv, Types
<1>3. UNCHANGED <<disk, mirror, ps, foreign, doing>>
  BY DEF world, Moves
<1>4. InstallsFit'
  <2>1. \A i \in Installs : Covered(i)' = Covered(i)
    BY <1>3 DEF Covered, Forced
  <2> QED
    BY <1>1, <1>2, <1>3, <2>1 DEF RouterInv, InstallsFit
<1>5. ExpectedFits' /\ ~Settled'
  BY <1>2 DEF ExpectedFits, Settled, Starting
<1>6. OnItsWay(Updater, l)
  BY DEF OnItsWay, Updating
<1>7. disk' \in [Installs -> Versions] /\ upd' \in UpdateRecord
  BY <1>3 DEF RouterInv, Types
<1> QED
  BY <1>3, <1>4, <1>5, <1>6, <1>7, UpdaterMoves

LEMMA AsksKeep ==
  ASSUME RouterInv, AskDaemon \/ Terminate \/ Kill
  PROVE  RouterInv'
<1>1. Updater \in Actors /\ outcome[Updater] = "none" /\ UNCHANGED <<world, upd>>
  BY UpdaterFacts DEF AskDaemon, Terminate, Kill
<1>2. /\ daemon' \in [Pids -> Daemons]
      /\ \A p \in Pids : daemon'[p] = daemon[p] \/ (p \in Alive /\ Evolves(p))
  <2>1. ASSUME NEW S, daemon' = Asked(S)
        PROVE  /\ daemon' \in [Pids -> Daemons]
               /\ \A p \in Pids : daemon'[p] = daemon[p] \/ (p \in Alive /\ Evolves(p))
    <3>1. daemon' \in [Pids -> Daemons] /\ \A p \in Pids : Evolves(p)
      BY <2>1, AskedEvolves DEF RouterInv
    <3>2. \A p \in Pids : p \notin Alive => daemon'[p] = daemon[p]
      BY <2>1 DEF Asked
    <3> QED
      BY <3>1, <3>2
  <2>2. CASE daemon' = daemon
    BY <2>2 DEF RouterInv, Types
  <2>3. CASE Kill
    <3>1. daemon' \in [Pids -> Daemons] /\ \A p \in Pids : Evolves(p)
      BY <2>3, KillEvolves DEF RouterInv
    <3>2. \A p \in Pids : p \notin Alive => daemon'[p] = daemon[p]
      BY <2>3 DEF Kill
    <3> QED
      BY <3>1, <3>2
  <2> QED
    BY <2>1, <2>2, <2>3 DEF AskDaemon, Terminate
<1>3. CASE AskDaemon
  BY <1>1, <1>2, <1>3, GotoMoves, UpdateAsks DEF AskDaemon, RouterInv
<1>4. CASE Terminate
  BY <1>1, <1>2, <1>4, GotoMoves, UpdateAsks DEF Terminate, RouterInv
<1>5. CASE Kill
  BY <1>1, <1>2, <1>5, GotoMoves, UpdateAsks DEF Kill, RouterInv
<1> QED
  BY <1>3, <1>4, <1>5

(* An update that begins remembers the daemon that listens.                *)
LEMMA UpdateAskedKeeps ==
  ASSUME RouterInv, UpdateAsked
  PROVE  RouterInv'
<1>1. at[Updater] = "idle" /\ UNCHANGED <<disk, mirror, ps, foreign, daemon, outcome, upd>>
  BY DEF UpdateAsked, world
<1>2. Updater \in Actors /\ Updater \notin Users /\ outcome[Updater] = "none"
  BY <1>1, UpdaterFacts
<1>3. PICK what \in {"update", "force"} : doing' = [doing EXCEPT ![Updater] = what]
  BY RouterAssumption DEF UpdateAsked
<1>4. /\ at' = [at EXCEPT ![Updater] = "inspect"] /\ before' = [before EXCEPT ![Updater] = Up]
  BY DEF UpdateAsked
<1>5. /\ at' \in [Actors -> {"idle", "over", "shutdown", "closing"} \cup Starting \cup Updating]
      /\ doing' \in [Actors -> {"none", "start", "stop", "restart", "update", "force"}]
      /\ before' \in [Actors -> SUBSET Pids]
      /\ \A b \in Actors : b # Updater => at'[b] = at[b] /\ doing'[b] = doing[b] /\ before'[b] = before[b]
      /\ at'[Updater] = "inspect" /\ before'[Updater] = Up
  BY <1>2, <1>3, <1>4 DEF RouterInv, Types, Updating, Up
<1>6. PlacesFit'
  BY <1>1, <1>2, <1>5 DEF RouterInv, PlacesFit, Updating, Actors
<1>7. BeforeFits'
  BY <1>1, <1>2, <1>5 DEF RouterInv, BeforeFits, Up, Actors
<1>8. OneListens' /\ InstallsFit' /\ ExpectedFits' /\ OnlyNewNamed'
  BY <1>1, <1>2, <1>5 DEF RouterInv, OneListens, InstallsFit, ExpectedFits, OnlyNewNamed, Starting
<1>9. Types'
  BY <1>1, <1>5 DEF RouterInv, Types
<1> QED
  BY <1>6, <1>7, <1>8, <1>9 DEF RouterInv

(* The copies an update is about are still to do when it begins.           *)
LEMMA InspectKeeps ==
  ASSUME RouterInv, Inspect
  PROVE  RouterInv'
<1>1. at[Updater] = "inspect" /\ UNCHANGED <<world, daemon>> /\ Goto(Updater, "npm")
  BY DEF Inspect
<1>2. Updater \in Actors /\ outcome[Updater] = "none"
  BY <1>1, UpdaterFacts
<1>3. Moves(Updater, "npm", "none")
  BY <1>1, <1>2, GotoMoves DEF RouterInv
<1>4. at'[Updater] = "npm" /\ outcome'[Updater] = "none" /\ UNCHANGED <<disk, mirror, ps, foreign, doing>>
  BY <1>1, <1>2, <1>3 DEF Moves, RouterInv, Types, world
<1>5. PICK latest \in {0, New} : upd' = [NoUpdate EXCEPT !.todo = Targets, !.latest = latest]
  BY DEF Inspect
<1>6. Resolved(disk) # 0 => Resolved(disk) \in Installs
  BY ResolvedFacts DEF RouterInv, Types
<1>7. Targets \subseteq Installs
  BY <1>6 DEF Targets, Installs
<1>8. /\ upd' \in UpdateRecord /\ upd'.todo = Targets /\ upd'.done = {} /\ ~upd'.failed
  BY <1>5, <1>7 DEF NoUpdate, UpdateRecord, Versions
<1>9. ASSUME NEW i \in Installs, disk[i] # 0, Covered(i)
      PROVE  i \in Targets
  <2>1. i # 0
    BY RouterAssumption
  <2>2. CASE Forced
    BY <1>9, <2>2 DEF Targets
  <2>3. CASE ~Forced
    BY <1>9, <2>1, <2>3 DEF Targets, Covered
  <2> QED
    BY <2>2, <2>3
<1>10. InstallsFit'
  <2>1. \A i \in Installs : Covered(i)' = Covered(i)
    BY <1>4 DEF Covered, Forced
  <2> QED
    BY <1>4, <1>8, <1>9, <2>1 DEF InstallsFit
<1>11. ExpectedFits' /\ ~Settled'
  BY <1>4 DEF ExpectedFits, Settled, Starting
<1>12. OnItsWay(Updater, "npm")
  BY DEF OnItsWay, Updating
<1>13. disk' \in [Installs -> Versions] /\ daemon' \in [Pids -> Daemons]
       /\ \A p \in Pids : daemon'[p] = daemon[p]
  BY <1>1, <1>4 DEF RouterInv, Types
<1> QED
  BY <1>3, <1>4, <1>8, <1>10, <1>11, <1>12, <1>13, UpdaterMoves

(* A copy is installed, or failed at.                                      *)
LEMMA NpmKeeps ==
  ASSUME RouterInv, Npm
  PROVE  RouterInv'
<1>1. at[Updater] = "npm" /\ UNCHANGED <<mirror, ps, foreign, daemon>>
  BY DEF Npm
<1>2. Updater \in Actors /\ outcome[Updater] = "none" /\ upd \in UpdateRecord
  BY <1>1, UpdaterFacts DEF RouterInv, Types
<1>3. PICK i \in upd.todo :
        \/ /\ disk' = [disk EXCEPT ![i] = mirror]
           /\ upd' = [upd EXCEPT !.todo = @ \ {i}, !.done = @ \cup {i}]
           /\ UNCHANGED actors
        \/ /\ upd' = [upd EXCEPT !.todo = @ \ {i}, !.failed = TRUE]
           /\ UNCHANGED disk
           /\ IF Forced THEN UNCHANGED actors ELSE Finish(Updater, "failed")
  BY DEF Npm
<1>4. i \in Installs
  BY <1>2 DEF UpdateRecord
<1>5. UNCHANGED actors => Moves(Updater, "npm", "none")
  BY <1>1, <1>2 DEF actors, Moves, RouterInv, Types
<1>6. OnItsWay(Updater, "npm") /\ OnItsWay(Updater, "over")
  BY DEF OnItsWay, Updating
<1>7. daemon' \in [Pids -> Daemons] /\ \A p \in Pids : daemon'[p] = daemon[p]
  BY <1>1 DEF RouterInv, Types
<1>8. CASE /\ disk' = [disk EXCEPT ![i] = mirror]
           /\ upd' = [upd EXCEPT !.todo = @ \ {i}, !.done = @ \cup {i}]
           /\ UNCHANGED actors
  <2>1. UNCHANGED <<at, doing, outcome>>
    BY <1>8 DEF actors
  <2>2. /\ disk' \in [Installs -> Versions] /\ disk'[i] = mirror
        /\ \A j \in Installs : disk'[j] # mirror => disk'[j] = disk[j]
        /\ \A j \in Installs : Covered(j)' => Covered(j) \/ j = i
    BY <1>1, <1>4, <1>8, <2>1, InstalledFacts
  <2>3. /\ upd' \in UpdateRecord /\ upd'.failed = upd.failed
        /\ upd'.todo = upd.todo \ {i} /\ upd'.done = upd.done \cup {i}
    BY <1>2, <1>4, <1>8 DEF UpdateRecord
  <2>4. InstallsFit'
    <3>1. (at'[Updater] \notin {"idle", "inspect"} /\ ~upd'.failed) =>
            \A j \in Installs : disk'[j] # 0 /\ Covered(j)' => j \in upd'.todo \/ disk'[j] = mirror
      <4> SUFFICES ASSUME ~upd.failed, NEW j \in Installs, disk'[j] # 0, Covered(j)', disk'[j] # mirror
                   PROVE  j \in upd.todo /\ j # i
        BY <2>3
      <4>1. j # i /\ disk'[j] = disk[j] /\ Covered(j)
        BY <2>2
      <4> QED
        BY <1>1, <4>1 DEF RouterInv, InstallsFit
    <3>2. \A j \in upd'.done : disk'[j] = mirror
      <4> SUFFICES ASSUME NEW j \in upd'.done, j # i PROVE disk'[j] = mirror
        BY <2>2
      <4>1. j \in upd.done /\ j \in Installs
        BY <1>2, <2>3 DEF UpdateRecord
      <4>2. disk[j] = mirror
        BY <4>1 DEF RouterInv, InstallsFit
      <4> QED
        BY <2>2, <4>1, <4>2
    <3> QED
      BY <1>1, <2>1, <3>1, <3>2 DEF InstallsFit
  <2>5. ExpectedFits' /\ ~Settled'
    BY <1>1, <1>2, <2>1 DEF ExpectedFits, Settled, Starting
  <2> QED
    BY <1>1, <1>5, <1>6, <1>7, <1>8, <2>2, <2>3, <2>4, <2>5, UpdaterMoves
<1>9. CASE /\ upd' = [upd EXCEPT !.todo = @ \ {i}, !.failed = TRUE]
           /\ UNCHANGED disk
           /\ IF Forced THEN UNCHANGED actors ELSE Finish(Updater, "failed")
  <2>1. /\ upd' \in UpdateRecord /\ upd'.failed /\ upd'.done = upd.done
    BY <1>2, <1>9 DEF UpdateRecord
  <2>2. Moves(Updater, "npm", "none") \/ Moves(Updater, "over", "failed")
    BY <1>2, <1>5, <1>9, FinishMoves DEF RouterInv
  <2>3. (at'[Updater] = "npm" /\ outcome'[Updater] = "none") \/ outcome'[Updater] = "failed"
    BY <1>2, <2>2 DEF Moves, RouterInv, Types
  <2>4. InstallsFit'
    BY <1>1, <1>9, <2>1, <2>3 DEF RouterInv, InstallsFit
  <2>5. ExpectedFits' /\ ~Settled'
    BY <2>1, <2>3 DEF ExpectedFits, Settled
  <2>6. disk' \in [Installs -> Versions]
    BY <1>9 DEF RouterInv, Types
  <2> QED
    BY <1>1, <1>6, <1>7, <2>1, <2>2, <2>4, <2>5, <2>6, UpdaterMoves
<1> QED
  BY <1>3, <1>8, <1>9

LEMMA ReportedFacts ==
  ASSUME Types
  PROVE  Reported \subseteq Versions
BY DEF Types, Reported, Up, Daemons, Versions

(* What is expected after an update that did not fail is the mirror's.     *)
LEMMA InspectAgainKeeps ==
  ASSUME RouterInv, InspectAgain
  PROVE  RouterInv'
<1>1. at[Updater] = "inspect_again" /\ UNCHANGED <<world, daemon>> /\ Goto(Updater, "verify")
  BY DEF InspectAgain
<1>2. Updater \in Actors /\ outcome[Updater] = "none" /\ upd \in UpdateRecord
  BY <1>1, UpdaterFacts DEF RouterInv, Types
<1>3. Moves(Updater, "verify", "none")
  BY <1>1, <1>2, GotoMoves DEF RouterInv
<1>4. /\ at'[Updater] = "verify" /\ outcome'[Updater] = "none"
      /\ UNCHANGED <<disk, mirror, ps, foreign, doing>>
  BY <1>1, <1>2, <1>3 DEF Moves, RouterInv, Types, world
<1> DEFINE copies == IF Resolved(disk) # 0 THEN {Resolved(disk)} ELSE upd.done
<1>5. PICK r \in Reported, latest \in {upd.latest, New}, i \in copies :
        upd' = [upd EXCEPT !.reported = r, !.latest = latest, !.expected = disk[i]]
  BY DEF InspectAgain
<1>6. /\ i \in Installs
      /\ ~upd.failed => disk[i] = mirror
  <2>1. upd.done \subseteq Installs
    BY <1>2 DEF UpdateRecord
  <2>2. Resolved(disk) # 0 => Resolved(disk) \in Installs /\ disk[Resolved(disk)] # 0
    BY ResolvedFacts DEF RouterInv, Types
  <2>3. upd.todo = {}
    BY <1>1, <1>2 DEF RouterInv, InstallsFit
  <2>4. CASE Resolved(disk) # 0
    BY <1>1, <1>5, <2>2, <2>3, <2>4 DEF RouterInv, InstallsFit, Covered
  <2>5. CASE Resolved(disk) = 0
    BY <1>5, <2>1, <2>5 DEF RouterInv, InstallsFit
  <2> QED
    BY <2>4, <2>5
<1>7. /\ upd' \in UpdateRecord /\ upd'.todo = upd.todo /\ upd'.done = upd.done
      /\ upd'.failed = upd.failed /\ upd'.expected = disk[i]
  <2>1. r \in Versions
    BY ReportedFacts DEF RouterInv
  <2>2. disk[i] \in Versions
    BY <1>6 DEF RouterInv, Types
  <2>3. latest \in {0, New}
    BY <1>2 DEF UpdateRecord
  <2> QED
    BY <1>2, <1>5, <2>1, <2>2, <2>3 DEF UpdateRecord
<1>8. InstallsFit'
  <2>1. \A j \in Installs : Covered(j)' = Covered(j)
    BY <1>4 DEF Covered, Forced
  <2> QED
    BY <1>1, <1>2, <1>4, <1>7, <2>1 DEF RouterInv, InstallsFit
<1>9. ExpectedFits'
  BY <1>4, <1>6, <1>7 DEF ExpectedFits
<1>10. Settled' => Settled
  BY <1>1, <1>2, <1>4, <1>7 DEF Settled, Forced
<1>11. OnItsWay(Updater, "verify")
  BY DEF OnItsWay, Updating
<1>12. disk' \in [Installs -> Versions] /\ daemon' \in [Pids -> Daemons]
       /\ \A p \in Pids : daemon'[p] = daemon[p]
  BY <1>1, <1>4 DEF RouterInv, Types
<1> QED
  BY <1>3, <1>4, <1>7, <1>8, <1>9, <1>10, <1>11, <1>12, UpdaterMoves

LEMMA LookAgainKeeps ==
  ASSUME RouterInv, LookAgain
  PROVE  RouterInv'
<1>1. at[Updater] = "verify" /\ UNCHANGED <<world, daemon, actors>>
  BY DEF LookAgain
<1>2. UNCHANGED <<disk, mirror, ps, foreign, at, doing, outcome, before>>
  BY <1>1 DEF world, actors
<1>3. upd \in UpdateRecord
  BY DEF RouterInv, Types
<1>4. PICK r \in Reported :
        upd' = [upd EXCEPT !.reported = IF r = 0 THEN @ ELSE r, !.looks = Min({@ + 1, Looks})]
  BY DEF LookAgain
<1>5. /\ upd' \in UpdateRecord /\ upd'.todo = upd.todo /\ upd'.done = upd.done
      /\ upd'.failed = upd.failed /\ upd'.expected = upd.expected
  <2>1. r \in Versions
    BY ReportedFacts DEF RouterInv
  <2>2. PICK n \in Nat : n = upd.looks + 1
    BY <1>3 DEF UpdateRecord
  <2>3. Min({n, Looks}) \in {n, Looks} /\ Looks \in Nat
    BY MinFacts, RouterAssumption
  <2>4. PICK m \in Nat : m = Min({n, Looks})
    BY <2>3
  <2>5. PICK q \in Versions : q = IF r = 0 THEN upd.reported ELSE r
    BY <1>3, <2>1 DEF UpdateRecord
  <2>6. upd' = [upd EXCEPT !.reported = q, !.looks = m]
    BY <1>4, <2>2, <2>4, <2>5
  <2> QED
    BY <1>3, <2>6 DEF UpdateRecord
<1>6. Covered(0)' = Covered(0) /\ \A j \in Installs : Covered(j)' = Covered(j)
  BY <1>2 DEF Covered, Forced
<1>7. Updater \in Actors /\ outcome[Updater] = "none"
  BY <1>1, UpdaterFacts
<1>8. InstallsFit'
  BY <1>1, <1>2, <1>5, <1>6 DEF RouterInv, InstallsFit
<1>9. ExpectedFits' /\ OnlyNewNamed'
  BY <1>1, <1>2, <1>5, <1>7 DEF RouterInv, ExpectedFits, OnlyNewNamed, Forced, Named, Alive
<1>10. Types' /\ PlacesFit' /\ OneListens' /\ BeforeFits'
  BY <1>1, <1>2, <1>5 DEF RouterInv, Types, PlacesFit, OneListens, BeforeFits
<1> QED
  BY <1>8, <1>9, <1>10 DEF RouterInv

LEMMA VerifyKeeps ==
  ASSUME RouterInv, Verify
  PROVE  RouterInv'
<1>1. at[Updater] = "verify" /\ UNCHANGED <<world, daemon, upd>>
  BY DEF Verify
<1>2. Updater \in Actors /\ outcome[Updater] = "none"
  BY <1>1, UpdaterFacts
<1>3. PICK o \in {"ok", "failed"} : Moves(Updater, "over", o) /\ (o = "ok" => Verified)
  BY <1>2, FinishMoves DEF Verify, RouterInv
<1>4. /\ at'[Updater] = "over" /\ outcome'[Updater] = o
      /\ UNCHANGED <<disk, mirror, ps, foreign, doing>>
  BY <1>1, <1>2, <1>3 DEF Moves, RouterInv, Types, world
<1>5. InstallsFit'
  <2>1. \A j \in Installs : Covered(j)' = Covered(j)
    BY <1>4 DEF Covered, Forced
  <2> QED
    BY <1>1, <1>2, <1>4, <2>1 DEF RouterInv, InstallsFit
<1>6. ExpectedFits'
  BY <1>1, <1>3, <1>4 DEF RouterInv, ExpectedFits, Verified
<1>7. Settled' => Settled
  BY <1>1, <1>4 DEF Settled, Forced, Starting
<1>8. OnItsWay(Updater, "over")
  BY DEF OnItsWay
<1>9. disk' \in [Installs -> Versions] /\ daemon' \in [Pids -> Daemons] /\ upd' \in UpdateRecord
      /\ \A p \in Pids : daemon'[p] = daemon[p]
  BY <1>1, <1>4 DEF RouterInv, Types
<1> QED
  BY <1>3, <1>4, <1>5, <1>6, <1>7, <1>8, <1>9, UpdaterMoves

-----------------------------------------------------------------------------
LEMMA UpdateKeeps ==
  ASSUME RouterInv, Update
  PROVE  RouterInv'
<1>1. CASE Inspect
  BY <1>1, InspectKeeps
<1>2. CASE Npm
  BY <1>2, NpmKeeps
<1>3. CASE NpmDone
  BY <1>3, NpmDoneKeeps
<1>4. CASE AskDaemon \/ Terminate \/ Kill
  BY <1>4, AsksKeep
<1>5. CASE Drain
  BY <1>5, DrainKeeps
<1>6. CASE List("list", "term") \/ List("listterm", "kill") \/ List("listkill", "survived")
  BY <1>6, ListKeeps
<1>7. CASE Survived
  BY <1>7, SurvivedKeeps
<1>8. CASE PortFree
  BY <1>8, PortFreeKeeps
<1>9. CASE InspectAgain
  BY <1>9, InspectAgainKeeps
<1>10. CASE LookAgain
  BY <1>10, LookAgainKeeps
<1>11. CASE Verify
  BY <1>11, VerifyKeeps
<1> QED
  BY <1>1, <1>2, <1>3, <1>4, <1>5, <1>6, <1>7, <1>8, <1>9, <1>10, <1>11 DEF Update

LEMMA StepKeeps ==
  ASSUME RouterInv, NEW a \in Actors, Step(a)
  PROVE  RouterInv'
<1>1. CASE Ensures(a)
  BY <1>1, EnsuresKeeps
<1>2. CASE Shutdown(a) \/ AwaitClosed(a)
  <2>1. a \in Users
    BY <1>2 DEF Shutdown, AwaitClosed, RouterInv, PlacesFit, Starting, Updating, Actors
  <2> QED
    BY <1>2, <2>1, ShutdownKeeps, AwaitClosedKeeps
<1>3. CASE Update
  BY <1>3, UpdateKeeps
<1> QED
  BY <1>1, <1>2, <1>3 DEF Step, Ensures

LEMMA NextKeeps ==
  ASSUME RouterInv, [Next]_vars
  PROVE  RouterInv'
<1>1. ASSUME NEW a \in Actors, Step(a) PROVE RouterInv'
  BY <1>1, StepKeeps
<1>2. ASSUME NEW a \in Actors, NEW what \in {"start", "stop", "restart"}, Request(a, what)
      PROVE  RouterInv'
  BY <1>2, AskKeeps
<1>3. CASE UpdateAsked
  BY <1>3, UpdateAskedKeeps
<1>4. ASSUME NEW p \in Pids, Listen(p) \/ Leave(p) \/ Die(p) PROVE RouterInv'
  BY <1>4, DaemonKeeps
<1>5. CASE UNCHANGED vars
  <2>1. UNCHANGED <<disk, mirror, ps, foreign, daemon, at, doing, outcome, before, upd>>
    BY <1>5 DEF vars, world, actors
  <2> QED
    BY <2>1 DEF RouterInv, Types, PlacesFit, OneListens, InstallsFit, ExpectedFits, OnlyNewNamed,
                BeforeFits, Covered, Forced, Named, Alive
<1> QED
  BY <1>1, <1>2, <1>3, <1>4, <1>5 DEF Next, Daemon

LEMMA InitHolds ==
  ASSUME Init
  PROVE  RouterInv
<1>1. PICK s \in {"none", "up", "leaving"}, named \in BOOLEAN :
        daemon = [p \in Pids |->
                   IF p = Min(Pids) /\ s # "none"
                   THEN [Unborn EXCEPT !.ver = Old, !.state = s, !.named = named]
                   ELSE Unborn]
  BY DEF Init, CommandLines
<1>2. \A p \in Pids :
        \/ daemon[p] = [ver |-> 0, state |-> "none", asked |-> FALSE, killed |-> FALSE,
                        named |-> FALSE]
        \/ /\ daemon[p] = [ver |-> Old, state |-> s, asked |-> FALSE, killed |-> FALSE,
                            named |-> named]
           /\ p = Min(Pids) /\ s # "none"
  BY <1>1 DEF Unborn
<1>3. daemon \in [Pids -> Daemons]
  <2>1. Unborn \in Daemons
    BY DEF Unborn, Daemons, Versions
  <2>2. [Unborn EXCEPT !.ver = Old, !.state = s, !.named = named] \in Daemons
    BY <2>1 DEF Daemons, Versions
  <2> QED
    BY <1>1, <2>1, <2>2
<1>4. upd \in UpdateRecord
  BY DEF Init, NoUpdate, UpdateRecord, Versions
<1>5. Types
  BY <1>3, <1>4 DEF Init, Types, Versions
<1>6. OneListens
  <2>1. \A p, q \in Pids : daemon[p].state = "up" /\ daemon[q].state = "up" => p = q
    BY <1>2
  <2>2. foreign => \A p \in Pids : daemon[p].state # "up"
    BY DEF Init, Up
  <2>3. \A p \in Pids : (daemon[p].state = "none" => daemon[p] = Unborn)
                       /\ (daemon[p] # Unborn => daemon[p].ver # 0)
    BY <1>2 DEF Unborn, Old
  <2> QED
    BY <2>1, <2>2, <2>3 DEF OneListens
<1>7. \A a \in Actors : at[a] = "idle" /\ doing[a] = "none" /\ outcome[a] = "none" /\ before[a] = {}
  BY DEF Init
<1>8. Updater \in Actors /\ Users \subseteq Actors
  BY DEF Actors
<1>9. PlacesFit /\ BeforeFits /\ ExpectedFits /\ OnlyNewNamed
  BY <1>7, <1>8 DEF PlacesFit, BeforeFits, ExpectedFits, OnlyNewNamed, Starting
<1>10. InstallsFit
  BY <1>7, <1>8 DEF Init, NoUpdate, InstallsFit
<1> QED
  BY <1>5, <1>6, <1>9, <1>10 DEF RouterInv

(* At most one daemon listens.                                             *)
LEMMA OneUp ==
  ASSUME RouterInv
  PROVE  Cardinality(Up) <= 1
<1>1. CASE Up = {}
  BY <1>1, FS_EmptySet
<1>2. CASE Up # {}
  <2>1. PICK p \in Up : TRUE
    BY <1>2
  <2>2. Up = {p}
    BY <2>1 DEF Up, RouterInv, OneListens
  <2>3. Cardinality({p}) = 1
    BY FS_Singleton
  <2> QED
    BY <2>2, <2>3
<1> QED
  BY <1>1, <1>2

LEMMA RouterSound ==
  ASSUME RouterInv
  PROVE  ReportsAreTrue
<1>1. Updater \in Actors /\ Users \subseteq Actors
  BY DEF Actors
<1>2. TypeOK
  <2>1. Cardinality(Up) <= 1 /\ (foreign => Up = {})
    BY OneUp DEF RouterInv, OneListens, Up
  <2>2. \A p \in Pids : daemon[p] # Unborn => daemon[p].ver \in {Old, New}
    BY DEF RouterInv, Types, OneListens, Daemons, Versions
  <2>3. upd.todo \cup upd.done \subseteq Installs /\ upd.seen \subseteq Pids
    BY DEF RouterInv, Types, UpdateRecord
  <2> QED
    BY <2>1, <2>2, <2>3 DEF TypeOK, RouterInv, Types, PlacesFit, Versions
<1>3. UpdateOkIsTrue
  <2> SUFFICES ASSUME outcome[Updater] = "ok"
               PROVE  /\ VersionOf(Resolved(disk)) \in {0, mirror}
                      /\ mirror >= upd.latest
                      /\ upd.reported = mirror
                      /\ Forced => \A i \in Installs : disk[i] \in {0, mirror}
    BY DEF UpdateOkIsTrue
  <2>1. ~upd.failed /\ upd.reported = mirror /\ mirror >= upd.latest
    BY DEF RouterInv, ExpectedFits
  <2>2. upd.todo = {} /\ at[Updater] = "over"
    BY <1>1 DEF RouterInv, InstallsFit, PlacesFit
  <2>3. \A i \in Installs : disk[i] # 0 /\ Covered(i) => disk[i] = mirror
    BY <2>1, <2>2 DEF RouterInv, InstallsFit
  <2>4. Resolved(disk) # 0 => Resolved(disk) \in Installs
    BY ResolvedFacts DEF RouterInv, Types
  <2> QED
    BY <2>1, <2>3, <2>4 DEF VersionOf, Covered
<1>4. ForceLeavesNoneOld
  <2> SUFFICES ASSUME outcome[Updater] = "ok", Forced, ps
               PROVE  \A p \in Named : daemon[p].ver >= mirror
    BY DEF ForceLeavesNoneOld
  <2>1. \A p \in Named : daemon[p].ver = mirror
    BY DEF RouterInv, ExpectedFits, OnlyNewNamed
  <2>2. mirror \in Nat
    BY DEF RouterInv, Types, Old, New
  <2> QED
    BY <2>1, <2>2
<1>5. StopStops
  BY <1>1 DEF StopStops, RouterInv, BeforeFits, PlacesFit, Up
<1> QED
  BY <1>2, <1>3, <1>4, <1>5 DEF ReportsAreTrue

LEMMA RouterInvHolds == Spec => []RouterInv
BY InitHolds, NextKeeps, PTL DEF Spec

(* An update that reports success has left what is started at the version  *)
(* npm installs, no older than the latest known, and a forced one nothing  *)
(* older, neither on disk nor running; a stop or restart that reports      *)
(* success has ended the daemon's listening; whatever any number of users  *)
(* start, stop and restart meanwhile (RouterUpdater, RouterProcess).       *)
THEOREM TheReportsAreTrue == Spec => []ReportsAreTrue
BY RouterInvHolds, RouterSound, PTL

-----------------------------------------------------------------------------
(* The session. *)

(* The converse of QuestionIsHeld: what is in the slot is the question of  *)
(* a call that waits, so resolving it continues that call.                 *)
SlotIsAsked ==
  slot # NoRequest => /\ call[slot.for] = "asking"
                      /\ slot.id = asked[slot.for]

(* A call that got its yes does not ask again in its turn. *)
GrantedIsOver == \A c \in granted : call[c] = "over"

HostInv ==
  /\ HostTypeOK /\ QuestionIsHeld /\ StatusIsTrue
  /\ SlotIsAsked /\ GrantedIsOver /\ NothingUnapproved

-----------------------------------------------------------------------------

(* A session is created idle, with an empty slot. *)
LEMMA HostInitHolds == HostInit => HostInv
<1> SUFFICES ASSUME HostInit PROVE HostInv
  OBVIOUS
<1>1. HostTypeOK
  <2>1. /\ turns \in 0..MaxTurns /\ engines \in 0..1
        /\ rewinds \in 0..MaxRewinds /\ restored \in 0..rewinds
    BY HostAssumption DEF HostInit
  <2>2. /\ call \in [Calls -> {"none", "asking", "over"}]
        /\ asked \in [Calls -> 0..requestSeq]
    BY DEF HostInit
  <2> QED
    BY <2>1, <2>2 DEF HostInit, HostTypeOK
<1>2. \A c \in Calls : call[c] = "none"
  BY DEF HostInit
<1>3. QuestionIsHeld /\ StatusIsTrue /\ SlotIsAsked
  BY <1>2 DEF HostInit, QuestionIsHeld, StatusIsTrue, SlotIsAsked, Running
<1>4. GrantedIsOver /\ NothingUnapproved
  BY DEF HostInit, GrantedIsOver, NothingUnapproved
<1> QED
  BY <1>1, <1>3, <1>4 DEF HostInv

(* A turn begins with nothing asked and nothing granted; the one before it *)
(* has left the slot empty, since a session that waits is running.         *)
LEMMA RunHolds == HostInv /\ Run => HostInv'
<1> SUFFICES ASSUME HostInv, Run PROVE HostInv'
  OBVIOUS
<1>1. slot = NoRequest /\ engines = 0
  BY DEF HostInv, HostTypeOK, QuestionIsHeld, StatusIsTrue, Run, Running
<1>2. HostTypeOK'
  <2>1. turns' \in 0..MaxTurns /\ engines' \in 0..1
    BY <1>1, HostAssumption DEF HostInv, HostTypeOK, Run
  <2>2. /\ call' \in [Calls -> {"none", "asking", "over"}]
        /\ asked' \in [Calls -> 0..requestSeq]
    BY DEF HostInv, HostTypeOK, Run
  <2> QED
    BY <2>1, <2>2 DEF HostInv, HostTypeOK, Run, client, files
<1>3. /\ QuestionIsHeld' /\ StatusIsTrue' /\ SlotIsAsked' /\ GrantedIsOver'
      /\ NothingUnapproved'
  BY <1>1 DEF HostInv, HostTypeOK, QuestionIsHeld, StatusIsTrue, SlotIsAsked,
     GrantedIsOver, NothingUnapproved, Run, Running, client, files
<1> QED
  BY <1>2, <1>3 DEF HostInv

(* When the engine settles no call waits, so no question is thrown away.   *)
LEMMA EndHolds == HostInv /\ End => HostInv'
<1> SUFFICES ASSUME HostInv, End PROVE HostInv'
  OBVIOUS
<1>1. HostTypeOK'
  BY DEF HostInv, HostTypeOK, End, client, files
<1>2. status' # "waiting" /\ engines' = 0
  BY DEF HostInv, HostTypeOK, End
<1>3. /\ QuestionIsHeld' /\ StatusIsTrue' /\ SlotIsAsked' /\ GrantedIsOver'
      /\ NothingUnapproved'
  BY <1>2 DEF HostInv, HostTypeOK, QuestionIsHeld, StatusIsTrue, SlotIsAsked,
     GrantedIsOver, NothingUnapproved, End, Running, client, files
<1> QED
  BY <1>1, <1>3 DEF HostInv

(* The lock keeps a second call from asking while the first one waits.     *)
LEMMA AskHolds == ASSUME NEW c \in Calls PROVE HostInv /\ Ask(c) => HostInv'
<1> SUFFICES ASSUME HostInv, Ask(c) PROVE HostInv'
  OBVIOUS
<1>1. /\ requestSeq' = requestSeq + 1 /\ requestSeq \in Nat
      /\ asked' = [asked EXCEPT ![c] = requestSeq']
      /\ engines = 1 /\ engines' = engines
      /\ c \notin granted /\ granted' = granted /\ said' = said
      /\ slot = NoRequest
  BY DEF HostInv, HostTypeOK, GrantedIsOver, SlotIsAsked, LockHeld, Ask, turn, client
<1>2. HostTypeOK'
  BY <1>1, HostAssumption DEF HostInv, HostTypeOK, Ask, client, turn, files, NoRequest
<1>3. CASE Dismissed
  <2>1. QuestionIsHeld' /\ SlotIsAsked'
    BY <1>1, <1>3 DEF HostInv, HostTypeOK, QuestionIsHeld, SlotIsAsked, LockHeld, Ask
  <2>2. StatusIsTrue' /\ GrantedIsOver' /\ NothingUnapproved'
    BY <1>1, <1>3 DEF HostInv, HostTypeOK, StatusIsTrue, GrantedIsOver, NothingUnapproved,
       Ask, Running
  <2> QED
    BY <1>2, <2>1, <2>2 DEF HostInv
<1>4. CASE ~Dismissed
  <2>1. slot' = [id |-> requestSeq', for |-> c] /\ slot' # NoRequest
    BY <1>1, <1>4 DEF Ask, NoRequest
  <2>2. QuestionIsHeld' /\ SlotIsAsked'
    BY <1>1, <1>4, <2>1 DEF HostInv, HostTypeOK, QuestionIsHeld, SlotIsAsked, LockHeld, Ask
  <2>3. StatusIsTrue' /\ GrantedIsOver' /\ NothingUnapproved'
    BY <1>1, <1>4 DEF HostInv, HostTypeOK, StatusIsTrue, GrantedIsOver, NothingUnapproved,
       Ask, Running
  <2> QED
    BY <1>2, <2>2, <2>3 DEF HostInv
<1> QED
  BY <1>3, <1>4

(* Resolving the slot's question, with a yes only if the user said so to   *)
(* that very request.                                                      *)
LEMMA ResolveHolds ==
  ASSUME NEW yes \in BOOLEAN, HostInv, slot # NoRequest, ResolvePending(yes),
         said \subseteq said', said' \subseteq 1..requestSeq,
         yes => slot.id \in said',
         abortRequested' \in BOOLEAN, disposed' \in BOOLEAN,
         UNCHANGED <<turns, engines, team, files>>
  PROVE  HostInv'
<1>1. /\ status = "waiting" /\ status' = "running"
      /\ slot.for \in Calls /\ slot.id = asked[slot.for]
      /\ slot' = NoRequest
      /\ asked' = asked
      /\ call' = [call EXCEPT ![slot.for] = "over"]
  BY DEF HostInv, HostTypeOK, QuestionIsHeld, SlotIsAsked, ResolvePending
<1>2. HostTypeOK'
  BY <1>1 DEF HostInv, HostTypeOK, ResolvePending, files
<1>3. \A c \in Calls : call[c] = "asking" => c = slot.for
  BY DEF HostInv, QuestionIsHeld
<1>4. QuestionIsHeld' /\ SlotIsAsked'
  BY <1>1, <1>3 DEF HostInv, HostTypeOK, QuestionIsHeld, SlotIsAsked
<1>5. StatusIsTrue'
  BY <1>1 DEF HostInv, StatusIsTrue, Running
<1>6. GrantedIsOver' /\ NothingUnapproved'
  BY <1>1 DEF HostInv, HostTypeOK, GrantedIsOver, NothingUnapproved, ResolvePending
<1> QED
  BY <1>2, <1>4, <1>5, <1>6 DEF HostInv

(* Steps that leave the question and the turn's status alone.              *)
LEMMA OthersHold ==
  ASSUME HostInv, UNCHANGED <<status, question, turns, engines, team>>,
         said \subseteq said', said' \subseteq 1..requestSeq,
         abortRequested' \in BOOLEAN, disposed' \in BOOLEAN,
         workDir' \in Dirs, moving' \subseteq Dirs,
         rewinds' \in 0..MaxRewinds, restored' \in 0..rewinds'
  PROVE  HostInv'
BY DEF HostInv, HostTypeOK, QuestionIsHeld, StatusIsTrue, SlotIsAsked, GrantedIsOver,
   NothingUnapproved, Running, question

(* An answer reaches the call it was given for, or none.                   *)
LEMMA AnswerHolds ==
  ASSUME NEW id \in 1..requestSeq, NEW yes \in BOOLEAN
  PROVE  HostInv /\ Answer(id, yes) => HostInv'
<1> SUFFICES ASSUME HostInv, Answer(id, yes) PROVE HostInv'
  OBVIOUS
<1>1. /\ said \subseteq said' /\ said' \subseteq 1..requestSeq
      /\ yes => id \in said'
      /\ abortRequested' \in BOOLEAN /\ disposed' \in BOOLEAN
      /\ UNCHANGED <<turns, engines, team, files>>
  BY DEF HostInv, HostTypeOK, Answer, turn
<1>2. CASE IsPending(id)
  <2>1. slot # NoRequest /\ slot.id = id /\ ResolvePending(yes)
    BY <1>2 DEF Answer, IsPending
  <2> QED
    BY <1>1, <2>1, ResolveHolds
<1>3. CASE ~IsPending(id)
  BY <1>1, <1>3, OthersHold DEF HostInv, HostTypeOK, Answer, files
<1> QED
  BY <1>2, <1>3

(* An abort, or the session's removal, dismisses what is pending.          *)
LEMMA AbandonHolds ==
  ASSUME HostInv, Abandon, said' = said, disposed' \in BOOLEAN, UNCHANGED files
  PROVE  HostInv'
<1>1. /\ said \subseteq said' /\ said' \subseteq 1..requestSeq
      /\ abortRequested' \in BOOLEAN
      /\ UNCHANGED <<turns, engines, team>>
  BY DEF HostInv, HostTypeOK, Abandon, Running
<1>2. CASE Running /\ slot # NoRequest
  BY <1>1, <1>2, ResolveHolds DEF Abandon
<1>3. CASE ~(Running /\ slot # NoRequest)
  BY <1>1, <1>3, OthersHold DEF HostInv, HostTypeOK, Abandon, files
<1> QED
  BY <1>2, <1>3

(* What clients ask of an idle session does not touch its turn.            *)
LEMMA FilesHold ==
  HostInv /\ (\/ BeginRewind \/ RestoreFile
              \/ \E d \in Dirs : BeginSetWorkDir(d) \/ EndSetWorkDir(d)) => HostInv'
<1> SUFFICES ASSUME HostInv,
                    \/ BeginRewind \/ RestoreFile
                    \/ \E d \in Dirs : BeginSetWorkDir(d) \/ EndSetWorkDir(d)
             PROVE  HostInv'
  OBVIOUS
<1>1. /\ UNCHANGED <<status, question, turns, engines, team, abortRequested, disposed, said>>
      /\ workDir' \in Dirs /\ moving' \subseteq Dirs
      /\ rewinds' \in 0..MaxRewinds /\ restored' \in 0..rewinds'
  BY HostAssumption DEF HostInv, HostTypeOK, BeginRewind, RestoreFile, BeginSetWorkDir,
     EndSetWorkDir, client, turn
<1> QED
  BY <1>1, OthersHold DEF HostInv, HostTypeOK

(* HostInv is inductive. *)
LEMMA NextHolds == HostInv /\ [HostNext]_hostVars => HostInv'
<1> SUFFICES ASSUME HostInv, [HostNext]_hostVars PROVE HostInv'
  OBVIOUS
<1>1. CASE Run
  BY <1>1, RunHolds
<1>2. CASE Abort
  BY <1>2, AbandonHolds DEF HostInv, HostTypeOK, Abort, client
<1>3. CASE Dispose
  BY <1>3, AbandonHolds DEF Dispose
<1>4. CASE \E id \in 1..requestSeq, yes \in BOOLEAN : Answer(id, yes)
  BY <1>4, AnswerHolds
<1>5. CASE Engine
  BY <1>5, EndHolds, AskHolds DEF Engine
<1>6. CASE BeginRewind \/ FileSystem \/ \E d \in Dirs : BeginSetWorkDir(d)
  BY <1>6, FilesHold DEF FileSystem
<1>7. CASE UNCHANGED hostVars
  BY <1>7, OthersHold DEF HostInv, HostTypeOK, hostVars, client, turn, files
<1> QED
  BY <1>1, <1>2, <1>3, <1>4, <1>5, <1>6, <1>7 DEF HostNext, Client, SessionOver

(* The invariant of every session. *)
THEOREM HostIsInvariant == HostSpec => []HostInv
BY HostInitHolds, NextHolds, PTL DEF HostSpec

-----------------------------------------------------------------------------

(* The session's variables keep their types: at most one turn is under     *)
(* way, and the slot holds a request that was made.                        *)
THEOREM TypeCorrect == HostSpec => []HostTypeOK
<1>1. HostInv => HostTypeOK
  BY DEF HostInv
<1> QED
  BY <1>1, HostIsInvariant, PTL

(* One slot is enough: no call waits for an answer that cannot be given to *)
(* it; and the status a session shows is that of its engine.               *)
THEOREM SessionIsCorrect == HostSpec => []SessionIsSound
<1>1. HostInv => SessionIsSound
  BY DEF HostInv, SessionIsSound
<1> QED
  BY <1>1, HostIsInvariant, PTL

(* Late, repeated and dismissed answers never approve a gated call.        *)
THEOREM OnlyTheApproved == HostSpec => []NothingUnapproved
<1>1. HostInv => NothingUnapproved
  BY DEF HostInv
<1> QED
  BY <1>1, HostIsInvariant, PTL
-----------------------------------------------------------------------------
(* The window's sessions. *)

Hosts == [status : {"idle", "running", "error"}, turns : Nat, aborting : BOOLEAN]

Entries == [kind : {"turn_start", "thinking", "tool_call", "tool_result", "done", "error",
                    "turn_end"},
            turn : Nat, what : CallIds \cup {"task", "text", "digest", "aborted", "error", "completed"}]

ViewRecs == [snap : Hosts, base : Nat, applied : SUBSET Nat]

Links == [pending : Nat, asked : BOOLEAN]

EventMsgs   == [kind : {"event"}, of : Sessions, seq : Nat]
SnapMsgs    == [kind : {"changed", "created"}, of : Sessions, snap : Hosts]
RemovedMsgs == [kind : {"removed"}, of : Sessions]
ListMsgs    == UNION {[kind : {"listed"}, snaps : [S -> Hosts]] : S \in SUBSET Sessions}
HistoryMsgs == [kind : {"history"}, of : Sessions, ok : BOOLEAN, seqs : SUBSET Nat]
Messages == EventMsgs \cup SnapMsgs \cup RemovedMsgs \cup ListMsgs \cup HistoryMsgs

ListCall == [kind |-> "list"]
CreateCalls == [kind : {"create"}, of : Sessions]
HistoryCalls == [kind : {"history"}, of : Sessions, since : Nat]

StreamTypes ==
  /\ phase \in [Sessions -> {"none", "creating", "live", "removed"}]
  /\ host \in [Sessions -> Hosts]
  /\ open \in [Sessions -> SUBSET CallIds]
  /\ last \in [Sessions -> {"none", "done", "error"}]
  /\ log \in [Sessions -> Seq(Entries)]
  /\ ring \in [Sessions -> SUBSET Nat]
  /\ window \in BOOLEAN
  /\ channel \in Seq(Messages)
  /\ calls \subseteq {ListCall} \cup CreateCalls \cup HistoryCalls
  /\ views \in [Sessions -> {NoView} \cup ViewRecs]
  /\ chain \in [Sessions -> Seq(Links)]

(* Without a window there is nothing of one.                               *)
Shut ==
  ~window => /\ channel = <<>> /\ calls = {}
             /\ \A s \in Sessions : views[s] = NoView /\ chain[s] = <<>>

(* What a message says of a session.                                       *)
Is(m, kind, s) == m.kind = kind /\ m.of = s
Lists(m, s) == m.kind = "listed" /\ s \in DOMAIN m.snaps
Drops(m, s) == m.kind = "listed" /\ s \notin DOMAIN m.snaps
Tells(m, s) == Is(m, "changed", s) \/ Is(m, "created", s) \/ Lists(m, s)
Kills(m, s) == Is(m, "removed", s) \/ Drops(m, s)
SnapOf(m, s) == IF m.kind = "listed" THEN m.snaps[s] ELSE m.snap

(* What is said and what of it is retained.                                *)
Words(l) == {n \in DOMAIN l : l[n].kind # "thinking"}

RingFits(s) ==
  /\ ring[s] \subseteq 1..Len(log[s]) /\ Cardinality(ring[s]) <= RingCap
  /\ Len(log[s]) \in Words(log[s]) => Len(log[s]) \in ring[s]
  /\ Cardinality(Words(log[s])) <= RingCap => Words(log[s]) \subseteq ring[s]

LogFits(s) ==
  /\ phase[s] \in {"none", "creating"} => log[s] = <<>> /\ ~Runs(s)
  /\ phase[s] = "live" /\ Runs(s) => log[s] # <<>>
  /\ phase[s] = "live" /\ ~Runs(s) /\ log[s] # <<>> => log[s][Len(log[s])].kind = "turn_end"

(* A session that is not there yet is known to nobody; what a window is    *)
(* told of one that is there comes after the list it was not in; of one    *)
(* that is removed, before the news of it.                                 *)
NotYet(s) ==
  phase[s] \in {"none", "creating"} =>
    /\ s \notin Known /\ chain[s] = <<>>
    /\ \A i \in DOMAIN channel : ~Tells(channel[i], s)

Here(s) ==
  phase[s] = "live" =>
    /\ \A j \in DOMAIN channel : Kills(channel[j], s) =>
         /\ s \notin Known
         /\ \A i \in DOMAIN channel : Tells(channel[i], s) => j < i
    /\ s \notin Known => chain[s] = <<>>
    /\ window /\ log[s] # <<>> /\ ListCall \notin calls =>
         s \in Known \/ \E i \in DOMAIN channel : Tells(channel[i], s)
    /\ \A i \in DOMAIN channel : Is(channel[i], "created", s) =>
         /\ s \notin Known /\ log[s] = <<>>
         /\ \A j \in DOMAIN channel : Tells(channel[j], s) => i <= j

Gone(s) ==
  phase[s] = "removed" =>
    /\ s \in Known => \E j \in DOMAIN channel : Kills(channel[j], s)
    /\ \A i \in DOMAIN channel : Tells(channel[i], s) =>
         /\ s \in Known
         /\ \A j \in DOMAIN channel : Kills(channel[j], s) => i < j

(* The last snapshot a window has, or is sent, is the present one.         *)
SnapsFit(s) ==
  phase[s] = "live" =>
    /\ \A i \in DOMAIN channel :
         (Tells(channel[i], s) /\ \A j \in DOMAIN channel : Tells(channel[j], s) => j <= i)
           => SnapOf(channel[i], s) = host[s]
    /\ (s \in Known /\ \A i \in DOMAIN channel : ~Tells(channel[i], s)) => views[s].snap = host[s]

(* The numbers that are on their way are of what was said.                 *)
NumbersFit(s) ==
  /\ s \in Known => views[s].applied \subseteq 1..Len(log[s])
  /\ \A j \in DOMAIN chain[s] : chain[s][j].pending <= Len(log[s])
  /\ \A i \in DOMAIN channel : Is(channel[i], "event", s) => channel[i].seq \in 1..Len(log[s])

WholeFits(s) == s \in Known /\ Cardinality(Words(log[s])) <= RingCap => IsWhole(s)

(* The fetch under way: the first of the chain, as a call or its answer.   *)
Asking(c, s) == c.kind = "history" /\ c.of = s

FetchFits(s) ==
  /\ \A j \in DOMAIN chain[s] : chain[s][j].asked => j = 1
  /\ \A c \in calls : Asking(c, s) =>
       /\ chain[s] # <<>> /\ Head(chain[s]).asked
       /\ \A d \in calls : Asking(d, s) => d = c
       /\ \A i \in DOMAIN channel : ~Is(channel[i], "history", s)
       /\ s \in Known => c.since = LastSeq(views[s])
  /\ \A i \in DOMAIN channel : Is(channel[i], "history", s) =>
       /\ chain[s] # <<>> /\ Head(chain[s]).asked
       /\ \A j \in DOMAIN channel : Is(channel[j], "history", s) => j = i
  /\ chain[s] # <<>> /\ Head(chain[s]).asked =>
       \/ \E c \in calls : Asking(c, s)
       \/ \E i \in DOMAIN channel : Is(channel[i], "history", s)

(* An answer has all that was retained then, up to some k.                 *)
AnswerOf(m, s, k) ==
  /\ Head(chain[s]).pending <= k /\ m.seqs \subseteq 1..k
  /\ \A n \in ring[s] : LastSeq(views[s]) < n /\ n <= k => n \in m.seqs

AnswersFit(s) ==
  \A i \in DOMAIN channel : Is(channel[i], "history", s) =>
    /\ phase[s] # "removed" => channel[i].ok
    /\ s \in Known => \E k \in 0..Len(log[s]) : AnswerOf(channel[i], s, k)

(* What is retained and not applied is on its way.                         *)
Coming(s, n) ==
  \/ \E i \in DOMAIN channel : Is(channel[i], "event", s) /\ n <= channel[i].seq
  \/ \E j \in DOMAIN chain[s] :
       n <= chain[s][j].pending \/ (chain[s][j].pending = 0 /\ ~chain[s][j].asked)
  \/ \E c \in calls : Asking(c, s)
  \/ \E i \in DOMAIN channel : Is(channel[i], "history", s) /\ n \in channel[i].seqs

Delivered(s) ==
  phase[s] = "live" /\ s \in Known =>
    \A n \in ring[s] : n <= LastSeq(views[s]) \/ Coming(s, n)

SessionFits(s) ==
  /\ RingFits(s) /\ LogFits(s)
  /\ NotYet(s) /\ Here(s) /\ Gone(s) /\ SnapsFit(s)
  /\ NumbersFit(s) /\ WholeFits(s) /\ FetchFits(s) /\ AnswersFit(s) /\ Delivered(s)

StreamInv == StreamTypes /\ Shut /\ \A s \in Sessions : SessionFits(s)

-----------------------------------------------------------------------------
(* Lasts, and what applying envelopes does to a view.                      *)

LEMMA MaxFacts ==
  ASSUME NEW T, NEW k \in Nat, T \subseteq 1..k, T # {}
  PROVE  Max(T) \in T /\ \A n \in T : n <= Max(T)
<1> DEFINE R == {k - n : n \in T}
<1>1. R \subseteq Nat /\ R # {}
  <2>1. ASSUME NEW n \in T PROVE k - n \in Nat
    BY n \in 1..k
  <2> QED
    BY <2>1
<1> HIDE DEF R
<1>2. PICK r \in R : \A q \in R : r <= q
  BY <1>1, LeastOf
<1>3. PICK m \in T : r = k - m
  BY <1>2 DEF R
<1>4. ASSUME NEW n \in T PROVE n <= m
  <2>1. k - n \in R
    BY DEF R
  <2>2. r <= k - n
    BY <2>1, <1>2
  <2> QED
    BY <2>2, <1>3
<1> QED
  BY <1>4 DEF Max

LEMMA LastFacts ==
  ASSUME NEW v, NEW k \in Nat, v.applied \subseteq 1..k
  PROVE  /\ LastSeq(v) \in 0..k /\ \A n \in v.applied : n <= LastSeq(v)
         /\ LastSeq(v) # 0 => LastSeq(v) \in v.applied
<1>1. CASE v.applied = {}
  BY <1>1 DEF LastSeq
<1>2. CASE v.applied # {}
  BY <1>2, MaxFacts DEF LastSeq
<1> QED
  BY <1>1, <1>2

LEMMA LastIs ==
  ASSUME NEW v, NEW k \in Nat, v.applied \subseteq 1..k, NEW m \in v.applied,
         \A n \in v.applied : n <= m
  PROVE  LastSeq(v) = m
<1>1. LastSeq(v) \in 0..k /\ m <= LastSeq(v) /\ (LastSeq(v) # 0 => LastSeq(v) \in v.applied)
  BY LastFacts
<1>2. m \in 1..k
  OBVIOUS
<1>3. LastSeq(v) \in v.applied
  BY <1>1, <1>2
<1>4. LastSeq(v) <= m
  BY <1>3
<1> QED
  BY <1>1, <1>2, <1>4

LEMMA ApplyFacts ==
  ASSUME NEW v \in ViewRecs, NEW k \in Nat, v.applied \subseteq 1..k, NEW T, T \subseteq 1..k,
         NEW w, w = ApplyAll(v, T)
  PROVE  /\ w \in ViewRecs /\ w.snap = v.snap /\ w.applied \subseteq 1..k
         /\ w.applied = v.applied \cup {n \in T : LastSeq(v) < n}
         /\ LastSeq(v) <= LastSeq(w) /\ \A n \in T : n <= LastSeq(w)
         /\ LastSeq(w) = LastSeq(v) \/ LastSeq(w) \in T
<1> DEFINE A == v.applied \cup {n \in T : n > LastSeq(v)}
<1>1. w = [v EXCEPT !.applied = A]
  BY DEF ApplyAll, Fresh
<1>2. A \subseteq 1..k /\ A \subseteq Nat
  <2>1. A \subseteq 1..k
    BY Zenon
  <2>2. 1..k \subseteq Nat
    OBVIOUS
  <2> QED
    BY <2>1, <2>2, Zenon
<1>3. \A n \in T : LastSeq(v) < n <=> n > LastSeq(v)
  BY LastFacts
<1>4. A = v.applied \cup {n \in T : LastSeq(v) < n}
  BY <1>3
<1> HIDE DEF A
<1>5. w \in ViewRecs /\ w.snap = v.snap /\ w.applied = A
  BY <1>1, <1>2 DEF ViewRecs
<1>6. /\ LastSeq(w) \in 0..k /\ \A n \in A : n <= LastSeq(w)
      /\ LastSeq(w) # 0 => LastSeq(w) \in A
  BY <1>2, <1>5, LastFacts
<1>7. /\ LastSeq(v) \in 0..k /\ \A n \in v.applied : n <= LastSeq(v)
      /\ LastSeq(v) # 0 => LastSeq(v) \in v.applied
  BY LastFacts
<1>8. LastSeq(v) <= LastSeq(w)
  <2>1. CASE LastSeq(v) = 0
    BY <2>1, <1>6
  <2>2. CASE LastSeq(v) # 0
    <3>1. LastSeq(v) \in A
      BY <2>2, <1>7, <1>4
    <3> QED
      BY <3>1, <1>6
  <2> QED
    BY <2>1, <2>2
<1>9. ASSUME NEW n \in T PROVE n <= LastSeq(w)
  <2>1. CASE LastSeq(v) < n
    BY <2>1, <1>4, <1>6
  <2>2. CASE ~(LastSeq(v) < n)
    <3>1. n \in 1..k
      OBVIOUS
    <3> QED
      BY <2>2, <3>1, <1>8, <1>6, <1>7
  <2> QED
    BY <2>1, <2>2
<1>10. LastSeq(w) = LastSeq(v) \/ LastSeq(w) \in T
  <2>1. CASE LastSeq(w) = 0
    BY <2>1, <1>8, <1>7
  <2>2. CASE LastSeq(w) # 0
    <3>1. LastSeq(w) \in v.applied \/ LastSeq(w) \in T
      BY <2>2, <1>6, <1>4
    <3>2. LastSeq(w) \in v.applied => LastSeq(w) <= LastSeq(v)
      BY <1>7
    <3> QED
      BY <3>1, <3>2, <1>6, <1>7, <1>8
  <2> QED
    BY <2>1, <2>2
<1> QED
  BY <1>2, <1>4, <1>5, <1>8, <1>9, <1>10

LEMMA ViewFacts ==
  /\ \A v \in ViewRecs : v # NoView /\ v.snap \in Hosts /\ v.applied \subseteq Nat
  /\ \A h \in Hosts : /\ EmptyView(h) \in ViewRecs
                      /\ EmptyView(h).snap = h /\ EmptyView(h).applied = {}
  /\ \A v \in ViewRecs : \A h \in Hosts :
       /\ [v EXCEPT !.snap = h] \in ViewRecs
       /\ [v EXCEPT !.snap = h].snap = h /\ [v EXCEPT !.snap = h].applied = v.applied
<1>1. ASSUME NEW v \in ViewRecs PROVE v # NoView
  BY DEF ViewRecs, NoView
<1>2. \A v \in ViewRecs : v.snap \in Hosts /\ v.applied \subseteq Nat
  BY DEF ViewRecs
<1>3. \A h \in Hosts : EmptyView(h) \in ViewRecs
                       /\ EmptyView(h).snap = h /\ EmptyView(h).applied = {}
  BY DEF ViewRecs, EmptyView, Hosts
<1>4. ASSUME NEW v \in ViewRecs, NEW h \in Hosts
      PROVE  /\ [v EXCEPT !.snap = h] \in ViewRecs
             /\ [v EXCEPT !.snap = h].snap = h /\ [v EXCEPT !.snap = h].applied = v.applied
  BY DEF ViewRecs
<1> QED
  BY <1>1, <1>2, <1>3, <1>4

-----------------------------------------------------------------------------
(* Messages.                                                               *)

LEMMA KindFacts ==
  ASSUME NEW m, NEW s
  PROVE  /\ m.kind = "event" =>
              /\ Is(m, "event", s) <=> m.of = s
              /\ ~Is(m, "created", s) /\ ~Is(m, "history", s) /\ ~Tells(m, s) /\ ~Kills(m, s)
         /\ m.kind = "changed" =>
              /\ Tells(m, s) <=> m.of = s
              /\ SnapOf(m, s) = m.snap
              /\ ~Is(m, "event", s) /\ ~Is(m, "created", s) /\ ~Is(m, "history", s)
              /\ ~Kills(m, s)
         /\ m.kind = "created" =>
              /\ Is(m, "created", s) <=> m.of = s
              /\ Tells(m, s) <=> m.of = s
              /\ SnapOf(m, s) = m.snap
              /\ ~Is(m, "event", s) /\ ~Is(m, "history", s) /\ ~Kills(m, s)
         /\ m.kind = "removed" =>
              /\ Kills(m, s) <=> m.of = s
              /\ ~Is(m, "event", s) /\ ~Is(m, "created", s) /\ ~Is(m, "history", s)
              /\ ~Tells(m, s)
         /\ m.kind = "listed" =>
              /\ Tells(m, s) <=> s \in DOMAIN m.snaps
              /\ Kills(m, s) <=> s \notin DOMAIN m.snaps
              /\ SnapOf(m, s) = m.snaps[s]
              /\ ~Is(m, "event", s) /\ ~Is(m, "created", s) /\ ~Is(m, "history", s)
         /\ m.kind = "history" =>
              /\ Is(m, "history", s) <=> m.of = s
              /\ ~Is(m, "event", s) /\ ~Is(m, "created", s) /\ ~Tells(m, s) /\ ~Kills(m, s)
BY DEF Is, Tells, Kills, Lists, Drops, SnapOf

LEMMA MessageFacts ==
  ASSUME NEW m \in Messages
  PROVE  /\ m.kind \in {"event", "changed", "created", "removed", "listed", "history"}
         /\ m.kind # "listed" => m.of \in Sessions
         /\ m.kind = "event" => m.seq \in Nat
         /\ m.kind \in {"changed", "created"} => m.snap \in Hosts
         /\ m.kind = "listed" => /\ DOMAIN m.snaps \subseteq Sessions
                                 /\ \A s \in DOMAIN m.snaps : m.snaps[s] \in Hosts
         /\ m.kind = "history" => m.seqs \subseteq Nat
<1>1. CASE m \in EventMsgs
  BY <1>1 DEF EventMsgs
<1>2. CASE m \in SnapMsgs
  BY <1>2 DEF SnapMsgs
<1>3. CASE m \in RemovedMsgs
  BY <1>3 DEF RemovedMsgs
<1>4. CASE m \in ListMsgs
  <2>1. PICK S \in SUBSET Sessions : m \in [kind : {"listed"}, snaps : [S -> Hosts]]
    BY <1>4 DEF ListMsgs
  <2>2. m.kind = "listed" /\ m.snaps \in [S -> Hosts]
    BY <2>1
  <2> QED
    BY <2>2
<1>5. CASE m \in HistoryMsgs
  BY <1>5 DEF HistoryMsgs
<1> QED
  BY <1>1, <1>2, <1>3, <1>4, <1>5 DEF Messages

-----------------------------------------------------------------------------
(* The channel.                                                            *)

LEMMA TakenFacts ==
  ASSUME NEW S, NEW q \in Seq(S), q # <<>>, NEW r, r = Tail(q)
  PROVE  /\ r \in Seq(S) /\ Head(q) \in S /\ q[1] = Head(q) /\ 1 \in DOMAIN q
         /\ \A i \in DOMAIN r : i \in Nat /\ i + 1 \in DOMAIN q /\ r[i] = q[i + 1]
         /\ \A i \in DOMAIN q : i \in Nat /\ (i # 1 => i - 1 \in DOMAIN r /\ r[i - 1] = q[i])
<1>1. /\ Head(q) \in S /\ r \in Seq(S) /\ Len(r) = Len(q) - 1
      /\ \A i \in 1..Len(r) : r[i] = q[i + 1]
  BY HeadTailProperties
<1>2. DOMAIN r = 1..Len(r) /\ DOMAIN q = 1..Len(q) /\ Len(q) \in Nat \ {0} /\ Len(r) \in Nat
  BY <1>1, LenProperties, EmptySeq
<1>3. q[1] = Head(q)
  OBVIOUS
<1>4. ASSUME NEW i \in DOMAIN r PROVE i \in Nat /\ i + 1 \in DOMAIN q /\ r[i] = q[i + 1]
  BY <1>1, <1>2
<1>5. ASSUME NEW i \in DOMAIN q, i # 1 PROVE i \in Nat /\ i - 1 \in DOMAIN r /\ r[i - 1] = q[i]
  <2>1. i - 1 \in 1..Len(r)
    BY <1>1, <1>2, <1>5
  <2>2. r[i - 1] = q[(i - 1) + 1] /\ (i - 1) + 1 = i
    BY <2>1, <1>1, <1>2
  <2> QED
    BY <2>1, <2>2, <1>2
<1> QED
  BY <1>1, <1>2, <1>3, <1>4, <1>5

LEMMA JoinedFacts ==
  ASSUME NEW S, NEW q \in Seq(S), NEW a \in Seq(S), NEW r, r = q \o a
  PROVE  /\ r \in Seq(S) /\ DOMAIN q \subseteq DOMAIN r /\ DOMAIN r \subseteq Nat
         /\ \A i \in DOMAIN q : i \in Nat /\ r[i] = q[i] /\ \A j \in DOMAIN r \ DOMAIN q : i < j
<1>1. /\ r \in Seq(S) /\ Len(r) = Len(q) + Len(a)
      /\ \A i \in 1..(Len(q) + Len(a)) : r[i] = IF i <= Len(q) THEN q[i] ELSE a[i - Len(q)]
  BY ConcatProperties
<1>2. /\ DOMAIN r = 1..Len(r) /\ DOMAIN q = 1..Len(q) /\ DOMAIN a = 1..Len(a)
      /\ Len(q) \in Nat /\ Len(r) \in Nat /\ Len(a) \in Nat
  BY <1>1, LenProperties
<1>3. DOMAIN q \subseteq DOMAIN r /\ DOMAIN r \subseteq Nat
  BY <1>1, <1>2
<1>4. ASSUME NEW i \in DOMAIN q
      PROVE  i \in Nat /\ r[i] = q[i] /\ \A j \in DOMAIN r \ DOMAIN q : i < j
  BY <1>1, <1>2
<1> QED
  BY <1>1, <1>3, <1>4

LEMMA AddedFacts ==
  ASSUME NEW S, NEW q \in Seq(S), NEW a \in Seq(S), NEW r, r = q \o a
  PROVE  /\ \A j \in DOMAIN r \ DOMAIN q : j - Len(q) \in DOMAIN a /\ r[j] = a[j - Len(q)]
         /\ (\A b, c \in DOMAIN a : b = c) => \A i, j \in DOMAIN r \ DOMAIN q : i = j
<1>1. /\ r \in Seq(S) /\ Len(r) = Len(q) + Len(a)
      /\ \A i \in 1..(Len(q) + Len(a)) : r[i] = IF i <= Len(q) THEN q[i] ELSE a[i - Len(q)]
  BY ConcatProperties
<1>2. /\ DOMAIN r = 1..Len(r) /\ DOMAIN q = 1..Len(q) /\ DOMAIN a = 1..Len(a)
      /\ Len(q) \in Nat /\ Len(r) \in Nat /\ Len(a) \in Nat
  BY <1>1, LenProperties
<1>3. ASSUME NEW j \in DOMAIN r \ DOMAIN q
      PROVE  j \in Nat /\ j - Len(q) \in DOMAIN a /\ r[j] = a[j - Len(q)]
  BY <1>1, <1>2
<1>4. ASSUME \A b, c \in DOMAIN a : b = c,
             NEW i \in DOMAIN r \ DOMAIN q, NEW j \in DOMAIN r \ DOMAIN q
      PROVE  i = j
  <2>1. i - Len(q) = j - Len(q) /\ i \in Nat /\ j \in Nat
    BY <1>3, <1>4
  <2> QED
    BY <2>1, <1>2
<1> QED
  BY <1>3, <1>4

LEMMA PlacedFacts ==
  ASSUME NEW S, NEW q \in Seq(S), NEW a \in Seq(S), NEW r, r = q \o a, NEW b \in DOMAIN a
  PROVE  Len(q) + b \in DOMAIN r \ DOMAIN q /\ r[Len(q) + b] = a[b]
<1>1. /\ r \in Seq(S) /\ Len(r) = Len(q) + Len(a)
      /\ \A i \in 1..(Len(q) + Len(a)) : r[i] = IF i <= Len(q) THEN q[i] ELSE a[i - Len(q)]
  BY ConcatProperties
<1>2. /\ DOMAIN r = 1..Len(r) /\ DOMAIN q = 1..Len(q) /\ DOMAIN a = 1..Len(a)
      /\ Len(q) \in Nat /\ Len(r) \in Nat /\ Len(a) \in Nat
  BY <1>1, LenProperties
<1>3. Len(q) + b \in 1..(Len(q) + Len(a)) /\ ~(Len(q) + b <= Len(q)) /\ (Len(q) + b) - Len(q) = b
  BY <1>2
<1> QED
  BY <1>1, <1>2, <1>3


-----------------------------------------------------------------------------
(* What a step leaves alone.                                               *)

(* The messages a session has to do with.                                  *)
Mentions(m, s) == Tells(m, s) \/ Kills(m, s) \/ Is(m, "event", s) \/ Is(m, "history", s)

(* The channel is the same to a session, though all its places moved by d. *)
Shifted(s, d) ==
  /\ \A i \in DOMAIN channel' : Mentions(channel'[i], s) =>
       i + d \in DOMAIN channel /\ channel[i + d] = channel'[i]
  /\ \A i \in DOMAIN channel : Mentions(channel[i], s) =>
       i - d \in DOMAIN channel' /\ channel'[i - d] = channel[i]

SameWindow(s) ==
  /\ views'[s] = views[s] /\ chain'[s] = chain[s] /\ window' = window
  /\ ListCall \in calls' <=> ListCall \in calls
  /\ \A c : Asking(c, s) => (c \in calls' <=> c \in calls)

SameSession(s) ==
  /\ phase'[s] = phase[s] /\ log'[s] = log[s] /\ ring'[s] = ring[s]
  /\ host'[s] = host[s] \/ phase[s] = "removed"
  /\ SameWindow(s)

LEMMA OthersFit ==
  ASSUME NEW s \in Sessions, SessionFits(s), SameSession(s),
         NEW d \in {0, 1}, Shifted(s, d),
         DOMAIN channel \subseteq Nat, DOMAIN channel' \subseteq Nat
  PROVE  SessionFits(s)'
<1>1. /\ \A i \in DOMAIN channel' : Mentions(channel'[i], s) =>
           i + d \in DOMAIN channel /\ channel[i + d] = channel'[i]
      /\ \A i \in DOMAIN channel : Mentions(channel[i], s) =>
           i - d \in DOMAIN channel' /\ channel'[i - d] = channel[i]
  BY DEF Shifted
<1>2. \A m : (Tells(m, s) \/ Kills(m, s) \/ Is(m, "event", s) \/ Is(m, "history", s)
              \/ Is(m, "created", s)) => Mentions(m, s)
  BY DEF Mentions, Tells
<1>3. /\ phase'[s] = phase[s] /\ log'[s] = log[s] /\ ring'[s] = ring[s]
      /\ host'[s] = host[s] \/ phase[s] = "removed"
      /\ views'[s] = views[s] /\ chain'[s] = chain[s] /\ window' = window
      /\ ListCall \in calls' <=> ListCall \in calls
      /\ \A c : Asking(c, s) => (c \in calls' <=> c \in calls)
      /\ s \in Known' <=> s \in Known
  BY DEF SameSession, SameWindow, Known
<1>4. RingFits(s)'
  BY <1>3 DEF SessionFits, RingFits
<1>5. LogFits(s)'
  BY <1>3 DEF SessionFits, LogFits, Runs
<1>6. NotYet(s)'
  BY <1>1, <1>2, <1>3 DEF SessionFits, NotYet
<1>7. Here(s)'
  BY <1>1, <1>2, <1>3 DEF SessionFits, Here
<1>8. Gone(s)'
  BY <1>1, <1>2, <1>3 DEF SessionFits, Gone
<1>9. SnapsFit(s)'
  BY <1>1, <1>2, <1>3 DEF SessionFits, SnapsFit
<1>10. NumbersFit(s)'
  BY <1>1, <1>2, <1>3 DEF SessionFits, NumbersFit
<1>11. WholeFits(s)'
  BY <1>3 DEF SessionFits, WholeFits, IsWhole
<1>12. FetchFits(s)'
  BY <1>1, <1>2, <1>3 DEF SessionFits, FetchFits
<1>13. AnswersFit(s)'
  BY <1>1, <1>2, <1>3 DEF SessionFits, AnswersFit, AnswerOf
<1>14. Delivered(s)'
  BY <1>1, <1>2, <1>3 DEF SessionFits, Delivered, Coming
<1> QED
  BY <1>4, <1>5, <1>6, <1>7, <1>8, <1>9, <1>10, <1>11, <1>12, <1>13, <1>14 DEF SessionFits

-----------------------------------------------------------------------------
(* The main process speaks.                                                *)

(* What is said stays as it was, and grows at its end.                     *)
LEMMA SaidFacts ==
  ASSUME NEW l \in Seq(Entries), NEW e \in Entries, NEW l2, l2 = Append(l, e)
  PROVE  /\ l2 \in Seq(Entries) /\ Len(l) \in Nat /\ Len(l2) = Len(l) + 1 /\ l2 # <<>>
         /\ l2[Len(l2)] = e /\ \A n \in 1..Len(l) : l2[n] = l[n]
         /\ DOMAIN l = 1..Len(l) /\ DOMAIN l2 = 1..Len(l2)
         /\ IsFiniteSet(Words(l)) /\ IsFiniteSet(Words(l2)) /\ Words(l) \subseteq Words(l2)
         /\ Words(l2) \subseteq Words(l) \cup {Len(l2)}
         /\ Cardinality(Words(l)) <= Cardinality(Words(l2))
         /\ Cardinality(Words(l)) \in Nat /\ Cardinality(Words(l2)) \in Nat
<1>1. /\ l2 \in Seq(Entries) /\ Len(l) \in Nat /\ Len(l2) = Len(l) + 1 /\ l2 # <<>>
      /\ l2[Len(l2)] = e /\ \A n \in 1..Len(l) : l2[n] = l[n]
  OBVIOUS
<1>2. DOMAIN l = 1..Len(l) /\ DOMAIN l2 = 1..Len(l2)
  BY <1>1, LenProperties
<1>3. Words(l) \subseteq Words(l2) /\ Words(l2) \subseteq Words(l) \cup {Len(l2)}
  BY <1>1, <1>2 DEF Words
<1>4. IsFiniteSet(1..Len(l2))
  BY <1>1, FS_Interval
<1>5. Words(l2) \in SUBSET (1..Len(l2))
  BY <1>2 DEF Words
<1>6. IsFiniteSet(Words(l2))
  BY <1>4, <1>5, FS_Subset
<1>7. IsFiniteSet(Words(l)) /\ Cardinality(Words(l)) <= Cardinality(Words(l2))
  BY <1>6, <1>3, FS_Subset
<1> QED
  BY <1>1, <1>2, <1>3, <1>6, <1>7, FS_CardinalityType

LEMMA EvictedFacts ==
  ASSUME NEW l \in Seq(Entries), NEW e \in Entries, NEW l2, l2 = Append(l, e),
         NEW R, R \subseteq 1..Len(l), Cardinality(R) <= RingCap,
         Cardinality(Words(l)) <= RingCap => Words(l) \subseteq R,
         NEW R2, R2 = Evicted(R \cup {Len(l) + 1}, l2)
  PROVE  /\ R2 \subseteq R \cup {Len(l2)} /\ R2 \subseteq 1..Len(l2)
         /\ Cardinality(R2) <= RingCap
         /\ Len(l2) \in Words(l2) => Len(l2) \in R2
         /\ Cardinality(Words(l2)) <= RingCap => Words(l2) \subseteq R2
<1> DEFINE n == Len(l) + 1
           K == R \cup {n}
           T == {q \in K : l2[q].kind = "thinking"}
<1>1. /\ Len(l) \in Nat /\ Len(l2) = n /\ DOMAIN l2 = 1..n
      /\ Words(l) \subseteq Words(l2) /\ Words(l2) \subseteq Words(l) \cup {n}
      /\ Cardinality(Words(l)) <= Cardinality(Words(l2)) /\ IsFiniteSet(Words(l2))
      /\ Cardinality(Words(l)) \in Nat /\ Cardinality(Words(l2)) \in Nat
  BY SaidFacts
<1>2. RingCap \in Nat \ {0}
  BY StreamAssumption
<1>3. n \notin R /\ n \in Nat /\ K \subseteq 1..n /\ K \subseteq Nat /\ K # {}
  <2>1. n \in Nat /\ n \notin R
    BY <1>1
  <2>2. K \subseteq 1..n
    <3>1. \A x \in R : x \in 1..n
      BY <1>1
    <3>2. n \in 1..n
      BY <1>1
    <3> QED
      BY <3>1, <3>2
  <2>3. K \subseteq Nat
    BY <2>1, <2>2
  <2> QED
    BY <2>1, <2>2, <2>3
<1>4. IsFiniteSet(R) /\ IsFiniteSet(K) /\ Cardinality(K) = Cardinality(R) + 1
      /\ Cardinality(R) \in Nat /\ Cardinality(K) \in Nat
  <2>1. IsFiniteSet(1..Len(l)) /\ R \in SUBSET (1..Len(l))
    BY <1>1, FS_Interval
  <2>2. IsFiniteSet(R)
    BY <2>1, FS_Subset
  <2> QED
    BY <2>2, <1>3, FS_AddElement, FS_CardinalityType
<1>5. R2 = IF Cardinality(K) <= RingCap THEN K ELSE K \ {Min(IF T # {} THEN T ELSE K)}
  BY DEF Evicted
<1>6. Cardinality(Words(l2)) <= RingCap => Words(l) \subseteq R
  BY <1>1, <1>2
<1> HIDE DEF K, T, n
<1>7. /\ K \subseteq R \cup {Len(l2)} /\ K \subseteq 1..Len(l2) /\ Len(l2) = n /\ n \in K
      /\ Cardinality(Words(l2)) <= RingCap => Words(l2) \subseteq K
  BY <1>1, <1>3, <1>6 DEF K
<1>8. CASE Cardinality(K) <= RingCap
  <2>1. R2 = K
    BY <1>8, <1>5
  <2> QED
    BY <2>1, <1>8, <1>7
<1>9. CASE ~(Cardinality(K) <= RingCap)
  <2> DEFINE x == Min(IF T # {} THEN T ELSE K)
  <2>1. R2 = K \ {x}
    BY <1>9, <1>5
  <2>2. CASE T # {}
    <3>1. x \in T
      BY <2>2, <1>3, MinFacts DEF T
    <3> HIDE DEF x
    <3>2. x \in K /\ l2[x].kind = "thinking"
      BY <3>1 DEF T
    <3>3. Cardinality(R2) = Cardinality(K) - 1
      BY <2>1, <3>2, <1>4, FS_RemoveElement
    <3>4. x \notin Words(l2)
      BY <3>2 DEF Words
    <3>5. Cardinality(R2) <= RingCap
      BY <3>3, <1>2, <1>4
    <3>6. R2 \subseteq K /\ \A i \in K : i \in Words(l2) => i \in R2
      BY <2>1, <3>4
    <3> QED
      BY <3>5, <3>6, <1>7
  <2>3. CASE T = {}
    <3>1. x = Min(K)
      BY <2>3
    <3>2. x \in K /\ \A q \in K : x <= q
      BY <3>1, <1>3, MinFacts
    <3> HIDE DEF x
    <3>3. Cardinality(R2) = Cardinality(K) - 1
      BY <2>1, <3>2, <1>4, FS_RemoveElement
    <3>4. K \in SUBSET Words(l2)
      BY <2>3, <1>1, <1>3 DEF T, Words
    <3>5. Cardinality(K) <= Cardinality(Words(l2))
      BY <3>4, <1>1, FS_Subset
    <3>6. ~(Cardinality(Words(l2)) <= RingCap)
      BY <3>5, <1>9, <1>1, <1>2, <1>4
    <3>7. x # n
      <4> SUFFICES ASSUME x = n PROVE FALSE
        OBVIOUS
      <4>1. R = {}
        BY <3>2, <1>1, <1>3 DEF K, n
      <4>2. Cardinality(R) = 0
        BY <4>1, FS_EmptySet
      <4> QED
        BY <4>2, <1>2, <1>4, <1>9
    <3>8. Cardinality(R2) <= RingCap
      BY <3>3, <1>2, <1>4
    <3>9. R2 \subseteq K /\ n \in R2
      BY <2>1, <3>7 DEF K
    <3> QED
      BY <3>6, <3>8, <3>9, <1>7
  <2> QED
    BY <2>2, <2>3
<1> QED
  BY <1>8, <1>9

(* A live session says something, or tells how it is.                      *)
LEMMA SpeakKeeps ==
  ASSUME StreamTypes, Shut, NEW s \in Sessions, SessionFits(s),
         phase[s] = "live", phase'[s] = "live", SameWindow(s),
         NEW msgs \in Seq(Messages), channel' = Sent(msgs),
         \A b \in DOMAIN msgs :
           \/ /\ msgs[b].kind = "event" /\ msgs[b].of = s /\ msgs[b].seq = Len(log'[s])
              /\ log'[s] # <<>>
           \/ msgs[b].kind = "changed" /\ msgs[b].of = s /\ msgs[b].snap = host'[s],
         host'[s] = host[s] \/ \E b \in DOMAIN msgs : msgs[b].kind = "changed",
         \/ log'[s] = log[s] /\ ring'[s] = ring[s]
         \/ /\ \E e \in Entries : log'[s] = Append(log[s], e)
            /\ ring'[s] \subseteq ring[s] \cup {Len(log'[s])}
            /\ log[s] = <<>> => s \in Known
            /\ \E b \in DOMAIN msgs : msgs[b].kind = "event",
         RingFits(s)', LogFits(s)'
  PROVE  SessionFits(s)'
<1>1. /\ views'[s] = views[s] /\ chain'[s] = chain[s] /\ window' = window
      /\ ListCall \in calls' <=> ListCall \in calls
      /\ \A c : Asking(c, s) => (c \in calls' <=> c \in calls)
      /\ s \in Known' <=> s \in Known
  BY DEF SameWindow, Known
<1>2. /\ channel \in Seq(Messages) /\ log[s] \in Seq(Entries)
      /\ views[s] # NoView => views[s] \in ViewRecs
      /\ window \in BOOLEAN
  BY DEF StreamTypes
<1>3. s \in Known => window
  BY DEF Shut, Known
<1>4. /\ DOMAIN channel \subseteq DOMAIN channel' /\ DOMAIN channel' \subseteq Nat
      /\ \A i \in DOMAIN channel : /\ channel'[i] = channel[i] /\ i \in Nat
                                   /\ \A j \in DOMAIN channel' \ DOMAIN channel : i < j
      /\ \A j \in DOMAIN channel' \ DOMAIN channel : \E b \in DOMAIN msgs : channel'[j] = msgs[b]
      /\ window => \A b \in DOMAIN msgs :
                     \E j \in DOMAIN channel' \ DOMAIN channel : channel'[j] = msgs[b]
  <2>1. CASE window
    <3>1. channel' = channel \o msgs /\ channel \in Seq(Messages)
      BY <2>1, <1>2 DEF Sent
    <3>2. /\ DOMAIN channel \subseteq DOMAIN channel' /\ DOMAIN channel' \subseteq Nat
          /\ \A i \in DOMAIN channel : /\ i \in Nat /\ channel'[i] = channel[i]
                                       /\ \A j \in DOMAIN channel' \ DOMAIN channel : i < j
      BY <3>1, JoinedFacts
    <3>3. \A j \in DOMAIN channel' \ DOMAIN channel :
            j - Len(channel) \in DOMAIN msgs /\ channel'[j] = msgs[j - Len(channel)]
      BY <3>1, AddedFacts
    <3>4. ASSUME NEW b \in DOMAIN msgs
          PROVE  \E j \in DOMAIN channel' \ DOMAIN channel : channel'[j] = msgs[b]
      <4>1. Len(channel) + b \in DOMAIN channel' \ DOMAIN channel
            /\ channel'[Len(channel) + b] = msgs[b]
        BY <3>1, PlacedFacts
      <4> QED
        BY <4>1
    <3> QED
      BY <3>2, <3>3, <3>4
  <2>2. CASE ~window
    <3>1. channel' = channel /\ channel = <<>>
      BY <2>2 DEF Sent, Shut
    <3> QED
      BY <3>1, <2>2, <1>2, LenProperties
  <2> QED
    BY <2>1, <2>2
<1>5. \A j \in DOMAIN channel' \ DOMAIN channel :
        /\ ~Kills(channel'[j], s) /\ ~Is(channel'[j], "history", s)
        /\ ~Is(channel'[j], "created", s)
        /\ Is(channel'[j], "event", s) => channel'[j].seq = Len(log'[s]) /\ log'[s] # <<>>
        /\ Tells(channel'[j], s) => SnapOf(channel'[j], s) = host'[s]
  BY <1>4, KindFacts
<1>6. (window /\ \E b \in DOMAIN msgs : msgs[b].kind = "changed") =>
         \E j \in DOMAIN channel' \ DOMAIN channel : Tells(channel'[j], s)
  BY <1>4, KindFacts
<1>7. /\ Len(log[s]) \in Nat /\ Len(log'[s]) \in Nat /\ Len(log[s]) <= Len(log'[s])
      /\ \A n \in 1..Len(log[s]) : log'[s][n] = log[s][n]
      /\ Cardinality(Words(log'[s])) <= RingCap => Cardinality(Words(log[s])) <= RingCap
      /\ log[s] = <<>> => log'[s] = <<>> \/ s \in Known
      /\ log'[s] # <<>> => Len(log'[s]) \in 1..Len(log'[s])
      /\ \A n \in ring'[s] :
           \/ n \in ring[s]
           \/ n = Len(log'[s]) /\ Len(log'[s]) = Len(log[s]) + 1
              /\ (window => \E j \in DOMAIN channel' \ DOMAIN channel :
                             Is(channel'[j], "event", s) /\ channel'[j].seq = n)
  <2>1. CASE log'[s] = log[s] /\ ring'[s] = ring[s]
    BY <2>1, <1>2, LenProperties, EmptySeq
  <2>2. CASE /\ \E e \in Entries : log'[s] = Append(log[s], e)
             /\ ring'[s] \subseteq ring[s] \cup {Len(log'[s])}
             /\ log[s] = <<>> => s \in Known
             /\ \E b \in DOMAIN msgs : msgs[b].kind = "event"
    <3>1. PICK e \in Entries : log'[s] = Append(log[s], e)
      BY <2>2
    <3>2. /\ Len(log[s]) \in Nat /\ Len(log'[s]) = Len(log[s]) + 1
          /\ \A n \in 1..Len(log[s]) : log'[s][n] = log[s][n]
          /\ Cardinality(Words(log[s])) <= Cardinality(Words(log'[s]))
          /\ Cardinality(Words(log[s])) \in Nat /\ Cardinality(Words(log'[s])) \in Nat
      <4>1. log[s] \in Seq(Entries)
        BY <1>2
      <4>2. /\ Len(log[s]) \in Nat /\ Len(log'[s]) = Len(log[s]) + 1
            /\ \A n \in 1..Len(log[s]) : log'[s][n] = log[s][n]
        BY <4>1, <3>1, SaidFacts
      <4>3. /\ Cardinality(Words(log[s])) <= Cardinality(Words(log'[s]))
            /\ Cardinality(Words(log[s])) \in Nat /\ Cardinality(Words(log'[s])) \in Nat
        BY <4>1, <3>1, SaidFacts
      <4> QED
        BY <4>2, <4>3
    <3>3. RingCap \in Nat
      BY StreamAssumption
    <3>4. window => \E j \in DOMAIN channel' \ DOMAIN channel :
                      Is(channel'[j], "event", s) /\ channel'[j].seq = Len(log'[s])
      <4>1. PICK b \in DOMAIN msgs : msgs[b].kind = "event"
        BY <2>2
      <4>2. msgs[b].of = s /\ msgs[b].seq = Len(log'[s])
        BY <4>1
      <4>3. Is(msgs[b], "event", s)
        BY <4>1, <4>2, KindFacts
      <4> QED
        BY <4>2, <4>3, <1>4
    <3>5. Cardinality(Words(log'[s])) <= RingCap => Cardinality(Words(log[s])) <= RingCap
      BY <3>2, <3>3
    <3>6. log[s] = <<>> => log'[s] = <<>> \/ s \in Known
      BY <2>2
    <3>7. ASSUME NEW n \in ring'[s], n \notin ring[s]
          PROVE  /\ n = Len(log'[s]) /\ Len(log'[s]) = Len(log[s]) + 1
                 /\ window => \E j \in DOMAIN channel' \ DOMAIN channel :
                                Is(channel'[j], "event", s) /\ channel'[j].seq = n
      <4>1. n = Len(log'[s])
        BY <2>2, <3>7
      <4> QED
        BY <4>1, <3>2, <3>4
    <3>8. Len(log'[s]) \in 1..Len(log'[s]) /\ Len(log[s]) <= Len(log'[s]) /\ Len(log'[s]) \in Nat
      BY <3>2
    <3> QED
      BY <3>2, <3>5, <3>6, <3>7, <3>8
  <2> QED
    BY <2>1, <2>2
<1>8. s \in Known => /\ LastSeq(views[s]) \in 0..Len(log[s])
                     /\ views[s].applied \subseteq 1..Len(log[s])
  BY <1>7, LastFacts DEF SessionFits, NumbersFit
<1>9. /\ NotYet(s)' /\ Gone(s)'
  BY DEF NotYet, Gone
<1>10. Here(s)'
  <2>1. \A j \in DOMAIN channel' : Kills(channel'[j], s) =>
          s \notin Known /\ \A i \in DOMAIN channel' : Tells(channel'[i], s) => j < i
    BY <1>4, <1>5 DEF SessionFits, Here
  <2>2. s \notin Known => chain[s] = <<>>
    BY DEF SessionFits, Here
  <2>3. window /\ log'[s] # <<>> /\ ListCall \notin calls =>
          s \in Known \/ \E i \in DOMAIN channel' : Tells(channel'[i], s)
    BY <1>4, <1>7 DEF SessionFits, Here
  <2>4. \A i \in DOMAIN channel' : Is(channel'[i], "created", s) =>
          /\ s \notin Known /\ log'[s] = <<>>
          /\ \A j \in DOMAIN channel' : Tells(channel'[j], s) => i <= j
    BY <1>4, <1>5, <1>7 DEF SessionFits, Here
  <2> QED
    BY <1>1, <2>1, <2>2, <2>3, <2>4 DEF Here
<1>11. SnapsFit(s)'
  <2>1. ASSUME NEW i \in DOMAIN channel', Tells(channel'[i], s),
               \A j \in DOMAIN channel' : Tells(channel'[j], s) => j <= i
        PROVE  SnapOf(channel'[i], s) = host'[s]
    <3>1. CASE i \notin DOMAIN channel
      BY <3>1, <1>5, <2>1
    <3>2. CASE i \in DOMAIN channel
      <4>1. \A j \in DOMAIN channel' \ DOMAIN channel : ~Tells(channel'[j], s)
        BY <2>1, <3>2, <1>4
      <4>2. window
        BY <3>2, <1>2 DEF Shut
      <4>3. host'[s] = host[s]
        BY <4>1, <4>2, <1>6
      <4> QED
        BY <2>1, <3>2, <4>3, <1>4 DEF SessionFits, SnapsFit
    <3> QED
      BY <3>1, <3>2
  <2>2. (s \in Known /\ \A i \in DOMAIN channel' : ~Tells(channel'[i], s)) =>
          views[s].snap = host'[s]
    BY <1>3, <1>4, <1>6 DEF SessionFits, SnapsFit
  <2> QED
    BY <1>1, <2>1, <2>2 DEF SnapsFit
<1>12. NumbersFit(s)'
  <2>1. \A i \in DOMAIN channel' : Is(channel'[i], "event", s) =>
          channel'[i].seq \in 1..Len(log'[s])
    <3>1. ASSUME NEW i \in DOMAIN channel, Is(channel[i], "event", s)
          PROVE  channel'[i].seq \in 1..Len(log'[s])
      BY <3>1, <1>4, <1>7 DEF SessionFits, NumbersFit
    <3> QED
      BY <3>1, <1>4, <1>5, <1>7
  <2>2. ASSUME NEW j \in DOMAIN chain[s] PROVE chain[s][j].pending <= Len(log'[s])
    <3>1. chain[s][j] \in Links
      <4>1. chain[s] \in Seq(Links)
        BY DEF StreamTypes
      <4> QED
        BY <4>1, ElementOfSeq, LenProperties
    <3>2. chain[s][j].pending \in Nat /\ chain[s][j].pending <= Len(log[s])
      BY <3>1 DEF Links, SessionFits, NumbersFit
    <3> QED
      BY <3>2, <1>7
  <2> QED
    BY <1>1, <1>7, <1>8, <2>1, <2>2 DEF NumbersFit
<1>13. WholeFits(s)'
  BY <1>1, <1>7, <1>8 DEF SessionFits, WholeFits, IsWhole
<1>14. FetchFits(s)'
  BY <1>1, <1>4, <1>5 DEF SessionFits, FetchFits
<1>15. AnswersFit(s)'
  <2>1. ASSUME NEW i \in DOMAIN channel', Is(channel'[i], "history", s)
        PROVE  i \in DOMAIN channel /\ channel'[i] = channel[i]
    BY <2>1, <1>4, <1>5
  <2>2. ASSUME NEW i \in DOMAIN channel, Is(channel[i], "history", s), s \in Known
        PROVE  \E k \in 0..Len(log'[s]) : AnswerOf(channel[i], s, k)'
    <3>1. PICK k \in 0..Len(log[s]) : AnswerOf(channel[i], s, k)
      BY <2>2 DEF SessionFits, AnswersFit
    <3>2. k \in 0..Len(log'[s])
      BY <1>7
    <3> QED
      BY <3>1, <3>2, <1>1, <1>4, <1>7 DEF AnswerOf
  <2> QED
    BY <2>1, <2>2, <1>1 DEF SessionFits, AnswersFit
<1>16. Delivered(s)'
  <2> SUFFICES ASSUME s \in Known, NEW n \in ring'[s]
               PROVE  n <= LastSeq(views[s]) \/ Coming(s, n)'
    BY <1>1 DEF Delivered
  <2>1. CASE n \in ring[s]
    BY <2>1, <1>1, <1>4 DEF SessionFits, Delivered, Coming
  <2>2. CASE n \notin ring[s]
    <3>1. n = Len(log'[s]) /\ n <= n
      BY <2>2, <1>7
    <3>2. PICK j \in DOMAIN channel' \ DOMAIN channel :
                 Is(channel'[j], "event", s) /\ channel'[j].seq = n
      BY <2>2, <1>3, <1>7
    <3> QED
      BY <3>1, <3>2 DEF Coming
  <2> QED
    BY <2>1, <2>2
<1> QED
  BY <1>9, <1>10, <1>11, <1>12, <1>13, <1>14, <1>15, <1>16 DEF SessionFits

LEMMA MessageTypes ==
  ASSUME NEW s \in Sessions
  PROVE  /\ \A n \in Nat : [kind |-> "event", of |-> s, seq |-> n] \in Messages
         /\ \A h \in Hosts : /\ [kind |-> "changed", of |-> s, snap |-> h] \in Messages
                             /\ [kind |-> "created", of |-> s, snap |-> h] \in Messages
         /\ [kind |-> "removed", of |-> s] \in Messages
<1>1. \A n \in Nat : [kind |-> "event", of |-> s, seq |-> n] \in EventMsgs
  BY DEF EventMsgs
<1>2. \A h \in Hosts : /\ [kind |-> "changed", of |-> s, snap |-> h] \in SnapMsgs
                       /\ [kind |-> "created", of |-> s, snap |-> h] \in SnapMsgs
  BY DEF SnapMsgs
<1>3. [kind |-> "removed", of |-> s] \in RemovedMsgs
  BY DEF RemovedMsgs
<1> QED
  BY <1>1, <1>2, <1>3 DEF Messages

LEMMA SentTypes ==
  ASSUME StreamTypes, NEW msgs \in Seq(Messages), channel' = Sent(msgs)
  PROVE  channel' \in Seq(Messages) /\ DOMAIN channel \subseteq Nat /\ DOMAIN channel' \subseteq Nat
<1>1. channel \in Seq(Messages)
  BY DEF StreamTypes
<1>2. channel' = channel \/ channel' = channel \o msgs
  BY DEF Sent
<1>3. channel \o msgs \in Seq(Messages)
  BY <1>1, ConcatProperties
<1>4. channel' \in Seq(Messages)
  BY <1>1, <1>2, <1>3
<1> QED
  BY <1>1, <1>4, LenProperties

(* What is said of one session does not concern another.                   *)
LEMMA SentShifts ==
  ASSUME StreamTypes, NEW t \in Sessions, NEW msgs \in Seq(Messages), channel' = Sent(msgs),
         \A b \in DOMAIN msgs : ~Mentions(msgs[b], t)
  PROVE  Shifted(t, 0)
<1>1. channel \in Seq(Messages)
  BY DEF StreamTypes
<1>2. CASE channel' = channel
  <2>1. DOMAIN channel \subseteq Nat
    BY <1>1, LenProperties
  <2> QED
    BY <1>2, <2>1 DEF Shifted
<1>3. CASE channel' = channel \o msgs
  <2>1. /\ DOMAIN channel \subseteq DOMAIN channel' /\ DOMAIN channel' \subseteq Nat
        /\ \A i \in DOMAIN channel : i \in Nat /\ channel'[i] = channel[i]
    BY <1>1, <1>3, JoinedFacts
  <2>2. \A j \in DOMAIN channel' \ DOMAIN channel :
          j - Len(channel) \in DOMAIN msgs /\ channel'[j] = msgs[j - Len(channel)]
    BY <1>1, <1>3, AddedFacts
  <2>3. \A j \in DOMAIN channel' \ DOMAIN channel : ~Mentions(channel'[j], t)
    BY <2>2
  <2> QED
    BY <2>1, <2>3 DEF Shifted
<1> QED
  BY <1>2, <1>3 DEF Sent

LEMMA MutedFacts ==
  ASSUME NEW m, NEW t, m.kind # "listed", m.of # t
  PROVE  ~Mentions(m, t)
BY DEF Mentions, Tells, Kills, Lists, Drops, Is

(* The other sessions, when a step changes one and sends word of it.       *)
LEMMA SentOthers ==
  ASSUME StreamInv, NEW s \in Sessions, NEW msgs \in Seq(Messages), channel' = Sent(msgs),
         \A b \in DOMAIN msgs : msgs[b].kind # "listed" /\ msgs[b].of = s,
         \A t \in Sessions \ {s} : SameSession(t)
  PROVE  \A t \in Sessions \ {s} : SessionFits(t)'
<1>1. DOMAIN channel \subseteq Nat /\ DOMAIN channel' \subseteq Nat
  BY SentTypes DEF StreamInv
<1> SUFFICES ASSUME NEW t \in Sessions \ {s} PROVE SessionFits(t)'
  OBVIOUS
<1>2. \A b \in DOMAIN msgs : ~Mentions(msgs[b], t)
  BY MutedFacts
<1>3. Shifted(t, 0)
  BY <1>2, SentShifts DEF StreamInv
<1>4. SessionFits(t) /\ SameSession(t)
  BY DEF StreamInv
<1> QED
  BY <1>1, <1>3, <1>4, OthersFit

LEMMA EmitKeeps ==
  ASSUME StreamInv, NEW s \in Sessions, NEW e \in Entries, NEW h \in Hosts, NEW told \in BOOLEAN,
         Emit(s, e, h, told), phase[s] \in {"live", "removed"},
         open' \in [Sessions -> SUBSET CallIds], last' \in [Sessions -> {"none", "done", "error"}],
         phase[s] = "live" => /\ told \/ h = host[s]
                              /\ h.status = "running" \/ e.kind = "turn_end"
                              /\ log[s] = <<>> => s \in Known
  PROVE  StreamInv'
<1>1. StreamTypes /\ Shut /\ SessionFits(s)
  BY DEF StreamInv
<1>2. /\ host' = [host EXCEPT ![s] = h]
      /\ phase' = phase /\ calls' = calls /\ views' = views /\ chain' = chain
      /\ windows' = windows /\ window' = window
  BY DEF Emit, renderer
<1>3. /\ host \in [Sessions -> Hosts] /\ log \in [Sessions -> Seq(Entries)]
      /\ ring \in [Sessions -> SUBSET Nat] /\ channel \in Seq(Messages)
  BY <1>1 DEF StreamTypes
<1>4. host' \in [Sessions -> Hosts] /\ host'[s] = h /\ \A t \in Sessions \ {s} : host'[t] = host[t]
  BY <1>2, <1>3
<1>5. \A t \in Sessions : SameWindow(t)
  BY <1>2 DEF SameWindow
<1>6. CASE phase[s] = "removed"
  <2>1. channel' = Sent(<<>>) /\ log' = log /\ ring' = ring
    BY <1>6 DEF Emit, Told
  <2>2. <<>> \in Seq(Messages) /\ DOMAIN <<>> = {}
    BY EmptySeq
  <2>3. channel' \in Seq(Messages) /\ DOMAIN channel \subseteq Nat /\ DOMAIN channel' \subseteq Nat
    BY <2>1, <2>2, <1>1, SentTypes
  <2>4. ASSUME NEW t \in Sessions PROVE SessionFits(t)'
    <3>1. Shifted(t, 0)
      BY <2>1, <2>2, <1>1, SentShifts
    <3>2. SameSession(t) /\ SessionFits(t)
      BY <1>2, <1>4, <1>5, <1>6, <2>1 DEF SameSession, StreamInv
    <3> QED
      BY <3>1, <3>2, <2>3, OthersFit
  <2>5. StreamTypes'
    BY <1>1, <1>2, <1>4, <2>1, <2>3 DEF StreamTypes
  <2>6. Shut'
    BY <1>1, <1>2, <2>1, <2>2, <1>3, ConcatEmptySeq DEF Shut, Sent
  <2> QED
    BY <2>4, <2>5, <2>6 DEF StreamInv
<1>7. CASE phase[s] = "live"
  <2> DEFINE n == Len(log[s]) + 1
             event == [kind |-> "event", of |-> s, seq |-> n]
             change == [kind |-> "changed", of |-> s, snap |-> h]
             msgs == IF told THEN <<event, change>> ELSE <<event>>
  <2>1. /\ log' = [log EXCEPT ![s] = Append(log[s], e)]
        /\ ring' = [ring EXCEPT ![s] = Evicted(ring[s] \cup {n}, log'[s])]
        /\ channel' = Sent(<<event>> \o IF told THEN Told(s, h) ELSE <<>>)
    BY <1>7 DEF Emit
  <2>2. n \in Nat /\ event \in Messages /\ change \in Messages
    <3>1. n \in Nat
      BY <1>3, LenProperties
    <3> HIDE DEF n
    <3> QED
      BY <3>1, MessageTypes
  <2>3. /\ event.kind = "event" /\ event.of = s /\ event.seq = n
        /\ change.kind = "changed" /\ change.of = s /\ change.snap = h
    OBVIOUS
  <2>4. Told(s, h) = <<change>>
    BY <1>7 DEF Told
  <2> HIDE DEF event, change
  <2>5. <<event>> \o (IF told THEN Told(s, h) ELSE <<>>) = msgs
    <3>1. CASE told
      <4>1. <<event>> \o <<change>> = <<event, change>>
        <5>1. <<event>> \in Seq(Messages) /\ <<event, change>> = Append(<<event>>, change)
          BY <2>2
        <5>2. Append(<<event>>, change) = <<event>> \o <<change>>
          BY <5>1, <2>2, AppendIsConcat
        <5> QED
          BY <5>1, <5>2
      <4> QED
        BY <4>1, <3>1, <2>4
    <3>2. CASE ~told
      <4>1. <<event>> \in Seq(Messages)
        BY <2>2
      <4>2. <<event>> \o <<>> = <<event>>
        BY <4>1, ConcatEmptySeq
      <4> QED
        BY <4>2, <3>2
    <3> QED
      BY <3>1, <3>2
  <2>6. /\ msgs \in Seq(Messages)
        /\ \A b \in DOMAIN msgs : msgs[b] = event \/ (told /\ msgs[b] = change)
        /\ \E b \in DOMAIN msgs : msgs[b] = event
        /\ told => \E b \in DOMAIN msgs : msgs[b] = change
    <3>1. CASE told
      <4>1. msgs = <<event, change>> /\ <<event, change>> \in Seq(Messages)
        BY <3>1, <2>2
      <4>2. DOMAIN msgs = 1..2 /\ msgs[1] = event /\ msgs[2] = change
        BY <4>1
      <4> QED
        BY <4>1, <4>2, <3>1
    <3>2. CASE ~told
      <4>1. msgs = <<event>> /\ <<event>> \in Seq(Messages)
        BY <3>2, <2>2
      <4>2. DOMAIN msgs = 1..1 /\ msgs[1] = event
        BY <4>1
      <4> QED
        BY <4>1, <4>2, <3>2
    <3> QED
      BY <3>1, <3>2
  <2>7. channel' = Sent(msgs)
    BY <2>1, <2>5
  <2> HIDE DEF msgs, n
  <2>8. /\ log' \in [Sessions -> Seq(Entries)] /\ log'[s] = Append(log[s], e)
        /\ \A t \in Sessions \ {s} : log'[t] = log[t]
    BY <2>1, <1>3
  <2>9. log[s] \in Seq(Entries) /\ RingFits(s) /\ LogFits(s)
    BY <1>1, <1>3 DEF SessionFits
  <2>10. /\ Len(log'[s]) = n /\ log'[s] # <<>> /\ log'[s][Len(log'[s])] = e
         /\ Len(log[s]) \in Nat
    <3>1. log[s] \in Seq(Entries) /\ log'[s] = Append(log[s], e)
      BY <2>8, <2>9
    <3>2. /\ Len(log'[s]) = Len(log[s]) + 1 /\ log'[s] # <<>> /\ log'[s][Len(log'[s])] = e
          /\ Len(log[s]) \in Nat
      BY <3>1, SaidFacts
    <3> QED
      BY <3>2 DEF n
  <2>11. ring'[s] = Evicted(ring[s] \cup {Len(log[s]) + 1}, log'[s])
         /\ \A t \in Sessions \ {s} : ring'[t] = ring[t]
    BY <2>1, <1>3 DEF n
  <2>12. /\ ring'[s] \subseteq ring[s] \cup {Len(log'[s])} /\ ring'[s] \subseteq 1..Len(log'[s])
         /\ Cardinality(ring'[s]) <= RingCap
         /\ Len(log'[s]) \in Words(log'[s]) => Len(log'[s]) \in ring'[s]
         /\ Cardinality(Words(log'[s])) <= RingCap => Words(log'[s]) \subseteq ring'[s]
    BY <2>8, <2>9, <2>11, EvictedFacts DEF RingFits
  <2>13. RingFits(s)'
    BY <2>12 DEF RingFits
  <2>14. LogFits(s)'
    BY <1>2, <1>4, <1>7, <2>10 DEF LogFits, Runs
  <2>15. SessionFits(s)'
    <3>1. \A b \in DOMAIN msgs :
            \/ /\ msgs[b].kind = "event" /\ msgs[b].of = s /\ msgs[b].seq = Len(log'[s])
               /\ log'[s] # <<>>
            \/ msgs[b].kind = "changed" /\ msgs[b].of = s /\ msgs[b].snap = host'[s]
      BY <2>3, <2>6, <2>10, <1>4
    <3>2. host'[s] = host[s] \/ \E b \in DOMAIN msgs : msgs[b].kind = "changed"
      BY <2>3, <2>6, <1>4, <1>7
    <3>3. /\ \E d \in Entries : log'[s] = Append(log[s], d)
          /\ ring'[s] \subseteq ring[s] \cup {Len(log'[s])}
          /\ log[s] = <<>> => s \in Known
          /\ \E b \in DOMAIN msgs : msgs[b].kind = "event"
      BY <2>3, <2>6, <2>8, <2>12, <1>7
    <3>4. phase'[s] = "live" /\ SameWindow(s)
      BY <1>2, <1>5, <1>7
    <3> QED
      BY <3>1, <3>2, <3>3, <3>4, <1>1, <1>7, <2>6, <2>7, <2>13, <2>14, SpeakKeeps
  <2>16. \A t \in Sessions \ {s} : SessionFits(t)'
    <3>1. \A b \in DOMAIN msgs : msgs[b].kind # "listed" /\ msgs[b].of = s
      BY <2>3, <2>6
    <3>2. \A t \in Sessions \ {s} : SameSession(t)
      BY <1>2, <1>4, <1>5, <2>8, <2>11 DEF SameSession
    <3> QED
      BY <3>1, <3>2, <2>6, <2>7, SentOthers
  <2>17. StreamTypes'
    <3>1. channel' \in Seq(Messages)
      BY <2>6, <2>7, <1>1, SentTypes
    <3>2. ring'[s] \subseteq Nat
      BY <2>12, <2>10
    <3>3. ring' \in [Sessions -> SUBSET Nat]
      BY <3>2, <2>1, <1>3
    <3> QED
      BY <1>1, <1>2, <1>4, <2>8, <3>1, <3>3 DEF StreamTypes
  <2>18. Shut'
    BY <1>1, <1>2, <2>7 DEF Shut, Sent
  <2> QED
    BY <2>15, <2>16, <2>17, <2>18 DEF StreamInv
<1> QED
  BY <1>6, <1>7

LEMMA EntryTypes ==
  ASSUME NEW nth \in Nat
  PROVE  /\ Event("turn_start", nth, "task") \in Entries
         /\ Event("thinking", nth, "text") \in Entries
         /\ \A c \in CallIds : /\ Event("tool_call", nth, c) \in Entries
                               /\ Event("tool_result", nth, c) \in Entries
         /\ \A kind \in {"done", "error"} : Event(kind, nth, "digest") \in Entries
         /\ \A o \in {"aborted", "error", "completed"} :
              /\ Event("turn_end", nth, o) \in Entries
              /\ Event("turn_end", nth, o).kind = "turn_end"
BY DEF Event, Entries

(* Who is there, and runs, has said something.                             *)
LEMMA RunsFacts ==
  ASSUME StreamInv, NEW s \in Sessions, Runs(s)
  PROVE  /\ phase[s] \in {"live", "removed"}
         /\ phase[s] = "live" => log[s] # <<>>
BY DEF StreamInv, StreamTypes, SessionFits, LogFits

LEMMA HostFacts ==
  ASSUME StreamTypes, NEW s \in Sessions
  PROVE  /\ host[s] \in Hosts /\ host[s].turns \in Nat /\ open[s] \subseteq CallIds
         /\ last[s] \in {"none", "done", "error"}
         /\ Idle \in Hosts
         /\ \A t \in Nat : [status |-> "running", turns |-> t, aborting |-> FALSE] \in Hosts
         /\ \A st \in {"idle", "error"} :
              [host[s] EXCEPT !.status = st, !.aborting = FALSE] \in Hosts
         /\ \A b \in BOOLEAN : /\ [host[s] EXCEPT !.aborting = b] \in Hosts
                               /\ [host[s] EXCEPT !.aborting = b].status = host[s].status
BY DEF StreamTypes, Hosts, Idle

LEMMA EngineKeeps ==
  ASSUME StreamInv, NEW s \in Sessions,
         \/ RunBegin(s) \/ Think(s) \/ RunEnd(s)
         \/ \E c \in CallIds : ToolCall(s, c) \/ ToolResult(s, c)
         \/ \E kind \in {"done", "error"} : Terminal(s, kind)
  PROVE  StreamInv'
<1>1. /\ StreamTypes /\ host[s] \in Hosts /\ host[s].turns \in Nat
      /\ open \in [Sessions -> SUBSET CallIds]
      /\ last \in [Sessions -> {"none", "done", "error"}] /\ TRUE \in BOOLEAN /\ FALSE \in BOOLEAN
  BY HostFacts DEF StreamInv, StreamTypes
<1>2. CASE RunBegin(s)
  <2> DEFINE h == [status |-> "running", turns |-> host[s].turns + 1, aborting |-> FALSE]
             e == Event("turn_start", h.turns, "task")
  <2>1. host[s].turns + 1 \in Nat
    BY <1>1
  <2>2. h \in Hosts /\ h.status = "running" /\ h.turns \in Nat
    BY <2>1, <1>1, HostFacts
  <2>3. /\ phase[s] = "live" /\ views[s] # NoView /\ last' = [last EXCEPT ![s] = "none"]
        /\ open' = open /\ Emit(s, e, h, TRUE)
    BY <1>2 DEF RunBegin
  <2> HIDE DEF h
  <2>4. e \in Entries
    BY <2>2, EntryTypes
  <2>5. last' \in [Sessions -> {"none", "done", "error"}]
    BY <1>1, <2>3
  <2> HIDE DEF e
  <2> QED
    BY <1>1, <2>2, <2>3, <2>4, <2>5, EmitKeeps DEF Known
<1>3. CASE Think(s)
  <2> DEFINE e == Event("thinking", host[s].turns, "text")
  <2>1. Runs(s) /\ open' = open /\ last' = last /\ Emit(s, e, host[s], FALSE)
    BY <1>3 DEF Think
  <2>2. e \in Entries
    BY <1>1, EntryTypes
  <2> HIDE DEF e
  <2> QED
    BY <1>1, <2>1, <2>2, RunsFacts, EmitKeeps DEF Runs
<1>4. ASSUME NEW c \in CallIds, ToolCall(s, c) PROVE StreamInv'
  <2> DEFINE e == Event("tool_call", host[s].turns, c)
  <2>1. /\ Runs(s) /\ open' = [open EXCEPT ![s] = @ \cup {c}] /\ last' = last
        /\ Emit(s, e, host[s], FALSE)
    BY <1>4 DEF ToolCall
  <2>2. e \in Entries
    BY <1>1, EntryTypes
  <2>3. open' \in [Sessions -> SUBSET CallIds]
    BY <1>1, <2>1
  <2> HIDE DEF e
  <2> QED
    BY <1>1, <2>1, <2>2, <2>3, RunsFacts, EmitKeeps DEF Runs
<1>5. ASSUME NEW c \in CallIds, ToolResult(s, c) PROVE StreamInv'
  <2> DEFINE e == Event("tool_result", host[s].turns, c)
  <2>1. /\ Runs(s) /\ open' = [open EXCEPT ![s] = @ \ {c}] /\ last' = last
        /\ Emit(s, e, host[s], FALSE)
    BY <1>5 DEF ToolResult
  <2>2. e \in Entries
    BY <1>1, EntryTypes
  <2>3. open' \in [Sessions -> SUBSET CallIds]
    BY <1>1, <2>1
  <2> HIDE DEF e
  <2> QED
    BY <1>1, <2>1, <2>2, <2>3, RunsFacts, EmitKeeps DEF Runs
<1>6. ASSUME NEW kind \in {"done", "error"}, Terminal(s, kind) PROVE StreamInv'
  <2> DEFINE e == Event(kind, host[s].turns, "digest")
  <2>1. /\ Runs(s) /\ open' = open /\ last' = [last EXCEPT ![s] = kind]
        /\ Emit(s, e, host[s], TRUE)
    BY <1>6 DEF Terminal
  <2>2. e \in Entries
    BY <1>1, EntryTypes
  <2>3. last' \in [Sessions -> {"none", "done", "error"}]
    BY <1>1, <2>1
  <2> HIDE DEF e
  <2> QED
    BY <1>1, <2>1, <2>2, <2>3, RunsFacts, EmitKeeps DEF Runs
<1>7. CASE RunEnd(s)
  <2> DEFINE st == IF Outcome(s) = "error" THEN "error" ELSE "idle"
             h == [host[s] EXCEPT !.status = st, !.aborting = FALSE]
             e == Event("turn_end", host[s].turns, Outcome(s))
  <2>1. Runs(s) /\ open' = open /\ last' = last /\ Emit(s, e, h, TRUE)
    BY <1>7 DEF RunEnd
  <2>2. Outcome(s) \in {"aborted", "error", "completed"}
    BY DEF Outcome
  <2>3. e \in Entries /\ e.kind = "turn_end"
    BY <1>1, <2>2, EntryTypes
  <2>4. st \in {"idle", "error"}
    OBVIOUS
  <2> HIDE DEF st
  <2>5. h \in Hosts
    BY <2>4, <1>1, HostFacts
  <2> HIDE DEF e, h
  <2> QED
    BY <1>1, <2>1, <2>3, <2>5, RunsFacts, EmitKeeps
<1> QED
  BY <1>2, <1>3, <1>4, <1>5, <1>6, <1>7

LEMMA AbortKeeps ==
  ASSUME StreamInv, NEW s \in Sessions, AbortSession(s)
  PROVE  StreamInv'
<1> DEFINE h == [host[s] EXCEPT !.aborting = TRUE]
           change == [kind |-> "changed", of |-> s, snap |-> h]
           msgs == <<change>>
<1>1. StreamTypes /\ Shut /\ SessionFits(s)
  BY DEF StreamInv
<1>2. /\ phase[s] = "live" /\ Runs(s) /\ host' = [host EXCEPT ![s].aborting = TRUE]
      /\ channel' = Sent(Told(s, host'[s]))
      /\ phase' = phase /\ open' = open /\ last' = last /\ log' = log /\ ring' = ring
      /\ calls' = calls /\ views' = views /\ chain' = chain /\ window' = window
  BY DEF AbortSession, renderer
<1>3. host \in [Sessions -> Hosts] /\ h \in Hosts /\ h.status = host[s].status
  <2>1. TRUE \in BOOLEAN
    OBVIOUS
  <2> QED
    BY <2>1, <1>1, HostFacts DEF StreamTypes
<1>4. /\ host' \in [Sessions -> Hosts] /\ host'[s] = h
      /\ \A t \in Sessions \ {s} : host'[t] = host[t]
  BY <1>2, <1>3
<1> HIDE DEF h
<1>5. channel' = Sent(msgs) /\ change.kind = "changed" /\ change.of = s /\ change.snap = h
  BY <1>2, <1>4 DEF Told
<1>6. change \in Messages
  BY <1>3, MessageTypes
<1> HIDE DEF change
<1>7. msgs \in Seq(Messages) /\ DOMAIN msgs = 1..1 /\ msgs[1] = change
  BY <1>6
<1> HIDE DEF msgs
<1>8. \A t \in Sessions : SameWindow(t)
  BY <1>2 DEF SameWindow
<1>9. SessionFits(s)'
  <2>1. RingFits(s)'
    BY <1>1, <1>2 DEF SessionFits, RingFits
  <2>2. LogFits(s)'
    BY <1>1, <1>2, <1>3, <1>4 DEF SessionFits, LogFits, Runs
  <2>3. /\ \A b \in DOMAIN msgs :
             msgs[b].kind = "changed" /\ msgs[b].of = s /\ msgs[b].snap = host'[s]
        /\ \E b \in DOMAIN msgs : msgs[b].kind = "changed"
    BY <1>4, <1>5, <1>7
  <2>4. phase'[s] = "live" /\ log'[s] = log[s] /\ ring'[s] = ring[s] /\ SameWindow(s)
    BY <1>2, <1>8
  <2> QED
    BY <2>1, <2>2, <2>3, <2>4, <1>1, <1>2, <1>5, <1>7, SpeakKeeps
<1>10. \A t \in Sessions \ {s} : SessionFits(t)'
  <2>1. \A b \in DOMAIN msgs : msgs[b].kind # "listed" /\ msgs[b].of = s
    BY <1>5, <1>7
  <2>2. \A t \in Sessions \ {s} : SameSession(t)
    BY <1>2, <1>4, <1>8 DEF SameSession
  <2> QED
    BY <2>1, <2>2, <1>5, <1>7, SentOthers
<1>11. StreamTypes'
  <2>1. channel' \in Seq(Messages)
    BY <1>1, <1>5, <1>7, SentTypes
  <2> QED
    BY <2>1, <1>1, <1>2, <1>4 DEF StreamTypes
<1>12. Shut'
  BY <1>1, <1>2, <1>5 DEF Shut, Sent
<1> QED
  BY <1>9, <1>10, <1>11, <1>12 DEF StreamInv

-----------------------------------------------------------------------------
(* The main process removes, creates, and answers.                         *)

(* What a message sent alone does to the channel of a window that is open. *)
LEMMA OneSent ==
  ASSUME StreamTypes, window, NEW m \in Messages, channel' = Sent(<<m>>)
  PROVE  /\ channel' \in Seq(Messages) /\ DOMAIN channel \subseteq DOMAIN channel'
         /\ DOMAIN channel' \subseteq Nat
         /\ \A i \in DOMAIN channel : channel'[i] = channel[i] /\ i \in Nat
         /\ \E l \in DOMAIN channel' \ DOMAIN channel :
              /\ channel'[l] = m /\ DOMAIN channel' \ DOMAIN channel = {l}
              /\ \A i \in DOMAIN channel : i < l
<1>1. channel \in Seq(Messages) /\ <<m>> \in Seq(Messages) /\ channel' = channel \o <<m>>
  BY DEF StreamTypes, Sent
<1>2. DOMAIN <<m>> = {1} /\ <<m>>[1] = m
  OBVIOUS
<1>3. /\ channel' \in Seq(Messages) /\ DOMAIN channel \subseteq DOMAIN channel'
      /\ DOMAIN channel' \subseteq Nat
      /\ \A i \in DOMAIN channel : /\ i \in Nat /\ channel'[i] = channel[i]
                                   /\ \A j \in DOMAIN channel' \ DOMAIN channel : i < j
  BY <1>1, JoinedFacts
<1>4. /\ Len(channel) + 1 \in DOMAIN channel' \ DOMAIN channel
      /\ channel'[Len(channel) + 1] = m
      /\ DOMAIN channel' \ DOMAIN channel = {Len(channel) + 1}
  <2>1. 1 \in DOMAIN <<m>> /\ \A b, c \in DOMAIN <<m>> : b = c
    BY <1>2
  <2>2. /\ Len(channel) + 1 \in DOMAIN channel' \ DOMAIN channel
        /\ channel'[Len(channel) + 1] = <<m>>[1]
    BY <2>1, <1>1, PlacedFacts
  <2>3. \A i, j \in DOMAIN channel' \ DOMAIN channel : i = j
    BY <2>1, <1>1, AddedFacts
  <2> QED
    BY <2>2, <2>3, <1>2
<1> QED
  BY <1>3, <1>4

(* The fetch under way is not disturbed by news.                           *)
LEMMA FetchStays ==
  ASSUME NEW s \in Sessions, FetchFits(s), chain'[s] = chain[s], views'[s] = views[s],
         s \in Known' <=> s \in Known,
         \A c : Asking(c, s) => (c \in calls' <=> c \in calls),
         \A i \in DOMAIN channel : i \in DOMAIN channel' /\ channel'[i] = channel[i],
         \A i \in DOMAIN channel' : Is(channel'[i], "history", s) => i \in DOMAIN channel
  PROVE  FetchFits(s)'
<1>1. \A i \in DOMAIN channel' : Is(channel'[i], "history", s) =>
        i \in DOMAIN channel /\ Is(channel[i], "history", s)
  OBVIOUS
<1>2. \A i \in DOMAIN channel : Is(channel[i], "history", s) =>
        i \in DOMAIN channel' /\ Is(channel'[i], "history", s)
  OBVIOUS
<1> QED
  BY <1>1, <1>2 DEF FetchFits

LEMMA AnswersStay ==
  ASSUME NEW s \in Sessions, AnswersFit(s), chain'[s] = chain[s], views'[s] = views[s],
         log'[s] = log[s], ring'[s] = ring[s], s \in Known' <=> s \in Known,
         phase'[s] # "removed" => phase[s] # "removed",
         \A i \in DOMAIN channel : i \in DOMAIN channel' /\ channel'[i] = channel[i],
         \A i \in DOMAIN channel' : Is(channel'[i], "history", s) => i \in DOMAIN channel
  PROVE  AnswersFit(s)'
<1>1. \A i \in DOMAIN channel' : Is(channel'[i], "history", s) =>
        i \in DOMAIN channel /\ Is(channel[i], "history", s) /\ channel'[i] = channel[i]
  OBVIOUS
<1>2. \A x, k : AnswerOf(x, s, k) => AnswerOf(x, s, k)'
  BY DEF AnswerOf
<1> QED
  BY <1>1, <1>2 DEF AnswersFit

LEMMA RemoveKeeps ==
  ASSUME StreamInv, NEW s \in Sessions, RemoveSession(s)
  PROVE  StreamInv'
<1> DEFINE m == [kind |-> "removed", of |-> s]
<1>1. StreamTypes /\ Shut /\ SessionFits(s)
  BY DEF StreamInv
<1>2. /\ phase[s] = "live" /\ s \in Known /\ phase' = [phase EXCEPT ![s] = "removed"]
      /\ host' = [host EXCEPT ![s].aborting = Runs(s)] /\ channel' = Sent(<<m>>)
      /\ open' = open /\ last' = last /\ log' = log /\ ring' = ring
      /\ calls' = calls /\ views' = views /\ chain' = chain /\ window' = window
  BY DEF RemoveSession, renderer, Known
<1>3. m \in Messages /\ m.kind = "removed" /\ m.of = s
  BY MessageTypes
<1> HIDE DEF m
<1>4. window
  BY <1>1, <1>2 DEF Shut, Known
<1>5. /\ channel' \in Seq(Messages) /\ DOMAIN channel \subseteq DOMAIN channel'
      /\ DOMAIN channel' \subseteq Nat
      /\ \A i \in DOMAIN channel : channel'[i] = channel[i] /\ i \in Nat
  BY <1>1, <1>2, <1>3, <1>4, OneSent
<1>6. PICK l \in DOMAIN channel' \ DOMAIN channel :
         /\ channel'[l] = m /\ DOMAIN channel' \ DOMAIN channel = {l}
         /\ \A i \in DOMAIN channel : i < l
  BY <1>1, <1>2, <1>3, <1>4, OneSent
<1>7. /\ Kills(m, s) /\ ~Tells(m, s) /\ ~Is(m, "event", s) /\ ~Is(m, "history", s)
  BY <1>3, KindFacts
<1>8. /\ phase'[s] = "removed" /\ log'[s] = log[s] /\ ring'[s] = ring[s]
      /\ views'[s] = views[s] /\ chain'[s] = chain[s] /\ s \in Known'
  BY <1>1, <1>2 DEF StreamTypes, Known
<1>9. \A i \in DOMAIN channel' : i \in DOMAIN channel \/ i = l
  BY <1>6
<1>10. SessionFits(s)'
  <2>1. RingFits(s)'
    BY <1>1, <1>8 DEF SessionFits, RingFits
  <2>2. LogFits(s)' /\ NotYet(s)' /\ Here(s)' /\ SnapsFit(s)' /\ Delivered(s)'
    BY <1>8 DEF LogFits, NotYet, Here, SnapsFit, Delivered
  <2>3. Gone(s)'
    BY <1>1, <1>2, <1>5, <1>6, <1>7, <1>8, <1>9 DEF SessionFits, Here, Gone
  <2>4. NumbersFit(s)'
    BY <1>1, <1>2, <1>5, <1>6, <1>7, <1>8, <1>9 DEF SessionFits, NumbersFit
  <2>5. WholeFits(s)'
    BY <1>1, <1>2, <1>8 DEF SessionFits, WholeFits, IsWhole
  <2>6. FetchFits(s)' /\ AnswersFit(s)'
    <3>1. \A i \in DOMAIN channel' : Is(channel'[i], "history", s) => i \in DOMAIN channel
      BY <1>6, <1>7, <1>9
    <3>2. FetchFits(s) /\ AnswersFit(s)
      BY <1>1 DEF SessionFits
    <3>3. FetchFits(s)'
      BY <3>1, <3>2, <1>2, <1>5, <1>8, FetchStays
    <3>4. AnswersFit(s)'
      BY <3>1, <3>2, <1>2, <1>5, <1>8, AnswersStay
    <3> QED
      BY <3>3, <3>4
  <2> QED
    BY <2>1, <2>2, <2>3, <2>4, <2>5, <2>6 DEF SessionFits
<1>11. \A t \in Sessions \ {s} : SessionFits(t)'
  <2>1. <<m>> \in Seq(Messages) /\ \A b \in DOMAIN <<m>> : <<m>>[b].kind # "listed" /\ <<m>>[b].of = s
    BY <1>3
  <2>2. \A t \in Sessions \ {s} : SameSession(t)
    BY <1>1, <1>2 DEF SameSession, SameWindow, StreamTypes
  <2> QED
    BY <2>1, <2>2, <1>2, SentOthers
<1>12. StreamTypes'
  <2>1. Runs(s) \in BOOLEAN
    BY DEF Runs
  <2>2. host' \in [Sessions -> Hosts]
    BY <2>1, <1>1, <1>2, HostFacts DEF StreamTypes
  <2>3. phase' \in [Sessions -> {"none", "creating", "live", "removed"}]
    BY <1>1, <1>2 DEF StreamTypes
  <2> QED
    BY <2>2, <2>3, <1>1, <1>2, <1>5 DEF StreamTypes
<1>13. Shut'
  BY <1>2, <1>4 DEF Shut
<1> QED
  BY <1>10, <1>11, <1>12, <1>13 DEF StreamInv

LEMMA CreatedKeeps ==
  ASSUME StreamInv, NEW s \in Sessions, Created(s)
  PROVE  StreamInv'
<1> DEFINE request == [kind |-> "create", of |-> s]
           m == [kind |-> "created", of |-> s, snap |-> host[s]]
           msgs == IF request \in calls THEN <<m>> ELSE <<>>
<1>1. StreamTypes /\ Shut /\ SessionFits(s)
  BY DEF StreamInv
<1>2. /\ phase[s] = "creating" /\ phase' = [phase EXCEPT ![s] = "live"]
      /\ channel' = Sent(msgs) /\ calls' = calls \ {request}
      /\ host' = host /\ open' = open /\ last' = last /\ log' = log /\ ring' = ring
      /\ views' = views /\ chain' = chain /\ window' = window
  BY DEF Created, renderer
<1>3. m \in Messages /\ m.kind = "created" /\ m.of = s /\ m.snap = host[s]
  BY <1>1, HostFacts, MessageTypes
<1>4. /\ \A t : ~Asking(request, t)
      /\ request # ListCall
  BY DEF Asking, ListCall
<1> HIDE DEF m, request
<1>5. /\ msgs \in Seq(Messages)
      /\ \A b \in DOMAIN msgs : msgs[b] = m /\ \A d \in DOMAIN msgs : d = b
  BY <1>3, EmptySeq
<1> HIDE DEF msgs
<1>6. /\ channel \in Seq(Messages) /\ channel' \in Seq(Messages) /\ DOMAIN channel' \subseteq Nat
      /\ DOMAIN channel \subseteq DOMAIN channel'
      /\ \A i \in DOMAIN channel : /\ channel'[i] = channel[i] /\ i \in Nat
                                   /\ \A j \in DOMAIN channel' \ DOMAIN channel : i < j
      /\ \A j \in DOMAIN channel' \ DOMAIN channel :
           channel'[j] = m /\ \A i \in DOMAIN channel' \ DOMAIN channel : i = j
  <2>1. channel \in Seq(Messages) /\ channel' \in Seq(Messages) /\ DOMAIN channel' \subseteq Nat
    BY <1>1, <1>2, <1>5, SentTypes DEF StreamTypes
  <2>2. CASE channel' = channel
    BY <2>1, <2>2
  <2>3. CASE channel' = channel \o msgs
    <3>1. /\ DOMAIN channel \subseteq DOMAIN channel'
          /\ \A i \in DOMAIN channel : /\ i \in Nat /\ channel'[i] = channel[i]
                                       /\ \A j \in DOMAIN channel' \ DOMAIN channel : i < j
      BY <2>1, <2>3, <1>5, JoinedFacts
    <3>2. \A b, c \in DOMAIN msgs : b = c
      BY <1>5
    <3>3. /\ \A j \in DOMAIN channel' \ DOMAIN channel :
               j - Len(channel) \in DOMAIN msgs /\ channel'[j] = msgs[j - Len(channel)]
          /\ \A i, j \in DOMAIN channel' \ DOMAIN channel : i = j
      <4>1. channel \in Seq(Messages) /\ msgs \in Seq(Messages)
        BY <2>1, <1>5
      <4>2. \A j \in DOMAIN channel' \ DOMAIN channel :
              j - Len(channel) \in DOMAIN msgs /\ channel'[j] = msgs[j - Len(channel)]
        BY <4>1, <2>3, AddedFacts
      <4>3. \A i, j \in DOMAIN channel' \ DOMAIN channel : i = j
        BY <4>1, <2>3, <3>2, AddedFacts
      <4> QED
        BY <4>2, <4>3
    <3> QED
      BY <2>1, <3>1, <3>3, <1>5
  <2> QED
    BY <2>2, <2>3, <1>2 DEF Sent
<1>7. /\ Is(m, "created", s) /\ Tells(m, s) /\ SnapOf(m, s) = host[s]
      /\ ~Kills(m, s) /\ ~Is(m, "event", s) /\ ~Is(m, "history", s)
  BY <1>3, KindFacts
<1>8. /\ phase'[s] = "live" /\ log'[s] = log[s] /\ ring'[s] = ring[s] /\ host'[s] = host[s]
      /\ views'[s] = views[s] /\ chain'[s] = chain[s] /\ s \notin Known'
      /\ s \notin Known /\ chain[s] = <<>> /\ log[s] = <<>>
      /\ \A i \in DOMAIN channel : ~Tells(channel[i], s) /\ ~Is(channel[i], "created", s)
  BY <1>1, <1>2 DEF StreamTypes, Known, SessionFits, NotYet, LogFits, Tells
<1>9. SessionFits(s)'
  <2>1. RingFits(s)'
    BY <1>1, <1>8 DEF SessionFits, RingFits
  <2>2. LogFits(s)'
    BY <1>1, <1>2, <1>8 DEF LogFits, Runs, SessionFits
  <2>3. NotYet(s)' /\ Gone(s)' /\ Delivered(s)' /\ WholeFits(s)'
    BY <1>8 DEF NotYet, Gone, Delivered, WholeFits
  <2>4. Here(s)'
    BY <1>6, <1>7, <1>8 DEF Here
  <2>5. SnapsFit(s)'
    BY <1>6, <1>7, <1>8 DEF SnapsFit
  <2>6. NumbersFit(s)'
    BY <1>1, <1>6, <1>7, <1>8 DEF SessionFits, NumbersFit
  <2>7. FetchFits(s)'
    BY <1>1, <1>2, <1>6, <1>7, <1>8 DEF SessionFits, FetchFits
  <2>8. AnswersFit(s)'
    BY <1>1, <1>2, <1>6, <1>7, <1>8 DEF SessionFits, AnswersFit
  <2> QED
    BY <2>1, <2>2, <2>3, <2>4, <2>5, <2>6, <2>7, <2>8 DEF SessionFits
<1>10. \A t \in Sessions \ {s} : SessionFits(t)'
  <2>1. \A b \in DOMAIN msgs : msgs[b].kind # "listed" /\ msgs[b].of = s
    BY <1>3, <1>5
  <2>2. \A t \in Sessions \ {s} : SameSession(t)
    BY <1>1, <1>2, <1>4 DEF SameSession, SameWindow, StreamTypes
  <2> QED
    BY <2>1, <2>2, <1>2, <1>5, SentOthers
<1>11. StreamTypes'
  <2>1. phase' \in [Sessions -> {"none", "creating", "live", "removed"}]
    BY <1>1, <1>2 DEF StreamTypes
  <2> QED
    BY <2>1, <1>1, <1>2, <1>6 DEF StreamTypes
<1>12. Shut'
  BY <1>1, <1>2 DEF Shut, Sent
<1> QED
  BY <1>9, <1>10, <1>11, <1>12 DEF StreamInv

(* A window that has just been opened, or closed, has nothing of a session.*)
LEMMA EmptyFits ==
  ASSUME NEW s \in Sessions, SessionFits(s),
         phase'[s] = phase[s], host'[s] = host[s], log'[s] = log[s], ring'[s] = ring[s],
         channel' = <<>>, views'[s] = NoView, chain'[s] = <<>>,
         \A c \in calls' : ~Asking(c, s), window' => ListCall \in calls'
  PROVE  SessionFits(s)'
<1>1. DOMAIN channel' = {} /\ DOMAIN chain'[s] = {} /\ s \notin Known'
  BY EmptySeq DEF Known
<1>2. RingFits(s)'
  BY DEF SessionFits, RingFits
<1>3. LogFits(s)'
  BY DEF SessionFits, LogFits, Runs
<1>4. NotYet(s)' /\ Gone(s)' /\ SnapsFit(s)' /\ Delivered(s)' /\ WholeFits(s)'
  BY <1>1 DEF NotYet, Gone, SnapsFit, Delivered, WholeFits
<1>5. Here(s)'
  BY <1>1 DEF Here
<1>6. NumbersFit(s)' /\ FetchFits(s)' /\ AnswersFit(s)'
  BY <1>1 DEF NumbersFit, FetchFits, AnswersFit
<1> QED
  BY <1>2, <1>3, <1>4, <1>5, <1>6 DEF SessionFits

LEMMA WindowsKeep ==
  ASSUME StreamInv, OpenWindow \/ CloseWindow
  PROVE  StreamInv'
<1>1. StreamTypes /\ Shut /\ \A s \in Sessions : SessionFits(s)
  BY DEF StreamInv
<1>2. /\ phase' = phase /\ host' = host /\ open' = open /\ last' = last /\ log' = log
      /\ ring' = ring
  BY DEF OpenWindow, CloseWindow, main
<1>3. /\ channel' = <<>> /\ \A s \in Sessions : views'[s] = NoView /\ chain'[s] = <<>>
      /\ calls' \subseteq {ListCall} /\ window' \in BOOLEAN
      /\ window' => ListCall \in calls'
      /\ ~window' => calls' = {}
      /\ views' \in [Sessions -> {NoView} \cup ViewRecs]
      /\ chain' \in [Sessions -> Seq(Links)]
  <2>1. CASE OpenWindow
    BY <2>1, <1>1 DEF OpenWindow, renderer, Shut, ListCall, StreamTypes
  <2>2. CASE CloseWindow
    BY <2>2, EmptySeq DEF CloseWindow
  <2> QED
    BY <2>1, <2>2
<1>4. \A s \in Sessions : \A c \in calls' : ~Asking(c, s)
  BY <1>3 DEF Asking, ListCall
<1>5. \A s \in Sessions : SessionFits(s)'
  BY <1>1, <1>2, <1>3, <1>4, EmptyFits
<1>6. StreamTypes'
  <2>1. channel' \in Seq(Messages)
    BY <1>3, EmptySeq
  <2> QED
    BY <2>1, <1>1, <1>2, <1>3 DEF StreamTypes
<1>7. Shut'
  BY <1>3 DEF Shut
<1> QED
  BY <1>5, <1>6, <1>7 DEF StreamInv

LEMMA ListingKeeps ==
  ASSUME StreamInv, ListSessions
  PROVE  StreamInv'
<1> DEFINE m == [kind |-> "listed", snaps |-> [s \in Live |-> host[s]]]
<1>1. StreamTypes /\ Shut /\ \A s \in Sessions : SessionFits(s)
  BY DEF StreamInv
<1>2. /\ ListCall \in calls /\ calls' = calls \ {ListCall} /\ channel' = Sent(<<m>>)
      /\ phase' = phase /\ host' = host /\ open' = open /\ last' = last /\ log' = log
      /\ ring' = ring /\ views' = views /\ chain' = chain /\ window' = window
  BY DEF ListSessions, main, renderer, ListCall
<1>3. window
  BY <1>1, <1>2 DEF Shut
<1>4. /\ m.kind = "listed" /\ DOMAIN m.snaps = Live
      /\ \A s \in Live : m.snaps[s] = host[s]
  OBVIOUS
<1>5. m \in Messages
  <2>1. Live \in SUBSET Sessions
    BY DEF Live
  <2>2. m.snaps \in [Live -> Hosts]
    BY <2>1, <1>1 DEF StreamTypes
  <2>3. m \in [kind : {"listed"}, snaps : [Live -> Hosts]]
    BY <2>2
  <2> QED
    BY <2>1, <2>3 DEF Messages, ListMsgs
<1> HIDE DEF m
<1>6. /\ channel' \in Seq(Messages) /\ DOMAIN channel \subseteq DOMAIN channel'
      /\ DOMAIN channel' \subseteq Nat
      /\ \A i \in DOMAIN channel : channel'[i] = channel[i] /\ i \in Nat
  BY <1>1, <1>2, <1>3, <1>5, OneSent
<1>7. PICK l \in DOMAIN channel' \ DOMAIN channel :
         /\ channel'[l] = m /\ DOMAIN channel' \ DOMAIN channel = {l}
         /\ \A i \in DOMAIN channel : i < l
  BY <1>1, <1>2, <1>3, <1>5, OneSent
<1>8. \A i \in DOMAIN channel' : i \in DOMAIN channel \/ i = l
  BY <1>7
<1>9. ASSUME NEW s \in Sessions PROVE SessionFits(s)'
  <2>1. /\ phase[s] = "live" => Tells(m, s) /\ ~Kills(m, s) /\ SnapOf(m, s) = host[s]
        /\ phase[s] # "live" => ~Tells(m, s) /\ Kills(m, s)
        /\ ~Is(m, "event", s) /\ ~Is(m, "history", s) /\ ~Is(m, "created", s)
    BY <1>4, KindFacts DEF Live
  <2>2. \A c : Asking(c, s) => (c \in calls' <=> c \in calls)
    BY <1>2 DEF Asking, ListCall
  <2>3. SessionFits(s) /\ (s \in Known' <=> s \in Known)
    BY <1>1, <1>2 DEF Known
  <2>4. RingFits(s)'
    BY <1>2, <2>3 DEF SessionFits, RingFits
  <2>5. LogFits(s)'
    BY <1>2, <2>3 DEF SessionFits, LogFits, Runs
  <2>6. NotYet(s)'
    BY <1>2, <1>6, <1>7, <1>8, <2>1, <2>3 DEF SessionFits, NotYet
  <2>7. Here(s)'
    BY <1>2, <1>6, <1>7, <1>8, <2>1, <2>3 DEF SessionFits, Here
  <2>8. Gone(s)'
    BY <1>2, <1>6, <1>7, <1>8, <2>1, <2>3 DEF SessionFits, Gone
  <2>9. SnapsFit(s)'
    <3>1. phase[s] = "live" /\ l \in DOMAIN channel' /\ Tells(channel'[l], s) =>
            \A i \in DOMAIN channel' :
              (\A j \in DOMAIN channel' : Tells(channel'[j], s) => j <= i) => i = l
      BY <1>6, <1>7, <1>8
    <3> QED
      BY <3>1, <1>2, <1>7, <2>1 DEF SnapsFit
  <2>10. NumbersFit(s)'
    BY <1>2, <1>6, <1>7, <1>8, <2>1, <2>3 DEF SessionFits, NumbersFit
  <2>11. WholeFits(s)'
    BY <1>2, <2>3 DEF SessionFits, WholeFits, IsWhole
  <2>12. FetchFits(s)' /\ AnswersFit(s)'
    <3>1. \A i \in DOMAIN channel' : Is(channel'[i], "history", s) => i \in DOMAIN channel
      BY <1>7, <1>8, <2>1
    <3>2. FetchFits(s) /\ AnswersFit(s)
      BY <2>3 DEF SessionFits
    <3>3. /\ chain'[s] = chain[s] /\ views'[s] = views[s] /\ log'[s] = log[s]
          /\ ring'[s] = ring[s] /\ phase'[s] = phase[s]
      BY <1>2
    <3>4. FetchFits(s)'
      BY <3>1, <3>2, <3>3, <1>6, <2>2, <2>3, FetchStays
    <3>5. AnswersFit(s)'
      BY <3>1, <3>2, <3>3, <1>6, <2>3, AnswersStay
    <3> QED
      BY <3>4, <3>5
  <2>13. Delivered(s)'
    BY <1>2, <1>6, <2>2, <2>3 DEF SessionFits, Delivered, Coming
  <2> QED
    BY <2>4, <2>5, <2>6, <2>7, <2>8, <2>9, <2>10, <2>11, <2>12, <2>13 DEF SessionFits
<1>10. StreamTypes'
  BY <1>1, <1>2, <1>6 DEF StreamTypes
<1>11. Shut'
  BY <1>2, <1>3 DEF Shut
<1> QED
  BY <1>9, <1>10, <1>11 DEF StreamInv

LEMMA HistoryKeeps ==
  ASSUME StreamInv, NEW s \in Sessions, History(s)
  PROVE  StreamInv'
<1>1. StreamTypes /\ Shut /\ SessionFits(s)
  BY DEF StreamInv
<1>2. PICK c \in calls :
         /\ c.kind = "history" /\ c.of = s
         /\ channel' = Sent(<<[kind |-> "history", of |-> s, ok |-> s \in Live,
                               seqs |-> {n \in ring[s] : n > c.since}]>>)
         /\ calls' = calls \ {c}
  BY DEF History
<1> DEFINE seqs == {n \in ring[s] : n > c.since}
           m == [kind |-> "history", of |-> s, ok |-> s \in Live, seqs |-> seqs]
<1>3. /\ channel' = Sent(<<m>>)
      /\ phase' = phase /\ host' = host /\ open' = open /\ last' = last /\ log' = log
      /\ ring' = ring /\ views' = views /\ chain' = chain /\ window' = window
  BY <1>2 DEF History, main, renderer
<1>4. m.kind = "history" /\ m.of = s /\ m.ok = (s \in Live) /\ m.seqs = seqs
  OBVIOUS
<1>5. ring[s] \subseteq Nat /\ ring[s] \subseteq 1..Len(log[s]) /\ Len(log[s]) \in Nat
  <2>1. ring[s] \subseteq Nat /\ log[s] \in Seq(Entries)
    BY <1>1 DEF StreamTypes
  <2> QED
    BY <2>1, <1>1, LenProperties DEF SessionFits, RingFits
<1>6. seqs \subseteq ring[s]
  OBVIOUS
<1> HIDE DEF seqs
<1>7. m \in Messages
  <2>1. (s \in Live) \in BOOLEAN /\ seqs \in SUBSET Nat
    BY <1>5, <1>6
  <2>2. m \in HistoryMsgs
    BY <2>1 DEF HistoryMsgs
  <2> QED
    BY <2>2 DEF Messages
<1> HIDE DEF m
<1>8. window
  BY <1>1, <1>2 DEF Shut
<1>9. /\ channel' \in Seq(Messages) /\ DOMAIN channel \subseteq DOMAIN channel'
      /\ DOMAIN channel' \subseteq Nat
      /\ \A i \in DOMAIN channel : channel'[i] = channel[i] /\ i \in Nat
  BY <1>1, <1>3, <1>7, <1>8, OneSent
<1>10. PICK l \in DOMAIN channel' \ DOMAIN channel :
         /\ channel'[l] = m /\ DOMAIN channel' \ DOMAIN channel = {l}
         /\ \A i \in DOMAIN channel : i < l
  BY <1>1, <1>3, <1>7, <1>8, OneSent
<1>11. \A i \in DOMAIN channel' : i \in DOMAIN channel \/ i = l
  BY <1>10
<1>12. /\ Is(m, "history", s) /\ ~Is(m, "event", s) /\ ~Is(m, "created", s)
       /\ ~Tells(m, s) /\ ~Kills(m, s)
  BY <1>4, KindFacts
<1>13. /\ Asking(c, s) /\ c \in calls
       /\ chain[s] # <<>> /\ Head(chain[s]).asked
       /\ \A d \in calls : Asking(d, s) => d = c
       /\ \A i \in DOMAIN channel : ~Is(channel[i], "history", s)
       /\ s \in Known => c.since = LastSeq(views[s])
  BY <1>1, <1>2 DEF SessionFits, FetchFits, Asking
<1>14. \A d \in calls' : ~Asking(d, s)
  BY <1>2, <1>13
<1>15. ListCall \in calls' <=> ListCall \in calls
  BY <1>2 DEF ListCall
<1>16. phase[s] \in {"live", "removed"}
  BY <1>1, <1>13 DEF SessionFits, NotYet, StreamTypes
<1>17. s \in Known' <=> s \in Known
  BY <1>3 DEF Known
<1>18. s \in Known => \A n \in ring[s] : LastSeq(views[s]) < n => n \in seqs
  <2>1. s \in Known => LastSeq(views[s]) \in Nat
    <3>1. s \in Known => LastSeq(views[s]) \in 0..Len(log[s])
      BY <1>1, <1>5, LastFacts DEF SessionFits, NumbersFit
    <3> QED
      BY <3>1, <1>5
  <2> QED
    BY <2>1, <1>5, <1>13 DEF seqs
<1>19. SessionFits(s)'
  <2>1. RingFits(s)'
    BY <1>1, <1>3 DEF SessionFits, RingFits
  <2>2. LogFits(s)'
    BY <1>1, <1>3 DEF SessionFits, LogFits, Runs
  <2>3. NotYet(s)'
    BY <1>3, <1>16 DEF NotYet
  <2>4. Here(s)'
    BY <1>1, <1>3, <1>9, <1>10, <1>11, <1>12, <1>15, <1>17 DEF SessionFits, Here
  <2>5. Gone(s)'
    BY <1>1, <1>3, <1>9, <1>10, <1>11, <1>12, <1>17 DEF SessionFits, Gone
  <2>6. SnapsFit(s)'
    BY <1>1, <1>3, <1>9, <1>10, <1>11, <1>12, <1>17 DEF SessionFits, SnapsFit
  <2>7. NumbersFit(s)'
    BY <1>1, <1>3, <1>9, <1>10, <1>11, <1>12, <1>17 DEF SessionFits, NumbersFit
  <2>8. WholeFits(s)'
    BY <1>1, <1>3, <1>17 DEF SessionFits, WholeFits, IsWhole
  <2>9. FetchFits(s)'
    <3>1. \A j \in DOMAIN chain[s] : chain[s][j].asked => j = 1
      BY <1>1 DEF SessionFits, FetchFits
    <3>2. \A i \in DOMAIN channel' : Is(channel'[i], "history", s) => i = l
      BY <1>9, <1>11, <1>13
    <3>3. l \in DOMAIN channel' /\ Is(channel'[l], "history", s)
      BY <1>10, <1>12
    <3> QED
      BY <3>1, <3>2, <3>3, <1>3, <1>13, <1>14 DEF FetchFits
  <2>10. AnswersFit(s)'
    <3>1. ASSUME NEW i \in DOMAIN channel', Is(channel'[i], "history", s)
          PROVE  channel'[i] = m
      BY <3>1, <1>9, <1>10, <1>11, <1>13
    <3>2. phase[s] # "removed" => m.ok
      BY <1>4, <1>16 DEF Live
    <3>3. /\ Head(chain[s]).pending <= Len(log[s]) /\ m.seqs \subseteq 1..Len(log[s])
          /\ s \in Known => \A n \in ring[s] : LastSeq(views[s]) < n => n \in m.seqs
      <4>1. 1 \in DOMAIN chain[s] /\ Head(chain[s]) = chain[s][1]
        <5>1. chain[s] \in Seq(Links)
          BY <1>1 DEF StreamTypes
        <5> QED
          BY <5>1, <1>13, TakenFacts
      <4>2. Head(chain[s]).pending <= Len(log[s])
        BY <4>1, <1>1 DEF SessionFits, NumbersFit
      <4>3. m.seqs \subseteq 1..Len(log[s])
        BY <1>4, <1>5, <1>6
      <4> QED
        BY <4>2, <4>3, <1>4, <1>18
    <3>4. Len(log[s]) \in 0..Len(log[s])
      BY <1>5
    <3> SUFFICES ASSUME NEW i \in DOMAIN channel', Is(channel'[i], "history", s)
                 PROVE  /\ phase'[s] # "removed" => channel'[i].ok
                        /\ s \in Known' => \E k \in 0..Len(log'[s]) : AnswerOf(channel[i], s, k)'
      BY DEF AnswersFit
    <3>5. s \in Known' => AnswerOf(channel[i], s, Len(log[s]))'
      <4>1. channel'[i] = m /\ chain' = chain /\ ring' = ring /\ views' = views /\ log' = log
        BY <3>1, <1>3
      <4> QED
        BY <4>1, <3>3, <1>17 DEF AnswerOf
    <3>6. phase'[s] # "removed" => channel'[i].ok
      BY <3>1, <3>2, <1>3
    <3> QED
      BY <3>4, <3>5, <3>6, <1>3
  <2>11. Delivered(s)'
    <3> SUFFICES ASSUME s \in Known, NEW n \in ring[s]
                 PROVE  n <= LastSeq(views[s]) \/ Coming(s, n)'
      BY <1>3, <1>17 DEF Delivered
    <3>1. LastSeq(views[s]) \in 0..Len(log[s])
      BY <1>1, <1>5, LastFacts DEF SessionFits, NumbersFit
    <3>2. LastSeq(views[s]) < n => Coming(s, n)'
      BY <1>4, <1>10, <1>12, <1>18 DEF Coming
    <3> QED
      BY <3>1, <3>2, <1>5
  <2> QED
    BY <2>1, <2>2, <2>3, <2>4, <2>5, <2>6, <2>7, <2>8, <2>9, <2>10, <2>11 DEF SessionFits
<1>20. \A t \in Sessions \ {s} : SessionFits(t)'
  <2>1. <<m>> \in Seq(Messages) /\ \A b \in DOMAIN <<m>> : <<m>>[b].kind # "listed" /\ <<m>>[b].of = s
    BY <1>4, <1>7
  <2>2. ASSUME NEW t \in Sessions \ {s} PROVE SameSession(t)
    <3>1. \A d : Asking(d, t) => (d \in calls' <=> d \in calls)
      BY <1>2 DEF Asking
    <3> QED
      BY <3>1, <1>3, <1>15 DEF SameSession, SameWindow
  <2> QED
    BY <2>1, <2>2, <1>3, SentOthers
<1>21. StreamTypes'
  BY <1>1, <1>2, <1>3, <1>9 DEF StreamTypes
<1>22. Shut'
  BY <1>3, <1>8 DEF Shut
<1> QED
  BY <1>19, <1>20, <1>21, <1>22 DEF StreamInv

LEMMA StillShifts ==
  ASSUME StreamTypes, NEW t \in Sessions, channel' = channel
  PROVE  Shifted(t, 0) /\ DOMAIN channel \subseteq Nat
<1>1. DOMAIN channel \subseteq Nat
  BY LenProperties DEF StreamTypes
<1> QED
  BY <1>1 DEF Shifted

LEMMA CreateKeeps ==
  ASSUME StreamInv, NEW s \in Sessions, Create(s)
  PROVE  StreamInv'
<1> DEFINE request == [kind |-> "create", of |-> s]
<1>1. StreamTypes /\ Shut /\ \A t \in Sessions : SessionFits(t)
  BY DEF StreamInv
<1>2. /\ window /\ phase[s] = "none" /\ phase' = [phase EXCEPT ![s] = "creating"]
      /\ calls' = calls \cup {request}
      /\ host' = host /\ open' = open /\ last' = last /\ log' = log /\ ring' = ring
      /\ views' = views /\ chain' = chain /\ channel' = channel /\ window' = window
  BY DEF Create, AtRest, renderer
<1>3. request # ListCall /\ \A t : ~Asking(request, t)
  BY DEF Asking, ListCall
<1>4. request \in CreateCalls
  BY DEF CreateCalls
<1> HIDE DEF request
<1>5. \A t \in Sessions : SameWindow(t)
  BY <1>2, <1>3 DEF SameWindow
<1>6. ASSUME NEW t \in Sessions \ {s} PROVE SessionFits(t)'
  <2>1. SameSession(t)
    BY <1>1, <1>2, <1>5 DEF SameSession, StreamTypes
  <2>2. Shifted(t, 0) /\ DOMAIN channel \subseteq Nat /\ DOMAIN channel' \subseteq Nat
    BY <1>1, <1>2, StillShifts
  <2> QED
    BY <2>1, <2>2, <1>1, OthersFit
<1>7. SessionFits(s)'
  <2>1. /\ phase'[s] = "creating" /\ s \notin Known /\ s \notin Known' /\ SessionFits(s)
        /\ \A c : Asking(c, s) => (c \in calls' <=> c \in calls)
    BY <1>1, <1>2, <1>3 DEF StreamTypes, SessionFits, NotYet, Known
  <2>2. RingFits(s)'
    BY <1>2, <2>1 DEF SessionFits, RingFits
  <2>3. LogFits(s)'
    BY <1>2, <2>1 DEF SessionFits, LogFits, Runs
  <2>4. NotYet(s)'
    BY <1>2, <2>1 DEF SessionFits, NotYet
  <2>5. Here(s)' /\ Gone(s)' /\ SnapsFit(s)' /\ WholeFits(s)' /\ Delivered(s)'
    BY <2>1 DEF Here, Gone, SnapsFit, WholeFits, Delivered
  <2>6. NumbersFit(s)'
    BY <1>2, <2>1 DEF SessionFits, NumbersFit
  <2>7. FetchFits(s)'
    BY <1>2, <2>1 DEF SessionFits, FetchFits
  <2>8. AnswersFit(s)'
    BY <1>2, <2>1 DEF SessionFits, AnswersFit
  <2> QED
    BY <2>2, <2>3, <2>4, <2>5, <2>6, <2>7, <2>8 DEF SessionFits
<1>8. StreamTypes'
  <2>1. phase' \in [Sessions -> {"none", "creating", "live", "removed"}]
    BY <1>1, <1>2 DEF StreamTypes
  <2>2. calls' \subseteq {ListCall} \cup CreateCalls \cup HistoryCalls
    BY <1>1, <1>2, <1>4 DEF StreamTypes
  <2> QED
    BY <2>1, <2>2, <1>1, <1>2 DEF StreamTypes
<1>9. Shut'
  BY <1>2 DEF Shut
<1> QED
  BY <1>6, <1>7, <1>8, <1>9 DEF StreamInv

-----------------------------------------------------------------------------
(* The window fetches, and receives.                                       *)

(* The first fetch of a chain goes.                                        *)
LEMMA StartFetchKeeps ==
  ASSUME StreamInv, NEW s \in Sessions, StartFetch(s)
  PROVE  StreamInv'
<1> DEFINE q == chain[s]
           l == Head(q)
           v == views[s]
           request == [kind |-> "history", of |-> s, since |-> LastSeq(v)]
           first == [l EXCEPT !.asked = TRUE]
<1>1. StreamTypes /\ Shut /\ \A t \in Sessions : SessionFits(t)
  BY DEF StreamInv
<1>2. /\ window /\ q # <<>> /\ ~l.asked
      /\ phase' = phase /\ host' = host /\ open' = open /\ last' = last /\ log' = log
      /\ ring' = ring /\ channel' = channel /\ window' = window
  BY DEF StartFetch, Waits, main
<1>3. \/ /\ v = NoView
         /\ chain' = [chain EXCEPT ![s] = Tail(q)] /\ views' = views /\ calls' = calls
      \/ /\ v # NoView /\ l.pending # 0 /\ l.pending <= LastSeq(v) + 1
         /\ views' = [views EXCEPT ![s] = ApplyAll(v, {l.pending})]
         /\ chain' = [chain EXCEPT ![s] = Tail(q)] /\ calls' = calls
      \/ /\ v # NoView /\ calls' = calls \cup {request}
         /\ chain' = [chain EXCEPT ![s] = <<first>> \o Tail(q)] /\ views' = views
  BY DEF StartFetch
<1>4. /\ q \in Seq(Links) /\ Tail(q) \in Seq(Links) /\ l \in Links /\ q[1] = l /\ 1 \in DOMAIN q
      /\ \A j \in DOMAIN Tail(q) : j \in Nat /\ j + 1 \in DOMAIN q /\ Tail(q)[j] = q[j + 1]
      /\ \A j \in DOMAIN q : j \in Nat /\ (j # 1 => j - 1 \in DOMAIN Tail(q)
                                                     /\ Tail(q)[j - 1] = q[j])
  BY <1>1, <1>2, TakenFacts DEF StreamTypes
<1>5. l.pending \in Nat /\ l.asked = FALSE /\ l.pending <= Len(log[s]) /\ Len(log[s]) \in Nat
  BY <1>1, <1>2, <1>4, LenProperties DEF Links, SessionFits, NumbersFit, StreamTypes
<1>6. /\ first \in Links /\ first.asked = TRUE /\ first.pending = l.pending
  BY <1>4 DEF Links
<1>7. /\ \A t : Asking(request, t) <=> t = s
      /\ request # ListCall /\ request.since = LastSeq(v)
  BY DEF Asking, ListCall
<1> HIDE DEF l, request, first
<1>8. /\ \A c \in calls : ~Asking(c, s)
      /\ \A i \in DOMAIN channel : ~Is(channel[i], "history", s)
      /\ \A j \in DOMAIN q : ~q[j].asked
  BY <1>1, <1>2, <1>4 DEF SessionFits, FetchFits, l
<1>9. phase[s] \in {"live", "removed"}
  BY <1>1, <1>2 DEF SessionFits, NotYet, StreamTypes
<1>10. \A t \in Sessions \ {s} : SessionFits(t)'
  <2> SUFFICES ASSUME NEW t \in Sessions \ {s} PROVE SessionFits(t)'
    OBVIOUS
  <2>1. /\ views'[t] = views[t] /\ chain'[t] = chain[t]
        /\ ListCall \in calls' <=> ListCall \in calls
        /\ \A c : Asking(c, t) => (c \in calls' <=> c \in calls)
    BY <1>1, <1>3, <1>7 DEF StreamTypes
  <2>2. SameSession(t)
    BY <1>2, <2>1 DEF SameSession, SameWindow
  <2>3. Shifted(t, 0) /\ DOMAIN channel \subseteq Nat /\ DOMAIN channel' \subseteq Nat
    BY <1>1, <1>2, StillShifts
  <2> QED
    BY <2>2, <2>3, <1>1, OthersFit
<1>11. v # NoView => v \in ViewRecs /\ v.applied \subseteq 1..Len(log[s])
                     /\ LastSeq(v) \in 0..Len(log[s])
                     /\ \A n \in v.applied : n <= LastSeq(v)
  BY <1>1, <1>5, LastFacts DEF StreamTypes, SessionFits, NumbersFit, Known
<1>12. /\ RingFits(s)' /\ LogFits(s)' /\ NotYet(s)'
       /\ ring[s] \subseteq Nat /\ ring[s] \subseteq 1..Len(log[s])
  <2>1. RingFits(s) /\ LogFits(s)
    BY <1>1 DEF SessionFits
  <2>2. RingFits(s)' /\ LogFits(s)'
    BY <2>1, <1>2 DEF RingFits, LogFits, Runs
  <2>3. NotYet(s)'
    BY <1>2, <1>9 DEF NotYet
  <2> QED
    BY <2>1, <2>2, <2>3, <1>1 DEF StreamTypes, RingFits
<1>13. CASE \/ /\ v = NoView
               /\ chain' = [chain EXCEPT ![s] = Tail(q)] /\ views' = views /\ calls' = calls
            \/ /\ v # NoView /\ l.pending # 0 /\ l.pending <= LastSeq(v) + 1
               /\ views' = [views EXCEPT ![s] = ApplyAll(v, {l.pending})]
               /\ chain' = [chain EXCEPT ![s] = Tail(q)] /\ calls' = calls
  <2> DEFINE w == views'[s]
  <2>1. chain'[s] = Tail(q) /\ calls' = calls
    BY <1>1, <1>13 DEF StreamTypes
  <2>2. /\ chain' \in [Sessions -> Seq(Links)]
        /\ views' \in [Sessions -> {NoView} \cup ViewRecs]
        /\ \/ v = NoView /\ w = NoView
           \/ /\ v # NoView /\ w # NoView /\ w.snap = v.snap /\ w.applied \subseteq 1..Len(log[s])
              /\ l.pending # 0 /\ l.pending <= LastSeq(v) + 1
              /\ w.applied = v.applied \cup {n \in {l.pending} : LastSeq(v) < n}
              /\ LastSeq(v) <= LastSeq(w) /\ l.pending <= LastSeq(w)
              /\ LastSeq(w) = LastSeq(v) \/ LastSeq(w) = l.pending
    <3>1. chain' \in [Sessions -> Seq(Links)]
      BY <1>1, <1>4, <1>13 DEF StreamTypes
    <3>2. CASE v = NoView
      BY <3>1, <3>2, <1>1, <1>13 DEF StreamTypes
    <3>3. CASE v # NoView
      <4>1. views' = [views EXCEPT ![s] = ApplyAll(v, {l.pending})] /\ l.pending # 0
            /\ l.pending <= LastSeq(v) + 1
        BY <3>3, <1>13
      <4>2. w = ApplyAll(v, {l.pending})
        BY <4>1, <1>1 DEF StreamTypes
      <4>3. {l.pending} \subseteq 1..Len(log[s])
        BY <4>1, <1>5
      <4>4. /\ w \in ViewRecs /\ w.snap = v.snap /\ w.applied \subseteq 1..Len(log[s])
            /\ w.applied = v.applied \cup {n \in {l.pending} : LastSeq(v) < n}
            /\ LastSeq(v) <= LastSeq(w) /\ \A n \in {l.pending} : n <= LastSeq(w)
            /\ LastSeq(w) = LastSeq(v) \/ LastSeq(w) \in {l.pending}
        BY <4>2, <4>3, <3>3, <1>5, <1>11, ApplyFacts
      <4>5. w # NoView
        BY <4>4, ViewFacts
      <4>6. views' \in [Sessions -> {NoView} \cup ViewRecs]
        BY <4>1, <4>2, <4>4, <1>1 DEF StreamTypes
      <4> HIDE DEF w
      <4> QED
        BY <3>1, <3>3, <4>1, <4>4, <4>5, <4>6
    <3> QED
      BY <3>2, <3>3
  <2>3. s \in Known <=> v # NoView
    BY DEF Known
  <2>4. s \in Known' <=> w # NoView
    BY DEF Known
  <2> HIDE DEF w
  <2>5. /\ s \in Known' <=> s \in Known
        /\ s \in Known => w.snap = v.snap
    BY <2>2, <2>3, <2>4
  <2>6. phase[s] = "live" => s \in Known
    BY <1>1, <1>2 DEF SessionFits, Here
  <2>7. SessionFits(s)'
    <3>1. Here(s)'
      BY <1>1, <1>2, <2>1, <2>5, <2>6 DEF SessionFits, Here
    <3>2. Gone(s)'
      BY <1>1, <1>2, <2>5 DEF SessionFits, Gone
    <3>3. SnapsFit(s)'
      BY <1>1, <1>2, <2>5 DEF SessionFits, SnapsFit, w
    <3>4. NumbersFit(s)'
      <4>1. s \in Known' => w.applied \subseteq 1..Len(log[s])
        BY <2>2, <2>4
      <4>2. \A j \in DOMAIN Tail(q) : Tail(q)[j].pending <= Len(log[s])
        BY <1>1, <1>4 DEF SessionFits, NumbersFit
      <4>3. \A i \in DOMAIN channel : Is(channel[i], "event", s) =>
              channel[i].seq \in 1..Len(log[s])
        BY <1>1 DEF SessionFits, NumbersFit
      <4> QED
        BY <4>1, <4>2, <4>3, <1>2, <2>1 DEF NumbersFit, w
    <3>5. WholeFits(s)'
      <4> SUFFICES ASSUME s \in Known, Cardinality(Words(log[s])) <= RingCap,
                          NEW n \in 1..LastSeq(w), log[s][n].kind # "thinking"
                   PROVE  n \in w.applied
        BY <1>2, <2>5 DEF WholeFits, IsWhole, w
      <4>1. IsWhole(s)
        BY <1>1 DEF SessionFits, WholeFits
      <4>2. n \in 1..LastSeq(v) => n \in v.applied
        BY <4>1 DEF IsWhole
      <4>3. LastSeq(v) \in Nat /\ LastSeq(w) \in Nat
        BY <1>5, <1>11, <2>2, <2>3
      <4>4. n \in 1..LastSeq(v) \/ (n = l.pending /\ LastSeq(v) < n)
        BY <2>2, <2>3, <4>3, <1>5
      <4> QED
        BY <4>2, <4>4, <2>2, <2>3
    <3>6. FetchFits(s)'
      <4>1. Tail(q) # <<>> => ~Head(Tail(q)).asked
        <5>1. Tail(q) # <<>> => 1 \in DOMAIN Tail(q) /\ Tail(q)[1] = Head(Tail(q))
          BY <1>4, TakenFacts
        <5> QED
          BY <5>1, <1>4, <1>8
      <4>2. \A j \in DOMAIN Tail(q) : ~Tail(q)[j].asked
        BY <1>4, <1>8
      <4> QED
        BY <4>1, <4>2, <1>2, <1>8, <2>1 DEF FetchFits
    <3>7. AnswersFit(s)'
      BY <1>2, <1>8 DEF AnswersFit
    <3>8. Delivered(s)'
      <4> SUFFICES ASSUME phase[s] = "live", s \in Known, NEW n \in ring[s]
                   PROVE  n <= LastSeq(w) \/ Coming(s, n)'
        BY <1>2, <2>5 DEF Delivered, w
      <4>1. n <= LastSeq(v) \/ Coming(s, n)
        BY <1>1 DEF SessionFits, Delivered
      <4>2. n \in Nat /\ LastSeq(v) \in Nat /\ LastSeq(w) \in Nat
        BY <1>5, <1>11, <1>12, <2>2, <2>3
      <4>3. CASE n <= LastSeq(v)
        BY <4>2, <4>3, <2>2, <2>3
      <4>4. CASE \E i \in DOMAIN channel : Is(channel[i], "event", s) /\ n <= channel[i].seq
        BY <4>4, <1>2 DEF Coming
      <4>5. ASSUME NEW j \in DOMAIN q,
                   n <= q[j].pending \/ (q[j].pending = 0 /\ ~q[j].asked)
            PROVE  n <= LastSeq(w) \/ Coming(s, n)'
        <5>1. CASE j = 1
          <6>1. n <= l.pending
            BY <5>1, <4>5, <1>4, <2>2, <2>3
          <6> QED
            BY <6>1, <4>2, <1>5, <2>2, <2>3
        <5>2. CASE j # 1
          <6>1. j - 1 \in DOMAIN Tail(q) /\ Tail(q)[j - 1] = q[j]
            BY <5>2, <1>4
          <6> QED
            BY <6>1, <4>5, <2>1 DEF Coming
        <5> QED
          BY <5>1, <5>2
      <4> QED
        BY <4>1, <4>3, <4>4, <4>5, <1>8 DEF Coming
    <3> QED
      BY <3>1, <3>2, <3>3, <3>4, <3>5, <3>6, <3>7, <3>8, <1>12 DEF SessionFits
  <2>8. StreamTypes'
    BY <1>1, <1>2, <2>1, <2>2 DEF StreamTypes
  <2>9. Shut'
    BY <1>2 DEF Shut
  <2> QED
    BY <1>10, <2>7, <2>8, <2>9 DEF StreamInv
<1>14. CASE /\ v # NoView /\ calls' = calls \cup {request}
            /\ chain' = [chain EXCEPT ![s] = <<first>> \o Tail(q)] /\ views' = views
  <2> DEFINE r == <<first>> \o Tail(q)
  <2>1. /\ r \in Seq(Links) /\ r # <<>> /\ Head(r) = first /\ DOMAIN r = DOMAIN q /\ r[1] = first
        /\ \A j \in DOMAIN q : j # 1 => r[j] = q[j]
    <3>1. <<first>> \in Seq(Links) /\ Len(<<first>>) = 1 /\ <<first>>[1] = first
      BY <1>6
    <3>2. /\ r \in Seq(Links) /\ Len(r) = 1 + Len(Tail(q))
          /\ \A i \in 1..(1 + Len(Tail(q))) : r[i] = IF i <= 1 THEN <<first>>[i] ELSE Tail(q)[i - 1]
      BY <3>1, <1>4, ConcatProperties
    <3>3. /\ Len(Tail(q)) = Len(q) - 1 /\ Len(q) \in Nat /\ Len(q) # 0
          /\ DOMAIN q = 1..Len(q) /\ DOMAIN r = 1..Len(r) /\ Len(r) \in Nat
      BY <1>2, <1>4, <3>2, HeadTailProperties, LenProperties, EmptySeq
    <3>4. Len(r) = Len(q)
      BY <3>2, <3>3
    <3>5. 1 \in 1..(1 + Len(Tail(q))) /\ 1 <= 1
      BY <3>3
    <3>6. r[1] = first
      BY <3>1, <3>2, <3>5
    <3> HIDE DEF r
    <3>7. r # <<>>
      BY <3>3, <3>4, EmptySeq
    <3>8. Head(r) = r[1]
      BY <3>2, <3>7, TakenFacts
    <3>9. ASSUME NEW j \in DOMAIN q, j # 1 PROVE r[j] = q[j]
      <4>1. j \in 1..(1 + Len(Tail(q))) /\ ~(j <= 1)
        BY <3>3, <3>9
      <4> QED
        BY <4>1, <3>2, <3>9, <1>4
    <3> QED
      BY <3>2, <3>3, <3>4, <3>6, <3>7, <3>8, <3>9
  <2>2. chain' \in [Sessions -> Seq(Links)] /\ chain'[s] = r /\ views'[s] = v
    BY <2>1, <1>1, <1>14 DEF StreamTypes
  <2> HIDE DEF r
  <2>3. s \in Known /\ s \in Known'
    BY <1>14 DEF Known
  <2>4. /\ request \in calls' /\ Asking(request, s) /\ \A c \in calls' : Asking(c, s) => c = request
        /\ ListCall \in calls' <=> ListCall \in calls
    BY <1>7, <1>8, <1>14
  <2>5. SessionFits(s)'
    <3>1. Here(s)'
      BY <1>1, <1>2, <2>3, <2>4 DEF SessionFits, Here
    <3>2. Gone(s)'
      BY <1>1, <1>2, <2>3 DEF SessionFits, Gone
    <3>3. SnapsFit(s)'
      BY <1>1, <1>2, <1>14, <2>3 DEF SessionFits, SnapsFit
    <3>4. NumbersFit(s)'
      <4>1. \A j \in DOMAIN r : r[j].pending <= Len(log[s])
        BY <2>1, <1>1, <1>5, <1>6 DEF SessionFits, NumbersFit
      <4> QED
        BY <4>1, <1>1, <1>2, <1>14, <2>2, <2>3 DEF SessionFits, NumbersFit
    <3>5. WholeFits(s)'
      BY <1>1, <1>2, <1>14, <2>3 DEF SessionFits, WholeFits, IsWhole
    <3>6. FetchFits(s)'
      <4>1. \A j \in DOMAIN r : r[j].asked => j = 1
        BY <2>1, <1>8
      <4> QED
        BY <4>1, <1>2, <1>6, <1>7, <1>8, <2>1, <2>2, <2>4 DEF FetchFits
    <3>7. AnswersFit(s)'
      BY <1>2, <1>8 DEF AnswersFit
    <3>8. Delivered(s)'
      BY <2>4 DEF Delivered, Coming
    <3> QED
      BY <3>1, <3>2, <3>3, <3>4, <3>5, <3>6, <3>7, <3>8, <1>12 DEF SessionFits
  <2>6. StreamTypes'
    <3>1. request \in HistoryCalls
      BY <1>5, <1>11, <1>14 DEF request, HistoryCalls
    <3>2. calls' \subseteq {ListCall} \cup CreateCalls \cup HistoryCalls
      BY <3>1, <1>1, <1>14 DEF StreamTypes
    <3> QED
      BY <3>2, <1>1, <1>2, <1>14, <2>2 DEF StreamTypes
  <2>7. Shut'
    BY <1>2 DEF Shut
  <2> QED
    BY <1>10, <2>5, <2>6, <2>7 DEF StreamInv
<1> QED
  BY <1>3, <1>13, <1>14

(* A message is taken.                                                     *)
LEMMA ReceivedFacts ==
  ASSUME StreamInv, NEW kind, Received(kind), Receive
  PROVE  /\ window /\ channel # <<>> /\ Head(channel).kind = kind
         /\ channel \in Seq(Messages) /\ channel' \in Seq(Messages)
         /\ Head(channel) \in Messages /\ channel[1] = Head(channel) /\ 1 \in DOMAIN channel
         /\ DOMAIN channel \subseteq Nat /\ DOMAIN channel' \subseteq Nat
         /\ channel' = Tail(channel)
         /\ phase' = phase /\ host' = host /\ open' = open /\ last' = last /\ log' = log
         /\ ring' = ring /\ window' = window
         /\ \A s \in Sessions : SessionFits(s)
<1>1. /\ window /\ channel # <<>> /\ Head(channel).kind = kind
      /\ channel' = Tail(channel)
      /\ phase' = phase /\ host' = host /\ open' = open /\ last' = last /\ log' = log
      /\ ring' = ring /\ window' = window
  BY DEF Received, AtRest, Receive, main
<1>2. channel \in Seq(Messages) /\ \A s \in Sessions : SessionFits(s)
  BY DEF StreamInv, StreamTypes
<1>3. /\ channel' \in Seq(Messages) /\ Head(channel) \in Messages
      /\ channel[1] = Head(channel) /\ 1 \in DOMAIN channel
  BY <1>1, <1>2, TakenFacts
<1> QED
  BY <1>1, <1>2, <1>3, LenProperties

LEMMA TookShifts ==
  ASSUME channel \in Seq(Messages), channel # <<>>, channel' = Tail(channel),
         NEW t, ~Mentions(Head(channel), t)
  PROVE  Shifted(t, 1)
<1>1. /\ channel[1] = Head(channel)
      /\ \A i \in DOMAIN channel' : i + 1 \in DOMAIN channel /\ channel'[i] = channel[i + 1]
      /\ \A i \in DOMAIN channel : i # 1 => i - 1 \in DOMAIN channel' /\ channel'[i - 1] = channel[i]
  BY TakenFacts
<1> QED
  BY <1>1 DEF Shifted

(* The sessions the message is not of, and the rest of the invariant.      *)
LEMMA TookKeeps ==
  ASSUME StreamInv, NEW kind \in {"event", "changed", "created", "removed", "history"},
         Received(kind), Receive, NEW s \in Sessions, Head(channel).of = s,
         \A t \in Sessions \ {s} : views'[t] = views[t] /\ chain'[t] = chain[t],
         calls' = calls,
         views' \in [Sessions -> {NoView} \cup ViewRecs],
         chain' \in [Sessions -> Seq(Links)],
         SessionFits(s)'
  PROVE  StreamInv'
<1>1. /\ window /\ channel # <<>> /\ Head(channel).kind = kind
      /\ channel \in Seq(Messages) /\ channel' \in Seq(Messages)
      /\ DOMAIN channel \subseteq Nat /\ DOMAIN channel' \subseteq Nat
      /\ channel' = Tail(channel)
      /\ phase' = phase /\ host' = host /\ open' = open /\ last' = last /\ log' = log
      /\ ring' = ring /\ window' = window
      /\ \A t \in Sessions : SessionFits(t)
  BY ReceivedFacts
<1>2. ASSUME NEW t \in Sessions \ {s} PROVE SessionFits(t)'
  <2>1. ~Mentions(Head(channel), t)
    BY <1>1, MutedFacts
  <2>2. Shifted(t, 1)
    BY <1>1, <2>1, TookShifts
  <2>3. SameSession(t)
    BY <1>1 DEF SameSession, SameWindow
  <2> QED
    BY <1>1, <2>2, <2>3, OthersFit
<1>3. StreamTypes'
  BY <1>1 DEF StreamInv, StreamTypes
<1>4. Shut'
  BY <1>1 DEF Shut
<1> QED
  BY <1>2, <1>3, <1>4 DEF StreamInv

(* A chain grows at its end.                                               *)
LEMMA LinkedFacts ==
  ASSUME NEW q \in Seq(Links), NEW l \in Links, NEW r, r = Append(q, l)
  PROVE  /\ r \in Seq(Links) /\ r # <<>>
         /\ \A j \in DOMAIN q : j \in DOMAIN r /\ r[j] = q[j]
         /\ \A j \in DOMAIN r : j \in DOMAIN q \/ r[j] = l
         /\ \E j \in DOMAIN r : r[j] = l
         /\ q # <<>> => Head(r) = Head(q)
         /\ q = <<>> => Head(r) = l
<1>1. /\ r \in Seq(Links) /\ r # <<>> /\ Len(r) = Len(q) + 1 /\ Len(q) \in Nat
      /\ r[Len(q) + 1] = l /\ \A j \in 1..Len(q) : r[j] = q[j]
      /\ DOMAIN q = 1..Len(q) /\ DOMAIN r = 1..Len(r)
  BY LenProperties
<1>2. /\ \A j \in DOMAIN q : j \in DOMAIN r /\ r[j] = q[j]
      /\ \A j \in DOMAIN r : j \in DOMAIN q \/ j = Len(q) + 1
      /\ Len(q) + 1 \in DOMAIN r
  BY <1>1
<1>3. Head(r) = r[1]
  BY <1>1, TakenFacts
<1>4. q # <<>> => 1 \in DOMAIN q /\ q[1] = Head(q)
  BY TakenFacts
<1>5. q = <<>> => Len(q) + 1 = 1
  BY <1>1
<1> QED
  BY <1>1, <1>2, <1>3, <1>4, <1>5

(* The fetches under way, when one is added at the end of the chain.       *)
LEMMA GrownFits ==
  ASSUME NEW s \in Sessions, FetchFits(s), AnswersFit(s),
         channel \in Seq(Messages), channel # <<>>, channel' = Tail(channel),
         ~Is(Head(channel), "history", s),
         calls' = calls, phase'[s] = phase[s], log'[s] = log[s], ring'[s] = ring[s],
         chain[s] \in Seq(Links), NEW l \in Links, ~l.asked,
         chain'[s] \in {chain[s], Append(chain[s], l)},
         s \in Known' /\ s \in Known => LastSeq(views'[s]) = LastSeq(views[s]),
         s \in Known' /\ s \notin Known => chain[s] = <<>>
  PROVE  FetchFits(s)' /\ AnswersFit(s)'
<1>1. /\ channel[1] = Head(channel)
      /\ \A i \in DOMAIN channel' : /\ i \in Nat
                                    /\ i + 1 \in DOMAIN channel /\ channel'[i] = channel[i + 1]
      /\ \A i \in DOMAIN channel : /\ i \in Nat
                                   /\ i # 1 => /\ i - 1 \in DOMAIN channel'
                                               /\ channel'[i - 1] = channel[i]
  BY TakenFacts
<1>2. /\ chain[s] # <<>> => chain'[s] # <<>> /\ Head(chain'[s]) = Head(chain[s])
      /\ chain[s] = <<>> /\ chain'[s] # <<>> => ~Head(chain'[s]).asked
      /\ \A j \in DOMAIN chain'[s] :
           (j \in DOMAIN chain[s] /\ chain'[s][j] = chain[s][j]) \/ ~chain'[s][j].asked
  <2>1. CASE chain'[s] = chain[s]
    BY <2>1
  <2>2. CASE chain'[s] = Append(chain[s], l)
    <3>1. ASSUME NEW j \in DOMAIN chain'[s] PROVE j \in DOMAIN chain[s] \/ chain'[s][j] = l
      BY <2>2, LinkedFacts
    <3>2. chain'[s] # <<>>
      BY <2>2, LinkedFacts
    <3>3. /\ \A j \in DOMAIN chain[s] : j \in DOMAIN chain'[s] /\ chain'[s][j] = chain[s][j]
      BY <2>2, LinkedFacts
    <3>4. /\ chain[s] # <<>> => Head(chain'[s]) = Head(chain[s])
          /\ chain[s] = <<>> => Head(chain'[s]) = l
      BY <2>2, LinkedFacts
    <3> QED
      BY <3>1, <3>3, <3>4, <3>2
  <2> QED
    BY <2>1, <2>2
<1>3. /\ \A i \in DOMAIN channel' : Is(channel'[i], "history", s) =>
           i + 1 \in DOMAIN channel /\ channel'[i] = channel[i + 1]
      /\ \A i \in DOMAIN channel : Is(channel[i], "history", s) =>
           i - 1 \in DOMAIN channel' /\ channel'[i - 1] = channel[i]
  BY <1>1
<1>4. FetchFits(s)'
  <2>1. \A j \in DOMAIN chain'[s] : chain'[s][j].asked => j = 1
    BY <1>2 DEF FetchFits
  <2>2. ASSUME NEW c \in calls, Asking(c, s)
        PROVE  /\ chain'[s] # <<>> /\ Head(chain'[s]).asked
               /\ \A d \in calls : Asking(d, s) => d = c
               /\ \A i \in DOMAIN channel' : ~Is(channel'[i], "history", s)
               /\ s \in Known' => c.since = LastSeq(views'[s])
    BY <2>2, <1>2, <1>3 DEF FetchFits
  <2>3. ASSUME NEW i \in DOMAIN channel', Is(channel'[i], "history", s)
        PROVE  /\ chain'[s] # <<>> /\ Head(chain'[s]).asked
               /\ \A j \in DOMAIN channel' : Is(channel'[j], "history", s) => j = i
    <3>1. /\ i + 1 \in DOMAIN channel /\ Is(channel[i + 1], "history", s)
          /\ \A j \in DOMAIN channel' : Is(channel'[j], "history", s) =>
               j + 1 \in DOMAIN channel /\ Is(channel[j + 1], "history", s)
      BY <2>3, <1>3
    <3>2. \A j \in DOMAIN channel' : Is(channel'[j], "history", s) => j + 1 = i + 1
      BY <3>1 DEF FetchFits
    <3> QED
      BY <3>1, <3>2, <1>1, <1>2 DEF FetchFits
  <2>4. chain'[s] # <<>> /\ Head(chain'[s]).asked =>
          \/ \E c \in calls : Asking(c, s)
          \/ \E i \in DOMAIN channel' : Is(channel'[i], "history", s)
    BY <1>2, <1>3 DEF FetchFits
  <2> QED
    BY <2>1, <2>2, <2>3, <2>4 DEF FetchFits
<1>5. AnswersFit(s)'
  <2> SUFFICES ASSUME NEW i \in DOMAIN channel', Is(channel'[i], "history", s)
               PROVE  /\ phase'[s] # "removed" => channel'[i].ok
                      /\ s \in Known' => \E k \in 0..Len(log'[s]) : AnswerOf(channel[i], s, k)'
    BY DEF AnswersFit
  <2>1. /\ i + 1 \in DOMAIN channel /\ Is(channel[i + 1], "history", s)
        /\ channel'[i] = channel[i + 1] /\ chain[s] # <<>>
    BY <1>3 DEF FetchFits
  <2>2. Head(chain'[s]) = Head(chain[s])
    BY <2>1, <1>2
  <2>3. ASSUME s \in Known' PROVE \E k \in 0..Len(log'[s]) : AnswerOf(channel[i], s, k)'
    <3>1. s \in Known /\ LastSeq(views'[s]) = LastSeq(views[s])
      BY <2>1, <2>3
    <3>2. PICK k \in 0..Len(log[s]) : AnswerOf(channel[i + 1], s, k)
      BY <2>1, <3>1 DEF AnswersFit
    <3>3. AnswerOf(channel[i], s, k)'
      BY <3>1, <3>2, <2>1, <2>2 DEF AnswerOf
    <3> QED
      BY <3>3
  <2>4. phase'[s] # "removed" => channel'[i].ok
    BY <2>1 DEF AnswersFit
  <2> QED
    BY <2>3, <2>4
<1> QED
  BY <1>4, <1>5

LEMMA MergedFacts ==
  ASSUME NEW s, NEW h \in Hosts, views[s] = NoView \/ views[s] \in ViewRecs,
         NEW w, w = Merged(s, h)
  PROVE  /\ w \in ViewRecs /\ w # NoView /\ w.snap = h
         /\ views[s] = NoView => w.applied = {} /\ LastSeq(w) = 0
         /\ views[s] # NoView => w.applied = views[s].applied /\ LastSeq(w) = LastSeq(views[s])
<1>1. CASE views[s] = NoView
  <2>1. w = EmptyView(h)
    BY <1>1 DEF Merged
  <2>2. w \in ViewRecs /\ w # NoView /\ w.snap = h /\ w.applied = {}
    BY <2>1, ViewFacts
  <2> QED
    BY <2>2, <1>1 DEF LastSeq
<1>2. CASE views[s] # NoView
  <2>1. w = [views[s] EXCEPT !.snap = h]
    BY <1>2 DEF Merged
  <2>2. w \in ViewRecs /\ w # NoView /\ w.snap = h /\ w.applied = views[s].applied
    BY <2>1, <1>2, ViewFacts
  <2> QED
    BY <2>2, <1>2 DEF LastSeq
<1> QED
  BY <1>1, <1>2

(* The window is told of a session, and fetches what it lacks.             *)
LEMMA ToldFits ==
  ASSUME StreamTypes, NEW s \in Sessions, SessionFits(s),
         channel # <<>>, channel' = Tail(channel), Tells(Head(channel), s),
         NEW h \in Hosts, h = SnapOf(Head(channel), s),
         ~Is(Head(channel), "event", s), ~Is(Head(channel), "history", s),
         phase' = phase, host' = host, log' = log, ring' = ring, calls' = calls,
         views'[s] = Merged(s, h), chain'[s] \in {chain[s], Append(chain[s], Link(0))},
         views[s] = NoView /\ chain'[s] = chain[s] => Is(Head(channel), "created", s)
  PROVE  SessionFits(s)'
<1> DEFINE v == views[s]
           w == views'[s]
           m == Head(channel)
<1>1. /\ channel[1] = m /\ 1 \in DOMAIN channel
      /\ \A i \in DOMAIN channel' : /\ i \in Nat
                                    /\ i + 1 \in DOMAIN channel /\ channel'[i] = channel[i + 1]
      /\ \A i \in DOMAIN channel : /\ i \in Nat
                                   /\ i # 1 => /\ i - 1 \in DOMAIN channel'
                                               /\ channel'[i - 1] = channel[i]
  <2>1. channel \in Seq(Messages)
    BY DEF StreamTypes
  <2> QED
    BY <2>1, TakenFacts
<1>2. /\ v = NoView \/ v \in ViewRecs
      /\ chain[s] \in Seq(Links) /\ log[s] \in Seq(Entries)
  BY DEF StreamTypes
<1>3. /\ w \in ViewRecs /\ w # NoView /\ w.snap = h
      /\ v = NoView => w.applied = {} /\ LastSeq(w) = 0
      /\ v # NoView => w.applied = v.applied /\ LastSeq(w) = LastSeq(v)
  BY <1>2, MergedFacts
<1>4. s \in Known' /\ (s \in Known <=> v # NoView)
  BY <1>3 DEF Known
<1>5. Link(0) \in Links /\ ~Link(0).asked /\ Link(0).pending = 0
  BY DEF Link, Links
<1> HIDE DEF m, v, w
<1>6. phase[s] \in {"live", "removed"}
  BY <1>1 DEF SessionFits, NotYet, StreamTypes, m
<1>7. phase[s] = "removed" => s \in Known
  BY <1>1 DEF SessionFits, Gone, m
<1>8. s \notin Known => chain[s] = <<>>
  BY <1>6, <1>7 DEF SessionFits, Here
<1>9. /\ RingFits(s)' /\ LogFits(s)' /\ NotYet(s)'
  BY <1>6 DEF SessionFits, RingFits, LogFits, NotYet, Runs
<1>10. FetchFits(s)' /\ AnswersFit(s)'
  <2>1. s \in Known => LastSeq(views'[s]) = LastSeq(views[s])
    BY <1>3, <1>4 DEF v, w
  <2> QED
    BY <2>1, <1>2, <1>5, <1>8, GrownFits DEF SessionFits, StreamTypes
<1>11. /\ \A j \in DOMAIN chain[s] : j \in DOMAIN chain'[s] /\ chain'[s][j] = chain[s][j]
       /\ \A j \in DOMAIN chain'[s] :
            (j \in DOMAIN chain[s] /\ chain'[s][j] = chain[s][j]) \/ chain'[s][j].pending = 0
       /\ chain'[s] # chain[s] =>
            \E j \in DOMAIN chain'[s] : chain'[s][j].pending = 0 /\ ~chain'[s][j].asked
  <2>1. CASE chain'[s] = chain[s]
    BY <2>1
  <2>2. CASE chain'[s] = Append(chain[s], Link(0))
    BY <2>2, <1>2, <1>5, LinkedFacts
  <2> QED
    BY <2>1, <2>2
<1>12. \A i \in DOMAIN channel' : Is(channel'[i], "created", s) => Tells(channel'[i], s)
  BY DEF Tells
<1>13. Here(s)'
  <2> SUFFICES ASSUME phase[s] = "live"
               PROVE  /\ \A j \in DOMAIN channel' : ~Kills(channel'[j], s)
                      /\ \A j \in DOMAIN channel' : ~Is(channel'[j], "created", s)
    BY <1>4 DEF Here
  <2>1. ASSUME NEW j \in DOMAIN channel', Kills(channel'[j], s) PROVE FALSE
    <3>1. j + 1 \in DOMAIN channel /\ Kills(channel[j + 1], s) /\ j + 1 < 1 /\ j \in Nat
      BY <2>1, <1>1 DEF SessionFits, Here, m
    <3>2. j \in DOMAIN channel' /\ channel' \in Seq(Messages)
      BY <1>1, TakenFacts DEF StreamTypes
    <3> QED
      BY <3>1
  <2>2. ASSUME NEW j \in DOMAIN channel', Is(channel'[j], "created", s) PROVE FALSE
    <3>1. j + 1 \in DOMAIN channel /\ Is(channel[j + 1], "created", s) /\ j + 1 <= 1 /\ j \in Nat
      BY <2>2, <1>1 DEF SessionFits, Here, m
    <3>2. j # 0
      <4>1. channel' \in Seq(Messages)
        BY TakenFacts DEF StreamTypes
      <4>2. DOMAIN channel' = 1..Len(channel')
        BY <4>1, LenProperties
      <4> QED
        BY <4>2
    <3> QED
      BY <3>1, <3>2
  <2> QED
    BY <2>1, <2>2
<1>14. Gone(s)'
  <2> SUFFICES ASSUME phase[s] = "removed"
               PROVE  /\ \E j \in DOMAIN channel' : Kills(channel'[j], s)
                      /\ \A i \in DOMAIN channel' : Tells(channel'[i], s) =>
                           \A j \in DOMAIN channel' : Kills(channel'[j], s) => i < j
    BY <1>4 DEF Gone
  <2>1. PICK j \in DOMAIN channel : Kills(channel[j], s) /\ 1 < j
    BY <1>1, <1>7 DEF SessionFits, Gone, m
  <2>2. j # 1 /\ j - 1 \in DOMAIN channel' /\ channel'[j - 1] = channel[j]
    BY <2>1, <1>1
  <2>3. ASSUME NEW i \in DOMAIN channel', Tells(channel'[i], s),
               NEW k \in DOMAIN channel', Kills(channel'[k], s)
        PROVE  i < k
    <3>1. i + 1 < k + 1
      BY <2>3, <1>1 DEF SessionFits, Gone
    <3> QED
      BY <3>1, <1>1
  <2> QED
    BY <2>1, <2>2, <2>3
<1>15. SnapsFit(s)'
  <2> SUFFICES ASSUME phase[s] = "live"
               PROVE  /\ \A i \in DOMAIN channel' :
                           (Tells(channel'[i], s)
                             /\ \A j \in DOMAIN channel' : Tells(channel'[j], s) => j <= i)
                           => SnapOf(channel'[i], s) = host[s]
                      /\ (\A i \in DOMAIN channel' : ~Tells(channel'[i], s)) => h = host[s]
    BY <1>3 DEF SnapsFit, w
  <2>1. ASSUME NEW i \in DOMAIN channel', Tells(channel'[i], s),
               \A j \in DOMAIN channel' : Tells(channel'[j], s) => j <= i
        PROVE  SnapOf(channel'[i], s) = host[s]
    <3>1. i \in Nat /\ i + 1 \in DOMAIN channel /\ channel'[i] = channel[i + 1]
      BY <1>1
    <3>2. ASSUME NEW j \in DOMAIN channel, Tells(channel[j], s) PROVE j <= i + 1
      <4>1. CASE j = 1
        BY <4>1, <3>1
      <4>2. CASE j # 1
        <5>1. j \in Nat /\ j - 1 \in DOMAIN channel' /\ channel'[j - 1] = channel[j]
          BY <4>2, <1>1
        <5>2. j - 1 <= i
          BY <5>1, <3>2, <2>1
        <5> QED
          BY <5>1, <5>2, <3>1
      <4> QED
        BY <4>1, <4>2
    <3> QED
      BY <2>1, <3>1, <3>2 DEF SessionFits, SnapsFit
  <2>2. ASSUME \A i \in DOMAIN channel' : ~Tells(channel'[i], s) PROVE h = host[s]
    <3>1. \A j \in DOMAIN channel : Tells(channel[j], s) => j = 1
      BY <2>2, <1>1
    <3>2. \A j \in DOMAIN channel : Tells(channel[j], s) => j <= 1
      BY <3>1
    <3>3. 1 \in DOMAIN channel /\ Tells(channel[1], s) /\ SnapOf(channel[1], s) = h
      BY <1>1 DEF m
    <3> QED
      BY <3>2, <3>3 DEF SessionFits, SnapsFit
  <2> QED
    BY <2>1, <2>2
<1>16. NumbersFit(s)'
  <2>1. w.applied \subseteq 1..Len(log[s])
    BY <1>3, <1>4 DEF SessionFits, NumbersFit, v
  <2>2. \A j \in DOMAIN chain'[s] : chain'[s][j].pending <= Len(log[s])
    BY <1>2, <1>11, LenProperties DEF SessionFits, NumbersFit
  <2>3. \A i \in DOMAIN channel' : Is(channel'[i], "event", s) =>
          channel'[i].seq \in 1..Len(log[s])
    BY <1>1 DEF SessionFits, NumbersFit
  <2> QED
    BY <2>1, <2>2, <2>3 DEF NumbersFit, w
<1>17. WholeFits(s)'
  <2> SUFFICES ASSUME Cardinality(Words(log[s])) <= RingCap,
                      NEW n \in 1..LastSeq(w), log[s][n].kind # "thinking"
               PROVE  n \in w.applied
    BY DEF WholeFits, IsWhole, w
  <2>1. s \in Known
    BY <1>3, <1>4
  <2> QED
    BY <2>1, <1>3, <1>4 DEF SessionFits, WholeFits, IsWhole, v
<1>18. Delivered(s)'
  <2> SUFFICES ASSUME phase[s] = "live", NEW n \in ring[s]
               PROVE  n <= LastSeq(w) \/ Coming(s, n)'
    BY DEF Delivered, w
  <2>1. CASE s \notin Known
    <3>1. CASE chain'[s] # chain[s]
      BY <3>1, <1>11 DEF Coming
    <3>2. CASE chain'[s] = chain[s]
      <4>1. log[s] = <<>>
        BY <2>1, <3>2, <1>1, <1>4 DEF SessionFits, Here, m, v
      <4>2. ring[s] \subseteq 1..Len(log[s]) /\ Len(log[s]) = 0
        BY <4>1, EmptySeq DEF SessionFits, RingFits
      <4> QED
        BY <4>2
    <3> QED
      BY <3>1, <3>2
  <2>2. CASE s \in Known
    <3>1. n <= LastSeq(v) \/ Coming(s, n)
      BY <2>2 DEF SessionFits, Delivered, v
    <3>2. LastSeq(w) = LastSeq(v)
      BY <2>2, <1>3, <1>4
    <3>3. Coming(s, n) => Coming(s, n)'
      <4>1. ASSUME NEW i \in DOMAIN channel, Is(channel[i], "event", s) /\ n <= channel[i].seq
            PROVE  Coming(s, n)'
        <5>1. i - 1 \in DOMAIN channel' /\ channel'[i - 1] = channel[i]
          BY <4>1, <1>1 DEF m
        <5> QED
          BY <5>1, <4>1 DEF Coming
      <4>2. ASSUME NEW i \in DOMAIN channel, Is(channel[i], "history", s) /\ n \in channel[i].seqs
            PROVE  Coming(s, n)'
        <5>1. i - 1 \in DOMAIN channel' /\ channel'[i - 1] = channel[i]
          BY <4>2, <1>1 DEF m
        <5> QED
          BY <5>1, <4>2 DEF Coming
      <4>3. ASSUME NEW j \in DOMAIN chain[s],
                   n <= chain[s][j].pending \/ (chain[s][j].pending = 0 /\ ~chain[s][j].asked)
            PROVE  Coming(s, n)'
        BY <4>3, <1>11 DEF Coming
      <4>4. ASSUME NEW c \in calls, Asking(c, s) PROVE Coming(s, n)'
        BY <4>4 DEF Coming
      <4> QED
        BY <4>1, <4>2, <4>3, <4>4 DEF Coming
    <3> QED
      BY <3>1, <3>2, <3>3
  <2> QED
    BY <2>1, <2>2
<1> QED
  BY <1>9, <1>10, <1>13, <1>14, <1>15, <1>16, <1>17, <1>18 DEF SessionFits

(* The window is told that a session is no more.                           *)
LEMMA KilledFits ==
  ASSUME StreamTypes, NEW s \in Sessions, SessionFits(s),
         channel # <<>>, channel' = Tail(channel), Kills(Head(channel), s),
         ~Tells(Head(channel), s), ~Is(Head(channel), "event", s),
         ~Is(Head(channel), "history", s),
         phase' = phase, host' = host, log' = log, ring' = ring, calls' = calls,
         window' = window, views'[s] = NoView, chain'[s] = chain[s]
  PROVE  SessionFits(s)'
<1>1. /\ channel[1] = Head(channel) /\ 1 \in DOMAIN channel
      /\ \A i \in DOMAIN channel' : /\ i \in Nat
                                    /\ i + 1 \in DOMAIN channel /\ channel'[i] = channel[i + 1]
      /\ \A i \in DOMAIN channel : /\ i \in Nat
                                   /\ i # 1 => /\ i - 1 \in DOMAIN channel'
                                               /\ channel'[i - 1] = channel[i]
  <2>1. channel \in Seq(Messages)
    BY DEF StreamTypes
  <2> QED
    BY <2>1, TakenFacts
<1>2. s \notin Known'
  BY DEF Known
<1>3. \A i \in DOMAIN channel' : Is(channel'[i], "created", s) => Tells(channel'[i], s)
  BY DEF Tells
<1>4. RingFits(s)' /\ LogFits(s)'
  BY DEF SessionFits, RingFits, LogFits, Runs
<1>5. NotYet(s)'
  BY <1>1, <1>2 DEF SessionFits, NotYet
<1>6. phase[s] = "live" => s \notin Known
  BY <1>1 DEF SessionFits, Here
<1>7. Here(s)'
  <2> SUFFICES ASSUME phase[s] = "live"
               PROVE  /\ \A j \in DOMAIN channel' : Kills(channel'[j], s) =>
                           \A i \in DOMAIN channel' : Tells(channel'[i], s) => j < i
                      /\ chain[s] = <<>>
                      /\ window /\ log[s] # <<>> /\ ListCall \notin calls =>
                           \E i \in DOMAIN channel' : Tells(channel'[i], s)
                      /\ \A i \in DOMAIN channel' : Is(channel'[i], "created", s) =>
                           /\ log[s] = <<>>
                           /\ \A j \in DOMAIN channel' : Tells(channel'[j], s) => i <= j
    BY <1>2 DEF Here
  <2>1. ASSUME NEW j \in DOMAIN channel', Kills(channel'[j], s),
               NEW i \in DOMAIN channel', Tells(channel'[i], s)
        PROVE  j < i
    <3>1. j + 1 < i + 1
      BY <2>1, <1>1 DEF SessionFits, Here
    <3> QED
      BY <3>1, <1>1
  <2>2. ASSUME NEW i \in DOMAIN channel', Is(channel'[i], "created", s)
        PROVE  /\ log[s] = <<>>
               /\ \A j \in DOMAIN channel' : Tells(channel'[j], s) => i <= j
    <3>1. log[s] = <<>> /\ \A j \in DOMAIN channel' : Tells(channel'[j], s) => i + 1 <= j + 1
      BY <2>2, <1>1 DEF SessionFits, Here
    <3> QED
      BY <3>1, <1>1
  <2>3. window /\ log[s] # <<>> /\ ListCall \notin calls =>
          \E i \in DOMAIN channel' : Tells(channel'[i], s)
    BY <1>1, <1>6 DEF SessionFits, Here
  <2> QED
    BY <2>1, <2>2, <2>3, <1>6 DEF SessionFits, Here
<1>8. Gone(s)'
  <2> SUFFICES ASSUME phase[s] = "removed", NEW i \in DOMAIN channel', Tells(channel'[i], s)
               PROVE  FALSE
    BY <1>2 DEF Gone
  <2>1. i \in Nat /\ i + 1 < 1
    BY <1>1 DEF SessionFits, Gone
  <2> QED
    BY <2>1
<1>9. SnapsFit(s)'
  <2> SUFFICES ASSUME phase[s] = "live", NEW i \in DOMAIN channel', Tells(channel'[i], s),
                      \A j \in DOMAIN channel' : Tells(channel'[j], s) => j <= i
               PROVE  SnapOf(channel'[i], s) = host[s]
    BY <1>2 DEF SnapsFit
  <2>1. i \in Nat /\ i + 1 \in DOMAIN channel /\ channel'[i] = channel[i + 1]
    BY <1>1
  <2>2. ASSUME NEW j \in DOMAIN channel, Tells(channel[j], s) PROVE j <= i + 1
    <3>1. j \in Nat /\ j - 1 \in DOMAIN channel' /\ channel'[j - 1] = channel[j]
      BY <2>2, <1>1
    <3>2. j - 1 <= i
      BY <3>1, <2>2
    <3> QED
      BY <3>1, <3>2, <2>1
  <2> QED
    BY <2>1, <2>2 DEF SessionFits, SnapsFit
<1>10. NumbersFit(s)'
  BY <1>1, <1>2 DEF SessionFits, NumbersFit
<1>11. WholeFits(s)' /\ Delivered(s)'
  BY <1>2 DEF WholeFits, Delivered
<1>12. FetchFits(s)' /\ AnswersFit(s)'
  <2>1. Link(0) \in Links /\ ~Link(0).asked
    BY DEF Link, Links
  <2> QED
    BY <2>1, <1>2, GrownFits DEF SessionFits, StreamTypes
<1> QED
  BY <1>4, <1>5, <1>7, <1>8, <1>9, <1>10, <1>11, <1>12 DEF SessionFits

(* onSessionChanged, removeView, and the replies to create and refresh.    *)
LEMMA NewsKeep ==
  ASSUME StreamInv, OnChanged \/ OnCreated \/ OnRemoved \/ OnListed
  PROVE  StreamInv'
<1> DEFINE m == Head(channel)
<1>1. StreamTypes /\ Shut /\ \A s \in Sessions : SessionFits(s)
  BY DEF StreamInv
<1>2. views \in [Sessions -> {NoView} \cup ViewRecs] /\ chain \in [Sessions -> Seq(Links)]
  BY <1>1 DEF StreamTypes
<1>3. Link(0) \in Links /\ \A s \in Sessions : Append(chain[s], Link(0)) \in Seq(Links)
  <2>1. Link(0) \in Links
    BY DEF Link, Links
  <2> QED
    BY <2>1, <1>2, LinkedFacts
<1>4. \A s \in Sessions : \A h \in Hosts : Merged(s, h) \in ViewRecs
  BY <1>2, MergedFacts
<1>5. CASE OnChanged
  <2>1. /\ Received("changed") /\ Receive /\ calls' = calls
        /\ views' = [views EXCEPT ![m.of] = Merged(m.of, m.snap)]
        /\ chain' = [chain EXCEPT ![m.of] = FetchedWhenNew(m.of)]
    BY <1>5 DEF OnChanged
  <2>2. /\ channel # <<>> /\ m.kind = "changed" /\ m \in Messages /\ channel' = Tail(channel)
        /\ phase' = phase /\ host' = host /\ log' = log /\ ring' = ring /\ window' = window
    BY <2>1, ReceivedFacts
  <2> HIDE DEF m
  <2>3. PICK s \in Sessions : s = m.of /\ m.snap \in Hosts
    BY <2>2, MessageFacts
  <2>4. /\ Tells(m, s) /\ SnapOf(m, s) = m.snap
        /\ ~Is(m, "event", s) /\ ~Is(m, "history", s)
    BY <2>2, <2>3, KindFacts
  <2>5. /\ FetchedWhenNew(s) \in {chain[s], Append(chain[s], Link(0))}
        /\ views[s] = NoView => FetchedWhenNew(s) = Append(chain[s], Link(0))
        /\ chain[s] # Append(chain[s], Link(0))
    <3>1. Append(chain[s], Link(0)) # chain[s]
      <4>1. chain[s] \in Seq(Links)
        BY <1>2, <2>3
      <4>2. Len(Append(chain[s], Link(0))) = Len(chain[s]) + 1 /\ Len(chain[s]) \in Nat
        BY <4>1, <1>3
      <4> QED
        BY <4>2
    <3> QED
      BY <3>1 DEF FetchedWhenNew
  <2>6. /\ views' \in [Sessions -> {NoView} \cup ViewRecs] /\ views'[s] = Merged(s, m.snap)
        /\ \A t \in Sessions \ {s} : views'[t] = views[t]
    BY <1>2, <1>4, <2>1, <2>3
  <2>7. /\ chain' \in [Sessions -> Seq(Links)] /\ chain'[s] = FetchedWhenNew(s)
        /\ \A t \in Sessions \ {s} : chain'[t] = chain[t]
    BY <1>2, <1>3, <2>1, <2>3, <2>5
  <2>8. SessionFits(s)'
    BY <1>1, <2>1, <2>2, <2>3, <2>4, <2>5, <2>6, <2>7, ToldFits DEF m
  <2> QED
    BY <2>1, <2>3, <2>6, <2>7, <2>8, TookKeeps DEF m
<1>6. CASE OnCreated
  <2>1. /\ Received("created") /\ Receive /\ calls' = calls /\ chain' = chain
        /\ views' = [views EXCEPT ![m.of] = Merged(m.of, m.snap)]
    BY <1>6 DEF OnCreated
  <2>2. /\ channel # <<>> /\ m.kind = "created" /\ m \in Messages /\ channel' = Tail(channel)
        /\ phase' = phase /\ host' = host /\ log' = log /\ ring' = ring /\ window' = window
    BY <2>1, ReceivedFacts
  <2> HIDE DEF m
  <2>3. PICK s \in Sessions : s = m.of /\ m.snap \in Hosts
    BY <2>2, MessageFacts
  <2>4. /\ Tells(m, s) /\ SnapOf(m, s) = m.snap /\ Is(m, "created", s)
        /\ ~Is(m, "event", s) /\ ~Is(m, "history", s)
    BY <2>2, <2>3, KindFacts
  <2>5. /\ views' \in [Sessions -> {NoView} \cup ViewRecs] /\ views'[s] = Merged(s, m.snap)
        /\ \A t \in Sessions \ {s} : views'[t] = views[t]
    BY <1>2, <1>4, <2>1, <2>3
  <2>6. SessionFits(s)'
    BY <1>1, <2>1, <2>2, <2>3, <2>4, <2>5, ToldFits DEF m
  <2> QED
    BY <1>2, <2>1, <2>3, <2>5, <2>6, TookKeeps DEF m
<1>7. CASE OnRemoved
  <2>1. /\ Received("removed") /\ Receive /\ calls' = calls /\ chain' = chain
        /\ views' = [views EXCEPT ![m.of] = NoView]
    BY <1>7 DEF OnRemoved
  <2>2. /\ channel # <<>> /\ m.kind = "removed" /\ m \in Messages /\ channel' = Tail(channel)
        /\ phase' = phase /\ host' = host /\ log' = log /\ ring' = ring /\ window' = window
    BY <2>1, ReceivedFacts
  <2> HIDE DEF m
  <2>3. PICK s \in Sessions : s = m.of
    BY <2>2, MessageFacts
  <2>4. /\ Kills(m, s) /\ ~Tells(m, s)
        /\ ~Is(m, "event", s) /\ ~Is(m, "history", s)
    BY <2>2, <2>3, KindFacts
  <2>5. /\ views' \in [Sessions -> {NoView} \cup ViewRecs] /\ views'[s] = NoView
        /\ \A t \in Sessions \ {s} : views'[t] = views[t]
    BY <1>2, <2>1, <2>3
  <2>6. SessionFits(s)'
    BY <1>1, <2>1, <2>2, <2>3, <2>4, <2>5, KilledFits DEF m
  <2> QED
    BY <1>2, <2>1, <2>3, <2>5, <2>6, TookKeeps DEF m
<1>8. CASE OnListed
  <2>1. /\ Received("listed") /\ Receive /\ calls' = calls
        /\ views' = [s \in Sessions |->
                       IF s \in DOMAIN m.snaps THEN Merged(s, m.snaps[s]) ELSE NoView]
        /\ chain' = [s \in Sessions |->
                       IF s \in DOMAIN m.snaps THEN FetchedWhenListed(s) ELSE chain[s]]
    BY <1>8 DEF OnListed
  <2>2. /\ window /\ channel # <<>> /\ m.kind = "listed" /\ m \in Messages
        /\ channel' = Tail(channel) /\ channel' \in Seq(Messages)
        /\ phase' = phase /\ host' = host /\ open' = open /\ last' = last /\ log' = log
        /\ ring' = ring /\ window' = window
    BY <2>1, ReceivedFacts
  <2> HIDE DEF m
  <2>3. DOMAIN m.snaps \subseteq Sessions /\ \A s \in DOMAIN m.snaps : m.snaps[s] \in Hosts
    BY <2>2, MessageFacts
  <2>4. ASSUME NEW s \in Sessions PROVE SessionFits(s)'
    <3>1. ~Is(m, "event", s) /\ ~Is(m, "history", s)
      BY <2>2, KindFacts
    <3>2. CASE s \in DOMAIN m.snaps
      <4>1. Tells(m, s) /\ SnapOf(m, s) = m.snaps[s] /\ m.snaps[s] \in Hosts
        BY <3>2, <2>2, <2>3, KindFacts
      <4>2. views'[s] = Merged(s, m.snaps[s]) /\ chain'[s] = Append(chain[s], Link(0))
        BY <3>2, <2>1 DEF FetchedWhenListed
      <4>3. chain'[s] # chain[s]
        <5>1. chain[s] \in Seq(Links)
          BY <1>2
        <5>2. Len(Append(chain[s], Link(0))) = Len(chain[s]) + 1 /\ Len(chain[s]) \in Nat
          BY <5>1, <1>3
        <5> QED
          BY <5>2, <4>2
      <4> QED
        BY <1>1, <2>1, <2>2, <3>1, <4>1, <4>2, <4>3, ToldFits DEF m
    <3>3. CASE s \notin DOMAIN m.snaps
      <4>1. Kills(m, s) /\ ~Tells(m, s)
        BY <3>3, <2>2, KindFacts
      <4>2. views'[s] = NoView /\ chain'[s] = chain[s]
        BY <3>3, <2>1
      <4> QED
        BY <1>1, <2>1, <2>2, <3>1, <4>1, <4>2, KilledFits DEF m
    <3> QED
      BY <3>2, <3>3
  <2>5. StreamTypes'
    <3>1. views' \in [Sessions -> {NoView} \cup ViewRecs]
      BY <1>4, <2>1, <2>3
    <3>2. chain' \in [Sessions -> Seq(Links)]
      BY <1>2, <1>3, <2>1 DEF FetchedWhenListed
    <3> QED
      BY <3>1, <3>2, <1>1, <2>1, <2>2 DEF StreamTypes
  <2>6. Shut'
    BY <2>2 DEF Shut
  <2> QED
    BY <2>4, <2>5, <2>6 DEF StreamInv
<1> QED
  BY <1>5, <1>6, <1>7, <1>8

(* An envelope, or a history, is applied, or waits for its turn.  What the *)
(* message is not about stays as it was.                                   *)
LEMMA AppliedFits ==
  ASSUME StreamTypes, NEW s \in Sessions, SessionFits(s),
         channel # <<>>, channel' = Tail(channel),
         ~Tells(Head(channel), s), ~Kills(Head(channel), s),
         phase' = phase, host' = host, log' = log, ring' = ring, calls' = calls,
         window' = window,
         s \in Known' <=> s \in Known,
         s \in Known => /\ views'[s].snap = views[s].snap
                        /\ views'[s].applied \subseteq 1..Len(log[s]),
         phase[s] \in {"live", "removed"} \/ chain'[s] = chain[s],
         phase[s] = "live" /\ s \notin Known => chain'[s] = chain[s],
         \A j \in DOMAIN chain'[s] : chain'[s][j].pending <= Len(log[s]),
         WholeFits(s)', FetchFits(s)', AnswersFit(s)', Delivered(s)'
  PROVE  SessionFits(s)'
<1>1. /\ channel[1] = Head(channel) /\ 1 \in DOMAIN channel
      /\ \A i \in DOMAIN channel' : /\ i \in Nat
                                    /\ i + 1 \in DOMAIN channel /\ channel'[i] = channel[i + 1]
      /\ \A i \in DOMAIN channel : /\ i \in Nat
                                   /\ i # 1 => /\ i - 1 \in DOMAIN channel'
                                               /\ channel'[i - 1] = channel[i]
  <2>1. channel \in Seq(Messages)
    BY DEF StreamTypes
  <2> QED
    BY <2>1, TakenFacts
<1>2. ~Is(Head(channel), "created", s)
  BY DEF Tells
<1>3. /\ \A i \in DOMAIN channel' :
           (Tells(channel'[i], s) \/ Kills(channel'[i], s) \/ Is(channel'[i], "created", s)) =>
             i \in Nat /\ i + 1 \in DOMAIN channel /\ channel[i + 1] = channel'[i]
      /\ \A i \in DOMAIN channel :
           (Tells(channel[i], s) \/ Kills(channel[i], s) \/ Is(channel[i], "created", s)) =>
             i \in Nat /\ i - 1 \in DOMAIN channel' /\ channel'[i - 1] = channel[i]
  BY <1>1, <1>2
<1>4. RingFits(s)' /\ LogFits(s)'
  BY DEF SessionFits, RingFits, LogFits, Runs
<1>5. NotYet(s)'
  BY <1>3 DEF SessionFits, NotYet
<1>6. Here(s)'
  BY <1>3 DEF SessionFits, Here
<1>7. Gone(s)'
  BY <1>3 DEF SessionFits, Gone
<1>8. SnapsFit(s)'
  <2>1. ASSUME phase[s] = "live", NEW i \in DOMAIN channel', Tells(channel'[i], s),
               \A j \in DOMAIN channel' : Tells(channel'[j], s) => j <= i
        PROVE  SnapOf(channel'[i], s) = host[s]
    <3>1. i \in Nat /\ i + 1 \in DOMAIN channel /\ channel'[i] = channel[i + 1]
      BY <1>1
    <3>2. ASSUME NEW j \in DOMAIN channel, Tells(channel[j], s) PROVE j <= i + 1
      <4>1. j \in Nat /\ j - 1 \in DOMAIN channel' /\ channel'[j - 1] = channel[j]
        BY <3>2, <1>3
      <4>2. j - 1 <= i
        BY <4>1, <2>1, <3>2
      <4> QED
        BY <4>1, <4>2, <3>1
    <3> QED
      BY <2>1, <3>1, <3>2 DEF SessionFits, SnapsFit
  <2>2. ASSUME phase[s] = "live", s \in Known,
               \A i \in DOMAIN channel' : ~Tells(channel'[i], s)
        PROVE  views'[s].snap = host[s]
    <3>1. \A i \in DOMAIN channel : ~Tells(channel[i], s)
      BY <2>2, <1>3
    <3> QED
      BY <2>2, <3>1 DEF SessionFits, SnapsFit
  <2> QED
    BY <2>1, <2>2 DEF SnapsFit
<1>9. NumbersFit(s)'
  BY <1>1 DEF SessionFits, NumbersFit
<1> QED
  BY <1>4, <1>5, <1>6, <1>7, <1>8, <1>9 DEF SessionFits

LEMMA EnvelopeKeeps ==
  ASSUME StreamInv, OnEnvelope
  PROVE  StreamInv'
<1> DEFINE m == Head(channel)
<1>1. StreamTypes /\ \A t \in Sessions : SessionFits(t)
  BY DEF StreamInv
<1>2. Received("event") /\ Receive /\ calls' = calls
  BY DEF OnEnvelope
<1>3. /\ channel # <<>> /\ m.kind = "event" /\ m \in Messages /\ channel' = Tail(channel)
      /\ channel \in Seq(Messages) /\ channel[1] = m /\ 1 \in DOMAIN channel
      /\ phase' = phase /\ host' = host /\ log' = log /\ ring' = ring /\ window' = window
  BY <1>2, ReceivedFacts
<1> HIDE DEF m
<1>4. PICK s \in Sessions, n \in Nat : s = m.of /\ n = m.seq
  BY <1>3, MessageFacts
<1> DEFINE v == views[s]
           w == views'[s]
           q == chain[s]
<1>5. /\ Is(m, "event", s) /\ ~Is(m, "history", s) /\ ~Tells(m, s) /\ ~Kills(m, s)
  BY <1>3, <1>4, KindFacts
<1>6. /\ n \in 1..Len(log[s]) /\ Len(log[s]) \in Nat
      /\ ring[s] \subseteq Nat
  BY <1>1, <1>3, <1>4, <1>5, LenProperties DEF SessionFits, NumbersFit, StreamTypes
<1>7. /\ s \in Known <=> v # NoView
      /\ q \in Seq(Links)
      /\ v # NoView => /\ v \in ViewRecs /\ v.applied \subseteq 1..Len(log[s])
                       /\ LastSeq(v) \in 0..Len(log[s])
  BY <1>1, <1>4, <1>6, LastFacts DEF StreamTypes, SessionFits, NumbersFit, Known
<1>8. Link(n) \in Links /\ ~Link(n).asked /\ Link(n).pending = n
  BY <1>4 DEF Link, Links
<1>9. \/ /\ v = NoView \/ (v # NoView /\ n <= LastSeq(v))
         /\ views' = views /\ chain' = chain
      \/ /\ v # NoView /\ n > LastSeq(v) /\ n = LastSeq(v) + 1 /\ q = <<>>
         /\ views' = [views EXCEPT ![s] = ApplyAll(v, {n})] /\ chain' = chain
      \/ /\ v # NoView /\ n > LastSeq(v)
         /\ chain' = [chain EXCEPT ![s] = Append(q, Link(n))] /\ views' = views
  <2>1. v # NoView => n <= LastSeq(v) \/ n > LastSeq(v)
    BY <1>4, <1>6, <1>7
  <2>2. CASE v = NoView \/ (v # NoView /\ n <= LastSeq(v))
    <3>1. UNCHANGED renderer
      <4>1. v = NoView \/ (v # NoView /\ n <= LastSeq(v) /\ ~(n > LastSeq(v)))
        BY <2>2, <1>4, <1>6, <1>7
      <4> QED
        BY <4>1, <1>4 DEF OnEnvelope, m
    <3> QED
      BY <2>2, <3>1 DEF renderer
  <2>3. CASE v # NoView /\ n > LastSeq(v) /\ IsNext(s, n)
    <3>1. ~(n <= LastSeq(v))
      BY <2>3, <1>4, <1>6, <1>7
    <3>2. views' = [views EXCEPT ![s] = ApplyAll(v, {n})] /\ chain' = chain
      BY <2>3, <3>1, <1>4 DEF OnEnvelope, m
    <3> QED
      BY <2>3, <3>2 DEF IsNext
  <2>4. CASE v # NoView /\ n > LastSeq(v) /\ ~IsNext(s, n)
    <3>1. ~(n <= LastSeq(v))
      BY <2>4, <1>4, <1>6, <1>7
    <3>2. chain' = [chain EXCEPT ![s] = Append(q, Link(n))] /\ views' = views
      BY <2>4, <3>1, <1>4 DEF OnEnvelope, m
    <3> QED
      BY <2>4, <3>2
  <2> QED
    BY <2>1, <2>2, <2>3, <2>4
<1>10. /\ views' \in [Sessions -> {NoView} \cup ViewRecs]
       /\ chain' \in [Sessions -> Seq(Links)]
       /\ \A t \in Sessions \ {s} : views'[t] = views[t] /\ chain'[t] = chain[t]
       /\ \/ w = v /\ chain'[s] = q /\ (v = NoView \/ n <= LastSeq(v))
          \/ w = v /\ chain'[s] = Append(q, Link(n)) /\ v # NoView
          \/ /\ v # NoView /\ n = LastSeq(v) + 1 /\ q = <<>> /\ chain'[s] = q
             /\ w # NoView /\ w.snap = v.snap /\ w.applied \subseteq 1..Len(log[s])
             /\ w.applied = v.applied \cup {k \in {n} : LastSeq(v) < k}
             /\ LastSeq(v) <= LastSeq(w) /\ n <= LastSeq(w) /\ LastSeq(w) \in Nat
             /\ (LastSeq(w) = LastSeq(v) \/ LastSeq(w) = n)
  <2>1. CASE views' = views /\ chain' = chain /\ (v = NoView \/ n <= LastSeq(v))
    BY <2>1, <1>1 DEF StreamTypes
  <2>2. CASE /\ v # NoView /\ n = LastSeq(v) + 1 /\ q = <<>>
             /\ views' = [views EXCEPT ![s] = ApplyAll(v, {n})] /\ chain' = chain
    <3>1. w = ApplyAll(v, {n})
      BY <2>2, <1>1, <1>4 DEF StreamTypes
    <3>2. {n} \subseteq 1..Len(log[s])
      BY <1>6
    <3>3. /\ w \in ViewRecs /\ w.snap = v.snap /\ w.applied \subseteq 1..Len(log[s])
          /\ w.applied = v.applied \cup {k \in {n} : LastSeq(v) < k}
          /\ LastSeq(v) <= LastSeq(w) /\ \A k \in {n} : k <= LastSeq(w)
          /\ LastSeq(w) = LastSeq(v) \/ LastSeq(w) \in {n}
      BY <3>1, <3>2, <2>2, <1>6, <1>7, ApplyFacts
    <3>4. w # NoView
      BY <3>3, ViewFacts
    <3>5. views' \in [Sessions -> {NoView} \cup ViewRecs]
          /\ \A t \in Sessions \ {s} : views'[t] = views[t]
      BY <2>2, <3>1, <3>3, <1>1 DEF StreamTypes
    <3>6. chain' \in [Sessions -> Seq(Links)] /\ chain'[s] = q
      BY <2>2, <1>1 DEF StreamTypes
    <3>7. LastSeq(w) \in Nat /\ LastSeq(v) <= LastSeq(w) /\ n <= LastSeq(w)
      <4>1. LastSeq(w) \in 0..Len(log[s])
        BY <3>3, <1>6, LastFacts
      <4> QED
        BY <4>1, <3>3, <1>6
    <3> HIDE DEF w
    <3> QED
      BY <2>2, <3>3, <3>4, <3>5, <3>6, <3>7
  <2>3. CASE v # NoView /\ chain' = [chain EXCEPT ![s] = Append(q, Link(n))] /\ views' = views
    <3>1. Append(q, Link(n)) \in Seq(Links)
      BY <1>7, <1>8, LinkedFacts
    <3> QED
      BY <2>3, <3>1, <1>1, <1>4 DEF StreamTypes
  <2> QED
    BY <1>9, <2>1, <2>2, <2>3
<1> HIDE DEF w
<1>11. s \in Known' <=> s \in Known
  <2>1. s \in Known' <=> w # NoView
    BY <1>4 DEF Known, w
  <2> QED
    BY <2>1, <1>7, <1>10
<1>12. /\ \A j \in DOMAIN q : j \in DOMAIN chain'[s] /\ chain'[s][j] = q[j]
       /\ \A j \in DOMAIN chain'[s] :
            (j \in DOMAIN q /\ chain'[s][j] = q[j]) \/ chain'[s][j].pending = n
       /\ chain'[s] = Append(q, Link(n)) => \E j \in DOMAIN chain'[s] : chain'[s][j].pending = n
  <2>1. CASE chain'[s] = Append(q, Link(n))
    <3>1. /\ \A j \in DOMAIN q : j \in DOMAIN chain'[s] /\ chain'[s][j] = q[j]
          /\ \A j \in DOMAIN chain'[s] : j \in DOMAIN q \/ chain'[s][j] = Link(n)
          /\ \E j \in DOMAIN chain'[s] : chain'[s][j] = Link(n)
      BY <2>1, <1>7, <1>8, LinkedFacts
    <3> QED
      BY <3>1, <1>8
  <2>2. CASE chain'[s] = q /\ chain'[s] # Append(q, Link(n))
    BY <2>2
  <2> QED
    BY <2>1, <2>2, <1>10
<1>13. \A j \in DOMAIN chain'[s] : chain'[s][j].pending <= Len(log[s])
  <2>1. \A j \in DOMAIN q : q[j].pending <= Len(log[s])
    BY <1>1, <1>4 DEF SessionFits, NumbersFit
  <2> QED
    BY <2>1, <1>6, <1>12
<1>14. WholeFits(s)'
  <2> SUFFICES ASSUME s \in Known, Cardinality(Words(log[s])) <= RingCap,
                      NEW k \in 1..LastSeq(w), log[s][k].kind # "thinking"
               PROVE  k \in w.applied
    BY <1>3, <1>11 DEF WholeFits, IsWhole, w
  <2>1. IsWhole(s)
    BY <1>1, <1>4 DEF SessionFits, WholeFits
  <2>2. k \in 1..LastSeq(v) => k \in v.applied
    BY <2>1 DEF IsWhole
  <2>3. CASE w = v
    BY <2>2, <2>3
  <2>4. CASE w # v
    <3>1. /\ n = LastSeq(v) + 1 /\ (LastSeq(w) = LastSeq(v) \/ LastSeq(w) = n)
          /\ w.applied = v.applied \cup {j \in {n} : LastSeq(v) < j}
          /\ LastSeq(v) \in Nat
      BY <2>4, <1>6, <1>7, <1>10
    <3>2. k \in 1..LastSeq(v) \/ (k = n /\ LastSeq(v) < n)
      BY <3>1, <1>4
    <3> QED
      BY <2>2, <3>1, <3>2
  <2> QED
    BY <2>3, <2>4
<1>15. FetchFits(s)' /\ AnswersFit(s)'
  <2>1. CASE w = v
    <3>1. views'[s] = views[s]
      BY <2>1 DEF w
    <3>2. chain'[s] \in {chain[s], Append(chain[s], Link(n))}
      BY <1>10
    <3>3. SessionFits(s) /\ chain[s] \in Seq(Links)
      BY <1>1, <1>4, <1>7
    <3> QED
      BY <3>1, <3>2, <3>3, <1>2, <1>3, <1>4, <1>5, <1>8, <1>11, GrownFits DEF SessionFits, m
  <2>2. CASE w # v
    <3>1. q = <<>> /\ chain'[s] = <<>>
      BY <2>2, <1>10
    <3>2. /\ \A c \in calls : ~Asking(c, s)
          /\ \A i \in DOMAIN channel : ~Is(channel[i], "history", s)
      BY <3>1, <1>1, <1>4 DEF SessionFits, FetchFits
    <3>3. \A i \in DOMAIN channel' : i + 1 \in DOMAIN channel /\ channel'[i] = channel[i + 1]
      BY <1>3, TakenFacts
    <3>4. \A i \in DOMAIN channel' : ~Is(channel'[i], "history", s)
      BY <3>2, <3>3
    <3>5. DOMAIN chain'[s] = {}
      BY <3>1, EmptySeq
    <3> QED
      BY <3>1, <3>2, <3>4, <3>5, <1>2 DEF FetchFits, AnswersFit
  <2> QED
    BY <2>1, <2>2
<1>16. Delivered(s)'
  <2> SUFFICES ASSUME phase[s] = "live", s \in Known, NEW k \in ring[s]
               PROVE  k <= LastSeq(w) \/ Coming(s, k)'
    BY <1>3, <1>11 DEF Delivered, w
  <2>1. k <= LastSeq(v) \/ Coming(s, k)
    BY <1>1, <1>4 DEF SessionFits, Delivered
  <2>2. k \in Nat /\ LastSeq(v) \in Nat /\ LastSeq(w) \in Nat /\ LastSeq(v) <= LastSeq(w)
    <3>1. LastSeq(v) \in Nat
      BY <1>6, <1>7
    <3> QED
      BY <3>1, <1>4, <1>6, <1>7, <1>10
  <2>3. CASE k <= LastSeq(v)
    BY <2>2, <2>3
  <2>4. k <= n => k <= LastSeq(w) \/ Coming(s, k)'
    <3>1. n <= LastSeq(w) \/ chain'[s] = Append(q, Link(n))
      BY <1>7, <1>10
    <3>2. k <= n /\ n <= LastSeq(w) => k <= LastSeq(w)
      BY <1>4, <2>2
    <3>3. k <= n /\ chain'[s] = Append(q, Link(n)) => Coming(s, k)'
      BY <1>12 DEF Coming
    <3> QED
      BY <3>1, <3>2, <3>3
  <2>5. \A i \in DOMAIN channel : i # 1 => i - 1 \in DOMAIN channel' /\ channel'[i - 1] = channel[i]
    BY <1>3, TakenFacts
  <2>6. ASSUME NEW i \in DOMAIN channel, Is(channel[i], "event", s) /\ k <= channel[i].seq
        PROVE  k <= LastSeq(w) \/ Coming(s, k)'
    <3>1. CASE i = 1
      BY <3>1, <2>4, <2>6, <1>3, <1>4
    <3>2. CASE i # 1
      BY <3>2, <2>5, <2>6 DEF Coming
    <3> QED
      BY <3>1, <3>2
  <2>7. ASSUME NEW i \in DOMAIN channel, Is(channel[i], "history", s) /\ k \in channel[i].seqs
        PROVE  Coming(s, k)'
    <3>1. i - 1 \in DOMAIN channel' /\ channel'[i - 1] = channel[i]
      BY <2>5, <2>7, <1>3, <1>5
    <3> QED
      BY <3>1, <2>7 DEF Coming
  <2>8. ASSUME NEW j \in DOMAIN q,
               k <= q[j].pending \/ (q[j].pending = 0 /\ ~q[j].asked)
        PROVE  Coming(s, k)'
    BY <2>8, <1>12 DEF Coming
  <2>9. ASSUME NEW c \in calls, Asking(c, s) PROVE Coming(s, k)'
    BY <2>9, <1>2 DEF Coming
  <2> QED
    BY <2>1, <2>3, <2>6, <2>7, <2>8, <2>9 DEF Coming
<1>17. SessionFits(s)'
  <2>1. s \in Known => views'[s].snap = views[s].snap /\ views'[s].applied \subseteq 1..Len(log[s])
    BY <1>7, <1>10 DEF w
  <2>2. s \notin Known => chain'[s] = chain[s]
    BY <1>7, <1>10
  <2>3. phase[s] \in {"live", "removed"} \/ chain'[s] = chain[s]
    <3>1. s \in Known => phase[s] \in {"live", "removed"}
      BY <1>1, <1>4 DEF SessionFits, NotYet, StreamTypes
    <3> QED
      BY <3>1, <2>2
  <2> QED
    BY <2>1, <2>2, <2>3, <1>1, <1>2, <1>3, <1>4, <1>5, <1>11, <1>13, <1>14, <1>15, <1>16,
       AppliedFits DEF m
<1> QED
  BY <1>2, <1>4, <1>10, <1>17, TookKeeps DEF m

LEMMA AnswerKeeps ==
  ASSUME StreamInv, OnHistory
  PROVE  StreamInv'
<1> DEFINE m == Head(channel)
<1>1. StreamTypes /\ \A t \in Sessions : SessionFits(t)
  BY DEF StreamInv
<1>2. /\ Received("history") /\ Receive /\ calls' = calls
      /\ views' = IF m.ok /\ views[m.of] # NoView
                  THEN [views EXCEPT ![m.of] = ApplyAll(ApplyAll(views[m.of], m.seqs),
                                                        {Head(chain[m.of]).pending} \ {0})]
                  ELSE views
      /\ chain' = [chain EXCEPT ![m.of] = Tail(chain[m.of])]
  BY DEF OnHistory, FetchOver
<1>3. /\ channel # <<>> /\ m.kind = "history" /\ m \in Messages /\ channel' = Tail(channel)
      /\ channel \in Seq(Messages) /\ channel[1] = m /\ 1 \in DOMAIN channel
      /\ phase' = phase /\ host' = host /\ log' = log /\ ring' = ring /\ window' = window
  BY <1>2, ReceivedFacts
<1> HIDE DEF m
<1>4. PICK s \in Sessions : s = m.of /\ m.seqs \subseteq Nat
  BY <1>3, MessageFacts
<1> DEFINE v == views[s]
           w == views'[s]
           q == chain[s]
           p == Head(q).pending
           pending == {p} \ {0}
<1>5. /\ Is(m, "history", s) /\ ~Is(m, "event", s) /\ ~Tells(m, s) /\ ~Kills(m, s)
  BY <1>3, <1>4, KindFacts
<1>6. Len(log[s]) \in Nat /\ ring[s] \subseteq Nat /\ ring[s] \subseteq 1..Len(log[s])
  BY <1>1, <1>4, LenProperties DEF SessionFits, RingFits, StreamTypes
<1>7. /\ s \in Known <=> v # NoView
      /\ q \in Seq(Links)
      /\ v # NoView => /\ v \in ViewRecs /\ v.applied \subseteq 1..Len(log[s])
                       /\ LastSeq(v) \in 0..Len(log[s])
  BY <1>1, <1>4, <1>6, LastFacts DEF StreamTypes, SessionFits, NumbersFit, Known
<1>8. /\ q # <<>> /\ Head(q).asked
      /\ \A c \in calls : ~Asking(c, s)
      /\ \A i \in DOMAIN channel : Is(channel[i], "history", s) => i = 1
      /\ \A j \in DOMAIN q : q[j].asked => j = 1
  BY <1>1, <1>3, <1>4, <1>5 DEF SessionFits, FetchFits
<1>9. /\ Tail(q) \in Seq(Links) /\ Head(q) \in Links /\ q[1] = Head(q) /\ 1 \in DOMAIN q
      /\ \A j \in DOMAIN Tail(q) : j \in Nat /\ j + 1 \in DOMAIN q /\ Tail(q)[j] = q[j + 1]
      /\ \A j \in DOMAIN q : j \in Nat /\ (j # 1 => j - 1 \in DOMAIN Tail(q)
                                                     /\ Tail(q)[j - 1] = q[j])
  BY <1>7, <1>8, TakenFacts
<1>10. p \in Nat /\ p <= Len(log[s])
  BY <1>1, <1>4, <1>9 DEF SessionFits, NumbersFit, Links
<1>11. phase[s] \in {"live", "removed"} /\ (phase[s] = "live" => s \in Known /\ m.ok)
  BY <1>1, <1>3, <1>4, <1>5, <1>8 DEF SessionFits, NotYet, Here, AnswersFit, StreamTypes
<1>12. /\ \A i \in DOMAIN channel' : i \in Nat /\ i + 1 \in DOMAIN channel
                                     /\ channel'[i] = channel[i + 1]
       /\ \A i \in DOMAIN channel : i # 1 => i - 1 \in DOMAIN channel'
                                             /\ channel'[i - 1] = channel[i]
  BY <1>3, TakenFacts
<1>13. \A i \in DOMAIN channel' : ~Is(channel'[i], "history", s)
  <2> SUFFICES ASSUME NEW i \in DOMAIN channel', Is(channel'[i], "history", s) PROVE FALSE
    OBVIOUS
  <2>1. i \in Nat /\ i + 1 = 1
    BY <1>8, <1>12
  <2>2. DOMAIN channel' = 1..Len(channel')
    BY <1>3, TakenFacts, LenProperties
  <2> QED
    BY <2>1, <2>2
<1>14. chain' \in [Sessions -> Seq(Links)] /\ chain'[s] = Tail(q)
       /\ \A t \in Sessions \ {s} : chain'[t] = chain[t]
  BY <1>1, <1>2, <1>4, <1>9 DEF StreamTypes
<1>15. /\ views' \in [Sessions -> {NoView} \cup ViewRecs]
       /\ \A t \in Sessions \ {s} : views'[t] = views[t]
       /\ s \in Known' <=> s \in Known
       /\ s \in Known => w.snap = v.snap /\ w.applied \subseteq 1..Len(log[s])
       /\ \/ w = v /\ phase[s] # "live"
          \/ /\ s \in Known /\ LastSeq(w) \in Nat /\ LastSeq(v) <= LastSeq(w) /\ p <= LastSeq(w)
             /\ v.applied \subseteq w.applied
             /\ \A n \in m.seqs : n <= LastSeq(w) /\ (LastSeq(v) < n => n \in w.applied)
             /\ \E k \in 0..Len(log[s]) :
                  /\ LastSeq(w) = LastSeq(v) \/ LastSeq(w) <= k
                  /\ \A n \in ring[s] : LastSeq(v) < n /\ n <= k => n \in m.seqs
  <2>1. CASE ~(m.ok /\ v # NoView)
    <3>1. views' = views
      BY <2>1, <1>2, <1>4
    <3>2. phase[s] # "live"
      BY <2>1, <1>7, <1>11
    <3> QED
      BY <3>1, <3>2, <1>1, <1>7 DEF Known, StreamTypes
  <2>2. CASE m.ok /\ v # NoView
    <3> DEFINE u == ApplyAll(v, m.seqs)
    <3>1. PICK k \in 0..Len(log[s]) : AnswerOf(m, s, k)
      BY <2>2, <1>1, <1>3, <1>4, <1>5, <1>7 DEF SessionFits, AnswersFit
    <3>2. /\ p <= k /\ m.seqs \subseteq 1..k /\ k \in Nat
          /\ \A n \in ring[s] : LastSeq(v) < n /\ n <= k => n \in m.seqs
      BY <3>1, <1>6 DEF AnswerOf
    <3>3. m.seqs \subseteq 1..Len(log[s])
      BY <3>1, <3>2, <1>6
    <3>4. /\ u \in ViewRecs /\ u.snap = v.snap /\ u.applied \subseteq 1..Len(log[s])
          /\ u.applied = v.applied \cup {n \in m.seqs : LastSeq(v) < n}
          /\ LastSeq(v) <= LastSeq(u) /\ \A n \in m.seqs : n <= LastSeq(u)
          /\ LastSeq(u) = LastSeq(v) \/ LastSeq(u) \in m.seqs
      BY <3>3, <2>2, <1>6, <1>7, ApplyFacts
    <3> HIDE DEF u
    <3>5. pending \subseteq 1..Len(log[s])
      BY <1>6, <1>10
    <3>6. views' = [views EXCEPT ![s] = ApplyAll(u, pending)]
      BY <2>2, <1>2, <1>4 DEF u
    <3>7. w = ApplyAll(u, pending)
      BY <3>6, <1>1, <1>4 DEF StreamTypes
    <3> HIDE DEF w, pending
    <3>8. /\ w \in ViewRecs /\ w.snap = u.snap /\ w.applied \subseteq 1..Len(log[s])
          /\ w.applied = u.applied \cup {n \in pending : LastSeq(u) < n}
          /\ LastSeq(u) <= LastSeq(w) /\ \A n \in pending : n <= LastSeq(w)
          /\ LastSeq(w) = LastSeq(u) \/ LastSeq(w) \in pending
      <4>1. u \in ViewRecs /\ u.applied \subseteq 1..Len(log[s]) /\ Len(log[s]) \in Nat
        BY <3>4, <1>6
      <4>2. \A x \in ViewRecs : \A y :
              x.applied \subseteq 1..Len(log[s]) /\ y = ApplyAll(x, pending) =>
                /\ y \in ViewRecs /\ y.snap = x.snap /\ y.applied \subseteq 1..Len(log[s])
                /\ y.applied = x.applied \cup {n \in pending : LastSeq(x) < n}
                /\ LastSeq(x) <= LastSeq(y) /\ \A n \in pending : n <= LastSeq(y)
                /\ LastSeq(y) = LastSeq(x) \/ LastSeq(y) \in pending
        BY <3>5, <1>6, ApplyFacts
      <4> QED
        BY <4>1, <4>2, <3>7
    <3>9. w # NoView
      BY <3>8, ViewFacts
    <3>10. views' \in [Sessions -> {NoView} \cup ViewRecs]
           /\ \A t \in Sessions \ {s} : views'[t] = views[t]
      BY <3>6, <3>7, <3>8, <1>1 DEF StreamTypes
    <3>11. s \in Known /\ s \in Known'
      BY <3>9, <2>2, <1>4, <1>7 DEF Known, w
    <3>12. LastSeq(u) \in Nat /\ LastSeq(w) \in Nat /\ LastSeq(v) \in Nat
      <4>1. LastSeq(u) \in 0..Len(log[s]) /\ LastSeq(w) \in 0..Len(log[s])
        BY <3>4, <3>8, <1>6, LastFacts
      <4> QED
        BY <4>1, <2>2, <1>6, <1>7
    <3>13. LastSeq(v) <= LastSeq(w) /\ p <= LastSeq(w)
      <4>1. LastSeq(v) <= LastSeq(w)
        BY <3>4, <3>8, <3>12
      <4>2. p # 0 => p \in pending
        BY DEF pending
      <4> QED
        BY <4>1, <4>2, <3>8, <3>12, <1>10
    <3>14. v.applied \subseteq w.applied /\ \A n \in m.seqs : LastSeq(v) < n => n \in w.applied
      BY <3>4, <3>8
    <3>15. \A n \in m.seqs : n <= LastSeq(w)
      BY <3>4, <3>8, <3>12, <1>4
    <3>16. LastSeq(w) = LastSeq(v) \/ LastSeq(w) <= k
      <4>1. LastSeq(u) = LastSeq(v) \/ LastSeq(u) <= k
        BY <3>2, <3>4
      <4>2. LastSeq(w) = LastSeq(u) \/ LastSeq(w) <= k
        BY <3>2, <3>8 DEF pending
      <4> QED
        BY <4>1, <4>2
    <3>17. w.snap = v.snap
      BY <3>4, <3>8
    <3> QED
      BY <3>2, <3>8, <3>10, <3>11, <3>12, <3>13, <3>14, <3>15, <3>16, <3>17
  <2> QED
    BY <2>1, <2>2
<1> HIDE DEF w, p, pending
<1>16. WholeFits(s)'
  <2> SUFFICES ASSUME s \in Known, Cardinality(Words(log[s])) <= RingCap,
                      NEW n \in 1..LastSeq(w), log[s][n].kind # "thinking"
               PROVE  n \in w.applied
    BY <1>3, <1>15 DEF WholeFits, IsWhole, w
  <2>1. IsWhole(s)
    BY <1>1, <1>4 DEF SessionFits, WholeFits
  <2>2. \A i \in 1..LastSeq(v) : log[s][i].kind # "thinking" => i \in v.applied
    BY <2>1 DEF IsWhole
  <2>3. CASE w = v
    BY <2>2, <2>3
  <2>4. CASE w # v
    <3>1. /\ LastSeq(w) \in Nat /\ LastSeq(v) \in Nat /\ v.applied \subseteq w.applied
          /\ \A i \in m.seqs : LastSeq(v) < i => i \in w.applied
      BY <2>4, <1>6, <1>7, <1>15
    <3>2. PICK k \in 0..Len(log[s]) :
             /\ LastSeq(w) = LastSeq(v) \/ LastSeq(w) <= k
             /\ \A i \in ring[s] : LastSeq(v) < i /\ i <= k => i \in m.seqs
      BY <2>4, <1>15
    <3>3. CASE n <= LastSeq(v)
      <4>1. n \in 1..LastSeq(v)
        BY <3>1, <3>3
      <4> QED
        BY <4>1, <2>2, <3>1
    <3>4. CASE LastSeq(v) < n
      <4>1. n <= k /\ n \in 1..Len(log[s])
        BY <3>1, <3>2, <3>4, <1>6
      <4>2. log[s] \in Seq(Entries) /\ DOMAIN log[s] = 1..Len(log[s])
        BY <1>1, <1>4, LenProperties DEF StreamTypes
      <4>3. n \in Words(log[s])
        BY <4>1, <4>2 DEF Words
      <4>4. n \in ring[s]
        BY <4>3, <1>1, <1>4 DEF SessionFits, RingFits
      <4> QED
        BY <4>1, <4>4, <3>1, <3>2, <3>4
    <3> QED
      BY <3>1, <3>3, <3>4
  <2> QED
    BY <2>3, <2>4
<1>17. FetchFits(s)'
  <2>1. \A j \in DOMAIN Tail(q) : ~Tail(q)[j].asked
    <3> SUFFICES ASSUME NEW j \in DOMAIN Tail(q), Tail(q)[j].asked PROVE FALSE
      OBVIOUS
    <3>1. j \in Nat /\ j + 1 = 1
      BY <1>8, <1>9
    <3>2. DOMAIN Tail(q) = 1..Len(Tail(q))
      BY <1>9, LenProperties
    <3> QED
      BY <3>1, <3>2
  <2>2. Tail(q) # <<>> => ~Head(Tail(q)).asked
    <3>1. Tail(q) # <<>> => 1 \in DOMAIN Tail(q) /\ Tail(q)[1] = Head(Tail(q))
      BY <1>9, TakenFacts
    <3> QED
      BY <3>1, <2>1
  <2> QED
    BY <2>1, <2>2, <1>2, <1>8, <1>13, <1>14 DEF FetchFits
<1>18. AnswersFit(s)'
  BY <1>13 DEF AnswersFit
<1>19. Delivered(s)'
  <2> SUFFICES ASSUME phase[s] = "live", s \in Known, NEW n \in ring[s]
               PROVE  n <= LastSeq(w) \/ Coming(s, n)'
    BY <1>3, <1>15 DEF Delivered, w
  <2>1. n <= LastSeq(v) \/ Coming(s, n)
    BY <1>1, <1>4 DEF SessionFits, Delivered
  <2>2. /\ n \in 1..Len(log[s]) /\ n \in Nat /\ LastSeq(v) \in Nat
        /\ LastSeq(w) \in Nat /\ LastSeq(v) <= LastSeq(w) /\ p <= LastSeq(w)
        /\ \A i \in m.seqs : i <= LastSeq(w)
    BY <1>6, <1>7, <1>15
  <2>3. CASE n <= LastSeq(v)
    BY <2>2, <2>3
  <2>4. ASSUME NEW i \in DOMAIN channel, Is(channel[i], "event", s) /\ n <= channel[i].seq
        PROVE  Coming(s, n)'
    <3>1. i - 1 \in DOMAIN channel' /\ channel'[i - 1] = channel[i]
      BY <2>4, <1>3, <1>5, <1>12
    <3> QED
      BY <3>1, <2>4 DEF Coming
  <2>5. ASSUME NEW i \in DOMAIN channel, Is(channel[i], "history", s) /\ n \in channel[i].seqs
        PROVE  n <= LastSeq(w)
    <3>1. channel[i] = m
      BY <2>5, <1>3, <1>8
    <3> QED
      BY <3>1, <2>2, <2>5
  <2>6. ASSUME NEW j \in DOMAIN q,
               n <= q[j].pending \/ (q[j].pending = 0 /\ ~q[j].asked)
        PROVE  n <= LastSeq(w) \/ Coming(s, n)'
    <3>1. CASE j = 1
      <4>1. n <= p
        BY <3>1, <2>6, <1>8, <1>9 DEF p
      <4> QED
        BY <4>1, <2>2, <1>10
    <3>2. CASE j # 1
      <4>1. j - 1 \in DOMAIN Tail(q) /\ Tail(q)[j - 1] = q[j]
        BY <3>2, <1>9
      <4> QED
        BY <4>1, <2>6, <1>14 DEF Coming
    <3> QED
      BY <3>1, <3>2
  <2> QED
    BY <2>1, <2>3, <2>4, <2>5, <2>6, <1>8 DEF Coming
<1>20. SessionFits(s)'
  <2>1. \A j \in DOMAIN Tail(q) : Tail(q)[j].pending <= Len(log[s])
    BY <1>1, <1>4, <1>9 DEF SessionFits, NumbersFit
  <2>2. s \in Known => views'[s].snap = views[s].snap /\ views'[s].applied \subseteq 1..Len(log[s])
    BY <1>15 DEF w
  <2> QED
    BY <2>1, <2>2, <1>1, <1>2, <1>3, <1>4, <1>5, <1>11, <1>14, <1>15, <1>16, <1>17, <1>18, <1>19,
       AppliedFits DEF m
<1> QED
  BY <1>2, <1>4, <1>14, <1>15, <1>20, TookKeeps DEF m

-----------------------------------------------------------------------------
(* The theorem. *)

LEMMA StreamInitHolds == StreamInit => StreamInv
<1> SUFFICES ASSUME StreamInit PROVE StreamInv
  OBVIOUS
<1>1. /\ phase = [s \in Sessions |-> "none"] /\ host = [s \in Sessions |-> Idle]
      /\ open = [s \in Sessions |-> {}] /\ last = [s \in Sessions |-> "none"]
      /\ log = [s \in Sessions |-> <<>>] /\ ring = [s \in Sessions |-> {}]
      /\ window = FALSE /\ channel = <<>> /\ calls = {}
      /\ views = [s \in Sessions |-> NoView] /\ chain = [s \in Sessions |-> <<>>]
  BY DEF StreamInit
<1>2. /\ <<>> \in Seq(Entries) /\ <<>> \in Seq(Messages) /\ <<>> \in Seq(Links)
      /\ DOMAIN <<>> = {} /\ Len(<<>>) = 0
  BY EmptySeq
<1>3. Idle \in Hosts /\ Idle.status = "idle"
  BY DEF Idle, Hosts
<1>4. StreamTypes
  <2>1. host \in [Sessions -> Hosts]
    BY <1>1, <1>3
  <2>2. log \in [Sessions -> Seq(Entries)] /\ chain \in [Sessions -> Seq(Links)]
    BY <1>1, <1>2
  <2> QED
    BY <2>1, <2>2, <1>1, <1>2 DEF StreamTypes
<1>5. Shut
  BY <1>1 DEF Shut
<1>6. ASSUME NEW s \in Sessions PROVE SessionFits(s)
  <2>1. /\ phase[s] = "none" /\ host[s] = Idle /\ log[s] = <<>> /\ ring[s] = {}
        /\ views[s] = NoView /\ chain[s] = <<>> /\ s \notin Known
    BY <1>1 DEF Known
  <2>2. Words(log[s]) = {}
    BY <2>1, <1>2 DEF Words
  <2>3. Cardinality({}) = 0 /\ 0 <= RingCap
    BY FS_EmptySet, StreamAssumption
  <2>4. RingFits(s)
    BY <2>1, <2>2, <2>3 DEF RingFits
  <2>5. LogFits(s)
    BY <2>1, <1>3 DEF LogFits, Runs
  <2>6. NotYet(s)
    BY <2>1, <1>1, <1>2 DEF NotYet
  <2>7. Here(s) /\ Gone(s) /\ SnapsFit(s) /\ WholeFits(s) /\ Delivered(s)
    BY <2>1 DEF Here, Gone, SnapsFit, WholeFits, Delivered
  <2>8. NumbersFit(s) /\ FetchFits(s) /\ AnswersFit(s)
    BY <2>1, <1>1, <1>2 DEF NumbersFit, FetchFits, AnswersFit
  <2> QED
    BY <2>4, <2>5, <2>6, <2>7, <2>8 DEF SessionFits
<1> QED
  BY <1>4, <1>5, <1>6 DEF StreamInv

LEMMA StreamNextKeeps == StreamInv /\ [StreamNext]_streamVars => StreamInv'
<1> SUFFICES ASSUME StreamInv, [StreamNext]_streamVars PROVE StreamInv'
  OBVIOUS
<1>1. ASSUME NEW s \in Sessions, EngineOf(s) PROVE StreamInv'
  BY <1>1, EngineKeeps, AbortKeeps, RemoveKeeps DEF EngineOf
<1>2. ASSUME NEW s \in Sessions, Create(s) PROVE StreamInv'
  BY <1>2, CreateKeeps
<1>3. CASE Reply
  BY <1>3, ListingKeeps, CreatedKeeps, HistoryKeeps DEF Reply
<1>4. CASE Task
  BY <1>4, EnvelopeKeeps, NewsKeep, AnswerKeeps, StartFetchKeeps DEF Task
<1>5. CASE OpenWindow \/ CloseWindow
  BY <1>5, WindowsKeep
<1>6. CASE UNCHANGED streamVars
  <2>1. /\ phase' = phase /\ host' = host /\ open' = open /\ last' = last /\ log' = log
        /\ ring' = ring /\ views' = views /\ chain' = chain /\ channel' = channel
        /\ calls' = calls /\ window' = window
    BY <1>6 DEF streamVars, main, renderer, wire
  <2>2. StreamTypes' /\ Shut'
    BY <2>1 DEF StreamInv, StreamTypes, Shut
  <2>3. ASSUME NEW s \in Sessions PROVE SessionFits(s)'
    <3>1. SameSession(s) /\ SessionFits(s) /\ StreamTypes
      BY <2>1 DEF SameSession, SameWindow, StreamInv
    <3>2. Shifted(s, 0) /\ DOMAIN channel \subseteq Nat /\ DOMAIN channel' \subseteq Nat
      BY <2>1, <3>1, StillShifts
    <3> QED
      BY <3>1, <3>2, OthersFit
  <2> QED
    BY <2>2, <2>3 DEF StreamInv
<1> QED
  BY <1>1, <1>2, <1>3, <1>4, <1>5, <1>6 DEF StreamNext

(* At rest nothing is on its way: what the invariant says is coming is     *)
(* there.                                                                  *)
LEMMA WindowSound == StreamInv => WindowIsSound
<1> SUFFICES ASSUME StreamInv PROVE WindowIsSound
  OBVIOUS
<1>1. StreamTypes /\ Shut /\ \A s \in Sessions : SessionFits(s)
  BY DEF StreamInv
<1>2. Known \subseteq Sessions /\ Live \subseteq Sessions
  BY DEF Known, Live
<1>3. \A s \in Sessions : log[s] \in Seq(Entries) /\ Len(log[s]) \in Nat
                          /\ DOMAIN log[s] = 1..Len(log[s])
  BY <1>1, LenProperties DEF StreamTypes
<1>4. ASSUME NEW s \in Known PROVE LastSeq(views[s]) \in 0..Len(log[s])
  <2>1. s \in Sessions /\ views[s].applied \subseteq 1..Len(log[s])
    BY <1>1, <1>2 DEF SessionFits, NumbersFit
  <2> QED
    BY <2>1, <1>3, LastFacts
<1>5. StreamTypeOK
  <2>1. \A s \in Sessions :
          /\ ring[s] \subseteq 1..Len(log[s]) /\ Cardinality(ring[s]) <= RingCap
          /\ open[s] \subseteq CallIds
    BY <1>1 DEF SessionFits, RingFits, StreamTypes
  <2>2. ~window => channel = <<>> /\ calls = {} /\ Known = {}
    BY <1>1 DEF Shut, Known
  <2> QED
    BY <2>1, <2>2, <1>1, <1>4 DEF StreamTypeOK, StreamTypes
<1>6. OnlyThoughtsAreLost
  <2> SUFFICES ASSUME NEW s \in Known,
                      Cardinality({n \in DOMAIN log[s] : log[s][n].kind # "thinking"}) <= RingCap
               PROVE  IsWhole(s)
    BY DEF OnlyThoughtsAreLost
  <2>1. Cardinality(Words(log[s])) <= RingCap
    BY DEF Words
  <2> QED
    BY <2>1, <1>1, <1>2 DEF SessionFits, WholeFits
<1>7. AgreesAtRest
  <2> SUFFICES ASSUME AtRest, channel = <<>>, calls = {}
               PROVE  /\ Known \subseteq Live
                      /\ \A s \in Live : log[s] # <<>> => s \in Known
                      /\ \A s \in Known :
                           /\ views[s].snap = host[s]
                           /\ \A n \in ring[s] : n <= LastSeq(views[s])
                           /\ ~Runs(s) => LastSeq(views[s]) = Len(log[s])
    BY DEF AgreesAtRest
  <2>1. DOMAIN channel = {}
    BY EmptySeq
  <2>2. ASSUME NEW s \in Known PROVE s \in Live /\ phase[s] = "live"
    <3>1. s \in Sessions /\ phase[s] \notin {"none", "creating", "removed"}
      BY <1>1, <1>2, <2>1 DEF SessionFits, NotYet, Gone
    <3> QED
      BY <3>1, <1>1 DEF StreamTypes, Live
  <2>3. ASSUME NEW s \in Live, log[s] # <<>> PROVE s \in Known
    BY <2>1, <2>3, <1>1 DEF SessionFits, Here, Live, AtRest
  <2>4. ASSUME NEW s \in Known
        PROVE  /\ views[s].snap = host[s]
               /\ \A n \in ring[s] : n <= LastSeq(views[s])
               /\ ~Runs(s) => LastSeq(views[s]) = Len(log[s])
    <3>1. s \in Sessions /\ phase[s] = "live"
      BY <1>2, <2>2
    <3>2. views[s].snap = host[s]
      BY <3>1, <2>1, <1>1 DEF SessionFits, SnapsFit
    <3>3. chain[s] = <<>>
      <4>1. ~Waits(s)
        BY <3>1 DEF AtRest
      <4>2. ~(chain[s] # <<>> /\ Head(chain[s]).asked)
        BY <3>1, <2>1, <1>1 DEF SessionFits, FetchFits
      <4> QED
        BY <4>1, <4>2 DEF Waits
    <3>4. \A n \in ring[s] : ~Coming(s, n)
      BY <3>3, <2>1, EmptySeq DEF Coming
    <3>5. \A n \in ring[s] : n <= LastSeq(views[s])
      BY <3>1, <3>4, <1>1 DEF SessionFits, Delivered
    <3>6. ASSUME ~Runs(s) PROVE LastSeq(views[s]) = Len(log[s])
      <4>1. LastSeq(views[s]) \in 0..Len(log[s]) /\ Len(log[s]) \in Nat
        BY <3>1, <1>3, <1>4
      <4>2. CASE log[s] = <<>>
        <5>1. Len(log[s]) = 0
          BY <4>2, EmptySeq
        <5> QED
          BY <4>1, <5>1
      <4>3. CASE log[s] # <<>>
        <5>1. log[s][Len(log[s])].kind = "turn_end"
          BY <3>1, <3>6, <4>3, <1>1 DEF SessionFits, LogFits
        <5>2. Len(log[s]) # 0
          BY <4>3, <3>1, <1>3, EmptySeq
        <5>3. Len(log[s]) \in Words(log[s])
          BY <5>1, <5>2, <4>1, <3>1, <1>3 DEF Words
        <5>4. Len(log[s]) \in ring[s]
          BY <5>3, <3>1, <1>1 DEF SessionFits, RingFits
        <5>5. Len(log[s]) <= LastSeq(views[s])
          BY <5>4, <3>5
        <5> QED
          BY <4>1, <5>5
      <4> QED
        BY <4>2, <4>3
    <3> QED
      BY <3>2, <3>5, <3>6
  <2> QED
    BY <2>2, <2>3, <2>4
<1> QED
  BY <1>5, <1>6, <1>7 DEF WindowIsSound

(* Whenever the window of the desktop application opens, reloads or closes *)
(* (sessionsStore.ts), and whatever a session says meanwhile               *)
(* (sessionHost.ts), the window knows only what was said and the ring      *)
(* keeps to its cap; a window lacks nothing but thoughts while the ring    *)
(* can hold the rest; and once nothing is on its way the window shows the  *)
(* sessions there are as they are, with all that is retained of them.      *)
THEOREM TheWindowIsSound == StreamSpec => []WindowIsSound
<1>1. StreamInit => StreamInv
  BY StreamInitHolds
<1>2. StreamInv /\ [StreamNext]_streamVars => StreamInv'
  BY StreamNextKeeps
<1>3. StreamInv => WindowIsSound
  BY WindowSound
<1> QED
  BY <1>1, <1>2, <1>3, PTL DEF StreamSpec

LEMMA NatInd ==
  ASSUME NEW S, 0 \in S, \A n \in Nat : n \in S => n + 1 \in S
  PROVE  Nat \subseteq S
<1> DEFINE T == Nat \ S
<1> SUFFICES ASSUME T # {} PROVE FALSE
  OBVIOUS
<1>1. PICK m \in T : \A n \in T : m <= n
  BY LeastOf
<1>2. m \in Nat \ {0} /\ m - 1 \in Nat
  BY <1>1
<1>3. m - 1 \in S
  BY <1>1, <1>2
<1>4. (m - 1) + 1 = m
  BY <1>2
<1> QED
  BY <1>2, <1>3, <1>4
-----------------------------------------------------------------------------
(* What a session says, event by event: turns rise, one begins with its    *)
(* task, says nothing once it has ended, and ends when it has a result; a  *)
(* call is answered once before it is made again, in its own turn.         *)
Answers(l, n, k) == \E i \in (n + 1)..k : l[i] = Event("tool_result", l[n].turn, l[n].what)

Finishes(e) == e.kind \in {"done", "error"}

Orderly(l, n) ==
  /\ \A i \in 1..(n - 1) : l[i].turn <= l[n].turn
  /\ \A i \in 1..(n - 1) :
       l[n].kind = "turn_start" \/ l[i].kind = "turn_end" => l[i].turn < l[n].turn
  /\ l[n].kind = "turn_start" => l[n].what = "task"
  /\ l[n].kind # "turn_start" => n - 1 \in DOMAIN l /\ l[n - 1].turn = l[n].turn
  /\ l[n].kind = "turn_end" =>
       \E i \in 1..(n - 1) : Finishes(l[i]) /\ l[i].turn = l[n].turn
  /\ l[n].kind = "tool_result" =>
       \E i \in 1..(n - 1) : /\ l[i].kind = "tool_call" /\ l[i].what = l[n].what
                             /\ l[i].turn = l[n].turn /\ ~Answers(l, i, n - 1)
  /\ l[n].kind = "tool_call" =>
       \A i \in 1..(n - 1) :
         l[i].kind = "tool_call" /\ l[i].what = l[n].what => Answers(l, i, n - 1)

(* The calls not answered are those open, of the turn there is.            *)
TurnFits(l, nth, opened, st, over) ==
  LET k == Len(l)
  IN  /\ \A n \in DOMAIN l : Orderly(l, n) /\ l[n].turn <= nth
      /\ \A n \in DOMAIN l : l[n].kind = "tool_call" /\ ~Answers(l, n, k) =>
           l[n].what \in opened /\ l[n].turn = nth
      /\ \A c \in opened : \E n \in DOMAIN l :
           l[n].kind = "tool_call" /\ l[n].what = c /\ ~Answers(l, n, k)
      /\ st # "running" \/ over # "none" => opened = {}
      /\ st = "running" =>
           /\ k \in DOMAIN l /\ l[k].turn = nth
           /\ \A n \in DOMAIN l : l[n].kind = "turn_end" => l[n].turn < nth
           /\ over # "none" => \E n \in DOMAIN l : Finishes(l[n]) /\ l[n].turn = nth

TurnsFit(s) ==
  /\ \A n \in DOMAIN log[s] : Orderly(log[s], n)
  /\ phase[s] # "removed" =>
       TurnFits(log[s], host[s].turns, open[s], host[s].status, last[s])

TurnsInv == \A s \in Sessions : TurnsFit(s)

(* One event more.                                                         *)
LEMMA MoreFacts ==
  ASSUME NEW l \in Seq(Entries), NEW e \in Entries, NEW r, r = Append(l, e)
  PROVE  /\ Len(l) \in Nat /\ Len(r) = Len(l) + 1 /\ r \in Seq(Entries)
         /\ DOMAIN l = 1..Len(l) /\ DOMAIN r = 1..(Len(l) + 1)
         /\ \A n \in 1..Len(l) : r[n] = l[n]
         /\ r[Len(l) + 1] = e
<1>1. r \in Seq(Entries) /\ Len(r) = Len(l) + 1 /\ r[Len(l) + 1] = e
      /\ \A n \in 1..Len(l) : r[n] = l[n]
  BY AppendProperties
<1> QED
  BY <1>1, LenProperties

LEMMA AnswersStays ==
  ASSUME NEW l \in Seq(Entries), NEW e \in Entries, NEW r, r = Append(l, e),
         NEW n \in 1..Len(l), NEW k \in 0..Len(l)
  PROVE  Answers(r, n, k) <=> Answers(l, n, k)
<1>1. /\ Len(l) \in Nat /\ \A i \in 1..Len(l) : r[i] = l[i]
  BY MoreFacts
<1>2. \A i \in (n + 1)..k : i \in 1..Len(l)
  BY <1>1
<1>3. \A i \in (n + 1)..k : r[i] = l[i]
  BY <1>1, <1>2
<1>4. r[n] = l[n]
  BY <1>1
<1> QED
  BY <1>3, <1>4 DEF Answers

(* An event answers the calls before it, and none that comes after.        *)
LEMMA AnswersFacts ==
  ASSUME NEW l \in Seq(Entries), NEW e \in Entries, NEW r, r = Append(l, e),
         NEW n \in 1..Len(l)
  PROVE  /\ \A k \in 0..Len(l) : Answers(r, n, k) <=> Answers(l, n, k)
         /\ Answers(r, n, Len(r)) <=>
              Answers(l, n, Len(l)) \/ e = Event("tool_result", l[n].turn, l[n].what)
         /\ ~Answers(r, Len(r), Len(r))
<1>1. /\ Len(l) \in Nat /\ Len(r) = Len(l) + 1
      /\ \A i \in 1..Len(l) : r[i] = l[i]
      /\ r[Len(l) + 1] = e
  BY MoreFacts
<1>2. ASSUME NEW k \in 0..Len(l) PROVE Answers(r, n, k) <=> Answers(l, n, k)
  BY AnswersStays
<1>3. Answers(r, n, Len(r)) <=>
        Answers(l, n, Len(l)) \/ e = Event("tool_result", l[n].turn, l[n].what)
  <2>1. (n + 1)..Len(r) = ((n + 1)..Len(l)) \cup {Len(l) + 1}
    BY <1>1
  <2>2. r[n] = l[n]
    BY <1>1
  <2>3. Answers(r, n, Len(r)) <=>
          Answers(r, n, Len(l)) \/ r[Len(l) + 1] = Event("tool_result", r[n].turn, r[n].what)
    BY <2>1 DEF Answers
  <2>4. Len(l) \in 0..Len(l)
    BY <1>1
  <2> QED
    BY <2>2, <2>3, <2>4, <1>1, <1>2
<1>4. ~Answers(r, Len(r), Len(r))
  <2>1. (Len(r) + 1)..Len(r) = {}
    BY <1>1
  <2> QED
    BY <2>1 DEF Answers
<1> QED
  BY <1>2, <1>3, <1>4

(* What was in order stays so.                                             *)
LEMMA OrderlyStays ==
  ASSUME NEW l \in Seq(Entries), NEW e \in Entries, NEW r, r = Append(l, e),
         NEW n \in 1..Len(l), Orderly(l, n)
  PROVE  Orderly(r, n)
<1>1. /\ Len(l) \in Nat /\ DOMAIN l = 1..Len(l) /\ DOMAIN r = 1..(Len(l) + 1)
      /\ r[n] = l[n]
      /\ \A i \in 1..(n - 1) : i \in 1..Len(l) /\ r[i] = l[i]
  BY MoreFacts
<1>2. n - 1 \in 0..Len(l)
  BY <1>1
<1>3. ASSUME NEW i \in 1..(n - 1) PROVE Answers(r, i, n - 1) <=> Answers(l, i, n - 1)
  <2>1. i \in 1..Len(l)
    BY <1>1
  <2> QED
    BY <2>1, <1>2, AnswersStays
<1>4. l[n].kind # "turn_start" => n - 1 \in 1..Len(l) /\ r[n - 1] = l[n - 1]
  <2>1. l[n].kind # "turn_start" => n - 1 \in 1..Len(l)
    BY <1>1 DEF Orderly
  <2> QED
    BY <2>1, MoreFacts
<1> QED
  BY <1>1, <1>3, <1>4 DEF Orderly, Finishes

(* An event is its kind, its turn and what it is about.                    *)
LEMMA EntryIs ==
  ASSUME NEW e \in Entries
  PROVE  /\ e = Event(e.kind, e.turn, e.what) /\ e.turn \in Nat
         /\ \A k, t, w : e = Event(k, t, w) <=> e.kind = k /\ e.turn = t /\ e.what = w
<1>1. e = Event(e.kind, e.turn, e.what) /\ e.turn \in Nat
  BY DEF Entries, Event
<1>2. \A k, t, w : Event(k, t, w).kind = k /\ Event(k, t, w).turn = t /\ Event(k, t, w).what = w
  BY DEF Event
<1> QED
  BY <1>1, <1>2

(* A turn begins.                                                          *)
LEMMA BeginFits ==
  ASSUME NEW l \in Seq(Entries), NEW t \in Nat, NEW o, NEW st, NEW la,
         TurnFits(l, t, o, st, la), st # "running",
         NEW e \in Entries, e.kind = "turn_start", e.turn = t + 1, e.what = "task",
         NEW r, r = Append(l, e)
  PROVE  Orderly(r, Len(r)) /\ TurnFits(r, t + 1, o, "running", "none")
<1>1. /\ Len(l) \in Nat /\ Len(r) = Len(l) + 1 /\ DOMAIN l = 1..Len(l)
      /\ DOMAIN r = 1..(Len(l) + 1) /\ r[Len(l) + 1] = e
      /\ \A n \in 1..Len(l) : r[n] = l[n]
  BY MoreFacts
<1>2. \A n \in 1..Len(l) : l[n].turn \in Nat /\ l[n].turn <= t /\ l[n].turn < t + 1
  <2> SUFFICES ASSUME NEW n \in 1..Len(l) PROVE l[n].turn \in Nat /\ l[n].turn <= t
    OBVIOUS
  <2>1. l[n] \in Entries
    BY <1>1
  <2> QED
    BY <2>1, <1>1, EntryIs DEF TurnFits
<1>3. o = {}
  BY DEF TurnFits
<1>4. \A n \in 1..Len(l) : l[n].kind = "tool_call" => Answers(r, n, Len(r))
  BY <1>1, <1>3, AnswersFacts DEF TurnFits
<1>5. Orderly(r, Len(r))
  <2>1. \A i \in 1..(Len(r) - 1) : r[i].turn <= r[Len(r)].turn /\ r[i].turn < r[Len(r)].turn
    BY <1>1, <1>2
  <2> QED
    BY <2>1, <1>1 DEF Orderly
<1>6. ASSUME NEW n \in DOMAIN r PROVE Orderly(r, n) /\ r[n].turn <= t + 1
  <2>1. CASE n \in 1..Len(l)
    <3>1. Orderly(l, n)
      BY <2>1, <1>1 DEF TurnFits
    <3>2. Orderly(r, n)
      BY <2>1, <3>1, OrderlyStays
    <3>3. r[n].turn \in Nat /\ r[n].turn <= t
      BY <2>1, <1>1, <1>2
    <3> QED
      BY <3>2, <3>3
  <2>2. CASE n = Len(r)
    BY <2>2, <1>1, <1>5
  <2> QED
    BY <2>1, <2>2, <1>1
<1>7. \A n \in DOMAIN r : r[n].kind = "tool_call" => Answers(r, n, Len(r))
  BY <1>1, <1>4
<1>8. \A n \in DOMAIN r : r[n].kind = "turn_end" => r[n].turn < t + 1
  BY <1>1, <1>2
<1>9. Len(r) \in DOMAIN r /\ r[Len(r)].turn = t + 1
  BY <1>1
<1> QED
  BY <1>3, <1>5, <1>6, <1>7, <1>8, <1>9 DEF TurnFits

(* A turn that runs goes on, or ends.                                      *)
LEMMA GoesOnFits ==
  ASSUME NEW l \in Seq(Entries), NEW t \in Nat, NEW o, NEW la,
         TurnFits(l, t, o, "running", la),
         NEW e \in Entries, e.turn = t, e.kind # "turn_start",
         e.kind = "turn_end" => la # "none",
         e.kind = "tool_result" => e.what \in o,
         e.kind = "tool_call" => e.what \notin o,
         NEW o2, NEW st2, NEW la2,
         e.kind = "tool_call" => o2 = o \cup {e.what},
         e.kind = "tool_result" => o2 = o \ {e.what},
         e.kind \notin {"tool_call", "tool_result"} => o2 = o,
         st2 # "running" \/ la2 # "none" => o2 = {},
         st2 = "running" => e.kind # "turn_end",
         la2 # "none" => Finishes(e) \/ la # "none",
         NEW r, r = Append(l, e)
  PROVE  Orderly(r, Len(r)) /\ TurnFits(r, t, o2, st2, la2)
<1>1. /\ Len(l) \in Nat /\ Len(r) = Len(l) + 1 /\ DOMAIN l = 1..Len(l)
      /\ DOMAIN r = 1..(Len(l) + 1) /\ r[Len(l) + 1] = e
      /\ \A n \in 1..Len(l) : r[n] = l[n]
  BY MoreFacts
<1>2. /\ \A n \in 1..Len(l) : l[n].turn <= t /\ (l[n].kind = "turn_end" => l[n].turn < t)
      /\ Len(l) \in 1..Len(l) /\ l[Len(l)].turn = t
  BY <1>1 DEF TurnFits
<1>3. \A n \in 1..Len(l) : l[n].kind = "tool_call" /\ ~Answers(l, n, Len(l)) =>
        l[n].what \in o /\ l[n].turn = t
  BY <1>1 DEF TurnFits
<1>4. \A c \in o : \E n \in 1..Len(l) :
        l[n].kind = "tool_call" /\ l[n].what = c /\ ~Answers(l, n, Len(l))
  BY <1>1 DEF TurnFits
<1>5. /\ \A n \in 1..Len(l) : Answers(r, n, Len(l)) <=> Answers(l, n, Len(l))
      /\ \A n \in 1..Len(l) : Answers(r, n, Len(r)) <=>
           Answers(l, n, Len(l)) \/ (e.kind = "tool_result" /\ e.turn = l[n].turn /\ e.what = l[n].what)
      /\ ~Answers(r, Len(r), Len(r))
  <2>1. Len(l) \in 0..Len(l)
    BY <1>1
  <2>2. \A n \in 1..Len(l) :
          e = Event("tool_result", l[n].turn, l[n].what) <=>
            (e.kind = "tool_result" /\ e.turn = l[n].turn /\ e.what = l[n].what)
    BY EntryIs
  <2>3. ~Answers(r, Len(r), Len(r))
    BY <1>2, AnswersFacts
  <2> QED
    BY <2>1, <2>2, <2>3, AnswersFacts
<1>6. e.kind = "turn_end" => \E i \in 1..Len(l) : Finishes(l[i]) /\ l[i].turn = t
  BY <1>1 DEF TurnFits
<1>7. Orderly(r, Len(r))
  <2>1. /\ r[Len(r)] = e /\ Len(r) - 1 = Len(l) /\ Len(l) \in DOMAIN r
        /\ r[Len(l)] = l[Len(l)] /\ \A i \in 1..Len(l) : r[i] = l[i]
    BY <1>1, <1>2
  <2>2. e.kind = "turn_end" => \E i \in 1..Len(l) : Finishes(r[i]) /\ r[i].turn = t
    BY <2>1, <1>6
  <2>3. e.kind = "tool_result" =>
          \E i \in 1..Len(l) : /\ r[i].kind = "tool_call" /\ r[i].what = e.what
                               /\ r[i].turn = t /\ ~Answers(r, i, Len(l))
    BY <2>1, <1>3, <1>4, <1>5
  <2>4. e.kind = "tool_call" =>
          \A i \in 1..Len(l) :
            r[i].kind = "tool_call" /\ r[i].what = e.what => Answers(r, i, Len(l))
    BY <2>1, <1>3, <1>5
  <2> QED
    BY <2>1, <2>2, <2>3, <2>4, <1>2 DEF Orderly
<1>8. ASSUME NEW n \in DOMAIN r PROVE Orderly(r, n) /\ r[n].turn <= t
  <2>1. CASE n \in 1..Len(l)
    <3>1. Orderly(l, n)
      BY <2>1, <1>1 DEF TurnFits
    <3> QED
      BY <2>1, <3>1, <1>1, <1>2, OrderlyStays
  <2>2. CASE n = Len(r)
    BY <2>2, <1>1, <1>7
  <2> QED
    BY <2>1, <2>2, <1>1
<1>9. ASSUME NEW n \in DOMAIN r, r[n].kind = "tool_call", ~Answers(r, n, Len(r))
      PROVE  r[n].what \in o2 /\ r[n].turn = t
  <2>1. CASE n = Len(l) + 1
    BY <2>1, <1>1, <1>9
  <2>2. CASE n \in 1..Len(l)
    <3>1. /\ l[n].what \in o /\ l[n].turn = t /\ r[n] = l[n]
          /\ ~(e.kind = "tool_result" /\ e.what = l[n].what)
      BY <2>2, <1>1, <1>3, <1>5, <1>9
    <3> QED
      BY <3>1
  <2> QED
    BY <2>1, <2>2, <1>1
<1>10. ASSUME NEW c \in o2
       PROVE  \E n \in DOMAIN r : r[n].kind = "tool_call" /\ r[n].what = c /\ ~Answers(r, n, Len(r))
  <2>1. CASE e.kind = "tool_call" /\ c = e.what
    <3>1. Len(r) \in DOMAIN r /\ r[Len(r)] = e
      BY <1>1
    <3> QED
      BY <3>1, <2>1, <1>5
  <2>2. CASE ~(e.kind = "tool_call" /\ c = e.what)
    <3>1. c \in o /\ ~(e.kind = "tool_result" /\ c = e.what)
      BY <2>2, <1>10
    <3>2. PICK n \in 1..Len(l) : l[n].kind = "tool_call" /\ l[n].what = c /\ ~Answers(l, n, Len(l))
      BY <3>1, <1>4
    <3>3. n \in DOMAIN r /\ r[n] = l[n] /\ ~Answers(r, n, Len(r))
      BY <3>1, <3>2, <1>1, <1>5
    <3> QED
      BY <3>2, <3>3
  <2> QED
    BY <2>1, <2>2
<1>11. ASSUME st2 = "running"
       PROVE  /\ Len(r) \in DOMAIN r /\ r[Len(r)].turn = t
              /\ \A n \in DOMAIN r : r[n].kind = "turn_end" => r[n].turn < t
              /\ la2 # "none" => \E n \in DOMAIN r : Finishes(r[n]) /\ r[n].turn = t
  <2>1. Len(r) \in DOMAIN r /\ r[Len(r)] = e
    BY <1>1
  <2>2. \A n \in DOMAIN r : r[n].kind = "turn_end" => r[n].turn < t
    BY <1>1, <1>2, <1>11
  <2>3. la # "none" => \E n \in DOMAIN r : Finishes(r[n]) /\ r[n].turn = t
    <3>1. la # "none" => \E n \in 1..Len(l) : Finishes(l[n]) /\ l[n].turn = t
      BY <1>1 DEF TurnFits
    <3> QED
      BY <3>1, <1>1
  <2> QED
    BY <2>1, <2>2, <2>3
<1> QED
  BY <1>7, <1>8, <1>9, <1>10, <1>11 DEF TurnFits


(* A session that says nothing, and has no other turn.                     *)
SameTurns(s) ==
  /\ log'[s] = log[s]
  /\ phase'[s] # "removed" =>
       /\ phase[s] # "removed" /\ open'[s] = open[s] /\ last'[s] = last[s]
       /\ host'[s].turns = host[s].turns /\ host'[s].status = host[s].status

(* A session that says nothing keeps its order.                            *)
LEMMA SilenceFits ==
  ASSUME NEW s \in Sessions, TurnsFit(s), SameTurns(s)
  PROVE  TurnsFit(s)'
BY DEF TurnsFit, SameTurns

(* An event is logged, unless the session was removed.                     *)
LEMMA EmitFacts ==
  ASSUME StreamTypes, NEW s \in Sessions, NEW e, NEW h, NEW told, Emit(s, e, h, told)
  PROVE  /\ phase' = phase /\ host'[s] = h
         /\ phase[s] = "removed" => log'[s] = log[s]
         /\ phase[s] # "removed" => log'[s] = Append(log[s], e)
         /\ \A t \in Sessions \ {s} : host'[t] = host[t] /\ log'[t] = log[t]
<1>1. host \in [Sessions -> Hosts] /\ log \in [Sessions -> Seq(Entries)]
  BY DEF StreamTypes
<1>2. host' = [host EXCEPT ![s] = h] /\ phase' = phase
  BY DEF Emit
<1>3. CASE phase[s] = "removed"
  <2>1. log' = log
    BY <1>3 DEF Emit
  <2> QED
    BY <2>1, <1>1, <1>2, <1>3
<1>4. CASE phase[s] # "removed"
  <2>1. log' = [log EXCEPT ![s] = Append(log[s], e)]
    BY <1>4 DEF Emit
  <2> QED
    BY <2>1, <1>1, <1>2, <1>4
<1> QED
  BY <1>3, <1>4

LEMMA WordFits ==
  ASSUME StreamTypes, TurnsInv, NEW s \in Sessions, NEW e, NEW h, NEW told, Emit(s, e, h, told),
         \A t \in Sessions \ {s} : open'[t] = open[t] /\ last'[t] = last[t],
         phase[s] # "removed" =>
           TurnFits(Append(log[s], e), h.turns, open'[s], h.status, last'[s])
  PROVE  TurnsInv'
<1>1. /\ phase' = phase /\ host'[s] = h
      /\ phase[s] = "removed" => log'[s] = log[s]
      /\ phase[s] # "removed" => log'[s] = Append(log[s], e)
      /\ \A t \in Sessions \ {s} : host'[t] = host[t] /\ log'[t] = log[t]
  BY EmitFacts
<1>2. TurnsFit(s)'
  <2>1. CASE phase[s] = "removed"
    BY <2>1, <1>1, SilenceFits DEF SameTurns, TurnsInv
  <2>2. CASE phase[s] # "removed"
    <3>1. TurnFits(log'[s], h.turns, open'[s], h.status, last'[s])
      BY <2>2, <1>1
    <3>2. \A n \in DOMAIN log'[s] : Orderly(log'[s], n)
      BY <3>1 DEF TurnFits
    <3> QED
      BY <3>1, <3>2, <1>1 DEF TurnsFit
  <2> QED
    BY <2>1, <2>2
<1>3. ASSUME NEW t \in Sessions \ {s} PROVE TurnsFit(t)'
  BY <1>1, SilenceFits DEF SameTurns, TurnsInv
<1> QED
  BY <1>2, <1>3 DEF TurnsInv

(* The engine's turns: every event it emits fits what was said before.     *)
LEMMA EngineTurns ==
  ASSUME StreamTypes, TurnsInv, NEW s \in Sessions,
         \/ RunBegin(s) \/ Think(s) \/ RunEnd(s)
         \/ \E c \in CallIds : ToolCall(s, c) \/ ToolResult(s, c)
         \/ \E kind \in {"done", "error"} : Terminal(s, kind)
  PROVE  TurnsInv'
<1> DEFINE l == log[s]
           t == host[s].turns
           Fits == phase[s] # "removed" => TurnFits(l, t, open[s], host[s].status, last[s])
<1>1. /\ host[s].turns \in Nat /\ log[s] \in Seq(Entries)
      /\ last \in [Sessions -> {"none", "done", "error"}]
      /\ open \in [Sessions -> SUBSET CallIds]
  BY HostFacts DEF StreamTypes
<1>2. Fits
  BY DEF TurnsInv, TurnsFit
<1>3. Runs(s) <=> host[s].status = "running"
  BY DEF Runs
<1>4. phase[s] # "removed" /\ host[s].status = "running" /\ last[s] # "none" => open[s] = {}
  BY <1>2 DEF TurnFits
<1>5. CASE RunBegin(s)
  <2> DEFINE h == [status |-> "running", turns |-> t + 1, aborting |-> FALSE]
             e == Event("turn_start", h.turns, "task")
  <2>1. /\ ~Runs(s) /\ last' = [last EXCEPT ![s] = "none"] /\ open' = open
        /\ Emit(s, e, h, TRUE) /\ phase[s] = "live"
    BY <1>5 DEF RunBegin
  <2>2. /\ last'[s] = "none" /\ open'[s] = open[s]
        /\ \A x \in Sessions \ {s} : open'[x] = open[x] /\ last'[x] = last[x]
    BY <2>1, <1>1
  <2>4. h.turns = t + 1 /\ h.status = "running" /\ t + 1 \in Nat
    BY <1>1
  <2> HIDE DEF h
  <2>3. e \in Entries /\ e.kind = "turn_start" /\ e.turn = t + 1 /\ e.what = "task"
    BY <2>4, EntryTypes DEF Event
  <2> HIDE DEF e
  <2>5. TurnFits(Append(l, e), t + 1, open[s], "running", "none")
    BY <2>1, <2>3, <1>1, <1>2, <1>3, BeginFits
  <2> QED
    BY <2>1, <2>2, <2>4, <2>5, WordFits
<1> DEFINE Says(e, o2, st2, la2) ==
             phase[s] # "removed" => TurnFits(Append(l, e), t, o2, st2, la2)
<1>6. ASSUME NEW e \in Entries, e.turn = t, NEW h, NEW told, Emit(s, e, h, told), h.turns = t,
             \A x \in Sessions \ {s} : open'[x] = open[x] /\ last'[x] = last[x],
             Says(e, open'[s], h.status, last'[s])
      PROVE  TurnsInv'
  BY <1>6, WordFits
<1>7. CASE Think(s)
  <2> DEFINE e == Event("thinking", t, "text")
  <2>1. Runs(s) /\ last[s] = "none" /\ open' = open /\ last' = last /\ Emit(s, e, host[s], FALSE)
    BY <1>7 DEF Think
  <2>2. e \in Entries /\ e.kind = "thinking" /\ e.turn = t
    BY <1>1, EntryTypes DEF Event
  <2> HIDE DEF e
  <2>3. Says(e, open[s], "running", "none")
    <3> SUFFICES ASSUME phase[s] # "removed" PROVE TurnFits(Append(l, e), t, open[s], "running", "none")
      OBVIOUS
    <3>1. TurnFits(l, t, open[s], "running", last[s]) /\ l \in Seq(Entries) /\ t \in Nat
      BY <2>1, <1>1, <1>2, <1>3
    <3> HIDE DEF l, t, Says, Fits
    <3> QED
      BY <3>1, <2>1, <2>2, GoesOnFits
  <2>4. Says(e, open'[s], host[s].status, last'[s])
    BY <2>1, <2>3, <1>3
  <2> HIDE DEF Says
  <2> QED
    BY <2>1, <2>2, <2>4, <1>6
<1>8. ASSUME NEW c \in CallIds, ToolCall(s, c) PROVE TurnsInv'
  <2> DEFINE e == Event("tool_call", t, c)
             o2 == open[s] \cup {c}
  <2>1. /\ Runs(s) /\ last[s] = "none" /\ c \notin open[s]
        /\ open' = [open EXCEPT ![s] = @ \cup {c}] /\ last' = last /\ Emit(s, e, host[s], FALSE)
    BY <1>8 DEF ToolCall
  <2>2. e \in Entries /\ e.kind = "tool_call" /\ e.turn = t /\ e.what = c
    BY <1>1, EntryTypes DEF Event
  <2>3. /\ open'[s] = o2 /\ last'[s] = last[s]
        /\ \A x \in Sessions \ {s} : open'[x] = open[x] /\ last'[x] = last[x]
    BY <2>1, <1>1
  <2>4. o2 = open[s] \cup {e.what}
    BY <2>2
  <2> HIDE DEF e, o2
  <2>5. Says(e, o2, "running", "none")
    <3> SUFFICES ASSUME phase[s] # "removed" PROVE TurnFits(Append(l, e), t, o2, "running", "none")
      OBVIOUS
    <3>1. TurnFits(l, t, open[s], "running", last[s]) /\ l \in Seq(Entries) /\ t \in Nat
      BY <2>1, <1>1, <1>2, <1>3
    <3> HIDE DEF l, t, Says, Fits
    <3>2. /\ e.kind # "turn_start" /\ e.kind # "turn_end" /\ e.kind # "tool_result"
          /\ e.what \notin open[s] /\ (e.kind = "tool_call" => o2 = open[s] \cup {e.what})
          /\ e.kind \in {"tool_call", "tool_result"}
      BY <2>1, <2>2, <2>4
    <3> QED
      BY <3>1, <3>2, <2>2, GoesOnFits
  <2>6. Says(e, open'[s], host[s].status, last'[s])
    BY <2>1, <2>3, <2>5, <1>3
  <2> HIDE DEF Says
  <2> QED
    BY <2>1, <2>2, <2>3, <2>6, <1>6
<1>9. ASSUME NEW c \in CallIds, ToolResult(s, c) PROVE TurnsInv'
  <2> DEFINE e == Event("tool_result", t, c)
             o2 == open[s] \ {c}
  <2>1. /\ Runs(s) /\ c \in open[s]
        /\ open' = [open EXCEPT ![s] = @ \ {c}] /\ last' = last /\ Emit(s, e, host[s], FALSE)
    BY <1>9 DEF ToolResult
  <2>2. e \in Entries /\ e.kind = "tool_result" /\ e.turn = t /\ e.what = c
    BY <1>1, EntryTypes DEF Event
  <2>3. /\ open'[s] = o2 /\ last'[s] = last[s]
        /\ \A x \in Sessions \ {s} : open'[x] = open[x] /\ last'[x] = last[x]
    BY <2>1, <1>1
  <2>4. o2 = open[s] \ {e.what}
    BY <2>2
  <2>5. phase[s] # "removed" => last[s] = "none"
    BY <2>1, <1>3, <1>4
  <2> HIDE DEF e, o2
  <2>6. Says(e, o2, "running", "none")
    <3> SUFFICES ASSUME phase[s] # "removed" PROVE TurnFits(Append(l, e), t, o2, "running", "none")
      OBVIOUS
    <3>1. TurnFits(l, t, open[s], "running", last[s]) /\ l \in Seq(Entries) /\ t \in Nat
      BY <2>1, <1>1, <1>2, <1>3
    <3> HIDE DEF l, t, Says, Fits
    <3>2. /\ e.kind # "turn_start" /\ e.kind # "turn_end" /\ e.kind # "tool_call"
          /\ e.what \in open[s] /\ (e.kind = "tool_result" => o2 = open[s] \ {e.what})
          /\ e.kind \in {"tool_call", "tool_result"}
      BY <2>1, <2>2, <2>4
    <3> QED
      BY <3>1, <3>2, <2>2, GoesOnFits
  <2>7. Says(e, open'[s], host[s].status, last'[s])
    BY <2>1, <2>3, <2>5, <2>6, <1>3
  <2> HIDE DEF Says
  <2> QED
    BY <2>1, <2>2, <2>3, <2>7, <1>6
<1>10. ASSUME NEW kind \in {"done", "error"}, Terminal(s, kind) PROVE TurnsInv'
  <2> DEFINE e == Event(kind, t, "digest")
  <2>1. /\ Runs(s) /\ open[s] = {} /\ open' = open /\ last' = [last EXCEPT ![s] = kind]
        /\ Emit(s, e, host[s], TRUE)
    BY <1>10 DEF Terminal
  <2>2. e \in Entries /\ e.kind = kind /\ e.turn = t
    BY <1>1, EntryTypes DEF Event
  <2>3. /\ open'[s] = {} /\ last'[s] = kind
        /\ \A x \in Sessions \ {s} : open'[x] = open[x] /\ last'[x] = last[x]
    BY <2>1, <1>1
  <2> HIDE DEF e
  <2>4. Finishes(e) /\ e.kind \notin {"turn_start", "turn_end", "tool_call", "tool_result"}
    BY <2>2 DEF Finishes
  <2>5. Says(e, {}, "running", kind)
    BY <2>1, <2>2, <2>4, <1>1, <1>2, <1>3, GoesOnFits
  <2>6. Says(e, open'[s], host[s].status, last'[s])
    BY <2>1, <2>3, <2>5, <1>3
  <2> HIDE DEF Says
  <2> QED
    BY <2>1, <2>2, <2>3, <2>6, <1>6
<1>11. CASE RunEnd(s)
  <2> DEFINE st == IF Outcome(s) = "error" THEN "error" ELSE "idle"
             h == [host[s] EXCEPT !.status = st, !.aborting = FALSE]
             e == Event("turn_end", t, Outcome(s))
  <2>1. /\ Runs(s) /\ last[s] # "none" /\ open' = open /\ last' = last /\ Emit(s, e, h, TRUE)
    BY <1>11 DEF RunEnd
  <2>2. Outcome(s) \in {"aborted", "error", "completed"}
    BY DEF Outcome
  <2>3. e \in Entries /\ e.kind = "turn_end" /\ e.turn = t
    BY <1>1, <2>2, EntryTypes DEF Event
  <2>4. st # "running"
    OBVIOUS
  <2>5. h.turns = t /\ h.status = st
    BY HostFacts DEF Hosts
  <2>8. phase[s] # "removed" => open[s] = {}
    BY <2>1, <1>3, <1>4
  <2> HIDE DEF e, h, st
  <2>6. Says(e, open[s], st, last[s])
    <3> SUFFICES ASSUME phase[s] # "removed" PROVE TurnFits(Append(l, e), t, open[s], st, last[s])
      OBVIOUS
    <3>1. TurnFits(l, t, open[s], "running", last[s]) /\ l \in Seq(Entries) /\ t \in Nat
      BY <2>1, <1>1, <1>2, <1>3
    <3> HIDE DEF l, t, Says, Fits
    <3>2. /\ e.kind # "turn_start" /\ e.kind # "tool_call" /\ e.kind # "tool_result"
          /\ e.kind \notin {"tool_call", "tool_result"}
          /\ st # "running" /\ open[s] = {} /\ last[s] # "none"
      BY <2>1, <2>3, <2>4, <2>8
    <3> QED
      BY <3>1, <3>2, <2>3, GoesOnFits
  <2>7. Says(e, open'[s], h.status, last'[s])
    BY <2>1, <2>5, <2>6
  <2> HIDE DEF Says
  <2> QED
    BY <2>1, <2>3, <2>5, <2>7, <1>6
<1> QED
  BY <1>5, <1>7, <1>8, <1>9, <1>10, <1>11

(* Before anything is said, turns are in order.                            *)
LEMMA TurnsBegin == StreamInit => TurnsInv
<1> SUFFICES ASSUME StreamInit, NEW s \in Sessions PROVE TurnsFit(s)
  BY DEF TurnsInv
<1>1. /\ log[s] = <<>> /\ open[s] = {} /\ last[s] = "none" /\ host[s].status = "idle"
  BY DEF StreamInit, Idle
<1>2. DOMAIN log[s] = {}
  BY <1>1
<1> QED
  BY <1>1, <1>2 DEF TurnsFit, TurnFits

(* They stay so whatever any process does.                                 *)
LEMMA TurnsKeep == StreamTypes /\ TurnsInv /\ [StreamNext]_streamVars => TurnsInv'
<1> SUFFICES ASSUME StreamTypes, TurnsInv, [StreamNext]_streamVars PROVE TurnsInv'
  OBVIOUS
<1>1. ASSUME \A s \in Sessions : SameTurns(s) PROVE TurnsInv'
  BY <1>1, SilenceFits DEF TurnsInv
<1>2. ASSUME NEW s \in Sessions, EngineOf(s) PROVE TurnsInv'
  <2>1. CASE AbortSession(s) \/ RemoveSession(s)
    <3>1. /\ log' = log /\ open' = open /\ last' = last
          /\ \A x \in Sessions : phase'[x] # "removed" => phase[x] # "removed"
      BY <2>1 DEF AbortSession, RemoveSession, StreamTypes
    <3>2. PICK b : host' = [host EXCEPT ![s].aborting = b]
      BY <2>1 DEF AbortSession, RemoveSession
    <3>3. \A x \in Sessions : host'[x].turns = host[x].turns /\ host'[x].status = host[x].status
      BY <3>2 DEF StreamTypes, Hosts
    <3> QED
      BY <3>1, <3>3, <1>1 DEF SameTurns
  <2> QED
    BY <2>1, <1>2, EngineTurns DEF EngineOf
<1>3. ASSUME log' = log, open' = open, last' = last, host' = host,
             \A x \in Sessions : phase'[x] # "removed" => phase[x] # "removed"
      PROVE  TurnsInv'
  BY <1>1, <1>3 DEF SameTurns
<1>4. ASSUME NEW s \in Sessions, Create(s) \/ Created(s) PROVE TurnsInv'
  <2>1. /\ log' = log /\ open' = open /\ last' = last /\ host' = host
        /\ \A x \in Sessions : phase'[x] # "removed" => phase[x] # "removed"
    BY <1>4 DEF Create, Created, StreamTypes
  <2> QED
    BY <2>1, <1>3
<1>5. ASSUME UNCHANGED main PROVE TurnsInv'
  BY <1>3, <1>5 DEF main
<1>6. CASE Reply
  BY <1>4, <1>5, <1>6 DEF Reply, ListSessions, History
<1>7. CASE Task
  BY <1>5, <1>7 DEF Task, OnEnvelope, OnChanged, OnRemoved, OnListed, OnCreated, OnHistory,
                    StartFetch, Receive
<1>8. CASE OpenWindow \/ CloseWindow
  BY <1>5, <1>8 DEF OpenWindow, CloseWindow
<1>9. CASE UNCHANGED streamVars
  BY <1>5, <1>9 DEF streamVars
<1> QED
  BY <1>2, <1>4, <1>6, <1>7, <1>8, <1>9 DEF StreamNext

-----------------------------------------------------------------------------
(* The transcript of the first n events, thoughts aside.                   *)

Statuses == {"over", "running", "completed", "error", "aborted"}

Blocks == [kind : {"user", "thinking", "tool", "receipts"}, id : Nat, turn : Nat,
           what : CallIds \cup {"task", "text", "digest", "aborted", "error", "completed"},
           status : Statuses]

Heard(s, n) ==
  /\ log[s] \in Seq(Entries) /\ n \in 0..Len(log[s])
  /\ \A i \in 1..n : Orderly(log[s], i)

Transcribes(s, b, n) ==
  /\ b \in Seq(Blocks) /\ InOrder(b)
  /\ \A i \in DOMAIN b : b[i].id \in 1..n
  /\ \A i \in DOMAIN b : b[i].kind # "thinking" =>
       Shows(s, b[i].id) /\ b[i] = Shown(s, b[i].id, n)
  /\ \A j \in 1..n : Shows(s, j) => \E i \in DOMAIN b : b[i].kind # "thinking" /\ b[i].id = j

(* The events heard are typed, and in order.                               *)
LEMMA HeardFacts ==
  ASSUME NEW s, NEW n, Heard(s, n)
  PROVE  /\ n \in Nat /\ 1..n \subseteq 1..Len(log[s]) /\ 1..n \subseteq DOMAIN log[s]
         /\ \A i \in 1..n : /\ log[s][i] \in Entries /\ log[s][i].turn \in Nat /\ i \in Nat
                            /\ Orderly(log[s], i) /\ 1..(i - 1) \subseteq 1..n
<1>1. Len(log[s]) \in Nat /\ DOMAIN log[s] = 1..Len(log[s]) /\ n \in Nat
  BY DEF Heard
<1>2. 1..n \subseteq 1..Len(log[s])
  BY <1>1 DEF Heard
<1>3. \A i \in 1..Len(log[s]) : log[s][i] \in Entries
  BY DEF Heard
<1>4. \A i \in 1..n : log[s][i].turn \in Nat
  BY <1>2, <1>3, EntryIs
<1>5. \A i \in 1..n : i \in Nat /\ 1..(i - 1) \subseteq 1..n
  BY <1>1
<1> QED
  BY <1>1, <1>2, <1>3, <1>4, <1>5 DEF Heard

(* A block is its parts.                                                   *)
LEMMA BlockIs ==
  ASSUME NEW kind, NEW n, NEW t, NEW w, NEW st, NEW b, b = Block(kind, n, t, w, st)
  PROVE  /\ b.kind = kind /\ b.id = n /\ b.turn = t /\ b.what = w /\ b.status = st
         /\ \A st2 : [b EXCEPT !.status = st2] = Block(kind, n, t, w, st2)
         /\ kind \in {"user", "thinking", "tool", "receipts"} /\ n \in Nat /\ t \in Nat
            /\ w \in CallIds \cup {"task", "text", "digest", "aborted", "error", "completed"}
            /\ st \in Statuses => b \in Blocks
BY DEF Block, Blocks

(* A card has a status.                                                    *)
LEMMA CardStatuses ==
  ASSUME NEW s, NEW n, NEW k
  PROVE  CardAt(s, n, k) \in Statuses
<1> DEFINE t == log[s][n].turn
           aborted == \E i \in 1..k : log[s][i] = Event("turn_end", t, "aborted")
           ends == {i \in 1..k : log[s][i].turn = t /\ log[s][i].kind \in {"done", "error"}}
<1>1. CASE aborted
  BY <1>1 DEF CardAt, Statuses
<1>2. CASE ~aborted /\ ends = {}
  BY <1>2 DEF CardAt, Statuses
<1>3. CASE ~aborted /\ ends # {}
  BY <1>3 DEF CardAt, Statuses
<1> QED
  BY <1>1, <1>2, <1>3

(* What the card of a turn tells.                                          *)
LEMMA CardTells ==
  ASSUME NEW s, NEW n, NEW k \in Nat, NEW t, t = log[s][n].turn, NEW m \in 1..k,
         ~\E i \in 1..k : log[s][i] = Event("turn_end", t, "aborted"),
         log[s][m].turn = t, Finishes(log[s][m]),
         \A i \in 1..k : log[s][i].turn = t /\ Finishes(log[s][i]) => i <= m
  PROVE  CardAt(s, n, k) = IF log[s][m].kind = "done" THEN "completed" ELSE "error"
<1> DEFINE ends == {i \in 1..k : log[s][i].turn = t /\ log[s][i].kind \in {"done", "error"}}
<1>1. m \in ends /\ ends \subseteq 1..k /\ \A i \in ends : i <= m
  BY DEF Finishes
<1>2. CardAt(s, n, k) = IF log[s][Max(ends)].kind = "done" THEN "completed" ELSE "error"
  BY <1>1 DEF CardAt
<1> HIDE DEF ends
<1>3. Max(ends) \in ends /\ \A i \in ends : i <= Max(ends)
  BY <1>1, MaxFacts
<1>4. Max(ends) = m
  <2>1. Max(ends) \in 1..k /\ Max(ends) <= m /\ m <= Max(ends)
    BY <1>1, <1>3
  <2> QED
    BY <2>1
<1> QED
  BY <1>2, <1>4

(* What a call, a result and any event are shown as.                       *)
LEMMA ToolShown ==
  ASSUME NEW s, NEW k, NEW n, log[s][n].kind = "tool_call", NEW b, b = Shown(s, n, k)
  PROVE  /\ b = Block("tool", n, log[s][n].turn, log[s][n].what,
                      IF Answered(s, n, k) THEN "over" ELSE "running")
         /\ b.kind = "tool" /\ b.what = log[s][n].what
         /\ Answered(s, n, k) => b.status = "over"
         /\ ~Answered(s, n, k) => b.status = "running"
<1>1. b = Block("tool", n, log[s][n].turn, log[s][n].what,
                IF Answered(s, n, k) THEN "over" ELSE "running")
  BY DEF Shown
<1> QED
  BY <1>1, BlockIs

LEMMA CardShown ==
  ASSUME NEW s, NEW k, NEW n, log[s][n].kind \notin {"turn_start", "tool_call"},
         NEW b, b = Shown(s, n, k)
  PROVE  /\ b = Block("receipts", n, log[s][n].turn, "digest", CardAt(s, n, k))
         /\ b.kind = "receipts"
<1>1. b = Block("receipts", n, log[s][n].turn, "digest", CardAt(s, n, k))
  BY DEF Shown
<1> QED
  BY <1>1, BlockIs

LEMMA ShownFacts ==
  ASSUME NEW s, NEW k, NEW n \in Nat, log[s][n] \in Entries, log[s][n].turn \in Nat,
         NEW b, b = Shown(s, n, k)
  PROVE  /\ b \in Blocks /\ b.id = n /\ b.turn = log[s][n].turn /\ b.kind # "thinking"
         /\ log[s][n].kind = "turn_start" <=> b.kind = "user"
         /\ log[s][n].kind = "tool_call" <=> b.kind = "tool"
<1> DEFINE e == log[s][n]
<1>1. CASE e.kind = "turn_start"
  <2>1. b = Block("user", n, e.turn, "task", "over")
    BY <1>1 DEF Shown
  <2>2. b \in Blocks /\ b.id = n /\ b.turn = e.turn /\ b.kind = "user"
    BY <2>1, BlockIs DEF Statuses
  <2> QED
    BY <2>2, <1>1
<1>2. CASE e.kind = "tool_call"
  <2> DEFINE st == IF Answered(s, n, k) THEN "over" ELSE "running"
  <2>1. b = Block("tool", n, e.turn, e.what, st)
    BY <1>2, ToolShown
  <2>2. st \in Statuses
    BY DEF Statuses
  <2>3. e.what \in CallIds \cup {"task", "text", "digest", "aborted", "error", "completed"}
    BY DEF Entries
  <2> HIDE DEF st
  <2>4. b \in Blocks /\ b.id = n /\ b.turn = e.turn /\ b.kind = "tool"
    BY <2>1, <2>2, <2>3, BlockIs
  <2> QED
    BY <2>4, <1>2
<1>3. CASE e.kind \notin {"turn_start", "tool_call"}
  <2>1. b = Block("receipts", n, e.turn, "digest", CardAt(s, n, k))
    BY <1>3, CardShown
  <2>2. b \in Blocks /\ b.id = n /\ b.turn = e.turn /\ b.kind = "receipts"
    BY <2>1, BlockIs, CardStatuses
  <2> QED
    BY <2>2, <1>3
<1> QED
  BY <1>1, <1>2, <1>3

(* No two blocks are of the same event.                                    *)
LEMMA IdsDiffer ==
  ASSUME NEW b \in Seq(Blocks), InOrder(b), NEW i \in DOMAIN b, NEW j \in DOMAIN b,
         b[i].id = b[j].id
  PROVE  i = j
<1>1. i \in Nat /\ j \in Nat /\ b[i].id \in Nat /\ b[j].id \in Nat
  <2>1. b[i] \in Blocks /\ b[j] \in Blocks
    OBVIOUS
  <2>2. \A x \in Blocks : x.id \in Nat
    BY DEF Blocks
  <2> QED
    BY <2>1, <2>2
<1>2. i < j => b[i].id < b[j].id
  BY DEF InOrder
<1>3. j < i => b[j].id < b[i].id
  BY DEF InOrder
<1> QED
  BY <1>1, <1>2, <1>3

(* A block more, none, or another status.                                  *)
LEMMA BlockAdded ==
  ASSUME NEW s, NEW n \in Nat, NEW b, Transcribes(s, b, n),
         \A j \in 1..n : Shows(s, j) => Shown(s, j, n + 1) = Shown(s, j, n),
         NEW x \in Blocks, x.id = n + 1,
         x.kind = "thinking" => ~Shows(s, n + 1),
         x.kind # "thinking" => Shows(s, n + 1) /\ x = Shown(s, n + 1, n + 1),
         NEW r, r = Append(b, x)
  PROVE  Transcribes(s, r, n + 1)
<1>1. b \in Seq(Blocks) /\ Len(b) \in Nat /\ DOMAIN b = 1..Len(b)
  BY DEF Transcribes
<1>2. /\ r \in Seq(Blocks) /\ DOMAIN r = 1..(Len(b) + 1) /\ r[Len(b) + 1] = x
      /\ \A i \in 1..Len(b) : r[i] = b[i]
  BY <1>1, AppendProperties
<1>3. \A i \in 1..Len(b) : b[i].id \in 1..n /\ r[i] = b[i]
  BY <1>1, <1>2 DEF Transcribes
<1>4. InOrder(r)
  <2> SUFFICES ASSUME NEW i \in DOMAIN r, NEW j \in DOMAIN r, i < j PROVE r[i].id < r[j].id
    BY DEF InOrder
  <2>1. i \in 1..Len(b)
    BY <1>1, <1>2
  <2>2. CASE j \in 1..Len(b)
    BY <2>1, <2>2, <1>1, <1>3 DEF InOrder, Transcribes
  <2>3. CASE j = Len(b) + 1
    <3>1. r[i].id \in 1..n /\ r[j].id = n + 1
      BY <2>1, <2>3, <1>2, <1>3
    <3> QED
      BY <3>1
  <2> QED
    BY <2>2, <2>3, <1>1, <1>2
<1>5. ASSUME NEW i \in DOMAIN r
      PROVE  /\ r[i].id \in 1..(n + 1)
             /\ r[i].kind # "thinking" => Shows(s, r[i].id) /\ r[i] = Shown(s, r[i].id, n + 1)
  <2>1. CASE i \in 1..Len(b)
    <3>1. r[i] = b[i] /\ b[i].id \in 1..n /\ i \in DOMAIN b
      BY <2>1, <1>1, <1>3
    <3>2. b[i].kind # "thinking" => Shows(s, b[i].id) /\ b[i] = Shown(s, b[i].id, n)
      BY <3>1 DEF Transcribes
    <3>3. b[i].id \in 1..(n + 1)
      BY <3>1
    <3> QED
      BY <3>1, <3>2, <3>3
  <2>2. CASE i = Len(b) + 1
    <3>1. r[i] = x /\ n + 1 \in 1..(n + 1)
      BY <2>2, <1>2
    <3> QED
      BY <3>1
  <2> QED
    BY <2>1, <2>2, <1>1, <1>2
<1>6. ASSUME NEW j \in 1..(n + 1), Shows(s, j)
      PROVE  \E i \in DOMAIN r : r[i].kind # "thinking" /\ r[i].id = j
  <2>1. CASE j \in 1..n
    <3>1. PICK i \in DOMAIN b : b[i].kind # "thinking" /\ b[i].id = j
      BY <2>1, <1>6 DEF Transcribes
    <3>2. i \in DOMAIN r /\ r[i] = b[i]
      BY <3>1, <1>1, <1>2
    <3> QED
      BY <3>1, <3>2
  <2>2. CASE j = n + 1
    <3>1. Len(b) + 1 \in DOMAIN r /\ x.kind # "thinking"
      BY <2>2, <1>1, <1>2, <1>6
    <3> QED
      BY <3>1, <2>2, <1>2
  <2> QED
    BY <2>1, <2>2
<1> QED
  BY <1>2, <1>4, <1>5, <1>6 DEF Transcribes

(* An event that changes no block and is not shown.                        *)
LEMMA BlocksKept ==
  ASSUME NEW s, NEW n \in Nat, NEW b, Transcribes(s, b, n),
         \A j \in 1..n : Shows(s, j) => Shown(s, j, n + 1) = Shown(s, j, n),
         ~Shows(s, n + 1)
  PROVE  Transcribes(s, b, n + 1)
<1>1. ASSUME NEW i \in DOMAIN b
      PROVE  /\ b[i].id \in 1..(n + 1)
             /\ b[i].kind # "thinking" => Shows(s, b[i].id) /\ b[i] = Shown(s, b[i].id, n + 1)
  <2>1. b[i].id \in 1..n /\ b[i].id \in 1..(n + 1)
    <3>1. b[i].id \in 1..n
      BY DEF Transcribes
    <3> QED
      BY <3>1
  <2> QED
    BY <2>1 DEF Transcribes
<1>2. ASSUME NEW j \in 1..(n + 1), Shows(s, j)
      PROVE  \E i \in DOMAIN b : b[i].kind # "thinking" /\ b[i].id = j
  <2>1. j \in 1..n
    BY <1>2
  <2> QED
    BY <2>1, <1>2 DEF Transcribes
<1> QED
  BY <1>1, <1>2 DEF Transcribes

(* An event that changes the status of one block.                          *)
LEMMA BlockUpdated ==
  ASSUME NEW s, NEW n \in Nat, NEW b, Transcribes(s, b, n), ~Shows(s, n + 1),
         NEW place \in DOMAIN b, b[place].kind # "thinking", NEW st \in Statuses,
         [b[place] EXCEPT !.status = st] = Shown(s, b[place].id, n + 1),
         \A j \in 1..n : Shows(s, j) /\ j # b[place].id => Shown(s, j, n + 1) = Shown(s, j, n),
         NEW r, r = [b EXCEPT ![place].status = st]
  PROVE  Transcribes(s, r, n + 1)
<1>1. /\ b \in Seq(Blocks) /\ Len(b) \in Nat /\ DOMAIN b = 1..Len(b) /\ InOrder(b)
      /\ place \in DOMAIN b
  BY DEF Transcribes
<1> DEFINE x == [b[place] EXCEPT !.status = st]
<1>2. x \in Blocks /\ x.id = b[place].id /\ x.kind = b[place].kind
  <2>1. b[place] \in Blocks
    BY <1>1
  <2> QED
    BY <2>1 DEF Blocks
<1>3. DOMAIN r = DOMAIN b /\ r = [b EXCEPT ![place] = x]
  OBVIOUS
<1>4. x = Shown(s, b[place].id, n + 1)
  OBVIOUS
<1> HIDE DEF x
<1>5. r[place] = x /\ \A i \in DOMAIN b : i # place => r[i] = b[i]
  BY <1>1, <1>3
<1>6. r \in Seq(Blocks)
  <2>1. place \in 1..Len(b)
    BY <1>1
  <2>2. [b EXCEPT ![place] = x] \in Seq(Blocks)
    BY <2>1, <1>1, <1>2, ExceptSeq
  <2> QED
    BY <2>2, <1>3
<1>7. \A i \in DOMAIN b : r[i].id = b[i].id /\ r[i].kind = b[i].kind
  BY <1>2, <1>5
<1>8. InOrder(r)
  BY <1>1, <1>3, <1>7 DEF InOrder
<1>9. ASSUME NEW i \in DOMAIN r
      PROVE  /\ r[i].id \in 1..(n + 1)
             /\ r[i].kind # "thinking" => Shows(s, r[i].id) /\ r[i] = Shown(s, r[i].id, n + 1)
  <2>1. b[i].id \in 1..n /\ b[i].id \in 1..(n + 1) /\ r[i].id = b[i].id
    <3>1. b[i].id \in 1..n
      BY <1>3 DEF Transcribes
    <3> QED
      BY <3>1, <1>3, <1>7
  <2>2. b[i].kind # "thinking" => Shows(s, b[i].id) /\ b[i] = Shown(s, b[i].id, n)
    BY <1>3 DEF Transcribes
  <2>3. CASE i = place
    BY <2>1, <2>2, <2>3, <1>2, <1>4, <1>5
  <2>4. CASE i # place
    <3>1. b[i].id # b[place].id
      BY <2>4, <1>1, <1>3, IdsDiffer
    <3> QED
      BY <3>1, <2>1, <2>2, <2>4, <1>3, <1>5
  <2> QED
    BY <2>3, <2>4
<1>10. ASSUME NEW j \in 1..(n + 1), Shows(s, j)
       PROVE  \E i \in DOMAIN r : r[i].kind # "thinking" /\ r[i].id = j
  <2>1. j \in 1..n
    BY <1>10
  <2>2. PICK i \in DOMAIN b : b[i].kind # "thinking" /\ b[i].id = j
    BY <2>1, <1>10 DEF Transcribes
  <2> QED
    BY <2>2, <1>3, <1>7
<1> QED
  BY <1>6, <1>8, <1>9, <1>10 DEF Transcribes

(* What an event does not change.                                          *)
LEMMA ShownStays ==
  ASSUME NEW s, NEW n \in Nat, Heard(s, n + 1), NEW e, e = log[s][n + 1],
         NEW j \in 1..n,
         log[s][j].kind = "tool_call" =>
           \/ ~(e.kind = "tool_result" /\ e.what = log[s][j].what)
           \/ Answers(log[s], j, n),
         log[s][j].kind \notin {"turn_start", "tool_call"} =>
           ~(/\ e.turn = log[s][j].turn
             /\ Finishes(e) \/ (e.kind = "turn_end" /\ e.what = "aborted"))
  PROVE  Shown(s, j, n + 1) = Shown(s, j, n)
<1> DEFINE l == log[s]
           t == l[j].turn
<1>1. e \in Entries /\ j \in Nat
  <2>1. n + 1 \in 1..(n + 1)
    OBVIOUS
  <2> QED
    BY <2>1, HeardFacts
<1>2. 1..(n + 1) = (1..n) \cup {n + 1} /\ (j + 1)..(n + 1) = ((j + 1)..n) \cup {n + 1}
  BY <1>1
<1>3. CASE l[j].kind = "turn_start"
  BY <1>3 DEF Shown
<1>4. CASE l[j].kind = "tool_call"
  <2>1. Answered(s, j, n + 1) <=> Answered(s, j, n) \/ e = Event("tool_result", t, l[j].what)
    BY <1>2 DEF Answered
  <2>2. e = Event("tool_result", t, l[j].what) => e.kind = "tool_result" /\ e.what = l[j].what
    BY <1>1, EntryIs
  <2>3. Answered(s, j, n) <=> Answers(l, j, n)
    BY DEF Answered, Answers
  <2>4. Answered(s, j, n + 1) <=> Answered(s, j, n)
    BY <2>1, <2>2, <2>3, <1>4
  <2> QED
    BY <2>4, <1>4 DEF Shown
<1>5. CASE l[j].kind \notin {"turn_start", "tool_call"}
  <2>1. e # Event("turn_end", t, "aborted") /\ ~(e.turn = t /\ e.kind \in {"done", "error"})
    BY <1>1, <1>5, EntryIs DEF Finishes
  <2>2. (\E i \in 1..(n + 1) : l[i] = Event("turn_end", t, "aborted"))
          <=> \E i \in 1..n : l[i] = Event("turn_end", t, "aborted")
    BY <2>1, <1>2
  <2>3. {i \in 1..(n + 1) : l[i].turn = t /\ l[i].kind \in {"done", "error"}}
          = {i \in 1..n : l[i].turn = t /\ l[i].kind \in {"done", "error"}}
    BY <2>1, <1>2
  <2>4. CardAt(s, j, n + 1) = CardAt(s, j, n)
    BY <2>2, <2>3 DEF CardAt
  <2> QED
    BY <2>4, <1>5 DEF Shown
<1> QED
  BY <1>3, <1>4, <1>5

(* A turn has one card, from the first event that finishes it.             *)
LEMMA CardFacts ==
  ASSUME NEW s, NEW n, Heard(s, n)
  PROVE  /\ \A j \in 1..n : IsCard(s, j) => Finishes(log[s][j])
         /\ \A i, j \in 1..n :
              IsCard(s, i) /\ IsCard(s, j) /\ log[s][i].turn = log[s][j].turn => i = j
         /\ \A j \in 1..n : Finishes(log[s][j]) =>
              \E i \in 1..n : i <= j /\ IsCard(s, i) /\ log[s][i].turn = log[s][j].turn
<1> DEFINE l == log[s]
<1>1. /\ n \in Nat
      /\ \A i \in 1..n : /\ l[i] \in Entries /\ l[i].turn \in Nat /\ i \in Nat
                         /\ Orderly(l, i) /\ 1..(i - 1) \subseteq 1..n
  BY HeardFacts
<1>2. ASSUME NEW j \in 1..n, IsCard(s, j) PROVE Finishes(l[j])
  <2>1. l[j].kind \in {"done", "error", "turn_end"}
    BY <1>2 DEF IsCard
  <2>2. l[j].kind = "turn_end" => \E i \in 1..(j - 1) : Finishes(l[i]) /\ l[i].turn = l[j].turn
    BY <1>1 DEF Orderly
  <2>3. ~\E i \in 1..(j - 1) : Finishes(l[i]) /\ l[i].turn = l[j].turn
    BY <1>2 DEF IsCard, Finishes
  <2> QED
    BY <2>1, <2>2, <2>3 DEF Finishes
<1>3. ASSUME NEW i \in 1..n, NEW j \in 1..n, IsCard(s, i), IsCard(s, j), l[i].turn = l[j].turn
      PROVE  i = j
  <2>1. Finishes(l[i]) /\ Finishes(l[j]) /\ i \in Nat /\ j \in Nat
    BY <1>1, <1>2, <1>3
  <2>2. i \notin 1..(j - 1) /\ j \notin 1..(i - 1)
    BY <2>1, <1>3 DEF IsCard, Finishes
  <2> QED
    BY <2>1, <2>2, <1>1
<1>4. ASSUME NEW j \in 1..n, Finishes(l[j])
      PROVE  \E i \in 1..n : i <= j /\ IsCard(s, i) /\ l[i].turn = l[j].turn
  <2> DEFINE T == {i \in 1..n : Finishes(l[i]) /\ l[i].turn = l[j].turn}
  <2>1. j \in T /\ T \subseteq Nat
    BY <1>1, <1>4
  <2>2. PICK m \in T : \A i \in T : m <= i
    BY <2>1, LeastOf
  <2>3. m \in 1..n /\ Finishes(l[m]) /\ l[m].turn = l[j].turn /\ m <= j
    BY <2>1, <2>2
  <2>4. ASSUME NEW i \in 1..(m - 1) PROVE ~(l[i].turn = l[m].turn /\ Finishes(l[i]))
    <3>1. i \in 1..n /\ i < m /\ i \in Nat /\ m \in Nat
      BY <2>3, <1>1
    <3>2. i \notin T
      BY <3>1, <2>2
    <3> QED
      BY <3>1, <3>2, <2>3
  <2> HIDE DEF T
  <2>5. IsCard(s, m)
    BY <2>3, <2>4 DEF IsCard, Finishes
  <2> QED
    BY <2>3, <2>5
<1> QED
  BY <1>2, <1>3, <1>4

(* A block tells which event it shows.                                     *)
LEMMA BlockTells ==
  ASSUME NEW s, NEW n, Heard(s, n), NEW b, Transcribes(s, b, n), NEW i \in DOMAIN b,
         b[i].kind # "thinking", NEW j, j = b[i].id
  PROVE  /\ j \in 1..n /\ Shows(s, j) /\ b[i] = Shown(s, j, n)
         /\ b[i].turn = log[s][j].turn
         /\ b[i].kind = "user" <=> log[s][j].kind = "turn_start"
         /\ b[i].kind = "tool" <=> log[s][j].kind = "tool_call"
         /\ b[i].kind = "tool" => /\ b[i].what = log[s][j].what
                                  /\ b[i].status = "running" <=> ~Answers(log[s], j, n)
         /\ b[i].kind = "receipts" <=> IsCard(s, j)
<1>1. j \in 1..n /\ Shows(s, j) /\ b[i] = Shown(s, j, n)
  BY DEF Transcribes
<1>2. j \in Nat /\ log[s][j] \in Entries /\ log[s][j].turn \in Nat
  BY <1>1, HeardFacts
<1>3. b[i] \in Blocks /\ b[i].kind \in {"user", "tool", "receipts"}
  <2>1. b[i] \in Blocks
    BY DEF Transcribes
  <2> QED
    BY <2>1 DEF Blocks
<1>4. /\ b[i].turn = log[s][j].turn
      /\ b[i].kind = "user" <=> log[s][j].kind = "turn_start"
      /\ b[i].kind = "tool" <=> log[s][j].kind = "tool_call"
      /\ b[i].kind = "tool" => /\ b[i].what = log[s][j].what
                               /\ b[i].status = "running" <=> ~Answered(s, j, n)
  <2>1. /\ b[i].turn = log[s][j].turn
        /\ log[s][j].kind = "turn_start" <=> b[i].kind = "user"
        /\ log[s][j].kind = "tool_call" <=> b[i].kind = "tool"
    BY <1>1, <1>2, ShownFacts
  <2>2. ASSUME log[s][j].kind = "tool_call"
        PROVE  b[i].what = log[s][j].what /\ (b[i].status = "running" <=> ~Answered(s, j, n))
    <3>1. /\ b[i].what = log[s][j].what
          /\ Answered(s, j, n) => b[i].status = "over"
          /\ ~Answered(s, j, n) => b[i].status = "running"
      BY <1>1, <2>2, ToolShown
    <3> QED
      BY <3>1
  <2> QED
    BY <2>1, <2>2
<1>5. Answered(s, j, n) <=> Answers(log[s], j, n)
  BY DEF Answered, Answers
<1>6. b[i].kind = "receipts" <=> IsCard(s, j)
  <2>1. IsCard(s, j) => log[s][j].kind \notin {"turn_start", "tool_call"}
    BY DEF IsCard
  <2>2. log[s][j].kind \notin {"turn_start", "tool_call"} => IsCard(s, j)
    BY <1>1 DEF Shows
  <2> QED
    BY <2>1, <2>2, <1>3, <1>4
<1> QED
  BY <1>1, <1>4, <1>5, <1>6

(* The card of a turn is found where applyEnvelope looks for it.           *)
LEMMA CardPlace ==
  ASSUME NEW s, NEW n, Heard(s, n), NEW b, Transcribes(s, b, n), NEW t
  PROVE  /\ (\A i \in 1..n : ~(Finishes(log[s][i]) /\ log[s][i].turn = t)) => CardOf(b, t) = 0
         /\ \A j \in 1..n : IsCard(s, j) /\ log[s][j].turn = t =>
              CardOf(b, t) \in DOMAIN b /\ b[CardOf(b, t)].id = j
              /\ b[CardOf(b, t)].kind = "receipts" /\ CardOf(b, t) # 0
<1> DEFINE l == log[s]
           mine(i, kind) == b[i].kind = kind /\ b[i].turn = t
           cards == {i \in DOMAIN b :
                       /\ mine(i, "receipts")
                       /\ \A i2 \in DOMAIN b : i2 > i => ~mine(i2, "user")}
<1>1. /\ b \in Seq(Blocks) /\ InOrder(b) /\ Len(b) \in Nat /\ DOMAIN b = 1..Len(b)
      /\ n \in Nat
  BY HeardFacts DEF Transcribes
<1>2. CardOf(b, t) = IF cards = {} THEN 0 ELSE Max(cards)
  BY DEF CardOf
<1>3. ASSUME NEW i \in cards
      PROVE  b[i].id \in 1..n /\ IsCard(s, b[i].id) /\ l[b[i].id].turn = t /\ Finishes(l[b[i].id])
  <2>1. i \in DOMAIN b /\ b[i].kind = "receipts" /\ b[i].turn = t
    OBVIOUS
  <2>2. b[i].id \in 1..n /\ IsCard(s, b[i].id) /\ b[i].turn = l[b[i].id].turn
    BY <2>1, BlockTells
  <2> QED
    BY <2>1, <2>2, CardFacts
<1>4. ASSUME \A i \in 1..n : ~(Finishes(l[i]) /\ l[i].turn = t) PROVE CardOf(b, t) = 0
  BY <1>2, <1>3, <1>4
<1>5. ASSUME NEW j \in 1..n, IsCard(s, j), l[j].turn = t
      PROVE  CardOf(b, t) \in DOMAIN b /\ b[CardOf(b, t)].id = j
             /\ b[CardOf(b, t)].kind = "receipts" /\ CardOf(b, t) # 0
  <2>1. PICK i \in DOMAIN b : b[i].kind # "thinking" /\ b[i].id = j
    BY <1>5 DEF Transcribes, Shows
  <2>2. b[i].kind = "receipts" /\ b[i].turn = t
    BY <2>1, <1>5, BlockTells
  <2>3. ASSUME NEW i2 \in DOMAIN b, i2 > i PROVE ~mine(i2, "user")
    <3> SUFFICES ASSUME b[i2].kind = "user", b[i2].turn = t PROVE FALSE
      OBVIOUS
    <3> DEFINE j2 == b[i2].id
    <3>1. /\ j2 \in 1..n /\ l[j2].kind = "turn_start" /\ l[j2].turn = t
      BY BlockTells
    <3>2. j < j2
      <4>1. i < i2
        BY <2>3, <1>1
      <4> QED
        BY <4>1, <2>1, <1>1 DEF InOrder
    <3> HIDE DEF j2
    <3>3. j \in 1..(j2 - 1) /\ l[j].turn \in Nat /\ Orderly(l, j2)
      BY <3>1, <3>2, HeardFacts
    <3>4. l[j].turn < l[j2].turn
      BY <3>1, <3>3 DEF Orderly
    <3> QED
      BY <3>1, <3>3, <3>4, <1>5
  <2>4. i \in cards
    BY <2>2, <2>3
  <2>5. ASSUME NEW i2 \in cards PROVE i2 = i
    <3>1. b[i2].id = j /\ i2 \in DOMAIN b
      BY <1>3, <1>5, CardFacts
    <3> QED
      BY <3>1, <2>1, <1>1, IdsDiffer
  <2>6. cards \subseteq 1..Len(b)
    BY <1>1
  <2> HIDE DEF cards
  <2>7. Max(cards) = i
    BY <2>4, <2>5, <2>6, <1>1, MaxFacts
  <2>8. CardOf(b, t) = i /\ i \in 1..Len(b)
    BY <2>4, <2>7, <1>1, <1>2
  <2> QED
    BY <2>1, <2>2, <2>8, <1>1
<1> QED
  BY <1>4, <1>5

(* A result is of the one call that waits for it, and of its block.        *)
Resolves(s, n, b, e, place, j) ==
  /\ RunningBlocks(b, e.what) = {place} /\ b[place].id = j /\ b[place].kind = "tool"
  /\ log[s][j].kind = "tool_call" /\ log[s][j].what = e.what
  /\ log[s][j].turn = e.turn
  /\ \A j2 \in 1..n :
       log[s][j2].kind = "tool_call" /\ log[s][j2].what = e.what /\ j2 # j
         => Answers(log[s], j2, n)

(* A result finds the block of the one call it answers.                    *)
LEMMA RunningPlace ==
  ASSUME NEW s, NEW n \in Nat, Heard(s, n + 1), NEW b, Transcribes(s, b, n),
         NEW e, e = log[s][n + 1], e.kind = "tool_result"
  PROVE  \E place \in DOMAIN b, j \in 1..n : Resolves(s, n, b, e, place, j)
<1> DEFINE l == log[s]
<1>1. Heard(s, n) /\ n + 1 \in 1..(n + 1) /\ (n + 1) - 1 = n
  <2>1. 1..n \subseteq 1..(n + 1)
    OBVIOUS
  <2>2. Len(log[s]) \in Nat
    BY DEF Heard
  <2> QED
    BY <2>1, <2>2 DEF Heard
<1>2. \A i \in 1..n : /\ i \in Nat /\ Orderly(l, i)
                     /\ \A i2 \in 1..n : i2 < i => i2 \in 1..(i - 1)
  BY <1>1, HeardFacts
<1>3. PICK j \in 1..n : /\ l[j].kind = "tool_call" /\ l[j].what = e.what
                       /\ l[j].turn = e.turn /\ ~Answers(l, j, n)
  <2>1. Orderly(l, n + 1)
    BY <1>1 DEF Heard
  <2> QED
    BY <2>1, <1>1 DEF Orderly
<1>4. \A i \in 1..n : \A k \in 1..n : Answers(l, i, k - 1) => Answers(l, i, n)
  <2> SUFFICES ASSUME NEW i \in 1..n, NEW k \in 1..n, Answers(l, i, k - 1)
               PROVE  Answers(l, i, n)
    OBVIOUS
  <2>1. (i + 1)..(k - 1) \subseteq (i + 1)..n
    OBVIOUS
  <2> QED
    BY <2>1 DEF Answers
<1>5. ASSUME NEW j2 \in 1..n, l[j2].kind = "tool_call", l[j2].what = e.what, j2 # j
      PROVE  Answers(l, j2, n)
  <2>1. CASE j2 < j
    <3>1. j2 \in 1..(j - 1) /\ Orderly(l, j)
      BY <2>1, <1>2
    <3>2. Answers(l, j2, j - 1)
      BY <3>1, <1>3, <1>5 DEF Orderly
    <3> QED
      BY <3>2, <1>4
  <2>2. CASE j < j2
    <3>1. j \in 1..(j2 - 1) /\ Orderly(l, j2)
      BY <2>2, <1>2
    <3>2. Answers(l, j, j2 - 1)
      BY <3>1, <1>3, <1>5 DEF Orderly
    <3> QED
      BY <3>2, <1>3, <1>4
  <2> QED
    BY <2>1, <2>2, <1>2, <1>5
<1>6. PICK place \in DOMAIN b : b[place].kind # "thinking" /\ b[place].id = j
  <2>1. Shows(s, j)
    BY <1>3 DEF Shows
  <2> QED
    BY <2>1 DEF Transcribes
<1>7. b[place].kind = "tool" /\ b[place].what = e.what /\ b[place].status = "running"
  BY <1>1, <1>3, <1>6, BlockTells
<1>8. ASSUME NEW i \in RunningBlocks(b, e.what) PROVE i = place
  <2>1. i \in DOMAIN b /\ b[i].kind = "tool" /\ b[i].what = e.what /\ b[i].status = "running"
    BY DEF RunningBlocks
  <2> DEFINE j2 == b[i].id
  <2>2. /\ j2 \in 1..n /\ l[j2].kind = "tool_call" /\ l[j2].what = e.what
        /\ ~Answers(l, j2, n)
    BY <2>1, <1>1, BlockTells
  <2>3. j2 = j
    BY <2>2, <1>5
  <2>4. b \in Seq(Blocks) /\ InOrder(b)
    BY DEF Transcribes
  <2> QED
    BY <2>1, <2>3, <2>4, <1>6, IdsDiffer
<1>9. place \in RunningBlocks(b, e.what)
  BY <1>7 DEF RunningBlocks
<1>10. RunningBlocks(b, e.what) = {place}
  BY <1>8, <1>9
<1> QED
  BY <1>3, <1>5, <1>6, <1>7, <1>10 DEF Resolves

(* What is heard up to an event is heard up to the one before.             *)
LEMMA HeardBefore ==
  ASSUME NEW s, NEW n \in Nat, Heard(s, n + 1), NEW e, e = log[s][n + 1]
  PROVE  /\ Heard(s, n) /\ n + 1 \in 1..(n + 1) /\ (n + 1) - 1 = n
         /\ Orderly(log[s], n + 1) /\ e \in Entries /\ e.turn \in Nat
         /\ \A i \in 1..n : i \in 1..(n + 1)
         /\ \A i \in 1..(n + 1) : i \in 1..n \/ i = n + 1
<1>1. n + 1 \in 1..(n + 1) /\ (n + 1) - 1 = n /\ 1..n \subseteq 1..(n + 1)
      /\ \A i \in 1..(n + 1) : i \in 1..n \/ i = n + 1
  OBVIOUS
<1>2. Len(log[s]) \in Nat
  BY DEF Heard
<1>3. Heard(s, n)
  BY <1>1, <1>2 DEF Heard
<1>4. Orderly(log[s], n + 1) /\ e \in Entries /\ e.turn \in Nat
  BY <1>1, HeardFacts
<1> QED
  BY <1>1, <1>3, <1>4

(* The end of a turn is told by the card it has.                           *)
LEMMA CardUpdated ==
  ASSUME NEW s, NEW n \in Nat, Heard(s, n + 1), NEW b, Transcribes(s, b, n),
         NEW e, e = log[s][n + 1], e.kind \in {"done", "error", "turn_end"},
         NEW j \in 1..n, IsCard(s, j), log[s][j].turn = e.turn,
         NEW st, st = CardAt(s, j, n + 1),
         NEW r, r = [b EXCEPT ![CardOf(b, e.turn)].status = st]
  PROVE  Transcribes(s, r, n + 1)
<1> DEFINE l == log[s]
<1>1. /\ Heard(s, n) /\ n + 1 \in 1..(n + 1) /\ (n + 1) - 1 = n
  BY HeardBefore
<1>2. PICK place \in DOMAIN b :
        place = CardOf(b, e.turn) /\ b[place].id = j /\ b[place].kind = "receipts"
  BY <1>1, CardPlace
<1>3. Finishes(l[j]) /\ l[j].kind \notin {"turn_start", "tool_call"}
  BY <1>1, CardFacts DEF Finishes
<1>4. ~Shows(s, n + 1)
  BY <1>1, <1>3 DEF Shows, IsCard, Finishes
<1>5. st \in Statuses
  BY CardStatuses
<1>6. [b[place] EXCEPT !.status = st] = Shown(s, j, n + 1)
  <2>1. b[place] = Block("receipts", j, l[j].turn, "digest", CardAt(s, j, n))
    <3>1. b[place] = Shown(s, j, n)
      BY <1>1, <1>2, BlockTells
    <3> QED
      BY <3>1, <1>3, CardShown
  <2>2. Shown(s, j, n + 1) = Block("receipts", j, l[j].turn, "digest", st)
    BY <1>3, CardShown
  <2> QED
    BY <2>1, <2>2, BlockIs
<1>7. ASSUME NEW i \in 1..n, Shows(s, i), i # j PROVE Shown(s, i, n + 1) = Shown(s, i, n)
  <2>1. l[i].kind \notin {"turn_start", "tool_call"} => e.turn # l[i].turn
    <3> SUFFICES ASSUME l[i].kind \notin {"turn_start", "tool_call"} PROVE l[j].turn # l[i].turn
      OBVIOUS
    <3>1. IsCard(s, i)
      BY <1>7 DEF Shows
    <3> QED
      BY <3>1, <1>1, <1>7, CardFacts
  <2> QED
    BY <2>1, ShownStays
<1>8. r = [b EXCEPT ![place].status = st]
  BY <1>2
<1>9. /\ place \in DOMAIN b /\ b[place].kind # "thinking"
      /\ [b[place] EXCEPT !.status = st] = Shown(s, b[place].id, n + 1)
      /\ \A i \in 1..n : Shows(s, i) /\ i # b[place].id => Shown(s, i, n + 1) = Shown(s, i, n)
  BY <1>2, <1>6, <1>7
<1> DEFINE q == [b EXCEPT ![place].status = st]
<1>10. \A i \in 1..n : Shows(s, i) /\ i # b[place].id => Shown(s, i, n + 1) = Shown(s, i, n)
  BY <1>9
<1>11. [b[place] EXCEPT !.status = st] = Shown(s, b[place].id, n + 1) /\ b[place].kind # "thinking"
  BY <1>9
<1>12. Transcribes(s, q, n + 1)
  BY <1>4, <1>5, <1>10, <1>11, BlockUpdated DEF q
<1> QED
  BY <1>8, <1>12

(* One more envelope: the step of the induction.                           *)
LEMMA EventTranscribed ==
  ASSUME NEW s, NEW n \in Nat, Heard(s, n + 1), NEW b, Transcribes(s, b, n),
         NEW e, e = log[s][n + 1], NEW t, t = e.turn
  PROVE  /\ Transcribes(s, BlocksAfter(b, n + 1, t, e), n + 1)
         /\ e.kind = "thinking" => Transcribes(s, b, n + 1)
<1> DEFINE l == log[s]
<1>1. /\ Heard(s, n) /\ n + 1 \in 1..(n + 1) /\ (n + 1) - 1 = n
      /\ Orderly(log[s], n + 1) /\ e \in Entries /\ e.turn \in Nat
      /\ \A i \in 1..n : i \in 1..(n + 1)
      /\ \A i \in 1..(n + 1) : i \in 1..n \/ i = n + 1
  BY HeardBefore
<1>2. n + 1 \in Nat
  OBVIOUS
<1>3. e.what \in CallIds \cup {"task", "text", "digest", "aborted", "error", "completed"}
      /\ e.kind \in {"turn_start", "thinking", "tool_call", "tool_result", "done", "error", "turn_end"}
  BY <1>1 DEF Entries
<1>4. ASSUME e.kind \in {"thinking", "turn_start", "tool_call"}
      PROVE  \A j \in 1..n : Shown(s, j, n + 1) = Shown(s, j, n)
  BY <1>4, ShownStays DEF Finishes
<1>5. CASE e.kind = "thinking"
  <2> DEFINE x == Block("thinking", n + 1, t, e.what, "over")
  <2>1. ~Shows(s, n + 1)
    BY <1>5 DEF Shows, IsCard
  <2>2. Transcribes(s, b, n + 1)
    BY <2>1, <1>4, <1>5, BlocksKept
  <2>3. x \in Blocks /\ x.id = n + 1 /\ x.kind = "thinking"
    BY <1>1, <1>2, <1>3, BlockIs DEF Statuses
  <2>4. BlocksAfter(b, n + 1, t, e) \in {b, Append(b, x)}
    BY <1>5 DEF BlocksAfter
  <2> HIDE DEF x
  <2>5. Transcribes(s, Append(b, x), n + 1)
    BY <2>1, <2>3, <1>4, <1>5, BlockAdded
  <2> QED
    BY <2>2, <2>4, <2>5
<1>6. CASE e.kind = "turn_start"
  <2> DEFINE x == Block("user", n + 1, t, e.what, "over")
  <2>1. Shows(s, n + 1)
    BY <1>6 DEF Shows
  <2>2. x \in Blocks /\ x.id = n + 1 /\ x.kind = "user"
    BY <1>1, <1>2, <1>3, BlockIs DEF Statuses
  <2>3. e.what = "task"
    BY <1>1, <1>6 DEF Orderly
  <2>4. x = Shown(s, n + 1, n + 1)
    BY <2>3, <1>6 DEF Shown
  <2>5. BlocksAfter(b, n + 1, t, e) = Append(b, x)
    BY <1>6 DEF BlocksAfter
  <2> HIDE DEF x
  <2>6. Transcribes(s, Append(b, x), n + 1)
    BY <2>1, <2>2, <2>4, <1>4, <1>6, BlockAdded
  <2> QED
    BY <2>5, <2>6, <1>6
<1>7. CASE e.kind = "tool_call"
  <2> DEFINE x == Block("tool", n + 1, t, e.what, "running")
  <2>1. Shows(s, n + 1)
    BY <1>7 DEF Shows
  <2>2. x \in Blocks /\ x.id = n + 1 /\ x.kind = "tool"
    BY <1>1, <1>2, <1>3, BlockIs DEF Statuses
  <2>3. ~Answered(s, n + 1, n + 1)
    <3>1. ((n + 1) + 1)..(n + 1) = {}
      OBVIOUS
    <3> QED
      BY <3>1 DEF Answered
  <2>4. x = Shown(s, n + 1, n + 1)
    BY <2>3, <1>7, ToolShown
  <2>5. BlocksAfter(b, n + 1, t, e) = Append(b, x)
    BY <1>7 DEF BlocksAfter
  <2> HIDE DEF x
  <2>6. Transcribes(s, Append(b, x), n + 1)
    BY <2>1, <2>2, <2>4, <1>4, <1>7, BlockAdded
  <2> QED
    BY <2>5, <2>6, <1>7
<1>8. CASE e.kind = "tool_result"
  <2>0. PICK place \in DOMAIN b, j \in 1..n : Resolves(s, n, b, e, place, j)
    BY <1>8, RunningPlace
  <2>1. /\ RunningBlocks(b, e.what) = {place} /\ b[place].id = j /\ b[place].kind = "tool"
        /\ l[j].kind = "tool_call" /\ l[j].what = e.what
        /\ l[j].turn = e.turn
        /\ \A j2 \in 1..n :
             l[j2].kind = "tool_call" /\ l[j2].what = e.what /\ j2 # j => Answers(l, j2, n)
    BY <2>0 DEF Resolves
  <2>2. Min({place}) = place
    <3>1. place \in Nat /\ {place} \subseteq Nat /\ place \in {place} /\ \A i \in {place} : place <= i
      <4>1. b \in Seq(Blocks)
        BY DEF Transcribes
      <4> QED
        BY <4>1
    <3> QED
      BY <3>1, MinIs
  <2> DEFINE r == [b EXCEPT ![place].status = "over"]
  <2>3. BlocksAfter(b, n + 1, t, e) = r
    BY <2>1, <2>2, <1>8 DEF BlocksAfter
  <2>4. ~Shows(s, n + 1)
    BY <1>8 DEF Shows, IsCard
  <2>5. [b[place] EXCEPT !.status = "over"] = Shown(s, j, n + 1)
    <3>1. b[place] = Shown(s, j, n)
      BY <2>1, <1>1, BlockTells
    <3>2. PICK st : b[place] = Block("tool", j, l[j].turn, l[j].what, st)
      BY <3>1, <2>1, ToolShown
    <3>3. e = Event("tool_result", l[j].turn, l[j].what)
      BY <2>1, <1>1, <1>8, EntryIs
    <3>4. n + 1 \in (j + 1)..(n + 1)
      OBVIOUS
    <3>5. Answered(s, j, n + 1)
      BY <3>3, <3>4 DEF Answered
    <3>6. Shown(s, j, n + 1) = Block("tool", j, l[j].turn, l[j].what, "over")
      BY <3>5, <2>1, ToolShown
    <3> QED
      BY <3>2, <3>6, BlockIs
  <2>6. ASSUME NEW i \in 1..n, Shows(s, i), i # j PROVE Shown(s, i, n + 1) = Shown(s, i, n)
    <3>1. l[i].kind = "tool_call" => ~(e.kind = "tool_result" /\ e.what = l[i].what) \/ Answers(l, i, n)
      BY <2>1, <2>6
    <3>2. ~(Finishes(e) \/ (e.kind = "turn_end" /\ e.what = "aborted"))
      BY <1>8 DEF Finishes
    <3> QED
      BY <3>1, <3>2, ShownStays
  <2>7. "over" \in Statuses /\ b[place].kind # "thinking"
    BY <2>1 DEF Statuses
  <2> HIDE DEF r
  <2>8. Transcribes(s, r, n + 1)
    BY <2>1, <2>4, <2>5, <2>6, <2>7, BlockUpdated DEF r
  <2> QED
    BY <2>3, <2>8, <1>8
<1>9. ASSUME e.kind \in {"done", "error"}
      PROVE  Transcribes(s, Receipts(b, n + 1, t, IF e.kind = "done" THEN "completed" ELSE "error"), n + 1)
  <2> DEFINE st == IF e.kind = "done" THEN "completed" ELSE "error"
             r == Receipts(b, n + 1, t, st)
  <2>1. \A i \in 1..(n + 1) : l[i] # Event("turn_end", t, "aborted")
    <3> SUFFICES ASSUME NEW i \in 1..(n + 1), l[i] = Event("turn_end", t, "aborted") PROVE FALSE
      OBVIOUS
    <3>1. l[i].kind = "turn_end" /\ l[i].turn = t
      BY DEF Event
    <3>2. i \in 1..n
      BY <3>1, <1>1, <1>9
    <3>3. l[i].turn < l[n + 1].turn
      BY <3>1, <3>2, <1>1 DEF Orderly
    <3> QED
      BY <3>1, <3>3, <1>1
  <2>2. \A i \in 1..(n + 1) : i <= n + 1
    OBVIOUS
  <2>3. ASSUME NEW j \in 1..(n + 1), l[j].turn = t PROVE CardAt(s, j, n + 1) = st
    BY <2>1, <2>2, <2>3, <1>1, <1>2, <1>9, CardTells DEF Finishes
  <2>4. CASE \A i \in 1..n : ~(Finishes(l[i]) /\ l[i].turn = t)
    <3> DEFINE x == Block("receipts", n + 1, t, "digest", st)
    <3>1. CardOf(b, t) = 0
      BY <2>4, <1>1, CardPlace
    <3>2. IsCard(s, n + 1) /\ Shows(s, n + 1)
      BY <2>4, <1>1, <1>9 DEF IsCard, Shows, Finishes
    <3>3. st \in Statuses
      BY DEF Statuses
    <3>4. x = Shown(s, n + 1, n + 1)
      BY <2>3, <1>1, <1>9, CardShown
    <3>5. r = Append(b, x)
      BY <3>1 DEF Receipts
    <3> HIDE DEF st
    <3>6. x \in Blocks /\ x.id = n + 1 /\ x.kind = "receipts"
      BY <3>3, <1>1, <1>2, BlockIs
    <3> HIDE DEF x, r
    <3>7. ASSUME NEW i \in 1..n, Shows(s, i) PROVE Shown(s, i, n + 1) = Shown(s, i, n)
      <4>1. l[i].kind \notin {"turn_start", "tool_call"} => e.turn # l[i].turn
        BY <2>4, <3>7, <1>1, CardFacts DEF Shows
      <4>2. e.kind # "tool_result"
        BY <1>9
      <4> QED
        BY <4>1, <4>2, ShownStays
    <3>8. Transcribes(s, r, n + 1)
      BY <3>2, <3>4, <3>5, <3>6, <3>7, BlockAdded
    <3> QED
      BY <3>8 DEF r, st
  <2>5. ASSUME NEW i \in 1..n, Finishes(l[i]), l[i].turn = t PROVE Transcribes(s, r, n + 1)
    <3>1. PICK j \in 1..n : IsCard(s, j) /\ l[j].turn = t
      BY <2>5, <1>1, CardFacts
    <3>2. CardOf(b, t) # 0
      BY <3>1, <1>1, CardPlace
    <3>3. r = [b EXCEPT ![CardOf(b, t)].status = st]
      BY <3>2 DEF Receipts
    <3>4. st = CardAt(s, j, n + 1)
      BY <3>1, <2>3, <1>1
    <3> HIDE DEF st, r
    <3> QED
      BY <3>1, <3>3, <3>4, <1>9, CardUpdated
  <2> QED
    BY <2>4, <2>5
<1>10. CASE e.kind \in {"done", "error"}
  BY <1>9, <1>10 DEF BlocksAfter
<1>11. CASE e.kind = "turn_end"
  <2>1. PICK j \in 1..n : IsCard(s, j) /\ l[j].turn = t
    <3>1. \E i \in 1..n : Finishes(l[i]) /\ l[i].turn = t
      BY <1>1, <1>11 DEF Orderly
    <3> QED
      BY <3>1, <1>1, CardFacts
  <2>2. CardOf(b, t) # 0
    BY <2>1, <1>1, CardPlace
  <2>3. BlocksAfter(b, n + 1, t, e) = Ended(b, n + 1, t, e.what)
    BY <1>11 DEF BlocksAfter
  <2>4. CASE e.what = "aborted"
    <3> DEFINE r == [b EXCEPT ![CardOf(b, t)].status = "aborted"]
    <3>1. BlocksAfter(b, n + 1, t, e) = r
      BY <2>2, <2>3, <2>4 DEF Ended, Receipts
    <3>2. e = Event("turn_end", t, "aborted")
      BY <2>4, <1>1, <1>11, EntryIs
    <3>3. CardAt(s, j, n + 1) = "aborted"
      BY <3>2, <2>1, <1>1 DEF CardAt
    <3> HIDE DEF r
    <3>4. Transcribes(s, r, n + 1)
      BY <3>3, <2>1, <1>11, CardUpdated DEF r
    <3> QED
      BY <3>1, <3>4, <1>11
  <2>5. CASE e.what # "aborted"
    <3>1. BlocksAfter(b, n + 1, t, e) = b
      BY <2>2, <2>3, <2>5 DEF Ended
    <3>2. \A i \in 1..n : Shown(s, i, n + 1) = Shown(s, i, n)
      BY <2>5, <1>11, ShownStays DEF Finishes
    <3>3. ~Shows(s, n + 1)
      <4>1. ~IsCard(s, n + 1)
        BY <1>1, <1>11, CardFacts DEF Finishes
      <4> QED
        BY <4>1, <1>11 DEF Shows
    <3> QED
      BY <3>1, <3>2, <3>3, <1>11, BlocksKept
  <2> QED
    BY <2>4, <2>5
<1> QED
  BY <1>3, <1>5, <1>6, <1>7, <1>8, <1>10, <1>11

-----------------------------------------------------------------------------
(* The transcript is folded one event after the other.                     *)

FoldsTo(f, s, k) ==
  f = [n \in 0..k |->
         IF n = 0 THEN [blocks |-> <<>>, turn |-> views[s].base, activity |-> "idle"]
         ELSE IF n \in views[s].applied THEN ApplyEnvelope(f[n - 1], n, log[s][n])
         ELSE f[n - 1]]

(* The recursive function of Fold exists, and unfolds.                     *)
LEMMA FoldExists ==
  ASSUME NEW s, NEW k \in Nat
  PROVE  \E f : FoldsTo(f, s, k)
<1> DEFINE S == {n \in Nat : \E f : FoldsTo(f, s, n)}
           Empty == [blocks |-> <<>>, turn |-> views[s].base, activity |-> "idle"]
<1>1. 0 \in S
  <2> DEFINE f == [n \in 0..0 |-> Empty]
  <2>1. FoldsTo(f, s, 0)
    BY DEF FoldsTo
  <2> QED
    BY <2>1
<1>2. ASSUME NEW n \in Nat, n \in S PROVE n + 1 \in S
  <2>1. PICK f : FoldsTo(f, s, n)
    BY <1>2
  <2> DEFINE h == [i \in 0..(n + 1) |->
                     IF i = 0 THEN Empty
                     ELSE IF i \in views[s].applied THEN ApplyEnvelope(f[i - 1], i, log[s][i])
                     ELSE f[i - 1]]
  <2>2. \A i \in 0..n : h[i] = f[i]
    BY <2>1 DEF FoldsTo
  <2>3. \A i \in 0..(n + 1) : i # 0 => i - 1 \in 0..n
    OBVIOUS
  <2> HIDE DEF h
  <2>4. h = [i \in 0..(n + 1) |->
               IF i = 0 THEN Empty
               ELSE IF i \in views[s].applied THEN ApplyEnvelope(h[i - 1], i, log[s][i])
               ELSE h[i - 1]]
    BY <2>2, <2>3 DEF h
  <2>5. FoldsTo(h, s, n + 1)
    BY <2>4 DEF FoldsTo
  <2> QED
    BY <2>5
<1> HIDE DEF S
<1>3. Nat \subseteq S
  BY <1>1, <1>2, NatInd
<1> QED
  BY <1>3 DEF S

LEMMA FoldUnfolds ==
  ASSUME NEW s, NEW k \in Nat, k = LastSeq(views[s])
  PROVE  \E f : FoldsTo(f, s, k) /\ Fold(s) = f[k]
<1> DEFINE g == CHOOSE f : FoldsTo(f, s, k)
<1>1. FoldsTo(g, s, k)
  BY FoldExists
<1>2. Fold(s) = g[k]
  BY DEF Fold, FoldsTo
<1> QED
  BY <1>1, <1>2

LEMMA FoldBegins ==
  ASSUME NEW s, NEW k \in Nat, NEW f, FoldsTo(f, s, k)
  PROVE  f[0].blocks = <<>> /\ f[0].turn = views[s].base /\ f[0].activity = "idle"
<1>1. f[0] = [blocks |-> <<>>, turn |-> views[s].base, activity |-> "idle"]
  BY DEF FoldsTo
<1> QED
  BY <1>1

LEMMA FoldGoesOn ==
  ASSUME NEW s, NEW k \in Nat, NEW f, FoldsTo(f, s, k), NEW n \in 0..(k - 1)
  PROVE  /\ n + 1 \in views[s].applied => f[n + 1] = ApplyEnvelope(f[n], n + 1, log[s][n + 1])
         /\ n + 1 \notin views[s].applied => f[n + 1] = f[n]
<1>1. n + 1 \in 0..k /\ (n + 1) - 1 = n /\ n + 1 # 0
  OBVIOUS
<1> QED
  BY <1>1 DEF FoldsTo

(* So the fold of a view that lacks only thoughts is the transcript.       *)
LEMMA FoldTranscribes ==
  ASSUME NEW s, NEW k \in Nat, Heard(s, k), k = LastSeq(views[s]), IsWhole(s),
         views[s].base \in Nat, NEW f, FoldsTo(f, s, k)
  PROVE  Transcribes(s, f[k].blocks, k)
<1> DEFINE l == log[s]
           P(n) == /\ Transcribes(s, f[n].blocks, n) /\ f[n].turn \in Nat
                   /\ n # 0 => f[n].turn = l[n].turn
           S == {n \in Nat : n <= k => P(n)}
<1>1. 0 \in S
  <2>1. f[0].blocks = <<>> /\ f[0].turn = views[s].base
    BY FoldBegins
  <2>2. <<>> \in Seq(Blocks) /\ DOMAIN <<>> = {} /\ 1..0 = {}
    OBVIOUS
  <2>3. Transcribes(s, <<>>, 0)
    BY <2>2 DEF Transcribes, InOrder
  <2> QED
    BY <2>1, <2>3
<1>2. ASSUME NEW n \in Nat, n \in S PROVE n + 1 \in S
  <2> SUFFICES ASSUME n + 1 <= k PROVE P(n + 1)
    OBVIOUS
  <2> DEFINE e == l[n + 1]
             b == f[n].blocks
  <2>1. Transcribes(s, b, n) /\ f[n].turn \in Nat /\ (n # 0 => f[n].turn = l[n].turn)
    BY <1>2
  <2>2. Heard(s, n + 1)
    <3>1. \A i \in 1..(n + 1) : i \in 1..k
      OBVIOUS
    <3>2. Len(l) \in Nat
      BY DEF Heard
    <3> QED
      BY <3>1, <3>2 DEF Heard
  <2>3. Orderly(l, n + 1) /\ e.turn \in Nat /\ n + 1 \in 1..k /\ n \in 0..(k - 1)
        /\ (n + 1) - 1 = n /\ n + 1 # 0
    <3>1. n + 1 \in 1..k /\ n \in 0..(k - 1) /\ (n + 1) - 1 = n /\ n + 1 # 0
      OBVIOUS
    <3>2. Orderly(l, n + 1) /\ e.turn \in Nat
      BY <2>2, HeardBefore
    <3> QED
      BY <3>1, <3>2
  <2>4. e.kind # "turn_start" => f[n].turn = e.turn
    <3>1. e.kind # "turn_start" => n \in DOMAIN l /\ l[n].turn = e.turn
      BY <2>3 DEF Orderly
    <3>2. DOMAIN l = 1..Len(l)
      BY DEF Heard
    <3> QED
      BY <3>1, <3>2, <2>1
  <2>5. /\ Transcribes(s, BlocksAfter(b, n + 1, e.turn, e), n + 1)
        /\ e.kind = "thinking" => Transcribes(s, b, n + 1)
    BY <2>1, <2>2, EventTranscribed
  <2>6. CASE n + 1 \in views[s].applied
    <3>1. f[n + 1] = ApplyEnvelope(f[n], n + 1, e)
      BY <2>3, <2>6, FoldGoesOn
    <3> HIDE DEF e, b
    <3>2. f[n + 1].turn = e.turn /\ f[n + 1].blocks = BlocksAfter(b, n + 1, e.turn, e)
      BY <3>1, <2>4 DEF ApplyEnvelope, b
    <3> QED
      BY <3>2, <2>3, <2>5 DEF e
  <2>7. CASE n + 1 \notin views[s].applied
    <3>1. f[n + 1] = f[n]
      BY <2>3, <2>7, FoldGoesOn
    <3>2. e.kind = "thinking"
      BY <2>3, <2>7 DEF IsWhole
    <3> QED
      BY <3>1, <3>2, <2>1, <2>3, <2>4, <2>5
  <2> QED
    BY <2>6, <2>7
<1> HIDE DEF S
<1>3. k \in S
  BY <1>1, <1>2, NatInd
<1> QED
  BY <1>3 DEF S

(* What was transcribed is what the property asks for.                     *)
LEMMA TranscriptFaithful == StreamInv /\ TurnsInv => TranscriptIsFaithful
<1> SUFFICES ASSUME StreamInv, TurnsInv, NEW s \in Known
             PROVE  /\ IsWhole(s) =>
                         LET blocks == Fold(s).blocks IN
                         /\ InOrder(blocks)
                         /\ {b \in Range(blocks) : b.kind # "thinking"}
                              = Expected(s, LastSeq(views[s]))
                    /\ s \in Live /\ ~Runs(s) /\ LastSeq(views[s]) = Len(log[s]) =>
                         Fold(s).activity \in {"idle", "done", "error"}
  BY DEF TranscriptIsFaithful
<1> DEFINE k == LastSeq(views[s])
           l == log[s]
<1>1. s \in Sessions /\ views[s] \in ViewRecs /\ l \in Seq(Entries)
  BY DEF StreamInv, StreamTypes, Known
<1>2. views[s].applied \subseteq 1..Len(l) /\ Len(l) \in Nat /\ views[s].base \in Nat
  <2>1. views[s].applied \subseteq 1..Len(l)
    BY <1>1 DEF StreamInv, SessionFits, NumbersFit
  <2>2. Len(l) \in Nat
    BY <1>1
  <2> QED
    BY <2>1, <2>2, <1>1 DEF ViewRecs
<1>3. k \in 0..Len(l) /\ (k # 0 => k \in views[s].applied)
  BY <1>2, LastFacts
<1>4. k \in Nat /\ DOMAIN l = 1..Len(l)
  BY <1>1, <1>3
<1> HIDE DEF k
<1>5. PICK f : FoldsTo(f, s, k) /\ Fold(s) = f[k]
  BY <1>4, FoldUnfolds DEF k
<1>6. Heard(s, k)
  <2>1. \A i \in 1..k : i \in DOMAIN l
    BY <1>2, <1>3, <1>4
  <2> QED
    BY <2>1, <1>1, <1>3 DEF Heard, TurnsInv, TurnsFit
<1>7. ASSUME IsWhole(s), NEW blocks, blocks = Fold(s).blocks
      PROVE  /\ InOrder(blocks)
             /\ {b \in Range(blocks) : b.kind # "thinking"} = Expected(s, k)
  <2>1. Transcribes(s, blocks, k)
    BY <1>2, <1>4, <1>5, <1>6, <1>7, FoldTranscribes DEF k
  <2>2. ASSUME NEW i \in DOMAIN blocks, blocks[i].kind # "thinking"
        PROVE  blocks[i] \in Expected(s, k)
    BY <2>1, <2>2 DEF Transcribes, Expected
  <2>3. ASSUME NEW n \in 1..k, Shows(s, n)
        PROVE  \E i \in DOMAIN blocks : blocks[i].kind # "thinking" /\ blocks[i] = Shown(s, n, k)
    <3>1. PICK i \in DOMAIN blocks : blocks[i].kind # "thinking" /\ blocks[i].id = n
      BY <2>1, <2>3 DEF Transcribes
    <3> QED
      BY <3>1, <2>1 DEF Transcribes
  <2>4. {b \in Range(blocks) : b.kind # "thinking"} \subseteq Expected(s, k)
    BY <2>2 DEF Range
  <2>5. Expected(s, k) \subseteq {b \in Range(blocks) : b.kind # "thinking"}
    BY <2>3 DEF Range, Expected
  <2> QED
    BY <2>1, <2>4, <2>5 DEF Transcribes
<1>8. ASSUME s \in Live, ~Runs(s), k = Len(l)
      PROVE  Fold(s).activity \in {"idle", "done", "error"}
  <2>1. CASE k = 0
    <3>1. f[0].activity = "idle"
      BY <1>4, <1>5, FoldBegins
    <3> QED
      BY <3>1, <2>1, <1>5
  <2>2. CASE k # 0
    <3>1. l # <<>> /\ phase[s] = "live"
      BY <2>2, <1>8 DEF Live
    <3>2. l[k].kind = "turn_end"
      BY <3>1, <1>1, <1>8 DEF StreamInv, SessionFits, LogFits
    <3>3. k - 1 \in 0..(k - 1) /\ (k - 1) + 1 = k
      BY <2>2, <1>4
    <3>4. f[k] = ApplyEnvelope(f[k - 1], k, l[k])
      <4>1. (k - 1) + 1 \in views[s].applied
        BY <3>3, <2>2, <1>3
      <4>2. f[(k - 1) + 1] = ApplyEnvelope(f[k - 1], (k - 1) + 1, l[(k - 1) + 1])
        BY <4>1, <3>3, <1>4, <1>5, FoldGoesOn
      <4> QED
        BY <4>2, <3>3
    <3>5. f[k].activity \in {"idle", "done", "error"}
      BY <3>2, <3>4 DEF ApplyEnvelope, ActivityAfter
    <3> QED
      BY <3>5, <1>5
  <2> QED
    BY <2>1, <2>2
<1> QED
  BY <1>7, <1>8 DEF k

(* What the window of the desktop application shows of a session           *)
(* (applyEnvelopes in transcript.ts, applyHudEvent in hud.ts) is what the  *)
(* session said, up to the last event the window has, if it lacks nothing  *)
(* but thoughts: the task of each turn, each tool call with its result if  *)
(* there was one, one card per turn that tells how it ended, each of them  *)
(* once and in the order of the events; and once a turn is over and all of *)
(* it was received, nothing seems to be done.                              *)
THEOREM TheTranscriptIsFaithful == StreamSpec => []TranscriptIsFaithful
<1>1. StreamInit => StreamInv /\ TurnsInv
  BY StreamInitHolds, TurnsBegin
<1>2. StreamInv /\ TurnsInv /\ [StreamNext]_streamVars => StreamInv' /\ TurnsInv'
  BY StreamNextKeeps, TurnsKeep DEF StreamInv
<1>3. StreamInv /\ TurnsInv => TranscriptIsFaithful
  BY TranscriptFaithful
<1> QED
  BY <1>1, <1>2, <1>3, PTL DEF StreamSpec
=============================================================================
