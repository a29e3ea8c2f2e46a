---------------------------- MODULE ConsoleProofs ----------------------------
(***************************************************************************)
(* What the settings, a task's way, the dialog of rewinds, the lists of    *)
(* the command line and the page of recorded runs keep to, for any number  *)
(* of updates, sessions, tasks, requests, changes and playbacks.           *)
(***************************************************************************)
EXTENDS Console, SequenceTheorems, FiniteSetTheorems, TLAPS

(* Each part moves by its own actions, or stands still.                    *)
LEMMA Parts ==
  ASSUME [Next]_vars
  PROVE  /\ SettingsNext \/ UNCHANGED settingVars
         /\ WorkbenchNext \/ UNCHANGED workVars
         /\ RewindNext \/ UNCHANGED rewindVars
         /\ PlaybackNext \/ UNCHANGED playVars
<1>1. CASE Page /\ (PanelsNext \/ (Around /\ UNCHANGED panelVars))
  BY <1>1 DEF Page, Window
<1>2. CASE Prompt /\ (CommandsNext \/ (Around /\ UNCHANGED commandVars))
  BY <1>2 DEF Prompt, Window
<1>3. CASE FilesOnly /\ SettingsNext
  BY <1>3 DEF FilesOnly, Window
<1>4. CASE Work /\ WorkbenchNext
  BY <1>4 DEF Work
<1>5. CASE Restoring /\ RewindNext
  BY <1>5 DEF Restoring
<1>6. CASE Replays /\ PlaybackNext
  BY <1>6 DEF Replays
<1>7. CASE UNCHANGED vars
  BY <1>7 DEF vars
<1> QED
  BY <1>1, <1>2, <1>3, <1>4, <1>5, <1>6, <1>7 DEF Next

-----------------------------------------------------------------------------
(* The settings.                                                           *)

IsUpdate(u) ==
  /\ DOMAIN u = {"nr", "file", "by", "patch", "at", "next"}
  /\ u.nr \in Nat /\ u.file \in Files /\ u.at \in {"read", "write", "fill"}

(* One update of a file works at a time: of desktop.json the first in the  *)
(* chain, of config.json the only one, as long as none overlapped.         *)
OneWorks ==
  /\ \A u, v \in updates : u.nr = v.nr => u = v
  /\ \A u, v \in updates :
       u.file = "desktop" /\ v.file = "desktop" /\ u.nr < v.nr => v.at = "read"
  /\ "config" \notin spoiled =>
       \A u, v \in updates : u.file = "config" /\ v.file = "config" => u = v

(* What it is about to write is what was saved, with its own patch.        *)
WritesOnKept ==
  \A u \in updates :
    u.file \notin spoiled /\ u.at # "read" => u.next = Patched(kept[u.file], u.patch)

SettingsInv ==
  /\ saves \in Nat
  /\ \A u \in updates : IsUpdate(u) /\ u.nr <= saves
  /\ disk = [f \in Files |-> disk[f]] /\ kept = [f \in Files |-> kept[f]]
  /\ \A f \in Files : DOMAIN kept[f] = DOMAIN Unset[f]
  /\ OneWorks /\ WritesOnKept /\ SavedIsKept

(* A file that holds settings is not a torn one.                           *)
LEMMA UnsetIsNotTorn == \A f \in Files : DOMAIN Unset[f] # {} /\ DOMAIN Torn = {}
BY DEF Files, Unset, Torn

(* At first the files are unset, and so is what was saved.                 *)
LEMMA SettingsInit == Init => SettingsInv
BY DEF Init, InitSettings, SettingsInv, OneWorks, WritesOnKept, SavedIsKept, Files, Unset, Torn

(* An update that is asked for has read nothing yet.                       *)
LEMMA UpdateHolds ==
  ASSUME SettingsInv, NEW f \in Files, NEW by, NEW patch, Update(f, by, patch)
  PROVE  SettingsInv'
<1> DEFINE new == [nr |-> New, file |-> f, by |-> by, patch |-> patch,
                   at |-> "read", next |-> Torn]
<1>1. /\ saves' = saves + 1 /\ updates' = updates \cup {new}
      /\ spoiled \subseteq spoiled'
      /\ f = "config" /\ (\E u \in updates : u.file = f) => f \in spoiled'
      /\ UNCHANGED <<disk, kept>>
  BY DEF Update
<1>2. new.nr = saves + 1 /\ new.file = f /\ new.at = "read" /\ IsUpdate(new)
  BY DEF New, IsUpdate, SettingsInv
<1> HIDE DEF new
<1>3. PICK n : n = new
  OBVIOUS
<1>4. \A u \in updates : IsUpdate(u) /\ u.nr < n.nr
  BY <1>2, <1>3 DEF SettingsInv, IsUpdate
<1>5. OneWorks'
  BY <1>1, <1>2, <1>3, <1>4 DEF SettingsInv, OneWorks, IsUpdate
<1>6. WritesOnKept' /\ SavedIsKept'
  BY <1>1, <1>2, <1>3 DEF SettingsInv, WritesOnKept, SavedIsKept
<1>7. saves' \in Nat /\ \A u \in updates' : IsUpdate(u) /\ u.nr <= saves'
  BY <1>1, <1>2, <1>3, <1>4 DEF SettingsInv, IsUpdate
<1> QED
  BY <1>1, <1>5, <1>6, <1>7 DEF SettingsInv

(* An update that has its turn finds no other at work: the file it reads   *)
(* is whole, and holds what was saved; unless it cannot be read.           *)
LEMMA ReadHolds ==
  ASSUME SettingsInv, NEW u \in updates, ReadFile(u)
  PROVE  SettingsInv'
<1>1. /\ IsUpdate(u) /\ u.at = "read" /\ HasTurn(u)
      /\ UNCHANGED <<disk, saves, kept>> /\ spoiled \subseteq spoiled'
  BY DEF SettingsInv, ReadFile
<1>10. PICK old \in Reads(u.file) :
         /\ Becomes(u, [u EXCEPT !.at = "write", !.next = Patched(old, u.patch)])
         /\ u.file \notin spoiled' => old = Contents(u.file)
  BY DEF ReadFile
<1>2. PICK n : n = Patched(old, u.patch)
  OBVIOUS
<1> DEFINE v == [u EXCEPT !.at = "write", !.next = n]
<1>3. /\ v.nr = u.nr /\ v.file = u.file /\ v.patch = u.patch /\ v.at = "write"
      /\ v.next = n /\ IsUpdate(v)
      /\ updates' = (updates \ {u}) \cup {v}
  <2>1. updates' = (updates \ {u}) \cup {v}
    BY <1>2, <1>10 DEF Becomes
  <2>2. /\ v.nr = u.nr /\ v.file = u.file /\ v.patch = u.patch /\ v.at = "write"
        /\ v.next = n /\ IsUpdate(v)
    BY <1>1 DEF IsUpdate
  <2> QED
    BY <2>1, <2>2
<1> HIDE DEF v
<1>4. \A w \in updates : w.file = u.file /\ w.at # "read" => u.file \in spoiled /\ u.file = "config"
  BY <1>1 DEF SettingsInv, OneWorks, HasTurn, IsUpdate, Files, Unset
<1>5. u.file \notin spoiled' => old = kept[u.file]
  BY <1>1, <1>4, <1>10 DEF SettingsInv, SavedIsKept, Contents, IsUpdate
<1>6. OneWorks'
  BY <1>1, <1>3, <1>4 DEF SettingsInv, OneWorks, HasTurn, IsUpdate
<1>7. WritesOnKept'
  BY <1>1, <1>2, <1>3, <1>5 DEF SettingsInv, WritesOnKept
<1>8. SavedIsKept'
  BY <1>1, <1>3 DEF SettingsInv, SavedIsKept
<1>9. \A w \in updates' : IsUpdate(w) /\ w.nr <= saves'
  BY <1>1, <1>3 DEF SettingsInv
<1> QED
  BY <1>1, <1>6, <1>7, <1>8, <1>9 DEF SettingsInv

(* The file is torn from the time it is emptied until it is filled.        *)
LEMMA EmptyHolds ==
  ASSUME SettingsInv, NEW u \in updates, Empty(u)
  PROVE  SettingsInv'
<1>1. /\ IsUpdate(u) /\ u.at = "write"
      /\ disk' = [disk EXCEPT ![u.file] = Torn]
      /\ UNCHANGED <<saves, kept, spoiled>>
  BY DEF SettingsInv, Empty
<1> DEFINE v == [u EXCEPT !.at = "fill"]
<1>2. /\ v.nr = u.nr /\ v.file = u.file /\ v.patch = u.patch /\ v.at = "fill"
      /\ v.next = u.next /\ IsUpdate(v)
  BY <1>1 DEF IsUpdate
<1>3. updates' = (updates \ {u}) \cup {v}
  BY DEF Empty, Becomes
<1> HIDE DEF v
<1>4. OneWorks'
  BY <1>1, <1>2, <1>3 DEF SettingsInv, OneWorks, IsUpdate
<1>5. WritesOnKept'
  BY <1>1, <1>2, <1>3 DEF SettingsInv, WritesOnKept
<1>6. disk' = [f \in Files |-> disk'[f]] /\ disk'[u.file] = Torn
      /\ \A f \in Files : f # u.file => disk'[f] = disk[f]
  BY <1>1 DEF SettingsInv, IsUpdate
<1>7. SavedIsKept'
  BY <1>1, <1>2, <1>3, <1>6 DEF SettingsInv, SavedIsKept
<1>8. \A w \in updates' : IsUpdate(w) /\ w.nr <= saves'
  BY <1>1, <1>2, <1>3 DEF SettingsInv
<1> QED
  BY <1>1, <1>4, <1>5, <1>6, <1>7, <1>8 DEF SettingsInv

(* The write completes: the file holds one update more.                    *)
LEMMA FillHolds ==
  ASSUME SettingsInv, NEW u \in updates, Fill(u)
  PROVE  SettingsInv'
<1>1. /\ IsUpdate(u) /\ u.at = "fill" /\ u.file \in Files
      /\ updates' = updates \ {u}
      /\ disk' = [disk EXCEPT ![u.file] = u.next]
      /\ kept' = [kept EXCEPT ![u.file] = Patched(kept[u.file], u.patch)]
      /\ UNCHANGED <<saves, spoiled>>
  BY DEF SettingsInv, IsUpdate, Fill
<1>2. /\ disk' = [f \in Files |-> disk'[f]] /\ kept' = [f \in Files |-> kept'[f]]
      /\ disk'[u.file] = u.next /\ kept'[u.file] = Patched(kept[u.file], u.patch)
      /\ \A f \in Files : f # u.file => disk'[f] = disk[f] /\ kept'[f] = kept[f]
  BY <1>1 DEF SettingsInv
<1>3. DOMAIN kept'[u.file] = DOMAIN Unset[u.file] /\ kept'[u.file] # Torn
  BY <1>1, <1>2, UnsetIsNotTorn DEF SettingsInv, Patched
<1>4. \A w \in updates' : w.file = u.file /\ w.at # "read" => u.file \in spoiled
  BY <1>1 DEF SettingsInv, OneWorks, IsUpdate, Files, Unset
<1>5. OneWorks'
  BY <1>1 DEF SettingsInv, OneWorks
<1>6. WritesOnKept'
  BY <1>1, <1>2, <1>4 DEF SettingsInv, WritesOnKept, IsUpdate
<1>7. u.file \notin spoiled => disk'[u.file] = kept'[u.file]
  BY <1>1, <1>2 DEF SettingsInv, WritesOnKept
<1>8. SavedIsKept'
  BY <1>1, <1>2, <1>3, <1>7 DEF SettingsInv, SavedIsKept
<1>9. /\ \A w \in updates' : IsUpdate(w) /\ w.nr <= saves'
      /\ \A f \in Files : DOMAIN kept'[f] = DOMAIN Unset[f]
  BY <1>1, <1>2, <1>3 DEF SettingsInv
<1> QED
  BY <1>1, <1>2, <1>5, <1>6, <1>8, <1>9 DEF SettingsInv

(* Updates that stop half way leave their file spoiled; those that had not *)
(* touched it cost nothing but themselves.                                 *)
LEMMA StopHolds ==
  ASSUME SettingsInv, NEW U \in SUBSET updates,
         updates' = updates \ U, spoiled' = spoiled \cup CutBy(U),
         UNCHANGED <<disk, saves, kept>>
  PROVE  SettingsInv'
<1>1. \A u \in U : u.at = "fill" => u.file \in spoiled'
  BY DEF CutBy
<1>2. OneWorks' /\ WritesOnKept'
  BY DEF SettingsInv, OneWorks, WritesOnKept
<1>3. SavedIsKept'
  BY <1>1 DEF SettingsInv, SavedIsKept
<1> QED
  BY <1>2, <1>3 DEF SettingsInv

(* What touches neither the files nor the updates.                         *)
LEMMA SettingsStay ==
  ASSUME SettingsInv, UNCHANGED <<disk, updates, saves, kept, spoiled>>
  PROVE  SettingsInv'
BY DEF SettingsInv, OneWorks, WritesOnKept, SavedIsKept

(* SettingsInv is inductive. *)
LEMMA SettingsHold == SettingsInv /\ [Next]_vars => SettingsInv'
<1> SUFFICES ASSUME SettingsInv, [Next]_vars PROVE SettingsInv'
  OBVIOUS
<1>1. ASSUME NEW u \in updates, ReadFile(u) \/ Empty(u) \/ Fill(u) PROVE SettingsInv'
  BY <1>1, ReadHolds, EmptyHolds, FillHolds
<1>2. ASSUME NEW u \in updates, FailWrite(u) PROVE SettingsInv'
  <2>1. {u} \in SUBSET updates
    OBVIOUS
  <2> QED
    BY <1>2, <2>1, StopHolds DEF FailWrite
<1>3. ASSUME NEW process \in {"desktop", "cli"}, End(process) PROVE SettingsInv'
  <2> DEFINE its == {u \in updates : Process(u.by) = process}
  <2>1. /\ updates' = updates \ its /\ spoiled' = spoiled \cup CutBy(its)
        /\ UNCHANGED <<disk, saves, kept>>
    BY <1>3 DEF End
  <2>2. its \in SUBSET updates
    OBVIOUS
  <2>3. PICK U \in SUBSET updates : U = its
    BY <2>2
  <2> HIDE DEF its
  <2> QED
    BY <2>1, <2>3, StopHolds
<1>4. "config" \in Files /\ "desktop" \in Files
  BY DEF Files, Unset
<1>5. ASSUME \/ \E edit \in Edits : SaveDefaults(edit)
             \/ \E clear \in BOOLEAN : SaveApp(clear)
             \/ PersistBounds \/ DefaultModel \/ Created
             \/ \E key \in {"model", "provider"} : SetDefault(key)
      PROVE  SettingsInv'
  BY <1>4, <1>5, UpdateHolds DEF SaveDefaults, SaveApp, PersistBounds, DefaultModel, Created,
     SetDefault
<1>6. ASSUME \/ \E s \in Sections : ShowForm(s)
             \/ LeavePage \/ StartCli \/ OpenDialog \/ Cancel \/ Create \/ NotCreated \/ Unlisted
             \/ \E choice \in Backends, host_1 \in Hosts : Detect(choice, host_1)
      PROVE  SettingsInv'
  BY <1>6, SettingsStay DEF ShowForm, LeavePage, StartCli, OpenDialog, Cancel, Create,
     NotCreated, Unlisted, Detect, DialogStep
<1>7. CASE UNCHANGED settingVars
  BY <1>7, SettingsStay DEF settingVars
<1> QED
  BY <1>1, <1>2, <1>3, <1>5, <1>6, <1>7, Parts DEF SettingsNext

(* Neither file loses what was saved, whoever saved it: not desktop.json   *)
(* until a write of it is cut short, not config.json until two updates of  *)
(* it overlap or one is cut short.                                         *)
THEOREM SettingsAreKept == Spec => []SavedIsKept
<1>1. SettingsInv => SavedIsKept
  BY DEF SettingsInv
<1> QED
  BY <1>1, SettingsInit, SettingsHold, PTL DEF Spec

-----------------------------------------------------------------------------
(* A task's way to its session.                                            *)

IsTask(r) == DOMAIN r = {"at", "from", "to"}

(* A task that waits for the answer to its question still belongs to the   *)
(* session that is active, or the user left that one meanwhile.            *)
StillHere ==
  \A t \in Tasks :
    /\ tasks[t].at = "asked" => tasks[t].to = tasks[t].from
    /\ tasks[t].at \in {"asked", "dialog"} => tasks[t].from = active \/ t \in moved

(* There is one dialog; two tasks that are not sent yet come of a task     *)
(* that was typed while another was asked about.                           *)
OneDialog ==
  /\ \A t \in Tasks : tasks[t].at = "dialog" => modal = "team"
  /\ \A t, u \in Tasks : tasks[t].at = "dialog" /\ tasks[u].at = "dialog" => t = u

Unsent(t) == tasks[t].at \in {"box", "asked", "dialog"}

TwoAreExcused ==
  \A t, u \in Tasks : t # u /\ Unsent(t) /\ Unsent(u) => t \in excused /\ u \in excused

WorkInv ==
  /\ tasks = [t \in Tasks |-> tasks[t]] /\ \A t \in Tasks : IsTask(tasks[t])
  /\ StillHere /\ OneDialog /\ TwoAreExcused /\ TasksArrive

(* f is the tasks, with those of T at place p. *)
Placed(f, T, p) ==
  /\ f = [t \in Tasks |-> f[t]]
  /\ \A t \in Tasks :
       /\ IsTask(f[t])
       /\ t \in T => f[t].at = p
       /\ t \notin T => f[t].at = tasks[t].at
       /\ f[t].from = tasks[t].from
       /\ f[t].to = tasks[t].to

(* Tasks that are put somewhere stay what they are. *)
LEMMA PutFacts ==
  ASSUME \A t \in Tasks : IsTask(tasks[t]), NEW T, NEW p
  PROVE  Placed(Put(T, p), T, p)
BY DEF Put, IsTask, Placed

(* At first nothing is typed. *)
LEMMA WorkInit == Init => WorkInv
BY DEF Init, InitWorkbench, WorkInv, IsTask, Untyped, StillHere, OneDialog, TwoAreExcused,
   Unsent, TasksArrive

(* A task is typed while no dialog is open and no other is in the box.     *)
LEMMA TypeTaskHolds ==
  ASSUME WorkInv, NEW t \in Tasks, TypeTask(t)
  PROVE  WorkInv'
<1>1. /\ TasksAt("box") = {} /\ modal = "none" /\ tasks' = Put({t}, "box")
      /\ excused \subseteq excused'
      /\ TasksAt("asked") # {} => t \in excused' /\ TasksAt("asked") \subseteq excused'
      /\ UNCHANGED <<active, modal, moved>>
  BY DEF TypeTask, Composing, Covered
<1>2. /\ tasks' = [u \in Tasks |-> tasks'[u]]
      /\ \A u \in Tasks : /\ IsTask(tasks'[u])
                          /\ tasks'[u].at = IF u = t THEN "box" ELSE tasks[u].at
                          /\ tasks'[u].from = tasks[u].from /\ tasks'[u].to = tasks[u].to
  <2>1. Placed(tasks', {t}, "box")
    BY <1>1, PutFacts DEF WorkInv
  <2> QED
    BY <2>1 DEF Placed
<1>3. \A u \in Tasks : Unsent(u) => u \in TasksAt("asked")
  BY <1>1 DEF WorkInv, OneDialog, Unsent, TasksAt
<1>4. TwoAreExcused'
  <2>1. \A u \in Tasks : Unsent(u)' => u = t \/ Unsent(u)
    BY <1>2 DEF Unsent
  <2>2. ASSUME NEW u \in Tasks, Unsent(u) PROVE u \in excused' /\ t \in excused'
    BY <1>1, <1>3, <2>2
  <2>3. TwoAreExcused
    BY DEF WorkInv
  <2> QED
    BY <1>1, <2>1, <2>2, <2>3 DEF TwoAreExcused
<1>5. StillHere' /\ OneDialog' /\ TasksArrive'
  <2>1. StillHere'
    BY <1>1, <1>2 DEF WorkInv, StillHere
  <2>2. OneDialog'
    BY <1>1, <1>2 DEF WorkInv, OneDialog
  <2>3. TasksArrive'
    BY <1>1, <1>2 DEF WorkInv, TasksArrive
  <2> QED
    BY <2>1, <2>2, <2>3
<1> QED
  BY <1>2, <1>4, <1>5 DEF WorkInv

(* What is submitted belongs to the session it is submitted in. *)
LEMMA SubmitTaskHolds ==
  ASSUME WorkInv, NEW t \in Tasks, SubmitTask(t)
  PROVE  WorkInv'
<1>1. /\ tasks[t].at = "box"
      /\ UNCHANGED <<active, modal, moved, excused>>
      /\ \E p \in {"sent", "asked"} :
           tasks' = [tasks EXCEPT ![t] = [at |-> p, from |-> active, to |-> active]]
  BY DEF SubmitTask
<1>2. /\ tasks' = [u \in Tasks |-> tasks'[u]]
      /\ tasks'[t].at \in {"sent", "asked"} /\ tasks'[t].from = active
      /\ tasks'[t].to = active /\ IsTask(tasks'[t])
      /\ \A u \in Tasks : u # t => tasks'[u] = tasks[u]
  BY <1>1 DEF WorkInv, IsTask
<1>3. StillHere' /\ OneDialog' /\ TwoAreExcused' /\ TasksArrive'
  BY <1>1, <1>2 DEF WorkInv, StillHere, OneDialog, TwoAreExcused, Unsent, TasksArrive
<1> QED
  BY <1>2, <1>3 DEF WorkInv

(* The answer opens the dialog in place of another, or sends the task.     *)
LEMMA SuggestedHolds ==
  ASSUME WorkInv, NEW t \in Tasks, NEW yes \in BOOLEAN, Suggested(t, yes)
  PROVE  WorkInv'
<1>1. tasks[t].at = "asked" /\ UNCHANGED <<active, moved, excused>>
  BY DEF Suggested
<1>2. CASE yes
  <2>1. /\ modal' = "team"
        /\ tasks' = [Put(TasksAt("dialog"), "lost") EXCEPT ![t].at = "dialog"]
    BY <1>2 DEF Suggested
  <2>2. /\ tasks' = [u \in Tasks |-> tasks'[u]]
        /\ \A u \in Tasks :
             /\ IsTask(tasks'[u])
             /\ tasks'[u].at = IF u = t THEN "dialog"
                               ELSE IF tasks[u].at = "dialog" THEN "lost" ELSE tasks[u].at
             /\ tasks'[u].from = tasks[u].from /\ tasks'[u].to = tasks[u].to
    <3>1. PICK f : f = Put(TasksAt("dialog"), "lost")
      OBVIOUS
    <3>2. Placed(f, TasksAt("dialog"), "lost")
      BY <3>1, PutFacts DEF WorkInv
    <3>3. /\ f = [u \in Tasks |-> f[u]]
          /\ \A u \in Tasks :
               /\ IsTask(f[u])
               /\ f[u].at = IF tasks[u].at = "dialog" THEN "lost" ELSE tasks[u].at
               /\ f[u].from = tasks[u].from /\ f[u].to = tasks[u].to
      BY <3>2 DEF Placed, TasksAt
    <3> QED
      BY <2>1, <3>1, <3>3 DEF IsTask
  <2>3. OneDialog' /\ StillHere'
    BY <1>1, <2>1, <2>2 DEF WorkInv, OneDialog, StillHere
  <2>4. TwoAreExcused' /\ TasksArrive'
    BY <1>1, <2>2 DEF WorkInv, TwoAreExcused, Unsent, TasksArrive, StillHere
  <2> QED
    BY <2>2, <2>3, <2>4 DEF WorkInv
<1>3. CASE ~yes
  <2>1. tasks' = Put({t}, "sent") /\ UNCHANGED modal
    BY <1>3 DEF Suggested
  <2>2. /\ tasks' = [u \in Tasks |-> tasks'[u]]
        /\ \A u \in Tasks : /\ IsTask(tasks'[u])
                            /\ tasks'[u].at = IF u = t THEN "sent" ELSE tasks[u].at
                            /\ tasks'[u].from = tasks[u].from /\ tasks'[u].to = tasks[u].to
    <3>1. Placed(tasks', {t}, "sent")
      BY <2>1, PutFacts DEF WorkInv
    <3> QED
      BY <3>1 DEF Placed
  <2>3. \A u \in Tasks : tasks'[u].at \in {"asked", "dialog"} => tasks'[u].at = tasks[u].at
    BY <2>2
  <2>4. StillHere'
    BY <1>1, <2>2, <2>3 DEF WorkInv, StillHere
  <2>5. OneDialog'
    BY <2>1, <2>3 DEF WorkInv, OneDialog
  <2>6. TwoAreExcused'
    BY <1>1, <2>2 DEF WorkInv, TwoAreExcused, Unsent
  <2>7. TasksArrive'
    BY <1>1, <2>2 DEF WorkInv, StillHere, TasksArrive
  <2> QED
    BY <2>2, <2>4, <2>5, <2>6, <2>7 DEF WorkInv
<1> QED
  BY <1>2, <1>3

(* Either button sends the task to the session that is active, which is    *)
(* still its own unless it was left while the task was asked about.        *)
LEMMA PickTeamHolds ==
  ASSUME WorkInv, NEW t \in Tasks, PickTeam(t)
  PROVE  WorkInv'
<1>1. /\ tasks[t].at = "dialog" /\ modal' = "none"
      /\ tasks' = [tasks EXCEPT ![t].at = "sent", ![t].to = active]
      /\ UNCHANGED <<active, moved, excused>>
  BY DEF PickTeam
<1>2. /\ tasks' = [u \in Tasks |-> tasks'[u]]
      /\ tasks'[t].at = "sent" /\ tasks'[t].from = tasks[t].from
      /\ tasks'[t].to = active /\ IsTask(tasks'[t])
      /\ \A u \in Tasks : u # t => tasks'[u] = tasks[u]
  BY <1>1 DEF WorkInv, IsTask
<1>3. StillHere' /\ OneDialog' /\ TwoAreExcused' /\ TasksArrive'
  BY <1>1, <1>2 DEF WorkInv, StillHere, OneDialog, TwoAreExcused, Unsent, TasksArrive
<1> QED
  BY <1>2, <1>3 DEF WorkInv

(* The draft goes back to the box, whose text was typed beside it. *)
LEMMA CancelTeamHolds ==
  ASSUME WorkInv, NEW t \in Tasks, CancelTeam(t)
  PROVE  WorkInv'
<1>1. /\ tasks[t].at = "dialog" /\ modal' = "none"
      /\ tasks' = [Put(TasksAt("box"), "lost") EXCEPT ![t].at = "box"]
      /\ UNCHANGED <<active, moved, excused>>
  BY DEF CancelTeam
<1>2. /\ tasks' = [u \in Tasks |-> tasks'[u]]
      /\ \A u \in Tasks :
           /\ IsTask(tasks'[u])
           /\ tasks'[u].at = IF u = t THEN "box"
                             ELSE IF tasks[u].at = "box" THEN "lost" ELSE tasks[u].at
           /\ tasks'[u].from = tasks[u].from /\ tasks'[u].to = tasks[u].to
  <2>1. PICK f : f = Put(TasksAt("box"), "lost")
    OBVIOUS
  <2>2. Placed(f, TasksAt("box"), "lost")
    BY <2>1, PutFacts DEF WorkInv
  <2>3. /\ f = [u \in Tasks |-> f[u]]
        /\ \A u \in Tasks :
             /\ IsTask(f[u])
             /\ f[u].at = IF tasks[u].at = "box" THEN "lost" ELSE tasks[u].at
             /\ f[u].from = tasks[u].from /\ f[u].to = tasks[u].to
    BY <2>2 DEF Placed, TasksAt
  <2> QED
    BY <1>1, <2>1, <2>3 DEF IsTask
<1>3. OneDialog' /\ StillHere'
  BY <1>1, <1>2 DEF WorkInv, OneDialog, StillHere
<1>4. TwoAreExcused' /\ TasksArrive'
  BY <1>1, <1>2 DEF WorkInv, TwoAreExcused, Unsent, TasksArrive
<1> QED
  BY <1>2, <1>3, <1>4 DEF WorkInv

(* Of the user's other moves, each excuses the tasks it loses, and marks   *)
(* as moved those it leaves behind.                                        *)
LEMMA MoveHolds ==
  ASSUME WorkInv, NEW T, Placed(tasks', T, "lost"),
         excused \subseteq excused', moved \subseteq moved',
         \A t \in Tasks : t \in T => t \in excused',
         \A t \in Tasks : t \notin T /\ tasks[t].at = "dialog" => modal' = "team",
         \A t \in Tasks : t \notin T /\ tasks[t].at \in {"asked", "dialog"}
                          => active' = active \/ t \in moved'
  PROVE  WorkInv'
<1>1. tasks' = [t \in Tasks |-> tasks'[t]] /\ \A t \in Tasks : IsTask(tasks'[t])
  BY DEF Placed
<1>2. \A t \in Tasks : /\ tasks'[t].from = tasks[t].from
                       /\ tasks'[t].to = tasks[t].to
  BY DEF Placed
<1>3. \A t \in Tasks : \/ t \in T /\ tasks'[t].at = "lost"
                       \/ t \notin T /\ tasks'[t].at = tasks[t].at
  BY DEF Placed
<1>4. StillHere'
  BY <1>2, <1>3 DEF WorkInv, StillHere
<1>5. OneDialog'
  BY <1>3 DEF WorkInv, OneDialog
<1>6. TwoAreExcused'
  BY <1>3 DEF WorkInv, TwoAreExcused, Unsent
<1>7. TasksArrive'
  BY <1>2, <1>3 DEF WorkInv, TasksArrive
<1> QED
  BY <1>1, <1>4, <1>5, <1>6, <1>7 DEF WorkInv

(* What leaves the tasks alone loses none of them. *)
LEMMA NoneIsLost ==
  ASSUME WorkInv, UNCHANGED tasks
  PROVE  Placed(tasks', {}, "lost")
BY DEF WorkInv, Placed

(* Another dialog takes the place of the one that asks about a task. *)
LEMMA OpenModalHolds ==
  ASSUME WorkInv, NEW kind \in {"session", "new"}, OpenModal(kind)
  PROVE  WorkInv'
<1>1. Placed(tasks', TasksAt("dialog"), "lost")
  BY PutFacts DEF WorkInv, OpenModal
<1>2. excused' = excused \cup TasksAt("dialog") /\ UNCHANGED <<active, moved>>
  BY DEF OpenModal
<1> QED
  BY <1>1, <1>2, MoveHolds DEF TasksAt

(* The dialog that is closed by hand asks about none. *)
LEMMA CloseModalHolds ==
  ASSUME WorkInv, CloseModal
  PROVE  WorkInv'
<1>1. UNCHANGED <<active, tasks, moved, excused>> /\ modal # "team"
  BY DEF CloseModal
<1>2. \A t \in Tasks : tasks[t].at # "dialog"
  BY <1>1 DEF WorkInv, OneDialog
<1> QED
  BY <1>1, <1>2, NoneIsLost, MoveHolds

(* The page goes with what was typed. *)
LEMMA LeaveAgentsHolds ==
  ASSUME WorkInv, LeaveAgents
  PROVE  WorkInv'
<1>1. Placed(tasks', TasksAt("box"), "lost")
  BY PutFacts DEF WorkInv, LeaveAgents
<1>2. /\ excused \subseteq excused' /\ TasksAt("box") \subseteq excused'
      /\ UNCHANGED <<active, modal, moved>>
  BY DEF LeaveAgents
<1>3. \A t \in Tasks : tasks[t].at = "dialog" => modal' = "team"
  BY <1>2 DEF WorkInv, OneDialog
<1> QED
  BY <1>1, <1>2, <1>3, MoveHolds DEF TasksAt

(* An effect of the page closes the dialog, and its task is gone. *)
LEMMA SessionDialogCloses ==
  ASSUME WorkInv, CloseSessionDialog
  PROVE  Placed(tasks', TasksAt("dialog"), "lost")
<1>1. CASE Closes(modal)
  BY <1>1, PutFacts DEF WorkInv, CloseSessionDialog
<1>2. CASE ~Closes(modal)
  <2>1. UNCHANGED tasks /\ modal # "team"
    BY <1>2 DEF CloseSessionDialog, Closes
  <2>2. TasksAt("dialog") = {}
    BY <2>1 DEF WorkInv, OneDialog, TasksAt
  <2> QED
    BY <2>1, <2>2, NoneIsLost
<1> QED
  BY <1>1, <1>2

(* The page comes back without the dialog. *)
LEMMA BackToAgentsHolds ==
  ASSUME WorkInv, BackToAgents
  PROVE  WorkInv'
<1>1. Placed(tasks', TasksAt("dialog"), "lost")
  BY SessionDialogCloses DEF BackToAgents
<1>2. excused' = excused \cup TasksAt("dialog") /\ UNCHANGED <<active, moved>>
  BY DEF BackToAgents
<1> QED
  BY <1>1, <1>2, MoveHolds DEF TasksAt

(* Another session becomes active, and the dialog of the last one closes. *)
LEMMA SelectSessionHolds ==
  ASSUME WorkInv, NEW s \in Sessions, SelectSession(s)
  PROVE  WorkInv'
<1>1. Placed(tasks', TasksAt("dialog"), "lost")
  BY SessionDialogCloses DEF SelectSession
<1>2. /\ excused' = excused \cup TasksAt("asked") \cup TasksAt("dialog")
      /\ moved' = moved \cup TasksAt("asked")
  BY DEF SelectSession, Elsewhere
<1> QED
  BY <1>1, <1>2, MoveHolds DEF TasksAt

(* A session is removed while no dialog is open.  With the last one goes   *)
(* what was typed.                                                         *)
LEMMA RemoveSessionHolds ==
  ASSUME WorkInv, NEW s \in Sessions, RemoveSession(s)
  PROVE  WorkInv'
<1>1. modal = "none" /\ UNCHANGED modal
  BY DEF RemoveSession, Covered
<1>2. \A t \in Tasks : tasks[t].at # "dialog"
  BY <1>1 DEF WorkInv, OneDialog
<1>3. CASE UNCHANGED <<active, moved, excused, tasks>>
  BY <1>2, <1>3, NoneIsLost, MoveHolds
<1>4. CASE Elsewhere /\ UNCHANGED tasks
  <2>1. Placed(tasks', {}, "lost")
    BY <1>4, NoneIsLost
  <2> QED
    BY <1>2, <1>4, <2>1, MoveHolds DEF TasksAt, Elsewhere
<1>5. CASE /\ tasks' = Put(TasksAt("box"), "lost")
           /\ moved' = moved \cup TasksAt("asked")
           /\ excused' = excused \cup TasksAt("asked") \cup TasksAt("box")
  <2>1. Placed(tasks', TasksAt("box"), "lost")
    BY <1>5, PutFacts DEF WorkInv
  <2> QED
    BY <1>2, <1>5, <2>1, MoveHolds DEF TasksAt
<1> QED
  BY <1>3, <1>4, <1>5 DEF RemoveSession

(* A host takes the task or refuses it. *)
LEMMA StartTaskHolds ==
  ASSUME WorkInv, NEW t \in Tasks, StartTask(t)
  PROVE  WorkInv'
<1>1. /\ tasks[t].at = "sent" /\ UNCHANGED <<active, modal, moved, excused>>
      /\ \E p \in {"run", "refused"} : tasks' = Put({t}, p)
  BY DEF StartTask
<1>2. PICK p \in {"run", "refused"} : Placed(tasks', {t}, p)
  BY <1>1, PutFacts DEF WorkInv
<1>3. /\ tasks' = [u \in Tasks |-> tasks'[u]]
      /\ \A u \in Tasks : /\ IsTask(tasks'[u])
                          /\ tasks'[u].at = IF u = t THEN p ELSE tasks[u].at
                          /\ tasks'[u].from = tasks[u].from /\ tasks'[u].to = tasks[u].to
  BY <1>2 DEF Placed
<1>4. StillHere'
  BY <1>1, <1>3 DEF WorkInv, StillHere
<1>5. TwoAreExcused'
  BY <1>1, <1>3 DEF WorkInv, TwoAreExcused, Unsent
<1>6. TasksArrive'
  BY <1>1, <1>3 DEF WorkInv, TasksArrive
<1>7. OneDialog'
  <2>1. \A u \in Tasks : tasks'[u].at = "dialog" => tasks[u].at = "dialog"
    BY <1>1, <1>3
  <2>2. OneDialog /\ modal' = modal
    BY <1>1 DEF WorkInv
  <2> QED
    BY <2>1, <2>2, Zenon DEF OneDialog
<1> QED
  BY <1>3, <1>4, <1>5, <1>6, <1>7, Zenon DEF WorkInv

(* What else happens leaves the tasks, the dialog and the session alone. *)
LEMMA WorkStays ==
  ASSUME WorkInv, UNCHANGED <<active, modal, tasks, moved, excused>>
  PROVE  WorkInv'
BY DEF WorkInv, IsTask, StillHere, OneDialog, TwoAreExcused, Unsent, TasksArrive

(* Every step of the program keeps the invariant of the tasks. *)
LEMMA WorkHold ==
  ASSUME WorkInv, [Next]_vars
  PROVE  WorkInv'
<1>1. ASSUME \E t \in Tasks :
               TypeTask(t) \/ SubmitTask(t) \/ PickTeam(t) \/ CancelTeam(t) \/ StartTask(t)
      PROVE  WorkInv'
  BY <1>1, TypeTaskHolds, SubmitTaskHolds, PickTeamHolds, CancelTeamHolds, StartTaskHolds
<1>2. ASSUME \E t \in Tasks, yes \in BOOLEAN : Suggested(t, yes)
      PROVE  WorkInv'
  BY <1>2, SuggestedHolds
<1>3. ASSUME \/ \E kind \in {"session", "new"} : OpenModal(kind)
             \/ CloseModal \/ LeaveAgents \/ BackToAgents
             \/ \E s \in Sessions : SelectSession(s) \/ RemoveSession(s)
      PROVE  WorkInv'
  BY <1>3, OpenModalHolds, CloseModalHolds, LeaveAgentsHolds, BackToAgentsHolds,
     SelectSessionHolds, RemoveSessionHolds
<1>4. ASSUME ToggleTeam \/ \E s \in Sessions : EndTask(s) \/ Snapshot(s)
      PROVE  WorkInv'
  BY <1>4, WorkStays DEF ToggleTeam, EndTask, Snapshot
<1>5. CASE UNCHANGED workVars
  BY <1>5, WorkStays DEF workVars
<1> QED
  BY <1>1, <1>2, <1>3, <1>4, <1>5, Parts DEF WorkbenchNext

(* A task is run by the session it was submitted in, and is not lost on    *)
(* its way, unless a move of the user's own accounts for it.               *)
THEOREM TasksAreDelivered == Spec => []TasksArrive
<1>1. WorkInv => TasksArrive
  BY DEF WorkInv
<1> QED
  BY <1>1, WorkInit, WorkHold, PTL DEF Spec

-----------------------------------------------------------------------------
(* The dialog that restores files.                                         *)

Plans == [target : Nat, of : Nat]

Rewinders == [open : {TRUE}, target : Nat, plan : Plans, result : Plans,
              error : BOOLEAN, busy : BOOLEAN]

RewindRequests == [op : {"plan", "restore"}, target : Nat, mine : BOOLEAN,
                   at : {"sent", "answered"}, got : Plans]

(* Of the requests under way at most one is of the last generation, and it *)
(* is of the turn that is marked.                                          *)
OneIsMine ==
  /\ \A q, r \in requests : q.mine /\ r.mine => q = r
  /\ \A q \in requests : q.mine => rewinder.open /\ q.target = rewinder.target

(* It is the next step of the dialog: a plan is asked for while there is   *)
(* none, a restoring while there is no result of one.                      *)
MineIsNext ==
  \A q \in requests :
    q.mine => /\ rewinder.result = NoPlan
              /\ q.op = "plan" => rewinder.plan = NoPlan

(* An answer is about the turn that was asked for, and is no older than    *)
(* the plan it follows.                                                    *)
AnswersFit ==
  \A q \in requests :
    q.at = "answered" /\ q.got # NoPlan =>
      /\ q.got.target = q.target
      /\ q.mine => q.got.of >= rewinder.plan.of

RewindInv ==
  /\ turns \in Nat /\ requests \subseteq RewindRequests
  /\ rewinder = NoRewinder \/ rewinder \in Rewinders
  /\ rewinder.open => rewinder.plan.of <= turns
  /\ \A q \in requests : q.got.of <= turns
  /\ OneIsMine /\ MineIsNext /\ AnswersFit /\ ShowsThePick

(* At first the dialog is closed. *)
LEMMA RewindInit == Init => RewindInv
BY RewindDialogAssumption
   DEF Init, InitRewindDialog, RewindInv, NoRewinder, OneIsMine, MineIsNext, AnswersFit,
   ShowsThePick

(* The turns that end under the dialog only make it older. *)
LEMMA TurnsPass ==
  ASSUME RewindInv, UNCHANGED <<rewinder, requests>>, turns' = turns \/ turns' = turns + 1
  PROVE  RewindInv'
<1>1. turns' \in Nat /\ \A n \in Nat : n <= turns => n <= turns'
  BY DEF RewindInv
<1>2. rewinder.open => rewinder.plan.of \in Nat
  <2>1. rewinder \in Rewinders => rewinder.plan.of \in Nat
    BY DEF Rewinders, Plans
  <2>2. NoRewinder.open = FALSE
    BY DEF NoRewinder
  <2> QED
    BY <2>1, <2>2 DEF RewindInv
<1>3. \A q \in requests : q.got.of \in Nat
  BY DEF RewindInv, RewindRequests, Plans
<1>4. OneIsMine' /\ MineIsNext' /\ AnswersFit' /\ ShowsThePick'
  BY DEF RewindInv, OneIsMine, MineIsNext, AnswersFit, ShowsThePick
<1> QED
  BY <1>1, <1>2, <1>3, <1>4 DEF RewindInv

(* Requests that are disowned stay requests, and none of them is mine. *)
LEMMA DisownFacts ==
  ASSUME RewindInv
  PROVE  /\ Disown(requests) \subseteq RewindRequests
         /\ \A q \in Disown(requests) :
              /\ q.mine = FALSE /\ q.got.of <= turns
              /\ q.at = "answered" /\ q.got # NoPlan => q.got.target = q.target
<1> SUFFICES ASSUME NEW q \in Disown(requests)
             PROVE  /\ q \in RewindRequests /\ q.mine = FALSE /\ q.got.of <= turns
                    /\ q.at = "answered" /\ q.got # NoPlan => q.got.target = q.target
  OBVIOUS
<1>1. PICK r \in requests : q = [r EXCEPT !.mine = FALSE]
  BY DEF Disown
<1>2. r \in RewindRequests /\ r.got.of <= turns
      /\ (r.at = "answered" /\ r.got # NoPlan => r.got.target = r.target)
  BY DEF RewindInv, AnswersFit
<1> QED
  BY <1>1, <1>2 DEF RewindRequests

(* A dialog that is opened awaits nothing: whatever is under way is of an  *)
(* earlier one.                                                            *)
LEMMA OpenRewindHolds ==
  ASSUME RewindInv, OpenRewind
  PROVE  RewindInv'
<1>1. /\ ~rewinder.open /\ rewinder' = OpenRewinder
      /\ UNCHANGED <<turns, requests>>
  BY DEF OpenRewind
<1>2. \A q \in requests : ~q.mine
  BY <1>1 DEF RewindInv, OneIsMine
<1>3. rewinder' \in Rewinders /\ rewinder'.plan = NoPlan /\ rewinder'.result = NoPlan
      /\ rewinder'.busy = FALSE /\ NoPlan.of = 0
  BY <1>1 DEF OpenRewinder, Rewinders, Plans, NoPlan
<1>4. OneIsMine' /\ MineIsNext' /\ AnswersFit' /\ ShowsThePick'
  BY <1>1, <1>2, <1>3 DEF RewindInv, OneIsMine, MineIsNext, AnswersFit, ShowsThePick
<1> QED
  BY <1>1, <1>3, <1>4 DEF RewindInv

(* A dialog that is closed takes nothing of what is under way. *)
LEMMA CloseRewindHolds ==
  ASSUME RewindInv, CloseRewind
  PROVE  RewindInv'
<1>1. rewinder' = NoRewinder /\ requests' = Disown(requests) /\ UNCHANGED turns
  BY DEF CloseRewind
<1>2. rewinder'.open = FALSE
  BY <1>1 DEF NoRewinder
<1>3. OneIsMine' /\ MineIsNext' /\ AnswersFit' /\ ShowsThePick'
  BY <1>1, <1>2, DisownFacts DEF OneIsMine, MineIsNext, AnswersFit, ShowsThePick
<1> QED
  BY <1>1, <1>2, <1>3, DisownFacts DEF RewindInv

(* What is asked for now is all that is awaited. *)
LEMMA AskFacts ==
  ASSUME RewindInv, NEW op \in {"plan", "restore"}, NEW target \in Nat, Ask(op, target)
  PROVE  /\ requests' \subseteq RewindRequests /\ UNCHANGED turns
         /\ \E q \in requests' : q.mine
         /\ \A q \in requests' :
              /\ q.got.of <= turns
              /\ q.mine => q.op = op /\ q.target = target /\ q.at = "sent"
              /\ q.at = "answered" /\ q.got # NoPlan => q.got.target = q.target
         /\ \A q, r \in requests' : q.mine /\ r.mine => q = r
<1> DEFINE new == [op |-> op, target |-> target, mine |-> TRUE, at |-> "sent", got |-> NoPlan]
<1>1. requests' = Disown(requests) \cup {new} /\ UNCHANGED turns
  BY DEF Ask
<1>2. /\ new \in RewindRequests /\ new.mine = TRUE /\ new.op = op /\ new.target = target
      /\ new.at = "sent" /\ new.got.of <= turns
  BY DEF RewindRequests, Plans, NoPlan, RewindInv
<1> HIDE DEF new
<1> QED
  BY <1>1, <1>2, DisownFacts

(* Another turn is picked: the plan of the last one is gone. *)
LEMMA PickHolds ==
  ASSUME RewindInv, NEW t \in 1..MaxTurns, Pick(t)
  PROVE  RewindInv'
<1>1. rewinder' = [OpenRewinder EXCEPT !.target = t, !.busy = TRUE] /\ Ask("plan", t)
  BY DEF Pick
<1>2. t \in Nat
  BY RewindDialogAssumption
<1>3. /\ rewinder' \in Rewinders /\ rewinder'.target = t /\ rewinder'.plan = NoPlan
      /\ rewinder'.result = NoPlan /\ rewinder'.busy = TRUE /\ rewinder'.open = TRUE
      /\ NoPlan.of = 0
  BY <1>1, <1>2 DEF OpenRewinder, Rewinders, Plans, NoPlan
<1>4. OneIsMine' /\ MineIsNext' /\ AnswersFit' /\ ShowsThePick'
  BY <1>1, <1>2, <1>3, AskFacts DEF OneIsMine, MineIsNext, AnswersFit, ShowsThePick
<1>5. /\ turns' \in Nat /\ rewinder'.plan.of <= turns'
      /\ requests' \subseteq RewindRequests /\ \A q \in requests' : q.got.of <= turns'
  BY <1>1, <1>2, <1>3, AskFacts DEF RewindInv
<1> QED
  BY <1>3, <1>4, <1>5 DEF RewindInv

(* The plan that is shown is restored: it is of the turn that is marked. *)
LEMMA RestoreHolds ==
  ASSUME RewindInv, Restore
  PROVE  RewindInv'
<1>1. /\ rewinder.open /\ rewinder.plan # NoPlan /\ rewinder.result = NoPlan
      /\ rewinder' = [rewinder EXCEPT !.busy = TRUE, !.error = FALSE]
      /\ Ask("restore", rewinder.target)
  BY DEF Restore
<1>2. rewinder \in Rewinders
  BY <1>1 DEF RewindInv, NoRewinder
<1>3. /\ rewinder' \in Rewinders /\ rewinder'.target = rewinder.target
      /\ rewinder'.plan = rewinder.plan /\ rewinder'.result = rewinder.result
      /\ rewinder'.busy = TRUE /\ rewinder'.open = TRUE
  BY <1>1, <1>2 DEF Rewinders
<1>4. rewinder.target \in Nat
  BY <1>2 DEF Rewinders
<1>5. PICK target : target = rewinder.target
  OBVIOUS
<1>6. /\ requests' \subseteq RewindRequests /\ UNCHANGED turns
      /\ \E q \in requests' : q.mine
      /\ \A q \in requests' :
           /\ q.got.of <= turns
           /\ q.mine => q.op = "restore" /\ q.target = target /\ q.at = "sent"
           /\ q.at = "answered" /\ q.got # NoPlan => q.got.target = q.target
      /\ \A q, r \in requests' : q.mine /\ r.mine => q = r
  BY <1>1, <1>4, <1>5, AskFacts
<1>7. OneIsMine' /\ MineIsNext' /\ AnswersFit'
  BY <1>1, <1>3, <1>5, <1>6 DEF OneIsMine, MineIsNext, AnswersFit
<1>8. ShowsThePick'
  BY <1>1, <1>3, <1>6 DEF RewindInv, ShowsThePick
<1>9. turns' \in Nat /\ rewinder'.plan.of <= turns' /\ \A q \in requests' : q.got.of <= turns'
  BY <1>1, <1>3, <1>6 DEF RewindInv
<1> QED
  BY <1>3, <1>6, <1>7, <1>8, <1>9 DEF RewindInv

(* The host answers with a plan of the turn it was asked for, as of now,   *)
(* which is not before the plan that is shown.                             *)
LEMMA HandleRewindHolds ==
  ASSUME RewindInv, NEW q \in requests, HandleRewind(q)
  PROVE  RewindInv'
<1> DEFINE got == IF q.op = "restore" /\ host # "idle" THEN NoPlan
                  ELSE [target |-> q.target, of |-> turns]
           new == [q EXCEPT !.at = "answered", !.got = got]
<1>1. /\ requests' = (requests \ {q}) \cup {new}
      /\ UNCHANGED <<turns, rewinder>>
  BY DEF HandleRewind
<1>2. q \in RewindRequests /\ turns \in Nat
  BY DEF RewindInv
<1>3. /\ got \in Plans /\ got.of <= turns
      /\ got # NoPlan => got.target = q.target /\ got.of = turns
  BY <1>2 DEF Plans, NoPlan, RewindRequests
<1> HIDE DEF got
<1>4. /\ new \in RewindRequests /\ new.op = q.op /\ new.target = q.target
      /\ new.at = "answered" /\ new.got = got
  BY <1>2, <1>3 DEF RewindRequests
<1>5. new.mine = q.mine
  BY <1>2 DEF RewindRequests
<1> HIDE DEF new
<1>6. \A r \in requests' : r = new \/ (r \in requests /\ r # q)
  BY <1>1
<1>7. new \in requests' /\ \A r \in requests : r # q => r \in requests'
  BY <1>1
<1>8. OneIsMine'
  BY <1>1, <1>4, <1>5, <1>6 DEF RewindInv, OneIsMine
<1>9. MineIsNext'
  BY <1>1, <1>4, <1>5, <1>6 DEF RewindInv, MineIsNext
<1>10. AnswersFit'
  BY <1>1, <1>3, <1>4, <1>5, <1>6 DEF RewindInv, AnswersFit, OneIsMine
<1>11. (\E r \in requests' : r.mine) <=> (\E r \in requests : r.mine)
  BY <1>5, <1>6, <1>7
<1>12. ShowsThePick'
  BY <1>1, <1>11 DEF RewindInv, ShowsThePick
<1>13. requests' \subseteq RewindRequests /\ \A r \in requests' : r.got.of <= turns
  BY <1>3, <1>4, <1>6 DEF RewindInv
<1> QED
  BY <1>1, <1>8, <1>9, <1>10, <1>12, <1>13 DEF RewindInv

(* The answer of the last request is shown, and nothing is awaited then;   *)
(* any other is dropped.                                                   *)
LEMMA RewindAnsweredHolds ==
  ASSUME RewindInv, NEW q \in requests, RewindAnswered(q)
  PROVE  RewindInv'
<1>1. q.at = "answered" /\ requests' = requests \ {q} /\ UNCHANGED turns
  BY DEF RewindAnswered
<1>2. requests' \subseteq requests /\ q \notin requests'
      /\ \A r \in requests : r # q => r \in requests'
  BY <1>1
<1>3. requests' \subseteq RewindRequests /\ \A r \in requests' : r.got.of <= turns
  BY <1>2 DEF RewindInv
<1>4. CASE ~q.mine
  <2>1. rewinder' = rewinder
    BY <1>4 DEF RewindAnswered, IsLast
  <2>2. (\E r \in requests' : r.mine) <=> (\E r \in requests : r.mine)
    BY <1>2, <1>4
  <2>3. OneIsMine' /\ MineIsNext' /\ AnswersFit'
    BY <1>2, <2>1 DEF RewindInv, OneIsMine, MineIsNext, AnswersFit
  <2>4. ShowsThePick'
    BY <2>1, <2>2 DEF RewindInv, ShowsThePick
  <2> QED
    BY <1>1, <1>3, <2>1, <2>3, <2>4 DEF RewindInv
<1>5. CASE q.mine
  <2>1. rewinder.open /\ q.target = rewinder.target /\ \A r \in requests' : ~r.mine
    BY <1>2, <1>5 DEF RewindInv, OneIsMine
  <2>2. rewinder \in Rewinders /\ q \in RewindRequests
    BY <2>1 DEF RewindInv, NoRewinder
  <2>3. /\ rewinder.result = NoPlan
        /\ q.op = "plan" => rewinder.plan = NoPlan
        /\ q.got.of <= turns
        /\ q.got # NoPlan => q.got.target = q.target /\ q.got.of >= rewinder.plan.of
    BY <1>1, <1>5 DEF RewindInv, MineIsNext, AnswersFit
  <2>4. /\ rewinder' \in Rewinders /\ rewinder'.open /\ rewinder'.target = rewinder.target
        /\ rewinder'.busy = FALSE
        /\ \/ rewinder'.plan = rewinder.plan /\ rewinder'.result = rewinder.result
           \/ /\ q.op = "plan" /\ q.got # NoPlan
              /\ rewinder'.plan = q.got /\ rewinder'.result = rewinder.result
           \/ /\ q.got # NoPlan
              /\ rewinder'.plan = rewinder.plan /\ rewinder'.result = q.got
    BY <1>5, <2>1, <2>2 DEF RewindAnswered, IsLast, Rewinders, RewindRequests
  <2>5. rewinder'.plan.of <= turns
    BY <2>1, <2>3, <2>4 DEF RewindInv
  <2>6. OneIsMine' /\ MineIsNext'
    BY <2>1 DEF OneIsMine, MineIsNext
  <2>7. AnswersFit'
    BY <1>2, <2>1 DEF RewindInv, AnswersFit
  <2>8. ShowsThePick'
    BY <2>1, <2>3, <2>4 DEF RewindInv, ShowsThePick
  <2> QED
    BY <1>1, <1>3, <2>4, <2>5, <2>6, <2>7, <2>8 DEF RewindInv
<1> QED
  BY <1>4, <1>5

(* Every step of the program keeps the invariant of the dialog. *)
LEMMA RewindHold ==
  ASSUME RewindInv, [Next]_vars
  PROVE  RewindInv'
<1>1. ASSUME BeginTurn \/ AskInTurn \/ AnswerInTurn \/ FinishTurn \/ Tell
      PROVE  RewindInv'
  BY <1>1, TurnsPass DEF BeginTurn, AskInTurn, AnswerInTurn, FinishTurn, HostTurns, Tell
<1>2. CASE UNCHANGED rewindVars
  BY <1>2, TurnsPass DEF rewindVars
<1> QED
  BY <1>1, <1>2, OpenRewindHolds, CloseRewindHolds, PickHolds, RestoreHolds,
     HandleRewindHolds, RewindAnsweredHolds, Parts DEF RewindNext

(* In whatever order the answers come, the dialog shows what is of the     *)
(* turn that is marked, and is busy exactly while it awaits an answer.     *)
THEOREM TheDialogShowsThePick == Spec => []ShowsThePick
<1>1. RewindInv => ShowsThePick
  BY DEF RewindInv
<1> QED
  BY <1>1, RewindInit, RewindHold, PTL DEF Spec

-----------------------------------------------------------------------------
(* The lists of the command line.                                          *)

Asks == [at : {"no", "sent", "read", "joining", "joined", "ok", "failed"},
         got : Versions \cup {None}, conns : Versions \cup {None}]

(* v was read since the cache was cleared, and will be less than n ticks   *)
(* old for the next left ticks.                                            *)
Young(v, left, n) == v = None \/ (v \in since..table /\ gone[v] + left <= n)

(* v was read by the command under way, during which no tick passes. *)
ReadNow(v) == v \in since..table /\ gone[v] = 0

(* As long as an entry is used, what it holds is young enough for a cache, *)
(* or for two after each other.                                            *)
EntryKeeps(entry) ==
  entry.left > 0 => /\ Young(entry.is, entry.left, TTL)
                    /\ Young(entry.conns, entry.left, 2 * TTL)

AskKeeps(ask) ==
  /\ Young(ask.got, 1, TTL) /\ Young(ask.conns, 1, 2 * TTL)
  /\ ask.at \in {"read", "joining", "joined"} => ReadNow(ask.got)
  /\ ask.at = "joined" => ReadNow(ask.conns)

ClockInv ==
  /\ table \in Versions /\ since \in 0..table /\ gone \in [Versions -> Nat]
  /\ \A v \in Versions : v >= table => gone[v] = 0

CacheTypes ==
  /\ native \in [Lists -> Entries] /\ models \in Entries
  /\ asks \in [Wanted -> Asks]

CommandInv ==
  /\ ClockInv /\ CacheTypes
  /\ \A l \in Lists : EntryKeeps(native[l])
  /\ EntryKeeps(models)
  /\ \A w \in Wanted : AskKeeps(asks[w])
  /\ cmd \in {"none", "picking"} => \A w \in Wanted : asks[w] = NoAsk

(* The table moves on by single changes while the commands stand still. *)
LEMMA RouterMoves ==
  ASSUME [Next]_vars
  PROVE  \/ CommandsNext /\ UNCHANGED dataVars
         \/ /\ UNCHANGED commandVars
            /\ table' = table \/ (table < MaxChanges /\ table' = table + 1)
<1>1. CASE Page /\ (PanelsNext \/ (Around /\ UNCHANGED panelVars))
  <2>1. table' = table \/ (table < MaxChanges /\ table' = table + 1)
    <3>1. CASE PanelsNext
      <4>1. UserOfPanels => UNCHANGED table
        BY DEF UserOfPanels, Hide, Show, Demand, Mount, Leave, AskDelete, Act, Keep, Unlist,
           OpenEditor, CloseEditor, Save, CreateKey, dataVars
      <4>2. Poll \/ (\E ms \in Polls : PollLoaded(ms) \/ SavePoll(ms)) => UNCHANGED table
        BY DEF Poll, PollLoaded, SavePoll, dataVars
      <4>3. Serves \/ Answers \/ Returns \/ Drop \/ Streams => UNCHANGED table
        BY DEF Serves, Serve, Answers, Answer, Returns, Return, Drop, Streams, Connect, Retry,
           Link, Push, dataVars
      <4>4. (\E job \in BagToSet(jobs) : Perform(job)) => table' = Changed(table)
        BY DEF Perform
      <4> QED
        BY <3>1, <4>1, <4>2, <4>3, <4>4 DEF PanelsNext, Changed
    <3>2. CASE Around
      BY <3>2 DEF Around, Outside, Flips
    <3> QED
      BY <1>1, <3>1, <3>2
  <2> QED
    BY <1>1, <2>1 DEF Page
<1>2. CASE Prompt /\ CommandsNext
  BY <1>2 DEF CommandsNext, Run, Serving, Settled, Failed, Listed, Catalogued, Joined, AskAgain,
     Shows, PickOver, Reload, Setup, Tick
<1>3. CASE Prompt /\ Around /\ UNCHANGED commandVars
  BY <1>3 DEF Around, Outside, Flips
<1>4. CASE /\ UNCHANGED Router
  BY <1>4 DEF Router, dataVars
<1>5. CASE UNCHANGED vars
  BY <1>5 DEF vars, dataVars
<1> QED
  BY <1>1, <1>2, <1>3, <1>4, <1>5 DEF Next, FilesOnly, Work, Restoring, Replays

(* At first nothing is cached. *)
LEMMA CommandInit == Init => CommandInv
BY DataAssumption, CommandAssumption
   DEF Init, InitData, InitCommands, CommandInv, ClockInv, CacheTypes, Versions, Entries, Asks,
   EmptyCache, NoEntry, NoAsk, None, EntryKeeps, AskKeeps, Young

(* What is young stays it when the table changes. *)
LEMMA TableMoves ==
  ASSUME CommandInv, UNCHANGED commandVars,
         table' = table \/ (table < MaxChanges /\ table' = table + 1)
  PROVE  CommandInv'
<1>1. /\ MaxChanges \in Nat /\ table \in Versions /\ since \in 0..table
      /\ gone \in [Versions -> Nat] /\ \A v \in Versions : v >= table => gone[v] = 0
  BY DataAssumption DEF CommandInv, ClockInv
<1>2. ClockInv'
  BY <1>1 DEF ClockInv, commandVars, Versions
<1>3. since..table \subseteq since'..table' /\ gone' = gone
  BY <1>1 DEF commandVars, Versions
<1>4. \A v, left, n : Young(v, left, n) => Young(v, left, n)'
  BY <1>3 DEF Young
<1>5. \A v : ReadNow(v) => ReadNow(v)'
  BY <1>3 DEF ReadNow
<1>6. CacheTypes'
  BY DEF CommandInv, CacheTypes, commandVars
<1> QED
  BY <1>2, <1>4, <1>5, <1>6 DEF CommandInv, commandVars, EntryKeeps, AskKeeps

(* Between two ticks, what is cached and what is asked for may change to   *)
(* anything that is young enough.                                          *)
LEMMA CacheMoves ==
  ASSUME CommandInv, UNCHANGED <<table, gone, since>>, CacheTypes',
         \A l \in Lists : EntryKeeps(native'[l]), EntryKeeps(models'),
         \A w \in Wanted : AskKeeps(asks'[w]),
         cmd' \in {"none", "picking"} => \A w \in Wanted : asks'[w] = NoAsk
  PROVE  CommandInv'
<1>1. \A v, left, n : Young(v, left, n) => Young(v, left, n)'
  BY DEF Young
<1>2. \A v : ReadNow(v) => ReadNow(v)'
  BY DEF ReadNow
<1>3. ClockInv'
  BY DEF CommandInv, ClockInv
<1> QED
  BY <1>1, <1>2, <1>3 DEF CommandInv, EntryKeeps, AskKeeps

(* What an empty cache and an ask without an answer hold is young. *)
LEMMA NothingIsYoung ==
  /\ EntryKeeps(NoEntry) /\ NoEntry \in Entries
  /\ AskKeeps(NoAsk) /\ NoAsk \in Asks
  /\ AskKeeps(Sent) /\ Sent \in Asks
BY CommandAssumption
   DEF EntryKeeps, NoEntry, Entries, AskKeeps, NoAsk, Asks, Sent, Young

(* An entry that is fresh is young enough to be shown. *)
LEMMA HitKeeps ==
  ASSUME ClockInv, NEW entry \in Entries, EntryKeeps(entry), IsFresh(entry)
  PROVE  Hit(entry) \in Asks /\ AskKeeps(Hit(entry))
<1>1. /\ Hit(entry) \in Asks /\ Hit(entry).at = "ok"
      /\ Hit(entry).got = entry.is /\ Hit(entry).conns = entry.conns
  BY DEF Hit, Asks, Entries
<1>2. entry.left \in 1..TTL /\ TTL \in Nat
  BY CommandAssumption DEF Entries, IsFresh
<1>3. \A v \in since..table : gone[v] \in Nat
  BY DataAssumption DEF ClockInv, Versions
<1>4. Young(entry.is, entry.left, TTL) /\ Young(entry.conns, entry.left, 2 * TTL)
  BY <1>2 DEF EntryKeeps
<1>5. Young(entry.is, 1, TTL) /\ Young(entry.conns, 1, 2 * TTL)
  BY <1>2, <1>3, <1>4 DEF Young
<1> HIDE DEF Hit
<1> QED
  BY <1>1, <1>5 DEF AskKeeps

(* What was just read may be kept for the full time. *)
LEMMA CachedKeeps ==
  ASSUME NEW is \in Versions \cup {None}, NEW conns \in Versions \cup {None},
         Young(is, TTL, TTL), Young(conns, TTL, 2 * TTL)
  PROVE  Cached(is, conns) \in Entries /\ EntryKeeps(Cached(is, conns))
BY CommandAssumption DEF Cached, Entries, EntryKeeps

(* What was read during this command is as young as can be. *)
LEMMA ReadIsYoung ==
  ASSUME NEW v, ReadNow(v)
  PROVE  /\ Young(v, 1, TTL) /\ Young(v, 1, 2 * TTL)
         /\ Young(v, TTL, TTL) /\ Young(v, TTL, 2 * TTL)
BY CommandAssumption DEF ReadNow, Young

(* One request gets further, by an answer that is young enough. *)
LEMMA AskMoves ==
  ASSUME CommandInv, UNCHANGED <<table, gone, since, cmd>>,
         NEW w \in Wanted, asks[w] # NoAsk,
         NEW new \in Asks, asks' = [asks EXCEPT ![w] = new], AskKeeps(new),
         native' \in [Lists -> Entries], \A l \in Lists : EntryKeeps(native'[l]),
         models' \in Entries, EntryKeeps(models')
  PROVE  CommandInv'
<1>1. cmd' \notin {"none", "picking"}
  BY DEF CommandInv
<1>2. CacheTypes'
  BY DEF CommandInv, CacheTypes
<1>3. \A v \in Wanted : AskKeeps(asks'[v])
  <2> SUFFICES ASSUME NEW v \in Wanted
               PROVE  AskKeeps(asks'[v])
    OBVIOUS
  <2>1. asks'[v] = IF v = w THEN new ELSE asks[v]
    BY DEF CommandInv, CacheTypes
  <2>2. AskKeeps(asks[v])
    BY DEF CommandInv
  <2> QED
    BY <2>1, <2>2
<1> QED
  BY <1>1, <1>2, <1>3, CacheMoves

(* A request that begins is answered from the cache, or sent. *)
LEMMA FetchKeeps ==
  ASSUME ClockInv, NEW entry \in Entries, EntryKeeps(entry)
  PROVE  Fetch(entry) \in Asks /\ AskKeeps(Fetch(entry))
BY HitKeeps, NothingIsYoung DEF Fetch

(* A command begins: with what the caches hold, or with empty ones. *)
LEMMA RunHolds ==
  ASSUME CommandInv, NEW c \in Commands, Run(c)
  PROVE  CommandInv'
<1>1. UNCHANGED <<table, gone>> /\ cmd' = c
  BY DEF Run, dataVars
<1>2. c \notin {"none", "picking"}
  BY CommandAssumption DEF Commands, Lists, Pickers, Uncached, Again
<1>3. CASE c = "/refresh"
  <2>1. /\ native' = EmptyCache /\ models' = NoEntry /\ since' = table
        /\ asks' = [w \in Wanted |-> asks'[w]]
        /\ \A w \in Wanted : asks'[w] \in {NoAsk, Sent, Fetch(NoEntry)}
    <3>1. native' = EmptyCache /\ models' = NoEntry /\ since' = table
      BY <1>3 DEF Run
    <3>2. asks' = [w \in Wanted |-> asks'[w]]
      BY DEF Run
    <3>3. \A w \in Wanted : w = "health" \/ w = "catalog" \/ EmptyCache[w] = NoEntry
      BY DEF Wanted, EmptyCache
    <3>4. \A w \in Wanted : asks'[w] \in {NoAsk, Sent, Fetch(NoEntry), Fetch(EmptyCache[w])}
      BY <1>3 DEF Run
    <3>5. \A w \in Wanted : w = "health" => asks'[w] \in {NoAsk, Sent}
      BY DEF Run
    <3>6. \A w \in Wanted : w = "catalog" => asks'[w] \in {NoAsk, Sent, Fetch(NoEntry)}
      BY <1>3 DEF Run
    <3> QED
      BY <3>1, <3>2, <3>3, <3>4, <3>5, <3>6
  <2>2. Fetch(NoEntry) = Sent
    BY DEF Fetch, NoEntry, IsFresh
  <2>3. \A w \in Wanted : asks'[w] \in {NoAsk, Sent}
    BY <2>1, <2>2
  <2>4. CacheTypes'
    BY <2>1, <2>3, NothingIsYoung DEF CacheTypes, EmptyCache
  <2>5. NoAsk.got = None /\ NoAsk.conns = None /\ Sent.got = None /\ Sent.conns = None
        /\ NoAsk.at = "no" /\ Sent.at = "sent" /\ NoEntry.left = 0
    BY DEF NoAsk, Sent, NoEntry
  <2>6. \A w \in Wanted : asks'[w].got = None /\ asks'[w].conns = None
                         /\ asks'[w].at \in {"no", "sent"}
    BY <2>3, <2>5
  <2>7. (\A w \in Wanted : AskKeeps(asks[w]))'
    BY <2>6 DEF AskKeeps, Young
  <2>8. (\A l \in Lists : EntryKeeps(native[l]))' /\ EntryKeeps(models)'
    BY <2>1, <2>5 DEF EntryKeeps, EmptyCache
  <2>9. ClockInv'
    BY <1>1, <2>1, DataAssumption DEF CommandInv, ClockInv, Versions
  <2> QED
    BY <1>1, <1>2, <2>4, <2>7, <2>8, <2>9 DEF CommandInv
<1>4. CASE c # "/refresh"
  <2>1. UNCHANGED <<native, models, since>>
    BY <1>4 DEF Run
  <2>2. \A w \in Wanted : \/ asks'[w] \in {NoAsk, Sent, Fetch(models)}
                          \/ w \in Lists /\ asks'[w] = Fetch(native[w])
    BY <1>4 DEF Run, Wanted
  <2>3. \A w \in Wanted : asks'[w] \in Asks /\ AskKeeps(asks'[w])
    BY <2>2, FetchKeeps, NothingIsYoung DEF CommandInv, CacheTypes
  <2>4. asks' = [w \in Wanted |-> asks'[w]]
    BY DEF Run
  <2>5. CacheTypes'
    BY <2>1, <2>3, <2>4 DEF CommandInv, CacheTypes
  <2> QED
    BY <1>1, <1>2, <2>1, <2>3, <2>5, CacheMoves DEF CommandInv
<1> QED
  BY <1>3, <1>4

(* The daemon reads its table of now. *)
LEMMA ServingHolds ==
  ASSUME CommandInv, NEW w \in Wanted, Serving(w)
  PROVE  CommandInv'
<1>1. /\ UNCHANGED <<table, gone, since, native, models, cmd>>
      /\ asks[w].at \in {"sent", "joining"}
  BY DEF Serving, dataVars
<1>2. /\ table \in Versions /\ ReadNow(table)
  BY DataAssumption DEF CommandInv, ClockInv, ReadNow, Versions
<1>3. PICK ask \in Asks : ask = asks[w] /\ AskKeeps(ask)
  BY DEF CommandInv, CacheTypes
<1>4. /\ native' \in [Lists -> Entries] /\ \A l \in Lists : EntryKeeps(native'[l])
      /\ models' \in Entries /\ EntryKeeps(models')
  BY <1>1 DEF CommandInv, CacheTypes
<1>5. asks[w] # NoAsk
  BY <1>1 DEF NoAsk
<1>6. CASE ask.at = "sent" /\ asks' = [asks EXCEPT ![w].at = "read", ![w].got = table]
  <2>1. PICK new : new = [ask EXCEPT !.at = "read", !.got = table]
    OBVIOUS
  <2>2. /\ new \in Asks /\ new.at = "read" /\ new.got = table /\ new.conns = ask.conns
    BY <1>2, <2>1 DEF Asks
  <2>3. AskKeeps(new)
    BY <1>2, <1>3, <2>2, ReadIsYoung DEF AskKeeps
  <2>4. asks' = [asks EXCEPT ![w] = new]
    BY <1>3, <1>6, <2>1 DEF CommandInv, CacheTypes
  <2> QED
    BY <1>1, <1>4, <1>5, <2>2, <2>3, <2>4, AskMoves
<1>7. CASE ask.at = "joining" /\ asks' = [asks EXCEPT ![w].at = "joined", ![w].conns = table]
  <2>1. PICK new : new = [ask EXCEPT !.at = "joined", !.conns = table]
    OBVIOUS
  <2>2. /\ new \in Asks /\ new.at = "joined" /\ new.conns = table /\ new.got = ask.got
    BY <1>2, <2>1 DEF Asks
  <2>3. AskKeeps(new)
    BY <1>2, <1>3, <1>7, <2>2, ReadIsYoung DEF AskKeeps
  <2>4. asks' = [asks EXCEPT ![w] = new]
    BY <1>3, <1>7, <2>1 DEF CommandInv, CacheTypes
  <2> QED
    BY <1>1, <1>4, <1>5, <2>2, <2>3, <2>4, AskMoves
<1> QED
  BY <1>3, <1>6, <1>7 DEF Serving

(* What the caches and the requests hold is young enough. *)
LEMMA CachesStay ==
  ASSUME CommandInv
  PROVE  /\ native \in [Lists -> Entries] /\ \A l \in Lists : EntryKeeps(native[l])
         /\ models \in Entries /\ EntryKeeps(models)
         /\ asks \in [Wanted -> Asks] /\ \A w \in Wanted : AskKeeps(asks[w])
         /\ ClockInv
BY DEF CommandInv, CacheTypes

(* One list is replaced. *)
LEMMA ListReplaced ==
  ASSUME CommandInv, NEW l \in Lists, NEW entry \in Entries, EntryKeeps(entry),
         native' = [native EXCEPT ![l] = entry]
  PROVE  native' \in [Lists -> Entries] /\ \A k \in Lists : EntryKeeps(native'[k])
<1>1. native' \in [Lists -> Entries]
  BY CachesStay
<1>2. \A k \in Lists : native'[k] = IF k = l THEN entry ELSE native[k]
  BY CachesStay
<1>3. \A k \in Lists : EntryKeeps(native[k])
  BY CachesStay
<1> QED
  BY <1>1, <1>2, <1>3

(* An answer that is only shown, or none. *)
LEMMA SettledHolds ==
  ASSUME CommandInv, NEW w \in Wanted, Settled(w)
  PROVE  CommandInv'
<1>1. /\ UNCHANGED <<table, gone, since, native, models, cmd>>
      /\ asks[w].at = "sent" /\ asks' = [asks EXCEPT ![w].at = "ok"]
  BY DEF Settled, dataVars
<1>2. PICK ask \in Asks : ask = asks[w] /\ AskKeeps(ask)
  BY CachesStay
<1>3. PICK new : new = [ask EXCEPT !.at = "ok"]
  OBVIOUS
<1>4. new \in Asks /\ new.at = "ok" /\ new.got = ask.got /\ new.conns = ask.conns
  BY <1>3 DEF Asks
<1>5. AskKeeps(new)
  BY <1>2, <1>4 DEF AskKeeps
<1>6. asks' = [asks EXCEPT ![w] = new] /\ asks[w] # NoAsk
  BY <1>1, <1>2, <1>3, CachesStay DEF NoAsk
<1> QED
  BY <1>1, <1>4, <1>5, <1>6, CachesStay, AskMoves

(* What was read by this command is cached for the full time. *)
LEMMA ListedHolds ==
  ASSUME CommandInv, NEW l \in Lists, Listed(l)
  PROVE  CommandInv'
<1>1. /\ UNCHANGED <<table, gone, since, models, cmd>>
      /\ asks[l].at = "read" /\ asks' = [asks EXCEPT ![l].at = "ok"]
      /\ native' = [native EXCEPT ![l] = Cached(asks[l].got, None)]
  BY DEF Listed, dataVars
<1>2. l \in Wanted
  BY DEF Wanted
<1>3. PICK ask \in Asks : ask = asks[l] /\ AskKeeps(ask)
  BY <1>2, CachesStay
<1>4. PICK new : new = [ask EXCEPT !.at = "ok"]
  OBVIOUS
<1>5. new \in Asks /\ new.at = "ok" /\ new.got = ask.got /\ new.conns = ask.conns
  BY <1>4 DEF Asks
<1>6. AskKeeps(new)
  BY <1>3, <1>5 DEF AskKeeps
<1>7. asks' = [asks EXCEPT ![l] = new] /\ asks[l] # NoAsk
  BY <1>1, <1>2, <1>3, <1>4, CachesStay DEF NoAsk
<1>8. PICK entry : entry = Cached(ask.got, None)
  OBVIOUS
<1>9. entry \in Entries /\ EntryKeeps(entry)
  <2>1. ask.got \in Versions \cup {None} /\ Young(ask.got, TTL, TTL)
    BY <1>1, <1>3, ReadIsYoung DEF Asks, AskKeeps
  <2>2. Young(None, TTL, 2 * TTL)
    BY DEF Young
  <2> QED
    BY <1>8, <2>1, <2>2, CachedKeeps
<1>10. native' \in [Lists -> Entries] /\ \A k \in Lists : EntryKeeps(native'[k])
  BY <1>1, <1>3, <1>8, <1>9, ListReplaced
<1> QED
  BY <1>1, <1>2, <1>5, <1>6, <1>7, <1>10, CachesStay, AskMoves

(* The catalog that was just read is joined with connections that are      *)
(* still fresh, or waits for them.                                         *)
LEMMA CataloguedHolds ==
  ASSUME CommandInv, Catalogued
  PROVE  CommandInv'
<1>1. /\ UNCHANGED <<table, gone, since, native, cmd>>
      /\ asks["catalog"].at = "read"
  BY DEF Catalogued, dataVars
<1>2. "catalog" \in Wanted /\ "providers" \in Lists
  BY DEF Wanted, Lists
<1>3. PICK ask \in Asks : ask = asks["catalog"] /\ AskKeeps(ask)
  BY <1>2, CachesStay
<1>4. asks["catalog"] # NoAsk
  BY <1>1 DEF NoAsk
<1>5. PICK conns \in Entries : conns = native["providers"] /\ EntryKeeps(conns)
  BY <1>2, CachesStay
<1>6. CASE IsFresh(conns)
  <2>1. PICK entry : entry = Cached(ask.got, conns.is)
    OBVIOUS
  <2>2. models' = entry /\ asks' = [asks EXCEPT !["catalog"] = Hit(entry)]
    BY <1>3, <1>5, <1>6, <2>1 DEF Catalogued
  <2>3. ask.got \in Versions \cup {None} /\ Young(ask.got, TTL, TTL)
    BY <1>1, <1>3, ReadIsYoung DEF Asks, AskKeeps
  <2>4. conns.is \in Versions \cup {None} /\ conns.left \in 1..TTL
    BY <1>6, CommandAssumption DEF Entries, IsFresh
  <2>5. Young(conns.is, conns.left, TTL)
    BY <1>5, <2>4, CommandAssumption DEF EntryKeeps
  <2>6. \A v \in since..table : gone[v] \in Nat
    BY DataAssumption DEF CommandInv, ClockInv, Versions
  <2>7. Young(conns.is, TTL, 2 * TTL)
    BY <2>4, <2>5, <2>6, CommandAssumption DEF Young
  <2>8. entry \in Entries /\ EntryKeeps(entry) /\ entry.left > 0
    <3>1. entry.left > 0
      BY <2>1, CommandAssumption DEF Cached
    <3> QED
      BY <2>1, <2>3, <2>4, <2>7, <3>1, CachedKeeps
  <2>9. Hit(entry) \in Asks /\ AskKeeps(Hit(entry))
    BY <2>8, HitKeeps, CachesStay DEF IsFresh
  <2> QED
    BY <1>1, <1>2, <1>4, <2>2, <2>8, <2>9, CachesStay, AskMoves
<1>7. CASE ~IsFresh(conns)
  <2>1. asks' = [asks EXCEPT !["catalog"].at = "joining"] /\ UNCHANGED models
    BY <1>5, <1>7 DEF Catalogued
  <2>2. PICK new : new = [ask EXCEPT !.at = "joining"]
    OBVIOUS
  <2>3. new \in Asks /\ new.at = "joining" /\ new.got = ask.got /\ new.conns = ask.conns
    BY <2>2 DEF Asks
  <2>4. AskKeeps(new)
    BY <1>1, <1>3, <2>3 DEF AskKeeps
  <2>5. asks' = [asks EXCEPT !["catalog"] = new]
    BY <1>2, <1>3, <2>1, <2>2, CachesStay
  <2> QED
    BY <1>1, <1>2, <1>4, <2>1, <2>3, <2>4, <2>5, CachesStay, AskMoves
<1> QED
  BY <1>6, <1>7

(* Both were just read. *)
LEMMA JoinedHolds ==
  ASSUME CommandInv, Joined
  PROVE  CommandInv'
<1>1. /\ UNCHANGED <<table, gone, since, cmd>>
      /\ asks["catalog"].at = "joined"
      /\ asks' = [asks EXCEPT !["catalog"].at = "ok"]
      /\ native' = [native EXCEPT !["providers"] = Cached(asks["catalog"].conns, None)]
      /\ models' = Cached(asks["catalog"].got, asks["catalog"].conns)
  BY DEF Joined, dataVars
<1>2. "catalog" \in Wanted /\ "providers" \in Lists
  BY DEF Wanted, Lists
<1>3. PICK ask \in Asks : ask = asks["catalog"] /\ AskKeeps(ask)
  BY <1>2, CachesStay
<1>4. PICK new : new = [ask EXCEPT !.at = "ok"]
  OBVIOUS
<1>5. new \in Asks /\ new.at = "ok" /\ new.got = ask.got /\ new.conns = ask.conns
  BY <1>4 DEF Asks
<1>6. AskKeeps(new)
  BY <1>3, <1>5 DEF AskKeeps
<1>7. asks' = [asks EXCEPT !["catalog"] = new] /\ asks["catalog"] # NoAsk
  BY <1>1, <1>2, <1>3, <1>4, CachesStay DEF NoAsk
<1>8. /\ ask.got \in Versions \cup {None} /\ Young(ask.got, TTL, TTL)
      /\ ask.conns \in Versions \cup {None}
      /\ Young(ask.conns, TTL, TTL) /\ Young(ask.conns, TTL, 2 * TTL)
  BY <1>1, <1>3, ReadIsYoung DEF Asks, AskKeeps
<1>9. models' \in Entries /\ EntryKeeps(models')
  <2>1. PICK entry : entry = Cached(ask.got, ask.conns)
    OBVIOUS
  <2>2. entry \in Entries /\ EntryKeeps(entry)
    BY <1>8, <2>1, CachedKeeps
  <2> QED
    BY <1>1, <1>3, <2>1, <2>2
<1>10. PICK entry : entry = Cached(ask.conns, None)
  OBVIOUS
<1>11. entry \in Entries /\ EntryKeeps(entry)
  <2>1. Young(None, TTL, 2 * TTL)
    BY DEF Young
  <2> QED
    BY <1>8, <1>10, <2>1, CachedKeeps
<1>12. native' \in [Lists -> Entries] /\ \A k \in Lists : EntryKeeps(native'[k])
  BY <1>1, <1>2, <1>3, <1>10, <1>11, ListReplaced
<1> QED
  BY <1>1, <1>2, <1>5, <1>6, <1>7, <1>9, <1>12, AskMoves

(* Without its connections the catalog will do; anything else has failed. *)
LEMMA FailedHolds ==
  ASSUME CommandInv, NEW w \in Wanted, Failed(w)
  PROVE  CommandInv'
<1>1. /\ UNCHANGED <<table, gone, since, native, cmd>>
      /\ asks[w].at \in {"sent", "read", "joining", "joined"}
  BY DEF Failed, dataVars
<1>2. PICK ask \in Asks : ask = asks[w] /\ AskKeeps(ask)
  BY CachesStay
<1>3. asks[w] # NoAsk
  BY <1>1 DEF NoAsk
<1>4. CASE ask.at \in {"joining", "joined"}
  <2>1. PICK entry : entry = Cached(ask.got, None)
    OBVIOUS
  <2>2. models' = entry /\ asks' = [asks EXCEPT ![w] = Hit(entry)]
    BY <1>2, <1>4, <2>1 DEF Failed
  <2>3. ask.got \in Versions \cup {None} /\ Young(ask.got, TTL, TTL)
    BY <1>2, <1>4, ReadIsYoung DEF Asks, AskKeeps
  <2>4. Young(None, TTL, 2 * TTL)
    BY DEF Young
  <2>5. entry.left > 0
    BY <2>1, CommandAssumption DEF Cached
  <2>6. entry \in Entries /\ EntryKeeps(entry)
    BY <2>1, <2>3, <2>4, CachedKeeps
  <2>7. Hit(entry) \in Asks /\ AskKeeps(Hit(entry))
    BY <2>5, <2>6, HitKeeps, CachesStay DEF IsFresh
  <2> QED
    BY <1>1, <1>3, <2>2, <2>6, <2>7, CachesStay, AskMoves
<1>5. CASE ask.at \notin {"joining", "joined"}
  <2>1. PICK new : new = [NoAsk EXCEPT !.at = "failed"]
    OBVIOUS
  <2>2. asks' = [asks EXCEPT ![w] = new] /\ UNCHANGED models
    BY <1>2, <1>5, <2>1 DEF Failed
  <2>3. new \in Asks /\ new.at = "failed" /\ new.got = None /\ new.conns = None
    BY <2>1 DEF NoAsk, Asks
  <2>4. AskKeeps(new)
    BY <2>3 DEF AskKeeps, Young
  <2> QED
    BY <1>1, <1>3, <2>2, <2>3, <2>4, CachesStay, AskMoves
<1> QED
  BY <1>4, <1>5

(* The first answer stays beside the second request. *)
LEMMA AskAgainHolds ==
  ASSUME CommandInv, AskAgain
  PROVE  CommandInv'
<1>1. /\ UNCHANGED <<table, gone, since, native, models>> /\ cmd' = Again
      /\ \E l \in Others : asks' = [asks EXCEPT ![l].at = "sent"]
  BY DEF AskAgain, dataVars
<1>2. PICK l \in Wanted : asks' = [asks EXCEPT ![l].at = "sent"]
  BY <1>1 DEF Wanted, Lists
<1>3. PICK ask \in Asks : ask = asks[l] /\ AskKeeps(ask)
  BY CachesStay
<1>4. PICK new : new = [ask EXCEPT !.at = "sent"]
  OBVIOUS
<1>5. new \in Asks /\ new.at = "sent" /\ new.got = ask.got /\ new.conns = ask.conns
  BY <1>4 DEF Asks
<1>6. AskKeeps(new)
  BY <1>3, <1>5 DEF AskKeeps
<1>7. asks' \in [Wanted -> Asks] /\ \A w \in Wanted : asks'[w] = IF w = l THEN new ELSE asks[w]
  BY <1>2, <1>3, <1>4, <1>5, CachesStay
<1>8. \A w \in Wanted : AskKeeps(asks[w])
  BY CachesStay
<1>9. \A w \in Wanted : AskKeeps(asks'[w])
  BY <1>6, <1>7, <1>8
<1>10. cmd' \notin {"none", "picking"}
  BY <1>1 DEF Again
<1>11. CacheTypes'
  BY <1>1, <1>7, CachesStay DEF CacheTypes
<1> QED
  BY <1>1, <1>9, <1>10, <1>11, CachesStay, CacheMoves

(* A command that is over leaves the caches. *)
LEMMA ShowsHolds ==
  ASSUME CommandInv, NEW where, Shows(where)
  PROVE  CommandInv'
<1>1. UNCHANGED <<table, gone, since, native, models>> /\ asks' = [w \in Wanted |-> NoAsk]
  BY DEF Shows, dataVars
<1>2. CacheTypes'
  BY <1>1, CachesStay, NothingIsYoung DEF CacheTypes
<1>3. \A w \in Wanted : asks'[w] = NoAsk /\ AskKeeps(asks'[w])
  BY <1>1, NothingIsYoung
<1> QED
  BY <1>1, <1>2, <1>3, CachesStay, CacheMoves

(* A picker closes. *)
LEMMA PickOverHolds ==
  ASSUME CommandInv, PickOver
  PROVE  CommandInv'
<1>1. /\ UNCHANGED <<table, gone, since, native, models, asks>>
      /\ cmd = "picking" /\ cmd' = "none"
  BY DEF PickOver, dataVars
<1>2. CacheTypes'
  BY <1>1 DEF CommandInv, CacheTypes
<1>3. \A w \in Wanted : asks'[w] = NoAsk
  BY <1>1 DEF CommandInv
<1> QED
  BY <1>1, <1>2, <1>3, CachesStay, CacheMoves

(* The key changes, and the lists are those of another. *)
LEMMA SetupHolds ==
  ASSUME CommandInv, Setup
  PROVE  CommandInv'
<1>1. /\ UNCHANGED <<table, gone, since, models, asks, cmd>>
      /\ cmd = "none" /\ native' = EmptyCache
  BY DEF Setup, dataVars
<1>2. CacheTypes'
  BY <1>1, CachesStay, NothingIsYoung DEF CacheTypes, EmptyCache
<1>3. \A w \in Wanted : asks'[w] = NoAsk
  BY <1>1 DEF CommandInv
<1>4. \A l \in Lists : EntryKeeps(native'[l])
  BY <1>1, NothingIsYoung DEF EmptyCache
<1> QED
  BY <1>1, <1>2, <1>3, <1>4, CachesStay, CacheMoves

(* Nothing of before the clearing is left to be shown. *)
LEMMA ReloadHolds ==
  ASSUME CommandInv, Reload
  PROVE  CommandInv'
<1>1. /\ UNCHANGED <<table, gone, asks, cmd>> /\ cmd = "none"
      /\ native' = EmptyCache /\ models' = NoEntry /\ since' = table
  BY DEF Reload, dataVars
<1>2. ClockInv'
  BY <1>1, DataAssumption DEF CommandInv, ClockInv, Versions
<1>3. CacheTypes'
  BY <1>1, CachesStay, NothingIsYoung DEF CacheTypes, EmptyCache
<1>4. \A w \in Wanted : asks'[w] = NoAsk
  BY <1>1 DEF CommandInv
<1>5. (\A w \in Wanted : AskKeeps(asks[w]))'
  BY <1>4 DEF AskKeeps, Young, NoAsk
<1>6. (\A l \in Lists : EntryKeeps(native[l]))' /\ EntryKeeps(models)'
  BY <1>1 DEF EntryKeeps, EmptyCache, NoEntry
<1> QED
  BY <1>2, <1>3, <1>4, <1>5, <1>6 DEF CommandInv

(* A tick makes everything older, and leaves the entries less of their     *)
(* time.                                                                   *)
LEMMA TickHolds ==
  ASSUME CommandInv, Tick
  PROVE  CommandInv'
<1> DEFINE Older(entry) == IF entry.left > 0 THEN [entry EXCEPT !.left = @ - 1] ELSE entry
<1>1. /\ UNCHANGED <<table, asks, cmd, since>> /\ cmd \in {"none", "picking"}
      /\ native' = [l \in Lists |-> Older(native[l])] /\ models' = Older(models)
      /\ gone' = [v \in Versions |->
           IF v < table /\ gone[v] < 2 * TTL THEN gone[v] + 1 ELSE gone[v]]
  BY DEF Tick, dataVars
<1>2. /\ table \in Versions /\ since \in 0..table /\ gone \in [Versions -> Nat]
      /\ \A v \in Versions : v >= table => gone[v] = 0
  BY DEF CommandInv, ClockInv
<1>3. ClockInv'
  BY <1>1, <1>2, DataAssumption, CommandAssumption DEF ClockInv, Versions
<1>4. \A v \in Versions : gone'[v] \in Nat /\ gone'[v] <= gone[v] + 1
  BY <1>1, <1>2, CommandAssumption DEF Versions
<1>5. since..table \subseteq Versions
  BY <1>2, DataAssumption DEF Versions
<1>6. \A entry \in Entries : EntryKeeps(entry) => Older(entry) \in Entries /\ EntryKeeps(Older(entry))'
  <2> SUFFICES ASSUME NEW entry \in Entries, EntryKeeps(entry)
               PROVE  Older(entry) \in Entries /\ EntryKeeps(Older(entry))'
    OBVIOUS
  <2>1. CASE entry.left > 0
    <3>1. PICK e : e = [entry EXCEPT !.left = @ - 1]
      OBVIOUS
    <3>2. /\ e \in Entries /\ e.left = entry.left - 1 /\ e.is = entry.is
          /\ e.conns = entry.conns /\ entry.left \in Nat
      BY <2>1, <3>1, CommandAssumption DEF Entries
    <3>3. Young(entry.is, entry.left, TTL) /\ Young(entry.conns, entry.left, 2 * TTL)
      BY <2>1 DEF EntryKeeps
    <3>4. \A v : v \in since..table => gone[v] \in Nat /\ gone'[v] \in Nat
                                      /\ gone'[v] <= gone[v] + 1
      BY <1>2, <1>4, <1>5
    <3>5. PICK left \in Nat : left = e.left /\ entry.left = left + 1
      BY <2>1, <3>2
    <3>6. ASSUME NEW v, NEW n \in Nat, Young(v, left + 1, n)
          PROVE  Young(v, left, n)'
      <4>1. CASE v = None
        BY <4>1 DEF Young
      <4>2. CASE v \in since..table /\ gone[v] + (left + 1) <= n
        <5>1. gone[v] \in Nat /\ gone'[v] \in Nat /\ gone'[v] <= gone[v] + 1
          BY <3>4, <4>2
        <5>2. gone'[v] + left <= n
          BY <4>2, <5>1
        <5> QED
          BY <1>1, <4>2, <5>2 DEF Young
      <4> QED
        BY <3>6, <4>1, <4>2 DEF Young
    <3>7. TTL \in Nat /\ 2 * TTL \in Nat
      BY CommandAssumption
    <3>8. Young(e.is, left, TTL)' /\ Young(e.conns, left, 2 * TTL)'
      BY <3>2, <3>3, <3>5, <3>6, <3>7
    <3> QED
      BY <2>1, <3>1, <3>2, <3>5, <3>8 DEF EntryKeeps
  <2>2. CASE ~(entry.left > 0)
    BY <2>2 DEF EntryKeeps
  <2> QED
    BY <2>1, <2>2
<1>7. CacheTypes'
  BY <1>1, <1>6, CachesStay DEF CacheTypes
<1>8. (\A l \in Lists : EntryKeeps(native[l]))' /\ EntryKeeps(models)'
  BY <1>1, <1>6, CachesStay
<1>9. \A w \in Wanted : asks'[w] = NoAsk
  BY <1>1 DEF CommandInv
<1>10. (\A w \in Wanted : AskKeeps(asks[w]))'
  BY <1>9 DEF AskKeeps, Young, NoAsk
<1> QED
  BY <1>3, <1>7, <1>8, <1>9, <1>10 DEF CommandInv

(* Every step of the program keeps the invariant of the lists. *)
LEMMA CommandHold ==
  ASSUME CommandInv, [Next]_vars
  PROVE  CommandInv'
<1>1. CASE CommandsNext
  BY <1>1, RunHolds, ServingHolds, SettledHolds, FailedHolds, ListedHolds, CataloguedHolds,
     JoinedHolds, AskAgainHolds, ShowsHolds, PickOverHolds, ReloadHolds, SetupHolds, TickHolds
     DEF CommandsNext
<1> QED
  BY <1>1, RouterMoves, TableMoves

(* What is shown was read less long ago than the time that caches keep it, *)
(* and after the user last had them cleared.                               *)
LEMMA ShowsRecent ==
  ASSUME CommandInv
  PROVE  \A w \in Wanted : Recent(asks[w].got, TTL) /\ Recent(asks[w].conns, 2 * TTL)
<1> SUFFICES ASSUME NEW w \in Wanted
             PROVE  Recent(asks[w].got, TTL) /\ Recent(asks[w].conns, 2 * TTL)
  OBVIOUS
<1>1. Young(asks[w].got, 1, TTL) /\ Young(asks[w].conns, 1, 2 * TTL)
  BY CachesStay DEF AskKeeps
<1>2. \A v \in since..table : gone[v] \in Nat /\ v >= since
  BY DataAssumption DEF CommandInv, ClockInv, Versions
<1> QED
  BY <1>1, <1>2, CommandAssumption DEF Young, Recent

(* For any number of lists, changes and ticks. *)
THEOREM ListsShownAreRecent == Spec => ListingsAreRecent
<1>1. CommandInv =>
        [\A where \in {"none", "picking", "dead"} : Shows(where) =>
           \A w \in Wanted : Recent(asks[w].got, TTL) /\ Recent(asks[w].conns, 2 * TTL)]_commandVars
  BY ShowsRecent
<1> QED
  BY <1>1, CommandInit, CommandHold, PTL DEF Spec, ListingsAreRecent

-----------------------------------------------------------------------------
(* The page of recorded runs.  Until a start is answered the page keeps    *)
(* what comes of every playback; then it shows what it kept of its own.    *)

CallsToPlay == [op : {"start", "stop"}, of : Nat, mine : BOOLEAN]

Players == [at : {"reading", "playing", "done", "aborted", "error"},
            sent : 0..Length, mine : BOOLEAN]

Messages == [kind : {"event", "status", "reply"}, of : Nat \ {0},
             state : {"none", "playing", "done", "aborted", "error"}, seq : Nat]

PageFields == {"open", "starting", "early", "view", "status", "blocks", "crowded"}

IsOpened(pg) ==
  /\ DOMAIN pg = PageFields
  /\ pg.open = TRUE /\ pg.starting \in BOOLEAN /\ pg.crowded \in BOOLEAN
  /\ pg.view \in [of : Nat, blocks : Seq(Nat)] /\ pg.blocks \in Seq(Nat)
  /\ pg.status \in [of : Nat, state : {"none", "playing", "done", "aborted"}]
  /\ DOMAIN pg.early \subseteq DOMAIN players
  /\ \A p \in DOMAIN pg.early : pg.early[p] \in Seq(Nat)

PlayTypes ==
  /\ calls \in Seq(CallsToPlay) /\ players \in Seq(Players) /\ wire \in Seq(Messages)
  /\ current \in 0..Len(players)
  /\ page = Closed \/ IsOpened(page)

(* The wire holds the events of a playback in their order.                 *)
Carries(i, kind, p) == wire[i].kind = kind /\ wire[i].of = p

WireFits ==
  /\ \A i \in DOMAIN wire :
       /\ wire[i].of \in DOMAIN players
       /\ players[wire[i].of].at # "reading"
       /\ wire[i].kind = "event" => wire[i].seq \in 1..players[wire[i].of].sent
       /\ wire[i].kind = "status" => wire[i].state \in {"done", "aborted"}
       /\ wire[i].kind = "reply" => wire[i].state \in {"playing", "error"}
  /\ \A i, j \in DOMAIN wire :
       i < j /\ wire[i].kind = "event" /\ Carries(j, "event", wire[i].of) =>
         wire[i].seq < wire[j].seq
  /\ \A p \in DOMAIN players :
       /\ players[p].at = "reading" => players[p].sent = 0
       /\ players[p].at = "playing" => players[p].sent < Length

(* A page has at most one start under way, if no start was asked for       *)
(* beside another: the call, the playback that reads, or its answer.       *)
Asking(i) == calls[i].op = "start" /\ calls[i].mine

IsAnswer(i) == wire[i].kind = "reply" /\ players[wire[i].of].mine

Reading(p) == players[p].at = "reading" /\ players[p].mine

Starting ==
  \/ \E i \in DOMAIN calls : Asking(i)
  \/ \E p \in DOMAIN players : Reading(p)
  \/ \E i \in DOMAIN wire : IsAnswer(i)

OneStart ==
  /\ page.starting <=> Starting
  /\ \A i, j \in DOMAIN calls : Asking(i) /\ Asking(j) => i = j
  /\ \A p, q \in DOMAIN players : Reading(p) /\ Reading(q) => p = q
  /\ \A i, j \in DOMAIN wire : IsAnswer(i) /\ IsAnswer(j) => i = j
  /\ \A i \in DOMAIN calls, p \in DOMAIN players : ~(Asking(i) /\ Reading(p))
  /\ \A i \in DOMAIN calls, j \in DOMAIN wire : ~(Asking(i) /\ IsAnswer(j))
  /\ \A p \in DOMAIN players, j \in DOMAIN wire : ~(Reading(p) /\ IsAnswer(j))

(* The playback that will be watched, or is.                               *)
Watched(p) ==
  \/ Reading(p)
  \/ \E i \in DOMAIN wire : IsAnswer(i) /\ wire[i].of = p
  \/ page.view.of = p

(* What the page has of it. *)
Got(p) == IF page.starting THEN EarlyOf(page, p) ELSE page.view.blocks

(* The page has a beginning of it, and the wire the rest of what was sent. *)
Unbroken(p) ==
  /\ Len(Got(p)) <= players[p].sent
  /\ \A i \in 1..Len(Got(p)) : Got(p)[i] = i
  /\ \A i \in DOMAIN wire : Carries(i, "event", p) => wire[i].seq > Len(Got(p))
  /\ \A n \in (Len(Got(p)) + 1)..players[p].sent :
       \E i \in DOMAIN wire : Carries(i, "event", p) /\ wire[i].seq = n

(* Nothing is shown until the start is answered. *)
BlankBefore ==
  /\ page.blocks = page.view.blocks
  /\ page.starting => page.view.of = 0
  /\ page.view.of = 0 => page.blocks = <<>>
  /\ page.view.of # 0 => page.view.of \in DOMAIN players

(* The page says that what it watches plays only if that plays, or its end *)
(* is on its way; the answer to a start says so, unless the end came right *)
(* before it.                                                              *)
EndComes(p) ==
  players[p].at = "playing" \/ \E i \in DOMAIN wire : Carries(i, "status", p)

EndCame(i, p) ==
  \/ players[p].at = "playing"
  \/ \E j \in DOMAIN wire : j > i /\ Carries(j, "status", p)
  \/ i - 1 \in DOMAIN wire /\ Carries(i - 1, "status", p)
  \/ i = 1 /\ page.status.of = p

StatusFits ==
  /\ StatusIs("playing") =>
       /\ ~page.starting /\ page.status.of = page.view.of
       /\ page.view.of # 0 /\ EndComes(page.view.of)
  /\ \A i \in DOMAIN wire :
       IsAnswer(i) /\ wire[i].state = "playing" => EndCame(i, wire[i].of)

NobodyIsOwned ==
  /\ \A i \in DOMAIN calls : ~calls[i].mine
  /\ \A p \in DOMAIN players : ~players[p].mine

(* Of a page that did not ask for a start beside another. *)
PageFits ==
  /\ OneStart /\ BlankBefore /\ StatusFits
  /\ \A p \in DOMAIN players : Watched(p) => Unbroken(p)

PlayInv ==
  /\ PlayTypes /\ WireFits /\ OneGoesOn
  /\ ~page.open => NobodyIsOwned
  /\ page.open /\ ~page.crowded => PageFits

-----------------------------------------------------------------------------
(* Messages at the end of the wire, and the first one taken from it. *)

(* Where the elements of a concatenation are. *)
LEMMA JoinedIs ==
  ASSUME NEW T, NEW former \in Seq(T), NEW latter \in Seq(T)
  PROVE  /\ former \o latter \in Seq(T) /\ Len(former \o latter) = Len(former) + Len(latter)
         /\ Len(former) \in Nat /\ Len(latter) \in Nat
         /\ \A i \in 1..Len(former) : (former \o latter)[i] = former[i]
         /\ \A i \in 1..Len(latter) : (former \o latter)[Len(former) + i] = latter[i]
<1>1. /\ former \o latter \in Seq(T) /\ Len(former \o latter) = Len(former) + Len(latter)
      /\ Len(former) \in Nat /\ Len(latter) \in Nat
      /\ \A i \in 1..Len(former) + Len(latter) :
           (former \o latter)[i] = IF i <= Len(former) THEN former[i] ELSE latter[i - Len(former)]
  BY ConcatProperties, LenProperties
<1>2. \A i \in 1..Len(former) : (former \o latter)[i] = former[i]
  BY <1>1
<1>3. \A i \in 1..Len(latter) : (former \o latter)[Len(former) + i] = latter[i]
  <2> TAKE i \in 1..Len(latter)
  <2>1. /\ Len(former) + i \in 1..Len(former) + Len(latter)
        /\ ~(Len(former) + i <= Len(former)) /\ (Len(former) + i) - Len(former) = i
    BY <1>1
  <2> QED
    BY <2>1, <1>1
<1> QED
  BY <1>1, <1>2, <1>3

LEMMA RestIs ==
  ASSUME NEW T, NEW whole \in Seq(T), whole # <<>>
  PROVE  /\ Tail(whole) \in Seq(T) /\ Len(whole) \in Nat \ {0}
         /\ Len(Tail(whole)) = Len(whole) - 1 /\ Head(whole) = whole[1]
         /\ 1 \in 1..Len(whole)
         /\ \A i \in 1..(Len(whole) - 1) : Tail(whole)[i] = whole[i + 1]
  BY HeadTailProperties, LenProperties, EmptySeq

(* Playbacks are numbered from one on, and their events too. *)
LEMMA PlayerIs ==
  ASSUME PlayTypes, NEW p \in DOMAIN players
  PROVE  /\ p \in Nat \ {0} /\ players[p] \in Players /\ players[p].sent \in 0..Length
         /\ Length \in Nat \ {0}
<1>1. p \in 1..Len(players) /\ players \in Seq(Players) /\ Len(players) \in Nat
  BY LenProperties DEF PlayTypes
<1>2. players[p] \in Players
  BY <1>1, ElementOfSeq
<1> QED
  BY <1>1, <1>2, PlaybackAssumption DEF Players

LEMMA EventsAre ==
  ASSUME PlayTypes, NEW p \in DOMAIN players, NEW n \in Nat, players[p].sent <= n
  PROVE  /\ Events(p, n) \in Seq(Messages) /\ Len(Events(p, n)) = n - players[p].sent
         /\ \A i \in 1..(n - players[p].sent) :
              Events(p, n)[i] = Message("event", p, "none", players[p].sent + i)
<1>1. PICK s : s = players[p].sent
  OBVIOUS
<1>2. p \in Nat \ {0} /\ s \in Nat /\ n - s \in Nat
  BY <1>1, PlayerIs
<1>3. \A i \in 1..(n - s) : Message("event", p, "none", s + i) \in Messages
  BY <1>2 DEF Message, Messages
<1>4. Events(p, n) = [i \in 1..(n - s) |-> Message("event", p, "none", s + i)]
  BY <1>1 DEF Events
<1>5. Events(p, n) \in [1..(n - s) -> Messages]
  BY <1>3, <1>4
<1>6. Events(p, n) \in Seq(Messages) /\ Len(Events(p, n)) = n - s
  BY <1>2, <1>5
<1> QED
  BY <1>1, <1>4, <1>6

(* The wire w after p has said all up to its n-th event, that it is over   *)
(* if st says so, and the answer r to its start if there is one.           *)
Speaks(w, p, n, st, r) ==
  /\ w \in Seq(Messages) /\ Len(wire) <= Len(w)
  /\ \A i \in 1..Len(wire) : w[i] = wire[i]
  /\ \A i \in (Len(wire) + 1)..Len(w) :
       /\ w[i].of = p
       /\ \/ w[i].kind = "event" /\ w[i].seq = players[p].sent + (i - Len(wire)) /\ w[i].seq <= n
          \/ w[i].kind = "status" /\ w[i].state = st /\ st # "playing"
          \/ w[i].kind = "reply" /\ w[i].state = r /\ r # "none" /\ i = Len(w)
  /\ \A m \in (players[p].sent + 1)..n :
       \E i \in (Len(wire) + 1)..Len(w) : w[i].kind = "event" /\ w[i].seq = m
  /\ st # "playing" =>
       \E i \in (Len(wire) + 1)..Len(w) :
         w[i].kind = "status" /\ i = Len(w) - (IF r = "none" THEN 0 ELSE 1)
  /\ r # "none" => Len(w) \in (Len(wire) + 1)..Len(w) /\ w[Len(w)].kind = "reply"

LEMMA EventsSpeak ==
  ASSUME PlayTypes, NEW p \in DOMAIN players, NEW n \in Nat, players[p].sent <= n
  PROVE  Speaks(wire \o Events(p, n), p, n, "playing", "none")
<1>1. PICK s : s = players[p].sent
  OBVIOUS
<1>2. PICK e : e = Events(p, n)
  OBVIOUS
<1>3. PICK w : w = wire \o e
  OBVIOUS
<1>4. p \in Nat \ {0} /\ s \in Nat /\ n - s \in Nat
  BY <1>1, PlayerIs
<1>5. /\ e \in Seq(Messages) /\ Len(e) = n - s
      /\ \A i \in 1..(n - s) : e[i] = Message("event", p, "none", s + i)
  BY <1>1, <1>2, EventsAre
<1>6. wire \in Seq(Messages)
  BY DEF PlayTypes
<1>7. /\ w \in Seq(Messages) /\ Len(w) = Len(wire) + (n - s) /\ Len(wire) \in Nat
      /\ \A i \in 1..Len(wire) : w[i] = wire[i]
      /\ \A i \in 1..(n - s) : w[Len(wire) + i] = e[i]
  <2>1. w \in Seq(Messages)
    BY <1>3, <1>5, <1>6, JoinedIs
  <2>2. Len(wire) \in Nat
    BY <1>6, LenProperties
  <2>3. Len(w) = Len(wire) + (n - s)
    BY <1>3, <1>4, <1>5, <1>6, JoinedIs
  <2>4. \A i \in 1..Len(wire) : w[i] = wire[i]
    BY <1>3, <1>5, <1>6, JoinedIs
  <2>5. \A i \in 1..(n - s) : w[Len(wire) + i] = e[i]
    BY <1>3, <1>4, <1>5, <1>6, <2>2, JoinedIs
  <2> QED
    BY <2>1, <2>2, <2>3, <2>4, <2>5
<1>8. \A i \in 1..(n - s) :
        w[Len(wire) + i].of = p /\ w[Len(wire) + i].kind = "event" /\ w[Len(wire) + i].seq = s + i
  <2> TAKE i \in 1..(n - s)
  <2>1. w[Len(wire) + i] = Message("event", p, "none", s + i)
    BY <1>5, <1>7
  <2> QED
    BY <1>4, <1>7, <2>1 DEF Message
<1>9. \A i \in (Len(wire) + 1)..Len(w) :
        w[i].of = p /\ w[i].kind = "event" /\ w[i].seq = s + (i - Len(wire)) /\ w[i].seq <= n
  <2> TAKE i \in (Len(wire) + 1)..Len(w)
  <2>1. i - Len(wire) \in 1..(n - s) /\ i = Len(wire) + (i - Len(wire))
    BY <1>4, <1>7
  <2>2. PICK j \in 1..(n - s) : j = i - Len(wire) /\ i = Len(wire) + j
    BY <2>1
  <2>3. w[i].of = p /\ w[i].kind = "event" /\ w[i].seq = s + j
    BY <1>8, <2>2
  <2>4. s + j <= n
    BY <1>4, <2>2
  <2> QED
    BY <2>2, <2>3, <2>4
<1>10. \A m \in (s + 1)..n :
         \E i \in (Len(wire) + 1)..Len(w) : w[i].kind = "event" /\ w[i].seq = m
  <2> TAKE m \in (s + 1)..n
  <2>1. /\ m - s \in 1..(n - s) /\ m = s + (m - s)
        /\ Len(wire) + (m - s) \in (Len(wire) + 1)..Len(w)
    BY <1>4, <1>7
  <2> QED
    BY <2>1, <1>8
<1>11. Speaks(w, p, n, "playing", "none")
  BY <1>1, <1>4, <1>7, <1>9, <1>10 DEF Speaks
<1> QED
  BY <1>2, <1>3, <1>11

(* One more message: that p is over, or the answer. *)
Adds(m, p, st, st2, r2) ==
  /\ m \in Messages /\ m.of = p
  /\ \/ m.kind = "status" /\ m.state = st2 /\ st2 # "playing" /\ st = "playing" /\ r2 = "none"
     \/ m.kind = "reply" /\ m.state = r2 /\ r2 # "none" /\ st2 = st

LEMMA OneMore ==
  ASSUME PlayTypes, NEW p \in DOMAIN players, NEW n \in Nat, NEW w, NEW st,
         Speaks(w, p, n, st, "none"), NEW m, NEW st2, NEW r2, Adds(m, p, st, st2, r2)
  PROVE  Speaks(w \o <<m>>, p, n, st2, r2)
<1>1. PICK L, s : L = Len(wire) /\ s = players[p].sent
  OBVIOUS
<1>2. PICK x : x = w \o <<m>>
  OBVIOUS
<1>00. s \in Nat
  BY <1>1, PlayerIs
<1>01. wire \in Seq(Messages)
  BY DEF PlayTypes
<1>02. L \in Nat
  BY <1>1, <1>01, LenProperties
<1>0. s \in Nat /\ L \in Nat /\ wire \in Seq(Messages)
  BY <1>00, <1>01, <1>02
<1>3. /\ s \in Nat /\ w \in Seq(Messages) /\ L <= Len(w) /\ L \in Nat /\ Len(w) \in Nat
      /\ \A i \in 1..L : w[i] = wire[i]
      /\ \A i \in (L + 1)..Len(w) :
           /\ w[i].of = p
           /\ \/ w[i].kind = "event" /\ w[i].seq = s + (i - L) /\ w[i].seq <= n
              \/ w[i].kind = "status" /\ w[i].state = st /\ st # "playing"
      /\ \A k \in (s + 1)..n :
           \E i \in (L + 1)..Len(w) : w[i].kind = "event" /\ w[i].seq = k
      /\ st # "playing" =>
           \E i \in (L + 1)..Len(w) : w[i].kind = "status" /\ i = Len(w)
  BY <1>0, <1>1, LenProperties DEF Speaks
<1>4. <<m>> \in Seq(Messages) /\ Len(<<m>>) = 1 /\ <<m>>[1] = m
  BY DEF Adds
<1>5. /\ x \in Seq(Messages) /\ Len(x) = Len(w) + 1 /\ Len(w) \in Nat
      /\ \A i \in 1..Len(w) : x[i] = w[i]
      /\ x[Len(w) + 1] = m
  <2>1. x \in Seq(Messages)
    BY <1>2, <1>3, <1>4, JoinedIs
  <2>2. Len(x) = Len(w) + 1
    BY <1>2, <1>3, <1>4, JoinedIs
  <2>3. \A i \in 1..Len(w) : x[i] = w[i]
    BY <1>2, <1>3, <1>4, JoinedIs
  <2>4. x[Len(w) + 1] = m
    BY <1>2, <1>3, <1>4, JoinedIs
  <2> QED
    BY <1>3, <2>1, <2>2, <2>3, <2>4
<1>6. \A i \in 1..L : x[i] = wire[i]
  BY <1>3, <1>5
<1>7. \A i \in (L + 1)..Len(x) :
       /\ x[i].of = p
       /\ \/ x[i].kind = "event" /\ x[i].seq = s + (i - L) /\ x[i].seq <= n
          \/ x[i].kind = "status" /\ x[i].state = st2 /\ st2 # "playing"
          \/ x[i].kind = "reply" /\ x[i].state = r2 /\ r2 # "none" /\ i = Len(x)
  <2> TAKE i \in (L + 1)..Len(x)
  <2>1. CASE i = Len(w) + 1
    BY <2>1, <1>5 DEF Adds
  <2>2. CASE i # Len(w) + 1
    <3>1. i \in (L + 1)..Len(w) /\ x[i] = w[i]
      BY <2>2, <1>3, <1>5
    <3> QED
      BY <3>1, <1>3 DEF Adds
  <2> QED
    BY <2>1, <2>2
<1>8. \A k \in (s + 1)..n :
        \E i \in (L + 1)..Len(x) : x[i].kind = "event" /\ x[i].seq = k
  <2> TAKE k \in (s + 1)..n
  <2>1. PICK i \in (L + 1)..Len(w) : w[i].kind = "event" /\ w[i].seq = k
    BY <1>3
  <2>2. i \in (L + 1)..Len(x) /\ x[i] = w[i]
    BY <1>3, <1>5
  <2> QED
    BY <2>1, <2>2
<1>9. ASSUME st2 # "playing"
      PROVE  \E i \in (L + 1)..Len(x) :
               x[i].kind = "status" /\ i = Len(x) - (IF r2 = "none" THEN 0 ELSE 1)
  <2>1. CASE m.kind = "status"
    <3>1. Len(x) \in (L + 1)..Len(x) /\ x[Len(x)] = m /\ r2 = "none"
      BY <2>1, <1>3, <1>5 DEF Adds
    <3> QED
      BY <3>1, <2>1, <1>5
  <2>2. CASE m.kind # "status"
    <3>1. r2 # "none" /\ st # "playing"
      BY <2>2, <1>9 DEF Adds
    <3>2. PICK i \in (L + 1)..Len(w) : w[i].kind = "status" /\ i = Len(w)
      BY <3>1, <1>3
    <3>3. i \in (L + 1)..Len(x) /\ x[i] = w[i] /\ i = Len(x) - 1
      BY <3>2, <1>3, <1>5
    <3> QED
      BY <3>1, <3>2, <3>3
  <2> QED
    BY <2>1, <2>2
<1>10. L <= Len(x)
  BY <1>3, <1>5
<1>12. r2 # "none" => Len(x) \in (L + 1)..Len(x) /\ x[Len(x)].kind = "reply"
  BY <1>3, <1>5 DEF Adds
<1>11. Speaks(x, p, n, st2, r2)
  BY <1>1, <1>5, <1>6, <1>7, <1>8, <1>9, <1>10, <1>12 DEF Speaks
<1> QED
  BY <1>2, <1>11

-----------------------------------------------------------------------------
(* A playback reads its log, fails to, or goes on after a pause. *)

(* Playback p gets to its n-th event and is then a; of its end it says st, *)
(* and it answers r to its start if it was reading.                        *)
Spoke(p, n, a, st, r) ==
  /\ n \in Nat /\ players[p].sent <= n /\ n <= Length
  /\ Speaks(wire', p, n, st, r)
  /\ players' = [players EXCEPT ![p].sent = n, ![p].at = a]
  /\ current' \in 0..Len(players)
  /\ a \in {"playing", "done", "aborted", "error"}
  /\ a = "playing" => n < Length
  /\ st \in {"playing", "done", "aborted"} /\ (a # "error" => a = st)
  /\ \/ players[p].at = "reading" /\ r = "playing" /\ a # "error"
     \/ players[p].at = "reading" /\ r = "error" /\ a = "error" /\ n = players[p].sent
     \/ players[p].at = "playing" /\ r = "none" /\ a # "error"
  /\ calls' = calls /\ page' = page

LEMMA WireIs ==
  ASSUME PlayTypes
  PROVE  /\ wire \in Seq(Messages) /\ Len(wire) \in Nat /\ DOMAIN wire = 1..Len(wire)
         /\ \A i \in DOMAIN wire : wire[i] \in Messages /\ i \in Nat
<1>1. wire \in Seq(Messages)
  BY DEF PlayTypes
<1>2. Len(wire) \in Nat /\ DOMAIN wire = 1..Len(wire)
  BY <1>1, LenProperties
<1>3. \A i \in 1..Len(wire) : wire[i] \in Messages
  BY <1>1, ElementOfSeq
<1> QED
  BY <1>1, <1>2, <1>3

LEMMA PlayersAfter ==
  ASSUME PlayTypes, NEW p \in DOMAIN players, NEW n, NEW a, NEW st, NEW r,
         Spoke(p, n, a, st, r)
  PROVE  /\ players' \in Seq(Players) /\ DOMAIN players' = DOMAIN players
         /\ Len(players') = Len(players)
         /\ \A q \in DOMAIN players :
              players'[q].mine = players[q].mine /\ (q # p => players'[q] = players[q])
         /\ players'[p].sent = n /\ players'[p].at = a
<1>1. players \in Seq(Players) /\ players[p] \in Players
  BY PlayerIs DEF PlayTypes
<1>2. PICK x : x = [players[p] EXCEPT !.sent = n, !.at = a]
  OBVIOUS
<1>3. players' = [players EXCEPT ![p] = x]
  BY <1>1, <1>2 DEF Spoke, Players
<1>4. x \in Players /\ x.sent = n /\ x.at = a /\ x.mine = players[p].mine
  <2>1. n \in 0..Length /\ a \in {"reading", "playing", "done", "aborted", "error"}
    BY PlaybackAssumption DEF Spoke
  <2> QED
    BY <1>1, <1>2, <2>1 DEF Players
<1>5. players' \in Seq(Players) /\ Len(players') = Len(players) /\ DOMAIN players' = DOMAIN players
  BY <1>1, <1>3, <1>4, ExceptSeq
<1>6. players'[p] = x /\ \A q \in DOMAIN players : q # p => players'[q] = players[q]
  BY <1>3
<1> QED
  BY <1>4, <1>5, <1>6

LEMMA WireAfter ==
  ASSUME PlayTypes, NEW p \in DOMAIN players, NEW n, NEW a, NEW st, NEW r,
         Spoke(p, n, a, st, r)
  PROVE  /\ wire' \in Seq(Messages) /\ DOMAIN wire \subseteq DOMAIN wire'
         /\ \A i \in DOMAIN wire' : i \in Nat
         /\ \A i \in DOMAIN wire : wire'[i] = wire[i]
         /\ \A i \in DOMAIN wire' :
              i \notin DOMAIN wire =>
                /\ i > Len(wire) /\ wire'[i].of = p
                /\ \/ /\ wire'[i].kind = "event" /\ wire'[i].seq <= n
                      /\ wire'[i].seq = players[p].sent + (i - Len(wire))
                   \/ wire'[i].kind = "status" /\ wire'[i].state = st /\ st # "playing"
                   \/ wire'[i].kind = "reply" /\ wire'[i].state = r /\ r # "none" /\ i = Len(wire')
         /\ \A m \in (players[p].sent + 1)..n :
              \E i \in DOMAIN wire' : /\ i \notin DOMAIN wire
                                      /\ wire'[i].kind = "event" /\ wire'[i].seq = m /\ wire'[i].of = p
         /\ st # "playing" =>
              \E i \in DOMAIN wire' :
                /\ i \notin DOMAIN wire /\ wire'[i].kind = "status" /\ wire'[i].of = p
                /\ i = Len(wire') - (IF r = "none" THEN 0 ELSE 1)
         /\ r # "none" => /\ Len(wire') \in DOMAIN wire' /\ Len(wire') \notin DOMAIN wire
                         /\ wire'[Len(wire')].kind = "reply"
<1>1. wire' \in Seq(Messages) /\ Speaks(wire', p, n, st, r)
  BY DEF Spoke, Speaks
<1>2. /\ DOMAIN wire' = 1..Len(wire') /\ Len(wire') \in Nat
      /\ DOMAIN wire = 1..Len(wire) /\ Len(wire) \in Nat
  BY <1>1, WireIs, LenProperties
<1>3. Len(wire) <= Len(wire') /\ \A i \in 1..Len(wire) : wire'[i] = wire[i]
  BY <1>1 DEF Speaks
<1>4. \A i \in DOMAIN wire' : i \notin DOMAIN wire <=> i \in (Len(wire) + 1)..Len(wire')
  BY <1>2
<1>4a. \A i \in (Len(wire) + 1)..Len(wire') : i \in DOMAIN wire' /\ i \notin DOMAIN wire
  BY <1>2
<1>5. players[p].sent \in Nat
  BY PlayerIs
<1>6. \A i \in (Len(wire) + 1)..Len(wire') :
        /\ wire'[i].of = p
        /\ \/ /\ wire'[i].kind = "event" /\ wire'[i].seq <= n
              /\ wire'[i].seq = players[p].sent + (i - Len(wire))
           \/ wire'[i].kind = "status" /\ wire'[i].state = st /\ st # "playing"
           \/ wire'[i].kind = "reply" /\ wire'[i].state = r /\ r # "none" /\ i = Len(wire')
  BY <1>1, <1>2, <1>5 DEF Speaks
<1>7. \A m \in (players[p].sent + 1)..n :
        \E i \in DOMAIN wire' : /\ i \notin DOMAIN wire
                                /\ wire'[i].kind = "event" /\ wire'[i].seq = m /\ wire'[i].of = p
  <2> TAKE m \in (players[p].sent + 1)..n
  <2>1. PICK i \in (Len(wire) + 1)..Len(wire') : wire'[i].kind = "event" /\ wire'[i].seq = m
    BY <1>1 DEF Speaks
  <2> QED
    BY <2>1, <1>4a, <1>6
<1>8. ASSUME st # "playing"
      PROVE  \E i \in DOMAIN wire' :
                /\ i \notin DOMAIN wire /\ wire'[i].kind = "status" /\ wire'[i].of = p
                /\ i = Len(wire') - (IF r = "none" THEN 0 ELSE 1)
  <2>1. PICK i \in (Len(wire) + 1)..Len(wire') :
           wire'[i].kind = "status" /\ i = Len(wire') - (IF r = "none" THEN 0 ELSE 1)
    BY <1>1, <1>8 DEF Speaks
  <2> QED
    BY <2>1, <1>4a, <1>6
<1>9. \A i \in DOMAIN wire' : i \in Nat /\ (i \notin DOMAIN wire => i > Len(wire))
  BY <1>2
<1>10. DOMAIN wire \subseteq DOMAIN wire'
  BY <1>2, <1>3
<1>11. r # "none" => /\ Len(wire') \in DOMAIN wire' /\ Len(wire') \notin DOMAIN wire
                     /\ wire'[Len(wire')].kind = "reply"
  BY <1>1, <1>4a DEF Speaks
<1> QED
  BY <1>1, <1>2, <1>3, <1>4, <1>6, <1>7, <1>8, <1>9, <1>10, <1>11

LEMMA SpokeTypes ==
  ASSUME PlayTypes, NEW p \in DOMAIN players, NEW n, NEW a, NEW st, NEW r,
         Spoke(p, n, a, st, r)
  PROVE  PlayTypes'
<1>1. /\ players' \in Seq(Players) /\ Len(players') = Len(players)
      /\ DOMAIN players' = DOMAIN players /\ wire' \in Seq(Messages)
  BY PlayersAfter, WireAfter
<1>2. calls' = calls /\ page' = page /\ current' \in 0..Len(players)
  BY DEF Spoke
<1>3. (page = Closed \/ IsOpened(page)) => (page = Closed \/ IsOpened(page))'
  BY <1>1, <1>2 DEF IsOpened, PageFields, Closed
<1>4. calls' \in Seq(CallsToPlay) /\ current' \in 0..Len(players')
  BY <1>1, <1>2 DEF PlayTypes
<1> QED
  BY <1>1, <1>3, <1>4 DEF PlayTypes

LEMMA SpokeFits ==
  ASSUME PlayTypes, WireFits, NEW p \in DOMAIN players, NEW n, NEW a, NEW st, NEW r,
         Spoke(p, n, a, st, r)
  PROVE  WireFits'
<1>1. PICK s : s = players[p].sent
  OBVIOUS
<1>2. /\ s \in Nat /\ s \in 0..Length /\ n \in Nat /\ s <= n /\ n <= Length
      /\ Len(wire) \in Nat /\ Length \in Nat
  BY <1>1, PlayerIs, WireIs DEF Spoke
<1>3. /\ DOMAIN players' = DOMAIN players
      /\ \A q \in DOMAIN players : q # p => players'[q] = players[q]
      /\ players'[p].sent = n /\ players'[p].at = a
  BY PlayersAfter
<1>3a. a # "reading" /\ (a = "playing" => n < Length)
  BY DEF Spoke
<1>4. \A i \in DOMAIN wire : i \in DOMAIN wire' /\ wire'[i] = wire[i] /\ i \in 1..Len(wire)
  BY WireAfter, WireIs
<1>5. \A i \in DOMAIN wire' :
        i \notin DOMAIN wire =>
          /\ i \in Nat /\ i > Len(wire) /\ wire'[i].of = p
          /\ \/ /\ wire'[i].kind = "event" /\ wire'[i].seq <= n
                /\ wire'[i].seq = s + (i - Len(wire))
             \/ wire'[i].kind = "status" /\ wire'[i].state \in {"done", "aborted"}
             \/ wire'[i].kind = "reply" /\ wire'[i].state \in {"playing", "error"}
  <2>1. /\ st # "playing" => st \in {"done", "aborted"}
        /\ r # "none" => r \in {"playing", "error"}
    BY DEF Spoke
  <2>2. \A i \in DOMAIN wire' :
          i \notin DOMAIN wire =>
            /\ i \in Nat /\ i > Len(wire) /\ wire'[i].of = p
            /\ \/ /\ wire'[i].kind = "event" /\ wire'[i].seq <= n
                  /\ wire'[i].seq = s + (i - Len(wire))
               \/ wire'[i].kind = "status" /\ wire'[i].state = st /\ st # "playing"
               \/ wire'[i].kind = "reply" /\ wire'[i].state = r /\ r # "none" /\ i = Len(wire')
    BY <1>1, WireAfter
  <2> QED
    BY <2>1, <2>2
<1>6. \A i \in DOMAIN wire' :
       /\ wire'[i].of \in DOMAIN players'
       /\ players'[wire'[i].of].at # "reading"
       /\ wire'[i].kind = "event" => wire'[i].seq \in 1..players'[wire'[i].of].sent
       /\ wire'[i].kind = "status" => wire'[i].state \in {"done", "aborted"}
       /\ wire'[i].kind = "reply" => wire'[i].state \in {"playing", "error"}
  <2> TAKE i \in DOMAIN wire'
  <2>1. CASE i \in DOMAIN wire
    <3>1. /\ wire[i].of \in DOMAIN players /\ players[wire[i].of].at # "reading"
          /\ wire[i].kind = "event" => wire[i].seq \in 1..players[wire[i].of].sent
          /\ wire[i].kind = "status" => wire[i].state \in {"done", "aborted"}
          /\ wire[i].kind = "reply" => wire[i].state \in {"playing", "error"}
      BY <2>1 DEF WireFits
    <3>2. wire'[i] = wire[i]
      BY <2>1, <1>4
    <3>3. CASE wire[i].of = p
      <4>1. wire[i].kind = "event" => wire[i].seq \in 1..n
        BY <3>1, <3>3, <1>1, <1>2
      <4> QED
        BY <3>1, <3>2, <3>3, <1>3, <1>3a, <4>1
    <3>4. CASE wire[i].of # p
      BY <3>1, <3>2, <3>4, <1>3
    <3> QED
      BY <3>3, <3>4
  <2>2. CASE i \notin DOMAIN wire
    <3>1. wire'[i].kind = "event" => wire'[i].seq \in 1..n
      BY <2>2, <1>2, <1>5
    <3> QED
      BY <2>2, <3>1, <1>3, <1>3a, <1>5
  <2> QED
    BY <2>1, <2>2
<1>7. ASSUME NEW i \in DOMAIN wire', NEW j \in DOMAIN wire', i < j,
             wire'[i].kind = "event", wire'[j].kind = "event", wire'[j].of = wire'[i].of
      PROVE  wire'[i].seq < wire'[j].seq
  <2>1. CASE j \in DOMAIN wire
    <3>1. i \in DOMAIN wire
      BY <2>1, <1>2, <1>4, <1>5, <1>7
    <3> QED
      BY <2>1, <3>1, <1>4, <1>7 DEF WireFits, Carries
  <2>2. CASE j \notin DOMAIN wire /\ i \in DOMAIN wire
    <3>1. wire'[i] = wire[i] /\ wire[i].of = p
      BY <2>2, <1>4, <1>5, <1>7
    <3>2. wire[i].seq \in 1..s
      BY <2>2, <3>1, <1>1, <1>7 DEF WireFits
    <3>3. wire'[j].seq = s + (j - Len(wire)) /\ j \in Nat /\ j > Len(wire)
      BY <2>2, <1>5, <1>7
    <3> QED
      BY <3>1, <3>2, <3>3, <1>2
  <2>3. CASE j \notin DOMAIN wire /\ i \notin DOMAIN wire
    <3>1. /\ wire'[j].seq = s + (j - Len(wire)) /\ j \in Nat
          /\ wire'[i].seq = s + (i - Len(wire)) /\ i \in Nat
      BY <2>3, <1>5, <1>7
    <3> QED
      BY <3>1, <1>2, <1>7
  <2> QED
    BY <2>1, <2>2, <2>3
<1>8. \A q \in DOMAIN players' :
       /\ players'[q].at = "reading" => players'[q].sent = 0
       /\ players'[q].at = "playing" => players'[q].sent < Length
  BY <1>3, <1>3a DEF WireFits
<1> QED
  BY <1>6, <1>7, <1>8 DEF WireFits, Carries

(* The start that was under way is now answered. *)
LEMMA SpokeStart ==
  ASSUME PlayTypes, WireFits, OneStart, NEW p \in DOMAIN players, NEW n, NEW a, NEW st, NEW r,
         Spoke(p, n, a, st, r)
  PROVE  /\ OneStart'
         /\ \A q \in DOMAIN players : Watched(q)' => Watched(q)
<1>1. /\ DOMAIN players' = DOMAIN players
      /\ \A q \in DOMAIN players :
           players'[q].mine = players[q].mine /\ (q # p => players'[q] = players[q])
      /\ players'[p].at = a
  BY PlayersAfter
<1>1a. a # "reading" /\ calls' = calls /\ page' = page
  BY DEF Spoke
<1>2. \A i \in DOMAIN wire : i \in DOMAIN wire' /\ wire'[i] = wire[i]
  BY WireAfter
<1>3. \A i \in DOMAIN wire' :
        i \notin DOMAIN wire /\ wire'[i].kind = "reply" =>
          wire'[i].of = p /\ players[p].at = "reading" /\ i = Len(wire')
  <2>1. r # "none" => players[p].at = "reading"
    BY DEF Spoke
  <2>2. \A i \in DOMAIN wire' :
          i \notin DOMAIN wire /\ wire'[i].kind = "reply" =>
            wire'[i].of = p /\ r # "none" /\ i = Len(wire')
    BY WireAfter
  <2> QED
    BY <2>1, <2>2
<1>4. \A i \in DOMAIN calls' : Asking(i)' <=> Asking(i)
  BY <1>1a DEF Asking
<1>5. \A q \in DOMAIN players : Reading(q)' <=> Reading(q) /\ q # p
  BY <1>1, <1>1a DEF Reading
<1>6. \A i \in DOMAIN wire' :
        IsAnswer(i)' => \/ i \in DOMAIN wire /\ IsAnswer(i) /\ wire'[i] = wire[i]
                        \/ i \notin DOMAIN wire /\ Reading(p) /\ wire'[i].of = p /\ i = Len(wire')
  <2> TAKE i \in DOMAIN wire'
  <2> HAVE IsAnswer(i)'
  <2>1. CASE i \in DOMAIN wire
    <3>1. wire[i].of \in DOMAIN players
      BY <2>1 DEF WireFits
    <3> QED
      BY <2>1, <3>1, <1>1, <1>2 DEF IsAnswer
  <2>2. CASE i \notin DOMAIN wire
    BY <2>2, <1>1, <1>3 DEF IsAnswer, Reading
  <2> QED
    BY <2>1, <2>2
<1>7. \A i \in DOMAIN wire : IsAnswer(i) => IsAnswer(i)'
  <2> TAKE i \in DOMAIN wire
  <2>1. wire[i].of \in DOMAIN players
    BY DEF WireFits
  <2> QED
    BY <2>1, <1>1, <1>2 DEF IsAnswer
<1>8. Reading(p) => \E i \in DOMAIN wire' : IsAnswer(i)'
  <2> SUFFICES ASSUME Reading(p) PROVE \E i \in DOMAIN wire' : IsAnswer(i)'
    OBVIOUS
  <2>1. r # "none"
    BY DEF Reading, Spoke
  <2>2. PICK i \in DOMAIN wire' : wire'[i].kind = "reply" /\ i \notin DOMAIN wire
    BY <2>1, WireAfter
  <2>3. wire'[i].of = p /\ players'[p].mine
    BY <2>2, <1>1, <1>3 DEF Reading
  <2> QED
    BY <2>2, <2>3 DEF IsAnswer
<1>9. (page.starting <=> Starting)'
  <2>1. Starting => Starting'
    <3> SUFFICES ASSUME Starting PROVE Starting'
      OBVIOUS
    <3>1. CASE \E i \in DOMAIN calls : Asking(i)
      BY <3>1, <1>1a, <1>4 DEF Starting
    <3>2. CASE \E q \in DOMAIN players : Reading(q)
      BY <3>2, <1>1, <1>5, <1>8 DEF Starting
    <3>3. CASE \E i \in DOMAIN wire : IsAnswer(i)
      BY <3>3, <1>2, <1>7 DEF Starting
    <3> QED
      BY <3>1, <3>2, <3>3 DEF Starting
  <2>2. Starting' => Starting
    <3> SUFFICES ASSUME Starting' PROVE Starting
      OBVIOUS
    <3>1. CASE \E i \in DOMAIN calls' : Asking(i)'
      BY <3>1, <1>1a, <1>4 DEF Starting
    <3>2. CASE \E q \in DOMAIN players' : Reading(q)'
      BY <3>2, <1>1, <1>5 DEF Starting
    <3>3. CASE \E i \in DOMAIN wire' : IsAnswer(i)'
      BY <3>3, <1>6 DEF Starting
    <3> QED
      BY <3>1, <3>2, <3>3 DEF Starting
  <2> QED
    BY <2>1, <2>2, <1>1a DEF OneStart
<1>10. /\ \A i, j \in DOMAIN calls' : Asking(i)' /\ Asking(j)' => i = j
       /\ \A q, t \in DOMAIN players' : Reading(q)' /\ Reading(t)' => q = t
       /\ \A i \in DOMAIN calls', q \in DOMAIN players' : ~(Asking(i)' /\ Reading(q)')
  BY <1>1, <1>1a, <1>4, <1>5 DEF OneStart
<1>11. /\ \A i, j \in DOMAIN wire' : IsAnswer(i)' /\ IsAnswer(j)' => i = j
       /\ \A i \in DOMAIN calls', j \in DOMAIN wire' : ~(Asking(i)' /\ IsAnswer(j)')
       /\ \A q \in DOMAIN players', j \in DOMAIN wire' : ~(Reading(q)' /\ IsAnswer(j)')
  BY <1>1, <1>1a, <1>4, <1>5, <1>6 DEF OneStart
<1>12. OneStart'
  BY <1>9, <1>10, <1>11 DEF OneStart
<1>13. \A q \in DOMAIN players : Watched(q)' => Watched(q)
  BY <1>1, <1>1a, <1>5, <1>6 DEF Watched
<1> QED
  BY <1>12, <1>13

(* What is new comes after all that the page has of it. *)
LEMMA SpokeWhole ==
  ASSUME PlayTypes, NEW p \in DOMAIN players, NEW n, NEW a, NEW st, NEW r,
         Spoke(p, n, a, st, r),
         NEW q \in DOMAIN players, Unbroken(q), Len(Got(q)) \in Nat
  PROVE  Unbroken(q)'
<1>1. PICK g : g = Got(q)
  OBVIOUS
<1>2. Got(q)' = g /\ Len(g) \in Nat
  BY <1>1 DEF Spoke, Got, EarlyOf
<1>3. /\ Len(g) <= players[q].sent /\ \A i \in 1..Len(g) : g[i] = i
      /\ \A i \in DOMAIN wire : Carries(i, "event", q) => wire[i].seq > Len(g)
      /\ \A m \in (Len(g) + 1)..players[q].sent :
           \E i \in DOMAIN wire : Carries(i, "event", q) /\ wire[i].seq = m
  BY <1>1 DEF Unbroken
<1>4. \A i \in DOMAIN wire : i \in DOMAIN wire' /\ wire'[i] = wire[i]
  BY WireAfter
<1>5. players[q].sent \in Nat /\ players[p].sent \in Nat /\ Len(wire) \in Nat
  BY PlayerIs, WireIs
<1>6. /\ q # p => players'[q].sent = players[q].sent
      /\ q = p => players'[q].sent = n /\ n \in Nat /\ players[q].sent <= n
  <2>1. /\ players'[p].sent = n
        /\ q # p => players'[q] = players[q]
    BY PlayersAfter
  <2>2. n \in Nat /\ players[p].sent <= n
    BY DEF Spoke
  <2> QED
    BY <2>1, <2>2
<1>7. \A i \in DOMAIN wire' :
        i \notin DOMAIN wire =>
          /\ i \in Nat /\ i > Len(wire) /\ wire'[i].of = p
          /\ wire'[i].kind = "event" => wire'[i].seq = players[p].sent + (i - Len(wire))
  BY WireAfter
<1>8. \A i \in DOMAIN wire' : Carries(i, "event", q)' => wire'[i].seq > Len(g)
  <2> TAKE i \in DOMAIN wire'
  <2> HAVE Carries(i, "event", q)'
  <2>1. wire'[i].kind = "event" /\ wire'[i].of = q
    BY DEF Carries
  <2>2. CASE i \in DOMAIN wire
    BY <2>1, <2>2, <1>3, <1>4 DEF Carries
  <2>3. CASE i \notin DOMAIN wire
    <3>1. q = p /\ wire'[i].seq = players[p].sent + (i - Len(wire)) /\ i \in Nat /\ i > Len(wire)
      BY <2>1, <2>3, <1>7
    <3> QED
      BY <3>1, <1>2, <1>3, <1>5
  <2> QED
    BY <2>2, <2>3
<1>9. \A m \in (Len(g) + 1)..players'[q].sent :
        \E i \in DOMAIN wire' : Carries(i, "event", q)' /\ wire'[i].seq = m
  <2> TAKE m \in (Len(g) + 1)..players'[q].sent
  <2>1. CASE m \in (Len(g) + 1)..players[q].sent
    <3>1. PICK i \in DOMAIN wire : Carries(i, "event", q) /\ wire[i].seq = m
      BY <2>1, <1>3
    <3> QED
      BY <3>1, <1>4 DEF Carries
  <2>2. CASE m \notin (Len(g) + 1)..players[q].sent
    <3>1. q = p /\ m \in (players[p].sent + 1)..n
      BY <2>2, <1>2, <1>3, <1>5, <1>6
    <3>2. PICK i \in DOMAIN wire' :
            wire'[i].kind = "event" /\ wire'[i].seq = m /\ wire'[i].of = p
      BY <3>1, WireAfter
    <3> QED
      BY <3>1, <3>2 DEF Carries
  <2> QED
    BY <2>1, <2>2
<1>10. Len(g) <= players'[q].sent
  BY <1>2, <1>3, <1>5, <1>6
<1> QED
  BY <1>2, <1>3, <1>8, <1>9, <1>10 DEF Unbroken

(* If it ended, that it did is said. *)
LEMMA SpokeStatus ==
  ASSUME PlayTypes, WireFits, BlankBefore, StatusFits,
         NEW p \in DOMAIN players, NEW n, NEW a, NEW st, NEW r, Spoke(p, n, a, st, r)
  PROVE  StatusFits'
<1>1. /\ \A q \in DOMAIN players :
           players'[q].mine = players[q].mine /\ (q # p => players'[q] = players[q])
      /\ players'[p].at = a
  BY PlayersAfter
<1>2. /\ calls' = calls /\ page' = page
      /\ a = st \/ a = "error"
      /\ players[p].at = "playing" => a = st
      /\ r = "playing" => a = st
  BY DEF Spoke
<1>3. \A i \in DOMAIN wire : i \in DOMAIN wire' /\ wire'[i] = wire[i] /\ i \in Nat /\ i <= Len(wire)
  BY WireAfter, WireIs
<1>4. \A i \in DOMAIN wire : wire[i].of \in DOMAIN players /\ players[wire[i].of].at # "reading"
  BY DEF WireFits
<1>5. st # "playing" =>
        \E i \in DOMAIN wire' :
          /\ i \notin DOMAIN wire /\ i \in Nat /\ i > Len(wire)
          /\ wire'[i].kind = "status" /\ wire'[i].of = p
          /\ i = Len(wire') - (IF r = "none" THEN 0 ELSE 1)
  BY WireAfter
<1>6. ASSUME NEW q \in DOMAIN players, EndComes(q), q = p => players[q].at # "reading"
      PROVE  EndComes(q)'
  <2>1. CASE \E i \in DOMAIN wire : Carries(i, "status", q)
    BY <2>1, <1>3 DEF EndComes, Carries
  <2>2. CASE players[q].at = "playing" /\ q # p
    BY <2>2, <1>1 DEF EndComes
  <2>3. CASE players[q].at = "playing" /\ q = p
    BY <2>3, <1>1, <1>2, <1>5 DEF EndComes, Carries
  <2> QED
    BY <2>1, <2>2, <2>3, <1>6 DEF EndComes
<1>7. ASSUME StatusIs("playing")'
      PROVE  (/\ ~page.starting /\ page.status.of = page.view.of
              /\ page.view.of # 0 /\ EndComes(page.view.of))'
  <2>1. PICK v : v = page.view.of
    OBVIOUS
  <2>2. ~page.starting /\ page.status.of = v /\ v # 0 /\ EndComes(v)
    BY <1>7, <1>2, <2>1 DEF StatusFits, StatusIs
  <2>3. v \in DOMAIN players
    BY <2>1, <2>2 DEF BlankBefore
  <2>4. players[v].at # "reading"
    BY <2>2, <1>4 DEF EndComes, Carries
  <2>5. EndComes(v)'
    BY <1>6, <2>2, <2>3, <2>4
  <2> QED
    BY <2>1, <2>2, <2>5, <1>2
<1>8. ASSUME NEW i \in DOMAIN wire', IsAnswer(i)', wire'[i].state = "playing"
      PROVE  EndCame(i, wire[i].of)'
  <2>1. CASE i \in DOMAIN wire
    <3>1. PICK q : q = wire[i].of
      OBVIOUS
    <3>2. q \in DOMAIN players /\ wire'[i] = wire[i] /\ IsAnswer(i) /\ players[q].at # "reading"
      BY <2>1, <3>1, <1>1, <1>3, <1>4, <1>8 DEF IsAnswer
    <3>3. EndCame(i, q)
      BY <2>1, <3>1, <3>2, <1>8 DEF StatusFits
    <3>4. EndCame(i, q)'
      <4>1. CASE players[q].at = "playing" /\ q # p
        BY <4>1, <3>2, <1>1 DEF EndCame
      <4>2. CASE players[q].at = "playing" /\ q = p /\ a = "playing"
        BY <4>2, <1>1 DEF EndCame
      <4>3. CASE players[q].at = "playing" /\ q = p /\ a # "playing"
        <5>1. PICK j \in DOMAIN wire' :
                j > Len(wire) /\ j \in Nat /\ wire'[j].kind = "status" /\ wire'[j].of = p
          BY <4>3, <1>2, <1>5
        <5>2. j > i
          BY <5>1, <2>1, <1>3, WireIs
        <5> QED
          BY <5>1, <5>2, <4>3 DEF EndCame, Carries
      <4>4. CASE \E j \in DOMAIN wire : j > i /\ Carries(j, "status", q)
        BY <4>4, <1>3 DEF EndCame, Carries
      <4>5. CASE i - 1 \in DOMAIN wire /\ Carries(i - 1, "status", q)
        BY <4>5, <1>3 DEF EndCame, Carries
      <4>6. CASE i = 1 /\ page.status.of = q
        BY <4>6, <1>2 DEF EndCame
      <4> QED
        BY <3>3, <4>1, <4>2, <4>3, <4>4, <4>5, <4>6 DEF EndCame
    <3> QED
      BY <3>1, <3>2, <3>4
  <2>2. CASE i \notin DOMAIN wire
    <3>1. wire'[i].of = p /\ wire'[i].kind = "reply" /\ wire'[i].state = r /\ r = "playing"
          /\ i = Len(wire') /\ i \in Nat
      <4>1. wire'[i].kind = "reply"
        BY <1>8 DEF IsAnswer
      <4> QED
        BY <4>1, <2>2, <1>8, WireAfter
    <3>2. CASE a = "playing"
      BY <3>1, <3>2, <1>1 DEF EndCame
    <3>3. CASE a # "playing"
      <4>1. PICK j \in DOMAIN wire' :
              wire'[j].kind = "status" /\ wire'[j].of = p /\ j = Len(wire') - 1
        BY <3>1, <3>3, <1>2, <1>5
      <4> QED
        BY <4>1, <3>1 DEF EndCame, Carries
    <3> QED
      BY <3>2, <3>3
  <2> QED
    BY <2>1, <2>2
<1> QED
  BY <1>7, <1>8 DEF StatusFits

LEMMA ReachesFits ==
  ASSUME PlayTypes, NEW p \in DOMAIN players, NEW paused \in BOOLEAN,
         paused => players[p].sent < Length, NEW x \in Reaches(p, paused)
  PROVE  /\ x[1] \in Nat /\ players[p].sent <= x[1] /\ x[1] <= Length
         /\ x[2] \in {"playing", "done", "aborted"}
         /\ x[2] = "playing" => x[1] < Length
<1>1. PICK s, next : s = players[p].sent /\ next = s + (IF paused THEN 1 ELSE 0)
  OBVIOUS
<1>2. s \in Nat /\ Length \in Nat /\ s <= Length /\ next \in Nat /\ s <= next /\ next <= Length
  BY <1>1, PlayerIs
<1>3. x \in IF p \in aborted
            THEN {<<next, "aborted">>} \cup (IF next = Length THEN {<<next, "done">>} ELSE {})
            ELSE {<<n, "playing">> : n \in (s + 1)..(Length - 1)} \cup {<<Length, "done">>}
  BY <1>1 DEF Reaches
<1>4. CASE p \in aborted
  BY <1>1, <1>2, <1>3, <1>4
<1>5. CASE p \notin aborted
  <2>1. CASE x = <<Length, "done">>
    BY <2>1, <1>1, <1>2
  <2>2. CASE x # <<Length, "done">>
    <3>1. PICK n \in (s + 1)..(Length - 1) : x = <<n, "playing">>
      BY <2>2, <1>3, <1>5
    <3> QED
      BY <3>1, <1>1, <1>2
  <2> QED
    BY <2>1, <2>2
<1> QED
  BY <1>4, <1>5

LEMMA EndSpeaks ==
  ASSUME PlayTypes, NEW p \in DOMAIN players, NEW n \in Nat, players[p].sent <= n,
         NEW st \in {"playing", "done", "aborted"}
  PROVE  Speaks(wire \o Events(p, n) \o Status(p, st), p, n, st, "none")
<1>1. PICK w : w = wire \o Events(p, n)
  OBVIOUS
<1>2. Speaks(w, p, n, "playing", "none")
  BY <1>1, EventsSpeak
<1>3. w \in Seq(Messages)
  BY <1>2 DEF Speaks
<1>4. CASE st = "playing"
  <2>1. w \o Status(p, st) = w
    BY <1>3, <1>4 DEF Status
  <2> QED
    BY <2>1, <1>1, <1>2, <1>4
<1>5. CASE st # "playing"
  <2>1. Status(p, st) = <<Message("status", p, st, 0)>>
    BY <1>5 DEF Status
  <2>2. Adds(Message("status", p, st, 0), p, "playing", st, "none")
    <3>1. p \in Nat \ {0}
      BY PlayerIs
    <3> QED
      BY <3>1, <1>5 DEF Adds, Message, Messages
  <2>3. Speaks(w \o <<Message("status", p, st, 0)>>, p, n, st, "none")
    BY <1>2, <2>2, OneMore
  <2> QED
    BY <2>1, <2>3, <1>1
<1> QED
  BY <1>4, <1>5

(* An answer follows. *)
LEMMA AnswerSpeaks ==
  ASSUME PlayTypes, NEW p \in DOMAIN players, NEW n \in Nat, NEW w,
         NEW st \in {"playing", "done", "aborted"}, Speaks(w, p, n, st, "none"),
         NEW r \in {"playing", "error"}
  PROVE  Speaks(w \o <<Message("reply", p, r, 0)>>, p, n, st, r)
<1>1. p \in Nat \ {0}
  BY PlayerIs
<1>2. Adds(Message("reply", p, r, 0), p, st, st, r)
  BY <1>1 DEF Adds, Message, Messages
<1> QED
  BY <1>2, OneMore

LEMMA PlayerHolds ==
  ASSUME PlayInv, NEW p \in DOMAIN players, ReadLog(p) \/ FailRead(p) \/ Resume(p)
  PROVE  /\ \E n, a, st, r : Spoke(p, n, a, st, r)
         /\ OneGoesOn'
<1>1. PlayTypes /\ WireFits /\ OneGoesOn /\ wire \in Seq(Messages)
  BY DEF PlayInv, PlayTypes
<1>2. /\ players[p].sent \in Nat /\ players[p].sent <= Length
      /\ players \in Seq(Players) /\ players[p] \in Players
      /\ current \in 0..Len(players)
      /\ players[p].at = "reading" => players[p].sent = 0
      /\ players[p].at = "playing" => players[p].sent < Length
  BY <1>1, PlayerIs DEF WireFits, PlayTypes
<1>3. ASSUME NEW n, NEW st, GetsTo(p, n, st), st \in {"playing", "done", "aborted"},
             ~Over(p)
      PROVE  current' \in 0..Len(players) /\ OneGoesOn'
  <2>1. /\ DOMAIN players' = DOMAIN players
        /\ players'[p].at = st
        /\ \A q \in DOMAIN players : q # p => players'[q] = players[q]
    BY <1>2, <1>3 DEF GetsTo, Players
  <2>2. Len(players) \in Nat
    BY <1>2, LenProperties
  <2>3. current' \in 0..Len(players)
    BY <1>2, <1>3, <2>2 DEF GetsTo
  <2>4. ASSUME NEW q \in DOMAIN players
        PROVE  Over(q)' \/ q = current' \/ q \in aborted'
    <3>1. CASE st = "playing"
      <4>1. current' = current /\ aborted' = aborted
        BY <1>3, <3>1 DEF GetsTo
      <4>2. q # p => (Over(q)' <=> Over(q))
        BY <2>1 DEF Over
      <4> QED
        BY <1>1, <1>3, <4>1, <4>2 DEF OneGoesOn
    <3>2. CASE st # "playing"
      <4>1. /\ aborted' = aborted \ {p}
            /\ current' = IF current = p THEN 0 ELSE current
        BY <1>3, <3>2 DEF GetsTo
      <4>2. CASE q = p
        BY <4>2, <3>2, <1>3, <2>1 DEF Over
      <4>3. CASE q # p
        <5>1. Over(q)' <=> Over(q)
          BY <4>3, <2>1 DEF Over
        <5>2. Over(q) \/ q = current \/ q \in aborted
          BY <1>1 DEF OneGoesOn
        <5> QED
          BY <4>1, <4>3, <5>1, <5>2
      <4> QED
        BY <4>2, <4>3
    <3> QED
      BY <3>1, <3>2
  <2>4a. OneGoesOn'
    BY <2>1, <2>4 DEF OneGoesOn
  <2> QED
    BY <2>3, <2>4a
<1>4. CASE ReadLog(p)
  <2>1. PICK x \in Reaches(p, FALSE) :
          /\ GetsTo(p, x[1], x[2])
          /\ wire' = wire \o Events(p, x[1]) \o Status(p, x[2]) \o <<Message("reply", p, "playing", 0)>>
    BY <1>4 DEF ReadLog
  <2>2. PICK n, st : n = x[1] /\ st = x[2]
    OBVIOUS
  <2>3. /\ n \in Nat /\ players[p].sent <= n /\ n <= Length
        /\ st \in {"playing", "done", "aborted"} /\ (st = "playing" => n < Length)
    BY <1>1, <2>2, ReachesFits
  <2>4. Speaks(wire', p, n, st, "playing")
    BY <1>1, <2>1, <2>2, <2>3, EndSpeaks, AnswerSpeaks
  <2>5. current' \in 0..Len(players) /\ OneGoesOn'
    <3>1. ~Over(p)
      BY <1>4 DEF ReadLog, Over
    <3> QED
      BY <1>3, <2>1, <2>2, <2>3, <3>1
  <2>6. Spoke(p, n, st, st, "playing")
    BY <1>4, <2>1, <2>2, <2>3, <2>4, <2>5 DEF Spoke, ReadLog, GetsTo
  <2> QED
    BY <2>5, <2>6
<1>5. CASE FailRead(p)
  <2>1. PICK n : n = players[p].sent
    OBVIOUS
  <2>2. Speaks(wire, p, n, "playing", "none")
    <3>1. Len(wire) \in Nat
      BY <1>1, WireIs
    <3> QED
      BY <1>1, <1>2, <2>1, <3>1 DEF Speaks
  <2>3. wire' = wire \o <<Message("reply", p, "error", 0)>>
    <3>1. Message("reply", p, "error", 0) \in Messages
      BY <1>1, PlayerIs DEF Message, Messages
    <3> QED
      BY <1>1, <1>5, <3>1, AppendIsConcat DEF FailRead
  <2>4. Speaks(wire', p, n, "playing", "error")
    BY <1>1, <1>2, <2>1, <2>2, <2>3, AnswerSpeaks
  <2>5. players' = [players EXCEPT ![p].sent = n, ![p].at = "error"]
    BY <1>2, <1>5, <2>1 DEF FailRead, Players
  <2>6. Spoke(p, n, "error", "playing", "error")
    <3>1. players[p].at = "reading" /\ current' = current /\ calls' = calls /\ page' = page
      BY <1>5 DEF FailRead
    <3>2. n \in Nat /\ n <= Length /\ players[p].sent <= n /\ n = players[p].sent
      BY <1>2, <2>1
    <3> QED
      BY <1>2, <2>4, <2>5, <3>1, <3>2 DEF Spoke
  <2>7. OneGoesOn'
    <3>1. /\ DOMAIN players' = DOMAIN players
          /\ players'[p].at = "error"
          /\ \A q \in DOMAIN players : q # p => players'[q] = players[q]
      BY <1>2, <1>5 DEF FailRead, Players
    <3> QED
      BY <1>1, <1>5, <3>1 DEF OneGoesOn, Over, FailRead
  <2> QED
    BY <2>6, <2>7
<1>6. CASE Resume(p)
  <2>1. PICK x \in Reaches(p, TRUE) :
          /\ GetsTo(p, x[1], x[2])
          /\ wire' = wire \o Events(p, x[1]) \o Status(p, x[2])
    BY <1>6 DEF Resume
  <2>2. PICK n, st : n = x[1] /\ st = x[2]
    OBVIOUS
  <2>3. /\ n \in Nat /\ players[p].sent <= n /\ n <= Length
        /\ st \in {"playing", "done", "aborted"} /\ (st = "playing" => n < Length)
    BY <1>1, <1>2, <1>6, <2>2, ReachesFits DEF Resume
  <2>4. Speaks(wire', p, n, st, "none")
    BY <1>1, <2>1, <2>2, <2>3, EndSpeaks
  <2>5. current' \in 0..Len(players) /\ OneGoesOn'
    <3>1. ~Over(p)
      BY <1>6 DEF Resume, Over
    <3> QED
      BY <1>3, <2>1, <2>2, <2>3, <3>1
  <2>6. Spoke(p, n, st, st, "none")
    BY <1>6, <2>1, <2>2, <2>3, <2>4, <2>5 DEF Spoke, Resume, GetsTo
  <2> QED
    BY <2>5, <2>6
<1> QED
  BY <1>4, <1>5, <1>6

LEMMA PageIs ==
  ASSUME PlayTypes, page.open
  PROVE  /\ IsOpened(page)
         /\ \A p : EarlyOf(page, p) \in Seq(Nat) /\ Got(p) \in Seq(Nat) /\ Len(Got(p)) \in Nat
         /\ page.view.blocks \in Seq(Nat)
<1>1. IsOpened(page)
  BY DEF PlayTypes, Closed
<1>2. page.view.blocks \in Seq(Nat)
  BY <1>1 DEF IsOpened
<1>3. \A p : EarlyOf(page, p) \in Seq(Nat)
  BY <1>1, EmptySeq DEF IsOpened, EarlyOf
<1>4. \A p : Got(p) \in Seq(Nat)
  BY <1>2, <1>3 DEF Got
<1>5. \A p : Len(Got(p)) \in Nat
  BY <1>4, LenProperties
<1> QED
  BY <1>1, <1>2, <1>3, <1>4, <1>5

LEMMA PlayersHold ==
  ASSUME PlayInv, NEW p \in DOMAIN players, ReadLog(p) \/ FailRead(p) \/ Resume(p)
  PROVE  PlayInv'
<1>1. PICK n, a, st, r : Spoke(p, n, a, st, r)
  BY PlayerHolds
<1>2. PlayTypes /\ WireFits
  BY DEF PlayInv
<1>3. PlayTypes' /\ WireFits' /\ OneGoesOn'
  BY <1>1, <1>2, SpokeTypes, SpokeFits, PlayerHolds
<1>4. calls' = calls /\ page' = page
  BY <1>1 DEF Spoke
<1>5. /\ DOMAIN players' = DOMAIN players
      /\ \A q \in DOMAIN players : players'[q].mine = players[q].mine
  BY <1>1, <1>2, PlayersAfter
<1>6. ~page'.open => NobodyIsOwned'
  BY <1>4, <1>5 DEF PlayInv, NobodyIsOwned
<1>7. ASSUME page.open, ~page.crowded
      PROVE  /\ OneStart' /\ BlankBefore' /\ StatusFits'
             /\ \A q \in DOMAIN players : Watched(q)' => Unbroken(q)'
  <2>1. /\ OneStart /\ BlankBefore /\ StatusFits
        /\ \A q \in DOMAIN players : Watched(q) => Unbroken(q)
    BY <1>7 DEF PlayInv, PageFits
  <2>2. OneStart' /\ \A q \in DOMAIN players : Watched(q)' => Watched(q)
    BY <1>1, <1>2, <2>1, SpokeStart
  <2>3. StatusFits'
    BY <1>1, <1>2, <2>1, SpokeStatus
  <2>4. BlankBefore'
    BY <2>1, <1>4, <1>5 DEF BlankBefore
  <2>5. ASSUME NEW q \in DOMAIN players, Unbroken(q) PROVE Unbroken(q)'
    BY <1>1, <1>2, <1>7, <2>5, PageIs, SpokeWhole
  <2> QED
    BY <2>1, <2>2, <2>3, <2>4, <2>5
<1> QED
  BY <1>3, <1>4, <1>5, <1>6, <1>7 DEF PlayInv, PageFits

-----------------------------------------------------------------------------
(* The main process takes a call. *)

LEMMA CallIsTaken ==
  ASSUME PlayTypes, calls # <<>>, calls' = Tail(calls)
  PROVE  /\ calls' \in Seq(CallsToPlay) /\ Head(calls) = calls[1] /\ 1 \in DOMAIN calls
         /\ calls[1] \in CallsToPlay
         /\ \A i \in DOMAIN calls' : i + 1 \in DOMAIN calls /\ i \in Nat /\ i # 0
                                     /\ calls'[i] = calls[i + 1]
         /\ \A i \in DOMAIN calls : i = 1 \/ (i - 1 \in DOMAIN calls' /\ calls[i] = calls'[i - 1])
<1>1. calls \in Seq(CallsToPlay)
  BY DEF PlayTypes
<1>2. /\ calls' \in Seq(CallsToPlay) /\ Len(calls) \in Nat \ {0}
      /\ Len(calls') = Len(calls) - 1 /\ Head(calls) = calls[1] /\ 1 \in 1..Len(calls)
      /\ \A i \in 1..(Len(calls) - 1) : calls'[i] = calls[i + 1]
  BY <1>1, RestIs
<1>3. DOMAIN calls = 1..Len(calls) /\ DOMAIN calls' = 1..Len(calls')
  BY <1>1, <1>2, LenProperties
<1>4. calls[1] \in CallsToPlay
  BY <1>1, <1>2, ElementOfSeq
<1>5. \A i \in DOMAIN calls' : i + 1 \in DOMAIN calls /\ i \in Nat /\ i # 0
                               /\ calls'[i] = calls[i + 1]
  BY <1>2, <1>3
<1>6. ASSUME NEW i \in DOMAIN calls, i # 1
      PROVE  i - 1 \in DOMAIN calls' /\ calls[i] = calls'[i - 1]
  <2>1. i - 1 \in 1..(Len(calls) - 1) /\ (i - 1) + 1 = i
    BY <1>2, <1>3, <1>6
  <2> QED
    BY <2>1, <1>2, <1>3
<1> QED
  BY <1>2, <1>3, <1>4, <1>5, <1>6

LEMMA HandleStopHolds ==
  ASSUME PlayInv, HandleStop
  PROVE  PlayInv'
<1>1. /\ PlayTypes /\ WireFits /\ OneGoesOn /\ calls # <<>> /\ calls' = Tail(calls)
      /\ calls[1].op = "stop" /\ 1 \in DOMAIN calls
      /\ UNCHANGED <<current, players, wire, page>>
      /\ aborted \subseteq aborted'
  BY CallIsTaken DEF PlayInv, HandleStop
<1>2. PlayTypes'
  BY <1>1, CallIsTaken DEF PlayTypes, IsOpened, PageFields, Closed
<1>3. WireFits'
  BY <1>1 DEF WireFits, Carries
<1>4. OneGoesOn'
  BY <1>1 DEF OneGoesOn, Over
<1>5. /\ \A i \in DOMAIN calls' : i + 1 \in DOMAIN calls /\ i \in Nat /\ i # 0
                                  /\ calls'[i] = calls[i + 1]
      /\ \A i \in DOMAIN calls :
            i = 1 \/ (i - 1 \in DOMAIN calls' /\ calls[i] = calls'[i - 1])
  BY <1>1, CallIsTaken
<1>6. NobodyIsOwned => NobodyIsOwned'
  BY <1>1, <1>5 DEF NobodyIsOwned
<1>7. ASSUME OneStart PROVE OneStart'
  <2>1. /\ \A i \in DOMAIN calls' : Asking(i)' => Asking(i + 1)
        /\ \A i \in DOMAIN calls : Asking(i) => i - 1 \in DOMAIN calls' /\ Asking(i - 1)'
    BY <1>1, <1>5 DEF Asking
  <2>2. Starting' <=> Starting
    BY <1>1, <1>5, <2>1 DEF Starting, Reading, IsAnswer
  <2>3. \A i, j \in DOMAIN calls' : Asking(i)' /\ Asking(j)' => i = j
    <3> TAKE i \in DOMAIN calls', j \in DOMAIN calls'
    <3> HAVE Asking(i)' /\ Asking(j)'
    <3>1. i + 1 = j + 1
      BY <1>5, <1>7, <2>1 DEF OneStart
    <3> QED
      BY <3>1, <1>5
  <2> QED
    BY <1>1, <1>5, <1>7, <2>1, <2>2, <2>3 DEF OneStart, Reading, IsAnswer
<1>8. /\ BlankBefore => BlankBefore'
      /\ StatusFits => StatusFits'
      /\ \A p \in DOMAIN players : /\ Watched(p)' <=> Watched(p)
                                   /\ Unbroken(p) => Unbroken(p)'
  BY <1>1 DEF BlankBefore, StatusFits, StatusIs, EndComes, EndCame, IsAnswer, Carries,
              Watched, Reading, Unbroken, Got, EarlyOf
<1> QED
  BY <1>1, <1>2, <1>3, <1>4, <1>6, <1>7, <1>8 DEF PlayInv, PageFits

(* A start that nobody owns any more is not the page's. *)
LEMMA HandleStartHolds ==
  ASSUME PlayInv, HandleStart
  PROVE  PlayInv'
<1>1. PICK np, x : np = Len(players) + 1 /\ x = [at |-> "reading", sent |-> 0, mine |-> Head(calls).mine]
  OBVIOUS
<1>2. /\ PlayTypes /\ WireFits /\ OneGoesOn /\ calls # <<>> /\ calls' = Tail(calls)
      /\ Head(calls).op = "start" /\ current' = np /\ wire' = wire /\ page' = page
      /\ aborted' = IF current = 0 THEN aborted ELSE aborted \cup {current}
      /\ players' = Append(players, x)
  BY <1>1 DEF PlayInv, HandleStart
<1>3. /\ calls' \in Seq(CallsToPlay) /\ calls[1].op = "start" /\ 1 \in DOMAIN calls
      /\ calls[1] \in CallsToPlay /\ Head(calls) = calls[1]
      /\ \A i \in DOMAIN calls' : i + 1 \in DOMAIN calls /\ i \in Nat /\ i # 0
                                  /\ calls'[i] = calls[i + 1]
      /\ \A i \in DOMAIN calls :
            i = 1 \/ (i - 1 \in DOMAIN calls' /\ calls[i] = calls'[i - 1])
  BY <1>2, CallIsTaken
<1>4. /\ players \in Seq(Players) /\ Len(players) \in Nat /\ DOMAIN players = 1..Len(players)
      /\ current \in 0..Len(players)
  BY <1>2, LenProperties DEF PlayTypes
<1>5. x \in Players /\ x.at = "reading" /\ x.sent = 0 /\ x.mine = calls[1].mine
  BY <1>1, <1>3, PlaybackAssumption DEF Players, CallsToPlay
<1>6. /\ players' \in Seq(Players) /\ Len(players') = np /\ DOMAIN players' = 1..np
      /\ \A q \in DOMAIN players : players'[q] = players[q]
      /\ players'[np] = x
  <2>1. /\ players' \in Seq(Players) /\ Len(players') = np
        /\ \A q \in 1..Len(players) : players'[q] = players[q]
        /\ players'[np] = x
    BY <1>1, <1>2, <1>4, <1>5, AppendProperties
  <2> QED
    BY <2>1, <1>4, LenProperties
<1>7. /\ np \in DOMAIN players' /\ np \notin DOMAIN players
      /\ \A q \in DOMAIN players : q \in DOMAIN players'
      /\ \A q \in DOMAIN players' : q \in DOMAIN players \/ q = np
  BY <1>1, <1>4, <1>6
<1>8. PlayTypes'
  <2>1. IsOpened(page) => IsOpened(page)'
    BY <1>2, <1>7 DEF IsOpened, PageFields
  <2>2. current' \in 0..Len(players')
    BY <1>1, <1>2, <1>4, <1>6
  <2> QED
    BY <1>2, <1>3, <1>6, <2>1, <2>2 DEF PlayTypes, Closed
<1>9. WireFits'
  <2>1. \A i \in DOMAIN wire : wire[i].of \in DOMAIN players
    BY <1>2 DEF WireFits
  <2>2. \A i \in DOMAIN wire :
          wire[i].of \in DOMAIN players' /\ players'[wire[i].of] = players[wire[i].of]
    BY <2>1, <1>6, <1>7
  <2>3. \A q \in DOMAIN players' :
          /\ players'[q].at = "reading" => players'[q].sent = 0
          /\ players'[q].at = "playing" => players'[q].sent < Length
    BY <1>2, <1>5, <1>6, <1>7 DEF WireFits
  <2> QED
    BY <1>2, <2>2, <2>3 DEF WireFits, Carries
<1>10. OneGoesOn'
  <2> SUFFICES ASSUME NEW q \in DOMAIN players' PROVE Over(q)' \/ q = current' \/ q \in aborted'
    BY DEF OneGoesOn
  <2>1. CASE q = np
    BY <2>1, <1>2
  <2>2. CASE q \in DOMAIN players
    <3>1. Over(q) \/ q = current \/ q \in aborted
      BY <2>2, <1>2 DEF OneGoesOn
    <3>2. q # 0
      BY <2>2, <1>4
    <3> QED
      BY <2>2, <3>1, <3>2, <1>2, <1>6 DEF Over
  <2> QED
    BY <2>1, <2>2, <1>7
<1>11. NobodyIsOwned => NobodyIsOwned'
  BY <1>3, <1>5, <1>6, <1>7 DEF NobodyIsOwned
<1>12. /\ \A i \in DOMAIN calls' : Asking(i)' => Asking(i + 1)
       /\ \A i \in DOMAIN calls : i # 1 /\ Asking(i) => i - 1 \in DOMAIN calls' /\ Asking(i - 1)'
       /\ \A q \in DOMAIN players : Reading(q)' <=> Reading(q)
       /\ Reading(np)' <=> Asking(1)
  BY <1>3, <1>5, <1>6, <1>7 DEF Asking, Reading
<1>13. \A i \in DOMAIN wire : wire'[i] = wire[i] /\ (IsAnswer(i)' <=> IsAnswer(i))
  <2>1. \A i \in DOMAIN wire : wire[i].of \in DOMAIN players
    BY <1>2 DEF WireFits
  <2> QED
    BY <2>1, <1>2, <1>6 DEF IsAnswer
<1>14. ASSUME OneStart PROVE OneStart'
  <2>1. Starting' <=> Starting
    <3>1. Starting => Starting'
      <4>1. CASE \E i \in DOMAIN calls : Asking(i)
        BY <4>1, <1>7, <1>12 DEF Starting
      <4>2. CASE \E q \in DOMAIN players : Reading(q)
        BY <4>2, <1>7, <1>12 DEF Starting
      <4>3. CASE \E i \in DOMAIN wire : IsAnswer(i)
        BY <4>3, <1>2, <1>13 DEF Starting
      <4> QED
        BY <4>1, <4>2, <4>3 DEF Starting
    <3>2. Starting' => Starting
      <4>1. (\E i \in DOMAIN calls' : Asking(i)') => \E i \in DOMAIN calls : Asking(i)
        BY <1>3, <1>12
      <4>2. (\E q \in DOMAIN players' : Reading(q)') =>
              \/ \E q \in DOMAIN players : Reading(q)
              \/ \E i \in DOMAIN calls : Asking(i)
        BY <1>3, <1>7, <1>12
      <4>3. (\E i \in DOMAIN wire' : IsAnswer(i)') => \E i \in DOMAIN wire : IsAnswer(i)
        BY <1>2, <1>13
      <4> QED
        BY <4>1, <4>2, <4>3 DEF Starting
    <3> QED
      BY <3>1, <3>2
  <2>2. \A i, j \in DOMAIN calls' : Asking(i)' /\ Asking(j)' => i = j
    <3> TAKE i \in DOMAIN calls', j \in DOMAIN calls'
    <3> HAVE Asking(i)' /\ Asking(j)'
    <3>1. i + 1 = j + 1
      BY <1>3, <1>12, <1>14 DEF OneStart
    <3> QED
      BY <3>1, <1>3
  <2>3. \A i \in DOMAIN calls' : ~(Asking(1) /\ Asking(i)')
    <3> TAKE i \in DOMAIN calls'
    <3>1. i + 1 # 1 /\ i + 1 \in DOMAIN calls
      BY <1>3
    <3> QED
      BY <3>1, <1>3, <1>12, <1>14 DEF OneStart
  <2>4. \A q, t \in DOMAIN players' : Reading(q)' /\ Reading(t)' => q = t
    BY <1>3, <1>7, <1>12, <1>14 DEF OneStart
  <2>5. \A i \in DOMAIN calls', q \in DOMAIN players' : ~(Asking(i)' /\ Reading(q)')
    <3> TAKE i \in DOMAIN calls', q \in DOMAIN players'
    <3>1. CASE q = np
      BY <3>1, <1>12, <2>3
    <3>2. CASE q \in DOMAIN players
      BY <3>2, <1>3, <1>12, <1>14 DEF OneStart
    <3> QED
      BY <3>1, <3>2, <1>7
  <2>6. \A i, j \in DOMAIN wire' : IsAnswer(i)' /\ IsAnswer(j)' => i = j
    BY <1>2, <1>13, <1>14 DEF OneStart
  <2>7. \A i \in DOMAIN calls', j \in DOMAIN wire' : ~(Asking(i)' /\ IsAnswer(j)')
    BY <1>2, <1>3, <1>12, <1>13, <1>14 DEF OneStart
  <2>8. \A q \in DOMAIN players', j \in DOMAIN wire' : ~(Reading(q)' /\ IsAnswer(j)')
    BY <1>2, <1>3, <1>7, <1>12, <1>13, <1>14 DEF OneStart
  <2>9. (page.starting <=> Starting)'
    BY <1>2, <1>14, <2>1 DEF OneStart
  <2> QED
    BY <2>2, <2>4, <2>5, <2>6, <2>7, <2>8, <2>9 DEF OneStart
<1>15. BlankBefore => BlankBefore'
  BY <1>2, <1>7 DEF BlankBefore
<1>16. ASSUME StatusFits, BlankBefore PROVE StatusFits'
  <2>1. \A q \in DOMAIN players : players'[q].at = players[q].at
    BY <1>6
  <2>2. \A q \in DOMAIN players : EndComes(q) => EndComes(q)'
    BY <1>2, <2>1 DEF EndComes, Carries
  <2>3. \A i \in DOMAIN wire : \A q \in DOMAIN players : EndCame(i, q) => EndCame(i, q)'
    BY <1>2, <2>1 DEF EndCame, Carries
  <2>4. \A i \in DOMAIN wire : wire[i].of \in DOMAIN players
    BY <1>2 DEF WireFits
  <2> QED
    BY <1>2, <1>13, <1>16, <2>2, <2>3, <2>4 DEF StatusFits, StatusIs, BlankBefore
<1>17. ASSUME page.open, NEW q \in DOMAIN players', Watched(q)', BlankBefore, OneStart,
              \A p \in DOMAIN players : Watched(p) => Unbroken(p)
       PROVE  Unbroken(q)'
  <2>1. CASE q \in DOMAIN players
    <3>1. Watched(q)
      BY <2>1, <1>2, <1>12, <1>13, <1>17 DEF Watched
    <3>2. Unbroken(q)
      BY <2>1, <3>1, <1>17
    <3> QED
      BY <2>1, <3>2, <1>2, <1>6 DEF Unbroken, Got, EarlyOf, Carries
  <2>2. CASE q = np
    <3>1. \A i \in DOMAIN wire : wire[i].of # q
      BY <2>2, <1>2, <1>7 DEF WireFits
    <3>2. page.view.of # q
      BY <2>2, <1>4, <1>1, <1>7, <1>17 DEF BlankBefore
    <3>3. Reading(q)'
      BY <3>1, <3>2, <1>2, <1>17 DEF Watched
    <3>4. page.starting
      BY <2>2, <3>3, <1>3, <1>12, <1>17 DEF OneStart, Starting
    <3>5. q \notin DOMAIN page.early
      BY <2>2, <1>2, <1>7, <1>17, PageIs DEF IsOpened
    <3>6. Got(q)' = <<>>
      BY <3>4, <3>5, <1>2 DEF Got, EarlyOf
    <3>7. players'[q].sent = 0 /\ Len(<<>>) = 0
      BY <2>2, <1>5, <1>6
    <3> QED
      BY <3>1, <3>6, <3>7, <1>2 DEF Unbroken, Carries
  <2> QED
    BY <2>1, <2>2, <1>7
<1> QED
  BY <1>2, <1>8, <1>9, <1>10, <1>11, <1>14, <1>15, <1>16, <1>17 DEF PlayInv, PageFits

-----------------------------------------------------------------------------
(* The page is opened, asks for a start or a stop, and is left. *)

LEMMA OpenHolds ==
  ASSUME PlayInv, OpenPage
  PROVE  PlayInv'
<1>1. /\ PlayTypes /\ WireFits /\ OneGoesOn /\ ~page.open /\ page' = Opened
      /\ calls' = calls /\ current' = current /\ aborted' = aborted
      /\ players' = players /\ wire' = wire
  BY DEF PlayInv, OpenPage
<1>2. NobodyIsOwned
  BY <1>1 DEF PlayInv
<1>3. /\ page'.open /\ page'.starting = FALSE /\ page'.view.of = 0 /\ page'.blocks = <<>>
      /\ page'.view.blocks = <<>> /\ page'.status.state = "none"
  BY <1>1 DEF Opened, ReplayView
<1>4. PlayTypes'
  <2>1. IsOpened(Opened)'
    BY EmptySeq DEF IsOpened, Opened, ReplayView, PageFields
  <2> QED
    BY <1>1, <2>1 DEF PlayTypes
<1>5. WireFits' /\ OneGoesOn'
  BY <1>1 DEF WireFits, Carries, OneGoesOn, Over
<1>6. /\ \A i \in DOMAIN calls' : ~Asking(i)'
      /\ \A p \in DOMAIN players' : ~Reading(p)'
      /\ \A i \in DOMAIN wire' : ~IsAnswer(i)'
  BY <1>1, <1>2 DEF NobodyIsOwned, Asking, Reading, IsAnswer, WireFits
<1>7. OneStart'
  BY <1>3, <1>6 DEF OneStart, Starting
<1>8. BlankBefore' /\ StatusFits'
  BY <1>3, <1>6 DEF BlankBefore, StatusFits, StatusIs
<1>9. \A p \in DOMAIN players' : ~Watched(p)'
  BY <1>1, <1>3, <1>6, PlayerIs DEF Watched
<1> QED
  BY <1>3, <1>4, <1>5, <1>7, <1>8, <1>9 DEF PlayInv, PageFits

LEMMA CallIsAdded ==
  ASSUME PlayTypes, NEW c \in CallsToPlay, calls' = Append(calls, c)
  PROVE  /\ calls' \in Seq(CallsToPlay)
         /\ \A i \in DOMAIN calls : i \in DOMAIN calls' /\ calls'[i] = calls[i]
         /\ \E last \in DOMAIN calls' :
              /\ last \notin DOMAIN calls /\ calls'[last] = c
              /\ \A i \in DOMAIN calls' : i \in DOMAIN calls \/ i = last
<1>1. calls \in Seq(CallsToPlay)
  BY DEF PlayTypes
<1>2. /\ calls' \in Seq(CallsToPlay) /\ Len(calls') = Len(calls) + 1
      /\ \A i \in 1..Len(calls) : calls'[i] = calls[i]
      /\ calls'[Len(calls) + 1] = c
  BY <1>1, AppendProperties
<1>3. /\ DOMAIN calls = 1..Len(calls) /\ DOMAIN calls' = 1..Len(calls') /\ Len(calls) \in Nat
  BY <1>1, <1>2, LenProperties
<1>4. /\ Len(calls) + 1 \in DOMAIN calls' /\ Len(calls) + 1 \notin DOMAIN calls
      /\ \A i \in DOMAIN calls' : i \in DOMAIN calls \/ i = Len(calls) + 1
  BY <1>2, <1>3
<1>5. \A i \in DOMAIN calls : i \in DOMAIN calls' /\ calls'[i] = calls[i]
  BY <1>2, <1>3
<1> QED
  BY <1>2, <1>4, <1>5

LEMMA PlayHolds ==
  ASSUME PlayInv, Play
  PROVE  PlayInv'
<1>1. PICK c : c = [op |-> "start", of |-> 0, mine |-> TRUE]
  OBVIOUS
<1>2. /\ PlayTypes /\ WireFits /\ OneGoesOn /\ page.open /\ calls' = Append(calls, c)
      /\ current' = current /\ aborted' = aborted /\ players' = players /\ wire' = wire
      /\ page' = [page EXCEPT !.starting = TRUE, !.early = <<>>, !.blocks = <<>>,
                              !.view = ReplayView(0), !.crowded = @ \/ page.starting]
      /\ ~StatusIs("playing")
  BY <1>1 DEF PlayInv, Play
<1>3. c \in CallsToPlay /\ c.op = "start" /\ c.mine
  BY <1>1 DEF CallsToPlay
<1>4. IsOpened(page)
  BY <1>2, PageIs
<1>5. /\ page'.open /\ page'.starting = TRUE /\ page'.early = <<>> /\ page'.blocks = <<>>
      /\ page'.view = ReplayView(0) /\ page'.status = page.status
      /\ page'.crowded = (page.crowded \/ page.starting)
  BY <1>2, <1>4 DEF IsOpened, PageFields
<1>6. calls' \in Seq(CallsToPlay)
  BY <1>2, <1>3, CallIsAdded
<1>7. PlayTypes'
  <2>1. ReplayView(0) \in [of : Nat, blocks : Seq(Nat)]
    BY EmptySeq DEF ReplayView
  <2>2. DOMAIN page' = PageFields
    BY <1>2, <1>4 DEF IsOpened
  <2>3. IsOpened(page)'
    BY <1>2, <1>4, <1>5, <2>1, <2>2, EmptySeq DEF IsOpened, PageFields
  <2> QED
    BY <1>2, <1>6, <2>3 DEF PlayTypes
<1>8. WireFits' /\ OneGoesOn'
  BY <1>2 DEF WireFits, Carries, OneGoesOn, Over
<1>9. ASSUME ~page'.crowded
      PROVE  /\ OneStart' /\ BlankBefore' /\ StatusFits'
             /\ \A p \in DOMAIN players' : ~Watched(p)'
  <2>1. ~page.starting /\ OneStart
    BY <1>2, <1>5, <1>9 DEF PlayInv, PageFits
  <2>2. /\ \A i \in DOMAIN calls : ~Asking(i)
        /\ \A p \in DOMAIN players : ~Reading(p)
        /\ \A i \in DOMAIN wire : ~IsAnswer(i)
    BY <2>1 DEF OneStart, Starting
  <2>3. /\ \A p \in DOMAIN players' : ~Reading(p)'
        /\ \A i \in DOMAIN wire' : ~IsAnswer(i)'
    BY <2>2, <1>2 DEF Reading, IsAnswer
  <2>4. PICK last \in DOMAIN calls' :
          /\ calls'[last] = c
          /\ \A i \in DOMAIN calls : calls'[i] = calls[i]
          /\ \A i \in DOMAIN calls' : i \in DOMAIN calls \/ i = last
    BY <1>2, <1>3, CallIsAdded
  <2>5. \A i \in DOMAIN calls' : Asking(i)' <=> i = last
    BY <2>2, <2>4, <1>3 DEF Asking
  <2>6. OneStart'
    BY <1>5, <2>3, <2>5 DEF OneStart, Starting
  <2>7. BlankBefore'
    BY <1>5 DEF BlankBefore, ReplayView
  <2>8. StatusFits'
    BY <1>2, <1>5, <2>3 DEF StatusFits, StatusIs
  <2>9. \A p \in DOMAIN players' : ~Watched(p)'
    BY <1>2, <1>5, <2>3, PlayerIs DEF Watched, ReplayView
  <2> QED
    BY <2>6, <2>7, <2>8, <2>9
<1> QED
  BY <1>5, <1>7, <1>8, <1>9 DEF PlayInv, PageFits

LEMMA AskToStopHolds ==
  ASSUME PlayInv, Stop
  PROVE  PlayInv'
<1>1. PICK of : of = IF page.view.of # 0 THEN page.view.of ELSE page.status.of
  OBVIOUS
<1>2. PICK c : c = [op |-> "stop", mine |-> TRUE, of |-> of]
  OBVIOUS
<1>3. /\ PlayTypes /\ WireFits /\ OneGoesOn /\ page.open /\ calls' = Append(calls, c)
      /\ current' = current /\ aborted' = aborted /\ players' = players
      /\ wire' = wire /\ page' = page
  BY <1>1, <1>2 DEF PlayInv, Stop, StatusIs
<1>4. c \in CallsToPlay /\ c.op = "stop"
  <2>1. page.view.of \in Nat /\ page.status.of \in Nat
    BY <1>3, PageIs DEF IsOpened
  <2> QED
    BY <1>1, <1>2, <2>1 DEF CallsToPlay
<1>5. PICK last \in DOMAIN calls' :
        /\ calls'[last] = c
        /\ \A i \in DOMAIN calls : i \in DOMAIN calls' /\ calls'[i] = calls[i]
        /\ \A i \in DOMAIN calls' : i \in DOMAIN calls \/ i = last
  BY <1>3, <1>4, CallIsAdded
<1>6. /\ \A i \in DOMAIN calls' : Asking(i)' => i \in DOMAIN calls /\ Asking(i)
      /\ \A i \in DOMAIN calls : Asking(i) => Asking(i)'
  BY <1>4, <1>5 DEF Asking
<1>7. calls' \in Seq(CallsToPlay)
  BY <1>3, <1>4, CallIsAdded
<1>8. PlayTypes'
  BY <1>3, <1>7 DEF PlayTypes, IsOpened, PageFields, Closed
<1>9. WireFits' /\ OneGoesOn'
  BY <1>3 DEF WireFits, Carries, OneGoesOn, Over
<1>10. OneStart => OneStart'
  <2> SUFFICES ASSUME OneStart PROVE OneStart'
    OBVIOUS
  <2>1. Starting' <=> Starting
    BY <1>3, <1>5, <1>6 DEF Starting, Reading, IsAnswer
  <2> QED
    BY <1>3, <1>6, <2>1 DEF OneStart, Reading, IsAnswer
<1>11. /\ BlankBefore => BlankBefore'
       /\ StatusFits => StatusFits'
       /\ \A p \in DOMAIN players : /\ Watched(p)' <=> Watched(p)
                                    /\ Unbroken(p) => Unbroken(p)'
  BY <1>3 DEF BlankBefore, StatusFits, StatusIs, EndComes, EndCame, IsAnswer, Carries,
              Watched, Reading, Unbroken, Got, EarlyOf
<1> QED
  BY <1>3, <1>8, <1>9, <1>10, <1>11 DEF PlayInv, PageFits

(* Nobody is left to get an answer. *)
LEMMA CloseHolds ==
  ASSUME PlayInv, ClosePage
  PROVE  PlayInv'
<1>1. PICK d, e :
        /\ d = [i \in DOMAIN calls |-> [calls[i] EXCEPT !.mine = FALSE]]
        /\ e = [op |-> "stop", of |-> page.status.of, mine |-> FALSE]
  OBVIOUS
<1>2. /\ PlayTypes /\ WireFits /\ OneGoesOn /\ page.open /\ page' = Closed
      /\ calls' = IF StatusIs("playing") THEN Append(d, e) ELSE d
      /\ players' = [p \in DOMAIN players |-> [players[p] EXCEPT !.mine = FALSE]]
      /\ current' = current /\ aborted' = aborted /\ wire' = wire
  BY <1>1 DEF PlayInv, ClosePage
<1>3. /\ calls \in Seq(CallsToPlay) /\ DOMAIN calls = 1..Len(calls) /\ Len(calls) \in Nat
      /\ \A i \in DOMAIN calls : calls[i] \in CallsToPlay
      /\ players \in Seq(Players) /\ DOMAIN players = 1..Len(players) /\ Len(players) \in Nat
      /\ \A p \in DOMAIN players : players[p] \in Players
  BY <1>2, LenProperties, ElementOfSeq DEF PlayTypes
<1>4. /\ d \in Seq(CallsToPlay) /\ DOMAIN d = 1..Len(calls) /\ Len(d) = Len(calls)
      /\ \A i \in 1..Len(d) : d[i].mine = FALSE
  <2>1. \A i \in 1..Len(calls) : [calls[i] EXCEPT !.mine = FALSE] \in CallsToPlay
    BY <1>3 DEF CallsToPlay
  <2>2. d \in [1..Len(calls) -> CallsToPlay]
    BY <1>1, <1>3, <2>1
  <2>3. d \in Seq(CallsToPlay) /\ Len(d) = Len(calls)
    BY <1>3, <2>2
  <2>4. \A i \in 1..Len(calls) : d[i].mine = FALSE
    BY <1>1, <1>3 DEF CallsToPlay
  <2> QED
    BY <2>2, <2>3, <2>4
<1>5. e \in CallsToPlay /\ ~e.mine
  BY <1>1, <1>2, PageIs DEF IsOpened, CallsToPlay
<1>6. calls' \in Seq(CallsToPlay) /\ \A i \in DOMAIN calls' : ~calls'[i].mine
  <2>1. CASE StatusIs("playing")
    <3>1. /\ calls' \in Seq(CallsToPlay) /\ Len(calls') = Len(d) + 1
          /\ \A i \in 1..Len(d) : calls'[i] = d[i]
          /\ calls'[Len(d) + 1] = e
      BY <1>2, <1>4, <1>5, <2>1, AppendProperties
    <3>2. DOMAIN calls' = 1..Len(calls') /\ Len(d) \in Nat
      BY <1>4, <3>1, LenProperties
    <3> QED
      BY <1>4, <1>5, <3>1, <3>2
  <2>2. CASE ~StatusIs("playing")
    BY <1>2, <1>4, <2>2
  <2> QED
    BY <2>1, <2>2
<1>7. /\ players' \in Seq(Players) /\ Len(players') = Len(players)
      /\ DOMAIN players' = DOMAIN players
      /\ \A p \in DOMAIN players : /\ players'[p].at = players[p].at
                                   /\ players'[p].sent = players[p].sent
                                   /\ ~players'[p].mine
  <2>1. \A p \in 1..Len(players) : [players[p] EXCEPT !.mine = FALSE] \in Players
    BY <1>3 DEF Players
  <2>2. players' \in [1..Len(players) -> Players]
    BY <1>2, <1>3, <2>1
  <2>3. players' \in Seq(Players) /\ Len(players') = Len(players)
    BY <1>3, <2>2
  <2> QED
    BY <1>2, <1>3, <2>2, <2>3 DEF Players
<1>8. PlayTypes'
  BY <1>2, <1>6, <1>7 DEF PlayTypes
<1>9. WireFits'
  BY <1>2, <1>7 DEF WireFits, Carries
<1>10. OneGoesOn'
  BY <1>2, <1>7 DEF OneGoesOn, Over
<1>11. NobodyIsOwned' /\ ~page'.open
  BY <1>2, <1>6, <1>7 DEF NobodyIsOwned, Closed
<1> QED
  BY <1>8, <1>9, <1>10, <1>11 DEF PlayInv

-----------------------------------------------------------------------------
(* The page gets the first message of the wire. *)

LEMMA MessageIsTaken ==
  ASSUME PlayTypes, wire # <<>>, wire' = Tail(wire)
  PROVE  /\ wire' \in Seq(Messages) /\ Head(wire) = wire[1] /\ 1 \in DOMAIN wire
         /\ wire[1] \in Messages
         /\ \A i \in DOMAIN wire' : i + 1 \in DOMAIN wire /\ i \in Nat /\ i # 0
                                    /\ wire'[i] = wire[i + 1]
         /\ \A i \in DOMAIN wire : i = 1 \/ (i - 1 \in DOMAIN wire' /\ wire[i] = wire'[i - 1])
         /\ \A i \in DOMAIN wire : i \in Nat /\ i >= 1
<1>1. wire \in Seq(Messages)
  BY DEF PlayTypes
<1>2. /\ wire' \in Seq(Messages) /\ Len(wire) \in Nat \ {0}
      /\ Len(wire') = Len(wire) - 1 /\ Head(wire) = wire[1] /\ 1 \in 1..Len(wire)
      /\ \A i \in 1..(Len(wire) - 1) : wire'[i] = wire[i + 1]
  BY <1>1, RestIs
<1>3. DOMAIN wire = 1..Len(wire) /\ DOMAIN wire' = 1..Len(wire')
  BY <1>1, <1>2, LenProperties
<1>4. wire[1] \in Messages
  BY <1>1, <1>2, ElementOfSeq
<1>5. \A i \in DOMAIN wire' : i + 1 \in DOMAIN wire /\ i \in Nat /\ i # 0
                               /\ wire'[i] = wire[i + 1]
  BY <1>2, <1>3
<1>6. ASSUME NEW i \in DOMAIN wire, i # 1
      PROVE  i - 1 \in DOMAIN wire' /\ wire[i] = wire'[i - 1]
  <2>1. i - 1 \in 1..(Len(wire) - 1) /\ (i - 1) + 1 = i
    BY <1>2, <1>3, <1>6
  <2> QED
    BY <2>1, <1>2, <1>3
<1>7. \A i \in DOMAIN wire : i \in Nat /\ i >= 1
  BY <1>3
<1> QED
  BY <1>2, <1>3, <1>4, <1>5, <1>6, <1>7

(* Of the page: the message m is the first, and only the page changes. *)
Takes(m) ==
  /\ PlayTypes /\ WireFits
  /\ wire # <<>> /\ wire' = Tail(wire) /\ m = wire[1] /\ m \in Messages
  /\ calls' = calls /\ players' = players

LEMMA TakenFits ==
  ASSUME NEW m, Takes(m)
  PROVE  WireFits'
<1>1. /\ \A i \in DOMAIN wire' : i + 1 \in DOMAIN wire /\ i \in Nat /\ wire'[i] = wire[i + 1]
      /\ players' = players
  BY MessageIsTaken DEF Takes
<1>2. \A i, j \in DOMAIN wire' :
        /\ i + 1 \in DOMAIN wire /\ j + 1 \in DOMAIN wire
        /\ i < j => i + 1 < j + 1
  BY <1>1
<1>3. WireFits
  BY DEF Takes
<1> QED
  BY <1>1, <1>2, <1>3 DEF WireFits, Carries

(* What is said of a playback on the wire, but for the first message. *)
LEMMA TakenCarries ==
  ASSUME NEW m, Takes(m), NEW kind, NEW p, ~(m.kind = kind /\ m.of = p)
  PROVE  /\ \A i \in DOMAIN wire : Carries(i, kind, p) =>
              \E k \in DOMAIN wire' : Carries(k, kind, p)' /\ wire'[k] = wire[i]
         /\ \A i \in DOMAIN wire' : Carries(i, kind, p)' =>
              \E k \in DOMAIN wire : Carries(k, kind, p) /\ wire'[i] = wire[k]
<1>1. /\ m = wire[1]
      /\ \A i \in DOMAIN wire' : i + 1 \in DOMAIN wire /\ i \in Nat /\ wire'[i] = wire[i + 1]
      /\ \A i \in DOMAIN wire : i = 1 \/ (i - 1 \in DOMAIN wire' /\ wire[i] = wire'[i - 1])
      /\ \A i \in DOMAIN wire : i \in Nat
  BY MessageIsTaken DEF Takes
<1>2. \A i \in DOMAIN wire : Carries(i, kind, p) =>
         \E k \in DOMAIN wire' : Carries(k, kind, p)' /\ wire'[k] = wire[i]
  <2> TAKE i \in DOMAIN wire
  <2> HAVE Carries(i, kind, p)
  <2>1. i # 1
    BY <1>1 DEF Carries
  <2> QED
    BY <2>1, <1>1 DEF Carries
<1>3. \A i \in DOMAIN wire' : Carries(i, kind, p)' =>
         \E k \in DOMAIN wire : Carries(k, kind, p) /\ wire'[i] = wire[k]
  BY <1>1 DEF Carries
<1> QED
  BY <1>2, <1>3

(* It is not an answer that the page waits for. *)
LEMMA StartGoesOn ==
  ASSUME NEW m, Takes(m), ~IsAnswer(1), OneStart, page'.starting = page.starting,
         page'.view.of = page.view.of
  PROVE  /\ OneStart'
         /\ \A p \in DOMAIN players : Watched(p)' <=> Watched(p)
<1>1. /\ \A i \in DOMAIN wire' : i + 1 \in DOMAIN wire /\ i \in Nat /\ wire'[i] = wire[i + 1]
      /\ \A i \in DOMAIN wire : i = 1 \/ (i - 1 \in DOMAIN wire' /\ wire[i] = wire'[i - 1])
      /\ players' = players /\ calls' = calls
  BY MessageIsTaken DEF Takes
<1>2. /\ \A i \in DOMAIN wire' : IsAnswer(i)' => IsAnswer(i + 1)
      /\ \A i \in DOMAIN wire : IsAnswer(i) => i - 1 \in DOMAIN wire' /\ IsAnswer(i - 1)'
  BY <1>1 DEF IsAnswer
<1>3. Starting' <=> Starting
  BY <1>1, <1>2 DEF Starting, Asking, Reading
<1>4. \A i, j \in DOMAIN wire' : IsAnswer(i)' /\ IsAnswer(j)' => i = j
  <2> TAKE i \in DOMAIN wire', j \in DOMAIN wire'
  <2> HAVE IsAnswer(i)' /\ IsAnswer(j)'
  <2>1. i + 1 = j + 1
    BY <1>1, <1>2 DEF OneStart
  <2> QED
    BY <2>1, <1>1
<1>5. OneStart'
  BY <1>1, <1>2, <1>3, <1>4 DEF OneStart, Asking, Reading
<1>6. \A p \in DOMAIN players : Watched(p)' <=> Watched(p)
  BY <1>1, <1>2 DEF Watched, Reading
<1> QED
  BY <1>5, <1>6

(* It is not an event of p: what the page has of p stays. *)
LEMMA RestIsUnbroken ==
  ASSUME NEW m, Takes(m), NEW p, ~(m.kind = "event" /\ m.of = p),
         Unbroken(p), Got(p)' = Got(p)
  PROVE  Unbroken(p)'
<1>1. /\ \A i \in DOMAIN wire : Carries(i, "event", p) =>
           \E k \in DOMAIN wire' : Carries(k, "event", p)' /\ wire'[k] = wire[i]
      /\ \A i \in DOMAIN wire' : Carries(i, "event", p)' =>
           \E k \in DOMAIN wire : Carries(k, "event", p) /\ wire'[i] = wire[k]
  BY TakenCarries
<1>2. players' = players
  BY DEF Takes
<1> QED
  BY <1>1, <1>2 DEF Unbroken

(* The first event of p on the wire is the next. *)
LEMMA NextIsGot ==
  ASSUME NEW m, Takes(m), m.kind = "event", NEW p, m.of = p, p \in DOMAIN players,
         Unbroken(p), Got(p) \in Seq(Nat), Got(p)' = Append(Got(p), m.seq)
  PROVE  Unbroken(p)'
<1>1. PICK g : g = Got(p)
  OBVIOUS
<1>2. PICK s : s = players[p].sent
  OBVIOUS
<1>3. /\ players' = players /\ WireFits /\ PlayTypes /\ 1 \in DOMAIN wire /\ m = wire[1]
      /\ \A i \in DOMAIN wire' : i + 1 \in DOMAIN wire /\ i \in Nat /\ i # 0 /\ wire'[i] = wire[i + 1]
      /\ \A i \in DOMAIN wire : i = 1 \/ (i - 1 \in DOMAIN wire' /\ wire[i] = wire'[i - 1])
      /\ \A i \in DOMAIN wire : i \in Nat /\ i >= 1
  BY MessageIsTaken DEF Takes
<1>4. g \in Seq(Nat) /\ Len(g) \in Nat /\ s \in Nat
  BY <1>1, <1>2, <1>3, LenProperties, PlayerIs
<1>5. /\ Len(g) <= s /\ \A i \in 1..Len(g) : g[i] = i
      /\ \A i \in DOMAIN wire : Carries(i, "event", p) => wire[i].seq > Len(g)
      /\ \A n \in (Len(g) + 1)..s : \E i \in DOMAIN wire : Carries(i, "event", p) /\ wire[i].seq = n
  BY <1>1, <1>2 DEF Unbroken
<1>6. m.seq \in 1..s /\ m.seq > Len(g) /\ Carries(1, "event", p)
  BY <1>2, <1>3, <1>5 DEF WireFits, Carries
<1>7. \A i \in DOMAIN wire : i # 1 /\ Carries(i, "event", p) => wire[i].seq > m.seq /\ wire[i].seq \in Nat
  <2> TAKE i \in DOMAIN wire
  <2> HAVE i # 1 /\ Carries(i, "event", p)
  <2>1. 1 < i
    BY <1>3
  <2>2. wire[1].seq < wire[i].seq /\ wire[i].seq \in 1..s
    BY <2>1, <1>2, <1>3 DEF WireFits, Carries
  <2> QED
    BY <2>2, <1>3, <1>4, <1>6
<1>8. m.seq = Len(g) + 1
  <2>1. Len(g) + 1 \in (Len(g) + 1)..s
    BY <1>4, <1>6
  <2>2. PICK i \in DOMAIN wire : Carries(i, "event", p) /\ wire[i].seq = Len(g) + 1
    BY <2>1, <1>5
  <2>3. CASE i = 1
    BY <2>2, <2>3, <1>3
  <2>4. CASE i # 1
    BY <2>2, <2>4, <1>4, <1>6, <1>7
  <2> QED
    BY <2>3, <2>4
<1>9. PICK h : h = Append(g, m.seq)
  OBVIOUS
<1>10. /\ Len(h) = Len(g) + 1 /\ \A i \in 1..Len(h) : h[i] = i
  <2>1. /\ Len(h) = Len(g) + 1 /\ \A i \in 1..Len(g) : h[i] = g[i]
        /\ h[Len(g) + 1] = m.seq
    BY <1>4, <1>6, <1>9, AppendProperties
  <2>2. \A i \in 1..Len(h) : h[i] = i
    <3> TAKE i \in 1..Len(h)
    <3>1. CASE i = Len(g) + 1
      BY <3>1, <2>1, <1>8
    <3>2. CASE i # Len(g) + 1
      <4>1. i \in 1..Len(g)
        BY <3>2, <2>1, <1>4
      <4> QED
        BY <4>1, <2>1, <1>5
    <3> QED
      BY <3>1, <3>2
  <2> QED
    BY <2>1, <2>2
<1>11. \A i \in DOMAIN wire' : Carries(i, "event", p)' => wire'[i].seq > Len(h)
  <2> TAKE i \in DOMAIN wire'
  <2> HAVE Carries(i, "event", p)'
  <2>1. i + 1 \in DOMAIN wire /\ i + 1 # 1 /\ wire'[i] = wire[i + 1]
    BY <1>3
  <2>2. Carries(i + 1, "event", p)
    BY <2>1 DEF Carries
  <2> QED
    BY <2>1, <2>2, <1>7, <1>8, <1>10
<1>12. \A n \in (Len(h) + 1)..s :
         \E i \in DOMAIN wire' : Carries(i, "event", p)' /\ wire'[i].seq = n
  <2> TAKE n \in (Len(h) + 1)..s
  <2>1. n \in (Len(g) + 1)..s /\ n # Len(g) + 1
    BY <1>4, <1>10
  <2>2. PICK i \in DOMAIN wire : Carries(i, "event", p) /\ wire[i].seq = n
    BY <2>1, <1>5
  <2>3. i # 1
    BY <2>1, <2>2, <1>3, <1>8
  <2>4. i - 1 \in DOMAIN wire' /\ wire[i] = wire'[i - 1]
    BY <2>3, <1>3
  <2> QED
    BY <2>2, <2>4 DEF Carries
<1>13. Len(h) <= s
  BY <1>4, <1>6, <1>8, <1>10
<1>14. Got(p)' = h /\ players'[p].sent = s
  BY <1>1, <1>2, <1>3, <1>9
<1> QED
  BY <1>10, <1>11, <1>12, <1>13, <1>14 DEF Unbroken

(* It does not say that p is over: the rest of the wire says it. *)
LEMMA EndStillComes ==
  ASSUME NEW m, Takes(m), NEW p, ~(m.kind = "status" /\ m.of = p), EndComes(p)
  PROVE  EndComes(p)'
<1>1. \A i \in DOMAIN wire : Carries(i, "status", p) =>
         \E k \in DOMAIN wire' : Carries(k, "status", p)'
  BY TakenCarries
<1>2. players' = players
  BY DEF Takes
<1> QED
  BY <1>1, <1>2 DEF EndComes

LEMMA EndStillCame ==
  ASSUME NEW m, Takes(m), ~IsAnswer(1), StatusFits,
         m.kind = "status" => page'.status.of = m.of,
         NEW i \in DOMAIN wire', IsAnswer(i)', wire'[i].state = "playing"
  PROVE  EndCame(i, wire[i].of)'
<1>1. /\ \A j \in DOMAIN wire' : j + 1 \in DOMAIN wire /\ j \in Nat /\ j # 0 /\ wire'[j] = wire[j + 1]
      /\ \A j \in DOMAIN wire : j = 1 \/ (j - 1 \in DOMAIN wire' /\ wire[j] = wire'[j - 1])
      /\ \A j \in DOMAIN wire : j \in Nat /\ j >= 1
      /\ players' = players /\ m = wire[1]
  BY MessageIsTaken DEF Takes
<1>2. PICK p : p = wire[i + 1].of
  OBVIOUS
<1>3. i + 1 \in DOMAIN wire /\ IsAnswer(i + 1) /\ wire[i + 1].state = "playing" /\ i \in Nat
  BY <1>1 DEF IsAnswer
<1>4. EndCame(i + 1, p)
  BY <1>2, <1>3 DEF StatusFits
<1>5. EndCame(i, p)'
  <2>1. CASE players[p].at = "playing"
    BY <2>1, <1>1 DEF EndCame
  <2>2. CASE \E j \in DOMAIN wire : j > i + 1 /\ Carries(j, "status", p)
    <3>1. PICK j \in DOMAIN wire : j > i + 1 /\ Carries(j, "status", p)
      BY <2>2
    <3>2. j - 1 \in DOMAIN wire' /\ wire[j] = wire'[j - 1] /\ j - 1 > i
      BY <3>1, <1>1, <1>3
    <3> QED
      BY <3>1, <3>2 DEF EndCame, Carries
  <2>3. CASE (i + 1) - 1 \in DOMAIN wire /\ Carries((i + 1) - 1, "status", p)
    <3>1. i \in DOMAIN wire /\ Carries(i, "status", p)
      BY <2>3, <1>3
    <3>2. CASE i = 1
      <4>1. page'.status.of = p
        BY <3>1, <3>2, <1>1 DEF Carries
      <4> QED
        BY <3>2, <4>1 DEF EndCame
    <3>3. CASE i # 1
      <4>1. i - 1 \in DOMAIN wire' /\ wire[i] = wire'[i - 1]
        BY <3>1, <3>3, <1>1
      <4> QED
        BY <3>1, <4>1 DEF EndCame, Carries
    <3> QED
      BY <3>2, <3>3
  <2>4. ~(i + 1 = 1)
    BY <1>1, <1>3
  <2> QED
    BY <1>4, <2>1, <2>2, <2>3, <2>4 DEF EndCame
<1> QED
  BY <1>1, <1>2, <1>5

LEMMA ReceiveTakes ==
  ASSUME PlayInv, Receive
  PROVE  \E m : /\ Takes(m) /\ m = Head(wire) /\ m.of \in DOMAIN players
                /\ 1 \in DOMAIN wire /\ players[m.of].at # "reading"
<1>1. /\ PlayTypes /\ WireFits /\ wire # <<>> /\ wire' = Tail(wire)
      /\ calls' = calls /\ players' = players
  BY DEF PlayInv, Receive
<1>2. Head(wire) = wire[1] /\ wire[1] \in Messages /\ 1 \in DOMAIN wire
  BY <1>1, MessageIsTaken
<1>3. Takes(wire[1])
  BY <1>1, <1>2 DEF Takes
<1>4. wire[1].of \in DOMAIN players /\ players[wire[1].of].at # "reading"
  BY <1>1, <1>2 DEF WireFits
<1> QED
  BY <1>2, <1>3, <1>4

(* What a message leaves of the page. *)
LEMMA PageStays ==
  ASSUME NEW m, Takes(m), page' = page
  PROVE  /\ \A p : Got(p)' = Got(p)
         /\ BlankBefore => BlankBefore'
         /\ IsOpened(page) => IsOpened(page)'
<1>1. players' = players
  BY DEF Takes
<1> QED
  BY <1>1 DEF Got, EarlyOf, BlankBefore, IsOpened, PageFields

(* A message that the page does not take, and that says nothing to it. *)
LEMMA Ignored ==
  ASSUME NEW m, Takes(m), PageFits, page' = page, ~IsAnswer(1),
         m.kind # "status",
         m.kind = "event" => ~page.starting /\ m.of # page.view.of
  PROVE  PageFits'
<1>1. players' = players
  BY DEF Takes
<1>2. OneStart' /\ \A p \in DOMAIN players : Watched(p)' <=> Watched(p)
  BY StartGoesOn DEF PageFits
<1>3. BlankBefore'
  BY PageStays DEF PageFits
<1>4. StatusFits'
  <2>1. StatusFits
    BY DEF PageFits
  <2>2. \A p : EndComes(p) => EndComes(p)'
    BY EndStillComes
  <2>3. \A i \in DOMAIN wire' :
          IsAnswer(i)' /\ wire'[i].state = "playing" => EndCame(i, wire[i].of)'
    BY <2>1, EndStillCame
  <2> QED
    BY <2>1, <2>2, <2>3 DEF StatusFits, StatusIs
<1>5. ASSUME NEW p \in DOMAIN players, Watched(p)
      PROVE  Unbroken(p)'
  <2>1. Unbroken(p) /\ Got(p)' = Got(p)
    BY <1>5, PageStays DEF PageFits
  <2>2. ~(m.kind = "event" /\ m.of = p)
    <3>1. page.starting \/ page.view.of = p
      BY <1>5 DEF PageFits, OneStart, Starting, Watched
    <3> QED
      BY <3>1
  <2> QED
    BY <2>1, <2>2, RestIsUnbroken
<1> QED
  BY <1>1, <1>2, <1>3, <1>4, <1>5 DEF PageFits

(* An event before the answer is kept. *)
LEMMA EventIsKept ==
  ASSUME NEW m, Takes(m), m.kind = "event", m.of \in DOMAIN players, 1 \in DOMAIN wire,
         page.open, page.starting, page' = [page EXCEPT !.early = KeptEarly(page, m)]
  PROVE  /\ IsOpened(page)'
         /\ PageFits => PageFits'
<1>1. /\ PlayTypes /\ players' = players /\ m \in Messages /\ m = wire[1]
  BY DEF Takes
<1>2. IsOpened(page) /\ \A p : EarlyOf(page, p) \in Seq(Nat)
  BY <1>1, PageIs
<1>3. /\ page'.early = KeptEarly(page, m)
      /\ page'.open = page.open /\ page'.starting = page.starting /\ page'.view = page.view
      /\ page'.status = page.status /\ page'.blocks = page.blocks /\ page'.crowded = page.crowded
      /\ DOMAIN page' = DOMAIN page
  BY <1>2 DEF IsOpened, PageFields
<1>4. /\ DOMAIN page'.early = DOMAIN page.early \cup {m.of}
      /\ page'.early[m.of] = Append(EarlyOf(page, m.of), m.seq)
      /\ \A p \in DOMAIN page.early : p # m.of => page'.early[p] = page.early[p]
  BY <1>3 DEF KeptEarly
<1>5. m.seq \in Nat
  BY <1>1 DEF Messages
<1>6. Append(EarlyOf(page, m.of), m.seq) \in Seq(Nat)
  BY <1>2, <1>5, AppendProperties
<1>7. IsOpened(page)'
  <2>1. /\ DOMAIN page.early \subseteq DOMAIN players
        /\ \A p \in DOMAIN page.early : page.early[p] \in Seq(Nat)
    BY <1>2 DEF IsOpened
  <2>2. DOMAIN page'.early \subseteq DOMAIN players'
    BY <2>1, <1>1, <1>4
  <2>3. \A p \in DOMAIN page'.early : page'.early[p] \in Seq(Nat)
    BY <2>1, <1>4, <1>6
  <2> QED
    BY <2>2, <2>3, <1>2, <1>3 DEF IsOpened, PageFields
<1>8. /\ Got(m.of)' = Append(Got(m.of), m.seq)
      /\ \A p : p # m.of => Got(p)' = Got(p)
  BY <1>3, <1>4 DEF Got, EarlyOf
<1>9. ASSUME PageFits PROVE PageFits'
  <2>1. ~IsAnswer(1)
    BY <1>1 DEF IsAnswer
  <2>2. OneStart' /\ \A p \in DOMAIN players : Watched(p)' <=> Watched(p)
    BY <1>3, <1>9, <2>1, StartGoesOn DEF PageFits
  <2>3. BlankBefore'
    BY <1>1, <1>3, <1>9 DEF PageFits, BlankBefore
  <2>4. StatusFits'
    <3>1. \A i \in DOMAIN wire' :
            IsAnswer(i)' /\ wire'[i].state = "playing" => EndCame(i, wire[i].of)'
      BY <1>9, <2>1, EndStillCame DEF PageFits
    <3>2. ~StatusIs("playing")'
      BY <1>3, <1>9 DEF PageFits, StatusFits, StatusIs
    <3> QED
      BY <3>1, <3>2 DEF StatusFits
  <2>5. ASSUME NEW p \in DOMAIN players, Watched(p)
        PROVE  Unbroken(p)'
    <3>1. Unbroken(p) /\ Got(p) \in Seq(Nat)
      BY <1>1, <1>9, <2>5, PageIs DEF PageFits
    <3>2. CASE p = m.of
      BY <3>1, <3>2, <1>8, NextIsGot
    <3>3. CASE p # m.of
      BY <3>1, <3>3, <1>8, RestIsUnbroken
    <3> QED
      BY <3>2, <3>3
  <2> QED
    BY <1>1, <2>2, <2>3, <2>4, <2>5 DEF PageFits
<1> QED
  BY <1>7, <1>9

(* One of the playback that is watched is shown. *)
LEMMA EventIsShown ==
  ASSUME NEW m, Takes(m), m.kind = "event", 1 \in DOMAIN wire,
         page.open, ~page.starting, m.of = page.view.of, page' = Applied(page, <<m.seq>>)
  PROVE  /\ IsOpened(page)'
         /\ PageFits => PageFits'
<1>1. /\ PlayTypes /\ players' = players /\ m \in Messages /\ m = wire[1]
  BY DEF Takes
<1>2. IsOpened(page) /\ page.view.blocks \in Seq(Nat) /\ m.seq \in Nat
  BY <1>1, PageIs DEF Messages
<1>3. PICK b : b = page.view.blocks \o <<m.seq>>
  OBVIOUS
<1>4. b = Append(page.view.blocks, m.seq) /\ b \in Seq(Nat)
  BY <1>2, <1>3, AppendIsConcat, AppendProperties
<1>5. page' = [page EXCEPT !.view = [of |-> page.view.of, blocks |-> b], !.blocks = b]
  <2>1. <<m.seq>> # <<>>
    OBVIOUS
  <2> QED
    BY <1>3, <2>1 DEF Applied
<1>6. /\ page'.view.of = page.view.of /\ page'.view.blocks = b /\ page'.blocks = b
      /\ page'.open = page.open /\ page'.starting = page.starting /\ page'.early = page.early
      /\ page'.status = page.status /\ page'.crowded = page.crowded
      /\ DOMAIN page' = DOMAIN page /\ page'.view = [of |-> page.view.of, blocks |-> b]
  <2>1. PICK x : x = [of |-> page.view.of, blocks |-> b]
    OBVIOUS
  <2>2. page' = [page EXCEPT !.view = x, !.blocks = b]
    BY <1>5, <2>1
  <2>3. /\ page'.view = x /\ page'.blocks = b
        /\ page'.open = page.open /\ page'.starting = page.starting /\ page'.early = page.early
        /\ page'.status = page.status /\ page'.crowded = page.crowded
        /\ DOMAIN page' = DOMAIN page
    BY <1>2, <2>2 DEF IsOpened, PageFields
  <2>4. x.of = page.view.of /\ x.blocks = b
    BY <2>1
  <2>5. page'.view.of = page.view.of /\ page'.view.blocks = b
    BY <2>3, <2>4
  <2>6. page'.view = [of |-> page.view.of, blocks |-> b]
    BY <2>1, <2>3
  <2> QED
    BY <2>3, <2>5, <2>6
<1>7. IsOpened(page)'
  <2>1. page.view.of \in Nat
    BY <1>2 DEF IsOpened
  <2>2. page'.view \in [of : Nat, blocks : Seq(Nat)]
    BY <2>1, <1>4, <1>6
  <2> QED
    BY <1>1, <1>2, <1>4, <1>6, <2>2 DEF IsOpened, PageFields
<1>8. Got(m.of)' = Append(Got(m.of), m.seq)
  BY <1>4, <1>6 DEF Got
<1>9. ASSUME PageFits PROVE PageFits'
  <2>1. ~IsAnswer(1)
    BY <1>1 DEF IsAnswer
  <2>2. OneStart' /\ \A p \in DOMAIN players : Watched(p)' <=> Watched(p)
    BY <1>6, <1>9, <2>1, StartGoesOn DEF PageFits
  <2>3. page.view.of # 0 /\ page.view.of \in DOMAIN players
    <3>1. m.of # 0
      BY <1>1 DEF Messages
    <3> QED
      BY <3>1, <1>9 DEF PageFits, BlankBefore
  <2>4. BlankBefore'
    BY <1>1, <1>6, <2>3 DEF BlankBefore
  <2>5. StatusFits'
    <3>1. \A i \in DOMAIN wire' :
            IsAnswer(i)' /\ wire'[i].state = "playing" => EndCame(i, wire[i].of)'
      BY <1>9, <2>1, EndStillCame DEF PageFits
    <3>2. EndComes(page.view.of) => EndComes(page.view.of)'
      <4>1. PICK v : v = page.view.of
        OBVIOUS
      <4>2. EndComes(v) => EndComes(v)'
        BY EndStillComes
      <4> QED
        BY <4>1, <4>2, <1>6
    <3>3. StatusFits
      BY <1>9 DEF PageFits
    <3> QED
      BY <1>6, <3>1, <3>2, <3>3 DEF StatusFits, StatusIs
  <2>6. ASSUME NEW p \in DOMAIN players, Watched(p)
        PROVE  Unbroken(p)'
    <3>1. p = m.of
      BY <1>9, <2>6 DEF PageFits, OneStart, Starting, Watched
    <3>2. Unbroken(p) /\ Got(p) \in Seq(Nat)
      BY <1>1, <1>9, <2>6, PageIs DEF PageFits
    <3> QED
      BY <3>1, <3>2, <1>8, NextIsGot
  <2> QED
    BY <1>1, <2>2, <2>4, <2>5, <2>6 DEF PageFits
<1> QED
  BY <1>7, <1>9

(* The end of the playback that is watched, or may be. *)
LEMMA StatusIsTaken ==
  ASSUME NEW m, Takes(m), m.kind = "status", 1 \in DOMAIN wire, page.open,
         page.starting \/ page.view.of = m.of,
         page' = [page EXCEPT !.status = [of |-> m.of, state |-> m.state]]
  PROVE  /\ IsOpened(page)'
         /\ PageFits => PageFits'
<1>1. /\ PlayTypes /\ WireFits /\ players' = players /\ m \in Messages /\ m = wire[1]
  BY DEF Takes
<1>2. IsOpened(page)
  BY <1>1, PageIs
<1>3. m.state \in {"done", "aborted"} /\ m.of \in Nat
  BY <1>1 DEF WireFits, Messages
<1>4. PICK x : x = [of |-> m.of, state |-> m.state]
  OBVIOUS
<1>5. x.of = m.of /\ x.state = m.state /\ x \in [of : Nat, state : {"none", "playing", "done", "aborted"}]
  BY <1>3, <1>4
<1>6. /\ page'.status = x
      /\ page'.open = page.open /\ page'.starting = page.starting /\ page'.early = page.early
      /\ page'.view = page.view /\ page'.blocks = page.blocks /\ page'.crowded = page.crowded
      /\ DOMAIN page' = DOMAIN page
  <2>1. page' = [page EXCEPT !.status = x]
    BY <1>4
  <2> QED
    BY <1>2, <2>1 DEF IsOpened, PageFields
<1>7. IsOpened(page)'
  BY <1>1, <1>2, <1>5, <1>6 DEF IsOpened, PageFields
<1>8. ASSUME PageFits PROVE PageFits'
  <2>1. ~IsAnswer(1)
    BY <1>1 DEF IsAnswer
  <2>2. OneStart' /\ \A p \in DOMAIN players : Watched(p)' <=> Watched(p)
    BY <1>6, <1>8, <2>1, StartGoesOn DEF PageFits
  <2>3. BlankBefore'
    BY <1>1, <1>6, <1>8 DEF PageFits, BlankBefore
  <2>4. StatusFits'
    <3>1. page'.status.of = m.of
      BY <1>5, <1>6
    <3>2. \A i \in DOMAIN wire' :
            IsAnswer(i)' /\ wire'[i].state = "playing" => EndCame(i, wire[i].of)'
      BY <1>8, <2>1, <3>1, EndStillCame DEF PageFits
    <3>3. ~StatusIs("playing")'
      BY <1>3, <1>5, <1>6 DEF StatusIs
    <3> QED
      BY <3>2, <3>3 DEF StatusFits
  <2>5. \A p : Got(p)' = Got(p)
    BY <1>6 DEF Got, EarlyOf
  <2>6. ASSUME NEW p \in DOMAIN players, Watched(p)
        PROVE  Unbroken(p)'
    BY <1>8, <2>5, <2>6, RestIsUnbroken DEF PageFits
  <2> QED
    BY <1>1, <2>2, <2>3, <2>4, <2>6 DEF PageFits
<1> QED
  BY <1>7, <1>8

(* Of another, when no start is under way. *)
LEMMA StatusIsIgnored ==
  ASSUME NEW m, Takes(m), m.kind = "status", 1 \in DOMAIN wire, page.open, PageFits,
         ~page.starting, page.view.of # m.of, page' = page
  PROVE  PageFits'
<1>1. players' = players /\ m = wire[1]
  BY DEF Takes
<1>2. ~IsAnswer(1)
  BY <1>1 DEF IsAnswer
<1>3. OneStart' /\ \A p \in DOMAIN players : Watched(p)' <=> Watched(p)
  BY <1>2, StartGoesOn DEF PageFits
<1>4. BlankBefore'
  BY PageStays DEF PageFits
<1>5. StatusFits'
  <2>1. \A i \in DOMAIN wire' : ~IsAnswer(i)'
    BY <1>3 DEF OneStart, Starting
  <2>2. EndComes(page.view.of) => EndComes(page.view.of)'
    <3>1. PICK v : v = page.view.of
      OBVIOUS
    <3>2. EndComes(v) => EndComes(v)'
      BY <3>1, EndStillComes
    <3> QED
      BY <3>1, <3>2
  <2> QED
    BY <2>1, <2>2 DEF PageFits, StatusFits, StatusIs
<1>6. ASSUME NEW p \in DOMAIN players, Watched(p)
      PROVE  Unbroken(p)'
  BY <1>6, PageStays, RestIsUnbroken DEF PageFits
<1> QED
  BY <1>1, <1>3, <1>4, <1>5, <1>6 DEF PageFits

(* The answer that the page waited for; nothing is under way then. *)
LEMMA StartIsOver ==
  ASSUME NEW m, Takes(m), IsAnswer(1), 1 \in DOMAIN wire, OneStart
  PROVE  /\ ~Starting' /\ page.starting
         /\ \A i \in DOMAIN wire' : ~IsAnswer(i)'
         /\ \A p \in DOMAIN players : ~Reading(p)'
<1>1. /\ \A i \in DOMAIN wire' : i + 1 \in DOMAIN wire /\ i \in Nat /\ i # 0 /\ wire'[i] = wire[i + 1]
      /\ players' = players /\ calls' = calls
  BY MessageIsTaken DEF Takes
<1>2. \A i \in DOMAIN wire' : ~IsAnswer(i)'
  <2> TAKE i \in DOMAIN wire'
  <2>1. i + 1 \in DOMAIN wire /\ i + 1 # 1
    BY <1>1
  <2>2. ~IsAnswer(i + 1)
    BY <2>1 DEF OneStart
  <2> QED
    BY <2>1, <2>2, <1>1 DEF IsAnswer
<1>3. \A p \in DOMAIN players : ~Reading(p)
  BY DEF OneStart
<1>4. \A i \in DOMAIN calls : ~Asking(i)
  BY DEF OneStart
<1>5. \A p \in DOMAIN players : ~Reading(p)'
  BY <1>1, <1>3 DEF Reading
<1>6. \A i \in DOMAIN calls' : ~Asking(i)'
  BY <1>1, <1>4 DEF Asking
<1>7. ~Starting'
  BY <1>1, <1>2, <1>5, <1>6 DEF Starting
<1>8. page.starting
  BY DEF OneStart, Starting
<1> QED
  BY <1>2, <1>5, <1>7, <1>8

LEMMA NothingStarts ==
  ASSUME ~Starting', ~page'.starting
  PROVE  OneStart'
BY DEF OneStart, Starting

LEMMA FailureIsTaken ==
  ASSUME NEW m, Takes(m), m.kind = "reply", m.of \in DOMAIN players, 1 \in DOMAIN wire,
         page.open, players[m.of].mine, page' = [page EXCEPT !.starting = FALSE, !.early = <<>>]
  PROVE  /\ IsOpened(page)'
         /\ PageFits => PageFits'
<1>1. /\ PlayTypes /\ players' = players /\ m = wire[1]
  BY DEF Takes
<1>2. IsOpened(page)
  BY <1>1, PageIs
<1>3. /\ page'.starting = FALSE /\ page'.early = <<>>
      /\ page'.status = page.status /\ page'.open = page.open
      /\ page'.view = page.view /\ page'.blocks = page.blocks /\ page'.crowded = page.crowded
      /\ DOMAIN page' = DOMAIN page
  BY <1>2 DEF IsOpened, PageFields
<1>4. IsOpened(page)'
  BY <1>1, <1>2, <1>3 DEF IsOpened, PageFields
<1>5. ASSUME PageFits PROVE PageFits'
  <2>1. IsAnswer(1)
    BY <1>1 DEF IsAnswer
  <2>2. /\ ~Starting' /\ page.starting
        /\ \A i \in DOMAIN wire' : ~IsAnswer(i)'
        /\ \A p \in DOMAIN players : ~Reading(p)'
    BY <1>5, <2>1, StartIsOver DEF PageFits
  <2>3. OneStart'
    BY <1>3, <2>2, NothingStarts
  <2>4. page.view.of = 0 /\ BlankBefore'
    BY <1>1, <1>3, <1>5, <2>2 DEF PageFits, BlankBefore
  <2>5. StatusFits'
    <3>1. ~StatusIs("playing")'
      BY <1>3, <1>5, <2>2 DEF PageFits, StatusFits, StatusIs
    <3> QED
      BY <2>2, <3>1 DEF StatusFits
  <2>6. \A p \in DOMAIN players : ~Watched(p)'
    BY <1>1, <1>3, <2>2, <2>4, PlayerIs DEF Watched
  <2> QED
    BY <1>1, <2>3, <2>4, <2>5, <2>6 DEF PageFits
<1> QED
  BY <1>4, <1>5

(* The page shows what it kept of the playback that it asked for. *)
LEMMA AnswerIsTaken ==
  ASSUME NEW m, Takes(m), m.kind = "reply", m.state = "playing", m.of \in DOMAIN players,
         players[m.of].at # "reading", 1 \in DOMAIN wire, page.open, players[m.of].mine,
         page' = Applied([page EXCEPT !.starting = FALSE, !.early = <<>>, !.view = ReplayView(m.of),
                                      !.status = StatusAfter(page.status, m.of)],
                         EarlyOf(page, m.of))
  PROVE  /\ IsOpened(page)'
         /\ PageFits => PageFits'
<1>1. /\ PlayTypes /\ players' = players /\ m = wire[1] /\ m \in Messages
  BY DEF Takes
<1>2. /\ IsOpened(page) /\ EarlyOf(page, m.of) \in Seq(Nat)
  BY <1>1, PageIs
<1>3. PICK k, e, st : /\ k = m.of /\ e = EarlyOf(page, m.of)
                      /\ st = StatusAfter(page.status, m.of)
  OBVIOUS
<1>4. k \in Nat \ {0} /\ e \in Seq(Nat)
  BY <1>1, <1>2, <1>3 DEF Messages
<1>5. /\ st \in [of : Nat, state : {"none", "playing", "done", "aborted"}] /\ st.of = k
      /\ st = page.status \/ page.status.of # k
  <2>1. page.status \in [of : Nat, state : {"none", "playing", "done", "aborted"}]
    BY <1>2 DEF IsOpened
  <2>2. CASE page.status.of = k
    BY <2>1, <2>2, <1>3 DEF StatusAfter
  <2>3. CASE page.status.of # k
    <3>1. st = [of |-> k, state |-> "playing"]
      BY <2>3, <1>3 DEF StatusAfter
    <3> QED
      BY <2>3, <3>1, <1>4
  <2> QED
    BY <2>2, <2>3
<1>6. PICK pg : pg = [page EXCEPT !.starting = FALSE, !.early = <<>>, !.view = ReplayView(k),
                                  !.status = st]
  OBVIOUS
<1>7. page' = Applied(pg, e)
  BY <1>3, <1>6
<1>8. /\ pg.starting = FALSE /\ pg.early = <<>> /\ pg.view = ReplayView(k) /\ pg.status = st
      /\ pg.open = page.open /\ pg.blocks = page.blocks /\ pg.crowded = page.crowded
      /\ DOMAIN pg = PageFields
  BY <1>2, <1>6 DEF IsOpened, PageFields
<1>9. pg.view.of = k /\ pg.view.blocks = <<>>
  BY <1>8 DEF ReplayView
<1>10. PICK b : b = IF e = <<>> THEN page.blocks ELSE e
  OBVIOUS
<1>11. /\ page'.starting = FALSE /\ page'.early = <<>> /\ page'.view = [of |-> k, blocks |-> e]
       /\ page'.status = st /\ page'.open = page.open /\ page'.blocks = b
       /\ page'.crowded = page.crowded /\ DOMAIN page' = PageFields
  <2>1. CASE e = <<>>
    BY <2>1, <1>7, <1>8, <1>10 DEF Applied, ReplayView
  <2>2. CASE e # <<>>
    <3>1. pg.view.blocks \o e = e
      BY <1>4, <1>9
    <3>2. PICK x : x = [of |-> k, blocks |-> e]
      OBVIOUS
    <3>3. page' = [pg EXCEPT !.view = x, !.blocks = e]
      BY <2>2, <3>1, <3>2, <1>7, <1>9 DEF Applied
    <3> QED
      BY <2>2, <3>2, <3>3, <1>8, <1>10 DEF PageFields
  <2> QED
    BY <2>1, <2>2
<1>12. page'.view.of = k /\ page'.view.blocks = e
  BY <1>11
<1>13. IsOpened(page)'
  <2>1. b \in Seq(Nat)
    BY <1>2, <1>4, <1>10 DEF IsOpened
  <2>2. page'.view \in [of : Nat, blocks : Seq(Nat)]
    BY <1>4, <1>11
  <2>3. page'.open = TRUE /\ page'.starting \in BOOLEAN /\ page'.crowded \in BOOLEAN
    BY <1>2, <1>11 DEF IsOpened
  <2>4. DOMAIN page'.early = {}
    BY <1>11
  <2>5. /\ page'.blocks \in Seq(Nat) /\ DOMAIN page' = PageFields
        /\ page'.status \in [of : Nat, state : {"none", "playing", "done", "aborted"}]
    BY <1>5, <1>11, <2>1
  <2> QED
    BY <2>2, <2>3, <2>4, <2>5 DEF IsOpened, PageFields
<1>14. ASSUME PageFits PROVE PageFits'
  <2>1. IsAnswer(1)
    BY <1>1 DEF IsAnswer
  <2>2. /\ ~Starting' /\ page.starting
        /\ \A i \in DOMAIN wire' : ~IsAnswer(i)'
        /\ \A p \in DOMAIN players : ~Reading(p)'
    BY <1>14, <2>1, StartIsOver DEF PageFits
  <2>3. OneStart'
    BY <1>11, <2>2, NothingStarts
  <2>4. page.blocks = <<>>
    BY <1>14, <2>2 DEF PageFits, BlankBefore
  <2>5. BlankBefore'
    BY <1>1, <1>3, <1>4, <1>10, <1>11, <1>12, <2>4 DEF BlankBefore
  <2>6. StatusFits'
    <3>1. ASSUME StatusIs("playing")'
          PROVE  EndComes(k)'
      <4>1. st # page.status
        BY <3>1, <1>11, <1>14, <2>2 DEF PageFits, StatusFits, StatusIs
      <4>2. page.status.of # k
        BY <4>1, <1>5
      <4>3. EndCame(1, k)
        BY <1>1, <1>3, <1>14, <2>1 DEF PageFits, StatusFits
      <4>4. 1 - 1 \notin DOMAIN wire
        BY <1>1, WireIs
      <4>5. EndComes(k)
        BY <4>2, <4>3, <4>4 DEF EndCame, EndComes
      <4> QED
        BY <4>5, EndStillComes
    <3>2. \A i \in DOMAIN wire' : ~IsAnswer(i)'
      BY <2>2
    <3>3. StatusIs("playing")' => EndComes(page.view.of)'
      BY <3>1, <1>12
    <3> QED
      BY <1>4, <1>5, <1>11, <1>12, <3>2, <3>3 DEF StatusFits
  <2>7. ASSUME NEW p \in DOMAIN players, Watched(p)'
        PROVE  Unbroken(p)'
    <3>1. p = k
      BY <1>12, <2>2, <2>7 DEF Watched
    <3>2. Watched(p)
      BY <1>1, <1>3, <2>1, <3>1 DEF Watched
    <3>3. Unbroken(p)
      BY <1>14, <3>2 DEF PageFits
    <3>4. Got(p)' = e
      BY <1>11, <1>12 DEF Got
    <3>5. Got(p) = e
      BY <1>3, <2>2, <3>1 DEF Got
    <3> QED
      BY <3>3, <3>4, <3>5, RestIsUnbroken
  <2> QED
    BY <1>1, <2>3, <2>5, <2>6, <2>7 DEF PageFits
<1> QED
  BY <1>13, <1>14

LEMMA ReceiveHolds ==
  ASSUME PlayInv, Receive
  PROVE  PlayInv'
<1>1. PICK m : /\ Takes(m) /\ m = Head(wire) /\ m.of \in DOMAIN players
               /\ 1 \in DOMAIN wire /\ players[m.of].at # "reading"
  BY ReceiveTakes
<1>2. /\ PlayTypes /\ WireFits /\ OneGoesOn
      /\ calls' = calls /\ current' = current /\ aborted' = aborted /\ players' = players
      /\ page' = IF page.open THEN Received(m) ELSE page
  BY <1>1 DEF PlayInv, Receive
<1>3. m = wire[1] /\ m \in Messages /\ wire' \in Seq(Messages)
  BY <1>1, MessageIsTaken DEF Takes
<1>4. /\ m.kind \in {"event", "status", "reply"}
      /\ m.kind = "reply" => m.state \in {"playing", "error"}
  BY <1>1, <1>2, <1>3 DEF Messages, WireFits
<1>5. CASE ~page.open
  <2>1. page' = page /\ page = Closed
    BY <1>2, <1>5 DEF PlayTypes, IsOpened
  <2>2. PlayTypes'
    BY <1>2, <1>3, <2>1 DEF PlayTypes
  <2>3. WireFits' /\ OneGoesOn' /\ NobodyIsOwned'
    BY <1>1, <1>2, <1>5, TakenFits DEF OneGoesOn, Over, PlayInv, NobodyIsOwned
  <2> QED
    BY <1>5, <2>1, <2>2, <2>3 DEF PlayInv
<1>6. CASE page.open
  <2>1. page' = Received(m) /\ IsOpened(page)
    BY <1>2, <1>6, PageIs
  <2>2. page.starting \in BOOLEAN
    BY <2>1 DEF IsOpened
  <2>3. /\ IsOpened(page)'
        /\ PageFits => PageFits'
    <3>1. CASE m.kind = "event" /\ page.starting
      <4>1. page' = [page EXCEPT !.early = KeptEarly(page, m)]
        BY <2>1, <3>1 DEF Received
      <4> QED
        BY <1>1, <1>6, <3>1, <4>1, EventIsKept
    <3>2. CASE m.kind = "event" /\ ~page.starting /\ m.of = page.view.of
      <4>1. page' = Applied(page, <<m.seq>>)
        BY <2>1, <3>2 DEF Received
      <4> QED
        BY <1>1, <1>6, <3>2, <4>1, EventIsShown
    <3>3. CASE m.kind = "event" /\ ~page.starting /\ m.of # page.view.of
      <4>1. page' = page
        BY <2>1, <3>3 DEF Received
      <4>2. ~IsAnswer(1)
        BY <1>3, <3>3 DEF IsAnswer
      <4> QED
        BY <1>1, <2>1, <3>3, <4>1, <4>2, Ignored, PageStays
    <3>4. CASE m.kind = "status" /\ (page.starting \/ page.view.of = m.of)
      <4>1. page' = [page EXCEPT !.status = [of |-> m.of, state |-> m.state]]
        BY <2>1, <3>4 DEF Received
      <4> QED
        BY <1>1, <1>6, <3>4, <4>1, StatusIsTaken
    <3>5. CASE m.kind = "status" /\ ~(page.starting \/ page.view.of = m.of)
      <4>1. page' = page
        BY <2>1, <3>5 DEF Received
      <4> QED
        BY <1>1, <1>6, <2>1, <3>5, <4>1, StatusIsIgnored, PageStays
    <3>6. CASE m.kind = "reply" /\ ~players[m.of].mine
      <4>1. page' = page
        BY <2>1, <3>6 DEF Received
      <4>2. ~IsAnswer(1)
        BY <1>3, <3>6 DEF IsAnswer
      <4> QED
        BY <1>1, <2>1, <3>6, <4>1, <4>2, Ignored, PageStays
    <3>7. CASE m.kind = "reply" /\ players[m.of].mine /\ m.state = "error"
      <4>1. page' = [page EXCEPT !.starting = FALSE, !.early = <<>>]
        BY <2>1, <3>7 DEF Received
      <4> QED
        BY <1>1, <1>6, <3>7, <4>1, FailureIsTaken
    <3>8. CASE m.kind = "reply" /\ players[m.of].mine /\ m.state # "error"
      <4>1. m.state = "playing"
        BY <1>4, <3>8
      <4>2. page' = Applied([page EXCEPT !.starting = FALSE, !.early = <<>>, !.view = ReplayView(m.of),
                                         !.status = StatusAfter(page.status, m.of)],
                            EarlyOf(page, m.of))
        BY <2>1, <3>8 DEF Received
      <4> QED
        BY <1>1, <1>6, <3>8, <4>1, <4>2, AnswerIsTaken
    <3> QED
      BY <1>4, <3>1, <3>2, <3>3, <3>4, <3>5, <3>6, <3>7, <3>8
  <2>4. PlayTypes'
    BY <1>2, <1>3, <2>3 DEF PlayTypes
  <2>5. WireFits' /\ OneGoesOn'
    BY <1>1, <1>2, TakenFits DEF OneGoesOn, Over
  <2>6. page'.open
    BY <2>3 DEF IsOpened
  <2>7. page'.crowded = page.crowded
    BY <2>1 DEF Received, Applied, IsOpened, PageFields
  <2> QED
    BY <1>6, <2>3, <2>4, <2>5, <2>6, <2>7 DEF PlayInv
<1> QED
  BY <1>5, <1>6

LEMMA PlayStarts == InitPlayback => PlayInv
<1> SUFFICES ASSUME InitPlayback PROVE PlayInv
  OBVIOUS
<1>1. /\ calls = <<>> /\ current = 0 /\ aborted = {} /\ players = <<>> /\ wire = <<>>
      /\ page = Closed /\ ~page.open
  BY DEF InitPlayback, Closed
<1>2. DOMAIN calls = {} /\ DOMAIN players = {} /\ DOMAIN wire = {} /\ Len(players) = 0
  BY <1>1
<1>3. PlayTypes
  BY <1>1, <1>2, EmptySeq DEF PlayTypes
<1>4. WireFits /\ OneGoesOn /\ NobodyIsOwned
  BY <1>2 DEF WireFits, OneGoesOn, NobodyIsOwned
<1> QED
  BY <1>1, <1>3, <1>4 DEF PlayInv

LEMMA PlayStays == PlayInv /\ UNCHANGED playVars => PlayInv'
<1> SUFFICES ASSUME PlayInv, UNCHANGED playVars PROVE PlayInv'
  OBVIOUS
<1>1. /\ calls' = calls /\ current' = current /\ aborted' = aborted /\ players' = players
      /\ wire' = wire /\ page' = page
  BY DEF playVars
<1>2. PlayTypes' /\ WireFits' /\ OneGoesOn'
  BY <1>1 DEF PlayInv, PlayTypes, IsOpened, PageFields, Closed, WireFits, Carries, OneGoesOn, Over
<1>3. NobodyIsOwned => NobodyIsOwned'
  BY <1>1 DEF NobodyIsOwned
<1>4. OneStart => OneStart'
  BY <1>1 DEF OneStart, Starting, Asking, Reading, IsAnswer
<1>5. /\ BlankBefore => BlankBefore'
      /\ StatusFits => StatusFits'
  BY <1>1 DEF BlankBefore, StatusFits, StatusIs, EndComes, EndCame, IsAnswer, Carries
<1>6. \A p \in DOMAIN players : /\ Watched(p)' <=> Watched(p)
                                /\ Unbroken(p) => Unbroken(p)'
  BY <1>1 DEF Watched, Reading, IsAnswer, Unbroken, Got, EarlyOf, Carries
<1> QED
  BY <1>1, <1>2, <1>3, <1>4, <1>5, <1>6 DEF PlayInv, PageFits

LEMMA PlayIsWhole == PlayInv => PlaybackIsWhole
<1> SUFFICES ASSUME PlayInv PROVE PlaybackIsWhole
  OBVIOUS
<1>1. PlayTypes /\ OneGoesOn
  BY DEF PlayInv
<1>2. ASSUME page.open, ~page.crowded
      PROVE  /\ page.blocks = page.view.blocks
             /\ \A i \in DOMAIN page.blocks : page.blocks[i] = i
             /\ calls = <<>> /\ wire = <<>> /\ (\A p \in DOMAIN players : Over(p)) =>
                  ~StatusIs("playing")
  <2>1. PageFits
    BY <1>2 DEF PlayInv
  <2>2. page.blocks = page.view.blocks /\ page.blocks \in Seq(Nat)
    BY <1>1, <1>2, <2>1, PageIs DEF PageFits, BlankBefore
  <2>3. \A i \in DOMAIN page.blocks : page.blocks[i] = i
    <3>1. CASE page.view.of = 0
      <4>1. page.blocks = <<>>
        BY <2>1, <3>1 DEF PageFits, BlankBefore
      <4> QED
        BY <4>1
    <3>2. CASE page.view.of # 0
      <4>1. PICK p : p = page.view.of
        OBVIOUS
      <4>2. p \in DOMAIN players /\ ~page.starting /\ Watched(p)
        BY <2>1, <3>2, <4>1 DEF PageFits, BlankBefore, Watched
      <4>3. Unbroken(p) /\ Got(p) = page.blocks
        BY <2>1, <2>2, <4>2 DEF PageFits, Got
      <4>4. \A i \in 1..Len(page.blocks) : page.blocks[i] = i
        BY <4>3 DEF Unbroken
      <4>5. DOMAIN page.blocks = 1..Len(page.blocks)
        BY <2>2, LenProperties
      <4> QED
        BY <4>4, <4>5
    <3> QED
      BY <3>1, <3>2
  <2>4. ASSUME wire = <<>>, \A p \in DOMAIN players : Over(p), StatusIs("playing")
        PROVE  FALSE
    <3>1. PICK p : p = page.view.of
      OBVIOUS
    <3>2. p # 0 /\ EndComes(p)
      BY <2>1, <2>4, <3>1 DEF PageFits, StatusFits
    <3>3. p \in DOMAIN players
      BY <2>1, <3>1, <3>2 DEF PageFits, BlankBefore
    <3>4. players[p].at # "playing"
      BY <2>4, <3>3 DEF Over
    <3>5. DOMAIN wire = {}
      BY <2>4
    <3> QED
      BY <3>2, <3>4, <3>5 DEF EndComes
  <2> QED
    BY <2>2, <2>3, <2>4
<1> QED
  BY <1>1, <1>2 DEF PlaybackIsWhole

LEMMA PlayHoldsOn == PlayInv /\ PlaybackNext => PlayInv'
BY OpenHolds, PlayHolds, AskToStopHolds, CloseHolds, HandleStartHolds, HandleStopHolds, ReceiveHolds,
   PlayersHold DEF PlaybackNext

LEMMA PlayInit == Init => PlayInv
BY PlayStarts DEF Init

LEMMA PlayHold == PlayInv /\ [Next]_vars => PlayInv'
BY Parts, PlayHoldsOn, PlayStays

(* What the page of recorded runs shows is a beginning of the playback     *)
(* that it watches, without a gap; of several playbacks at most one goes   *)
(* on; and the page does not say that something plays when all is over and *)
(* said.                                                                   *)
THEOREM PlaybacksAreWhole == Spec => []PlaybackIsWhole
<1> QED
  BY PlayIsWhole, PlayInit, PlayHold, PTL DEF Spec
LEMMA LeastOf ==
  ASSUME NEW T, T \subseteq Nat, T # {}
  PROVE  \E m \in T : \A n \in T : m <= n
<1> DEFINE R == OpToRel(<, Nat)
<1>1. IsWellFoundedOn(R, Nat)
  BY NatLessThanWellFounded
<1>2. R = {ss \in Nat \X Nat : ss[1] < ss[2]}
  BY DEF OpToRel, R
<1> HIDE DEF R
<1>3. PICK x \in T : \A y \in T : ~(<<y, x>> \in R)
  BY <1>1, WFMin
<1>4. ASSUME NEW y \in T PROVE x <= y
  <2>1. x \in Nat /\ y \in Nat /\ <<y, x>> \in Nat \X Nat
    OBVIOUS
  <2>2. ~(<<y, x>>[1] < <<y, x>>[2])
    BY <2>1, <1>3, <1>2
  <2> QED
    BY <2>1, <2>2
<1> QED
  BY <1>4

LEMMA NatInd ==
  ASSUME NEW S, 0 \in S, \A n \in Nat : n \in S => n + 1 \in S
  PROVE  Nat \subseteq S
<1> DEFINE T == Nat \ S
<1> SUFFICES ASSUME T # {} PROVE FALSE
  OBVIOUS
<1>1. PICK m \in T : \A n \in T : m <= n
  BY LeastOf
<1>2. m \in Nat \ {0} /\ m - 1 \in Nat
  BY <1>1
<1>3. m - 1 \in S
  BY <1>1, <1>2
<1>4. (m - 1) + 1 = m
  BY <1>2
<1> QED
  BY <1>2, <1>3, <1>4


(* The recursive sum of which BagCardinality is made, over the sets D.     *)
Sums(f, g, D) ==
  g = [S \in D |-> LET elt == CHOOSE e \in S : TRUE
                   IN  IF S = {} THEN 0 ELSE f[elt] + g[S \ {elt}]]

UpToSize(D, n) == {S \in SUBSET D : IsFiniteSet(S) /\ Cardinality(S) <= n}

LEMMA SumsExist ==
  ASSUME NEW f, NEW D, IsFiniteSet(D)
  PROVE  \E g : Sums(f, g, SUBSET D)
<1> DEFINE N == {n \in Nat : \E g : Sums(f, g, UpToSize(D, n))}
<1>1. 0 \in N
  <2> DEFINE g == [S \in UpToSize(D, 0) |-> 0]
  <2>1. \A S \in UpToSize(D, 0) : S = {}
    <3> SUFFICES ASSUME NEW S \in UpToSize(D, 0) PROVE S = {}
      OBVIOUS
    <3>1. IsFiniteSet(S) /\ Cardinality(S) <= 0
      BY DEF UpToSize
    <3>2. Cardinality(S) \in Nat
      BY <3>1, FS_CardinalityType
    <3> QED
      BY <3>1, <3>2, FS_EmptySet
  <2>2. Sums(f, g, UpToSize(D, 0))
    BY <2>1 DEF Sums
  <2> QED
    BY <2>2
<1>2. ASSUME NEW n \in Nat, n \in N PROVE n + 1 \in N
  <2>1. PICK g : Sums(f, g, UpToSize(D, n))
    BY <1>2
  <2> DEFINE Elt(S) == CHOOSE e \in S : TRUE
  <2> DEFINE h == [S \in UpToSize(D, n + 1) |->
                     IF S = {} THEN 0 ELSE f[Elt(S)] + g[S \ {Elt(S)}]]
  <2>2. \A S \in UpToSize(D, n + 1) : S # {} => S \ {Elt(S)} \in UpToSize(D, n)
    <3> SUFFICES ASSUME NEW S \in UpToSize(D, n + 1), S # {}
                 PROVE  S \ {Elt(S)} \in UpToSize(D, n)
      OBVIOUS
    <3>1. IsFiniteSet(S) /\ Cardinality(S) <= n + 1 /\ S \subseteq D
      BY DEF UpToSize
    <3>2. PICK e : e = Elt(S)
      OBVIOUS
    <3>3. e \in S
      BY <3>2
    <3>4. IsFiniteSet(S \ {e}) /\ Cardinality(S \ {e}) = Cardinality(S) - 1
      BY <3>1, <3>3, FS_RemoveElement
    <3>5. Cardinality(S) \in Nat
      BY <3>1, FS_CardinalityType
    <3>6. Cardinality(S \ {e}) <= n
      BY <3>1, <3>4, <3>5
    <3> QED
      BY <3>1, <3>2, <3>4, <3>6 DEF UpToSize
  <2>3. \A S \in UpToSize(D, n) : S \in UpToSize(D, n + 1)
    <3> SUFFICES ASSUME NEW S \in UpToSize(D, n) PROVE Cardinality(S) <= n + 1
      BY DEF UpToSize
    <3>1. IsFiniteSet(S) /\ Cardinality(S) <= n
      BY DEF UpToSize
    <3>2. Cardinality(S) \in Nat
      BY <3>1, FS_CardinalityType
    <3> QED
      BY <3>1, <3>2
  <2>4. \A S \in UpToSize(D, n) : h[S] = g[S]
    <3> SUFFICES ASSUME NEW S \in UpToSize(D, n) PROVE h[S] = g[S]
      OBVIOUS
    <3>1. g[S] = IF S = {} THEN 0 ELSE f[Elt(S)] + g[S \ {Elt(S)}]
      BY <2>1, Zenon DEF Sums
    <3>2. S \in UpToSize(D, n + 1)
      BY <2>3
    <3>3. h[S] = IF S = {} THEN 0 ELSE f[Elt(S)] + g[S \ {Elt(S)}]
      BY <3>2, Zenon DEF h
    <3> QED
      BY <3>1, <3>3
  <2>5. h = [S \in UpToSize(D, n + 1) |->
               IF S = {} THEN 0 ELSE f[Elt(S)] + h[S \ {Elt(S)}]]
    <3>1. \A S \in UpToSize(D, n + 1) :
            (IF S = {} THEN 0 ELSE f[Elt(S)] + g[S \ {Elt(S)}])
              = IF S = {} THEN 0 ELSE f[Elt(S)] + h[S \ {Elt(S)}]
      <4> HIDE DEF h, Elt
      <4> QED
        BY <2>2, <2>4
    <3>2. h = [S \in UpToSize(D, n + 1) |->
                 IF S = {} THEN 0 ELSE f[Elt(S)] + g[S \ {Elt(S)}]]
      BY DEF h
    <3> HIDE DEF h, Elt
    <3> QED
      BY <3>1, <3>2
  <2>6. Sums(f, h, UpToSize(D, n + 1))
    BY <2>5, Zenon DEF Sums
  <2> HIDE DEF h
  <2> QED
    BY <2>6
<1> HIDE DEF N
<1>3. Nat \subseteq N
  BY <1>1, <1>2, NatInd
<1>4. PICK n \in Nat : n = Cardinality(D)
  BY FS_CardinalityType
<1>5. PICK g : Sums(f, g, UpToSize(D, n))
  BY <1>3 DEF N
<1>6. \A S \in SUBSET D : S \in UpToSize(D, n)
  BY <1>4, FS_Subset DEF UpToSize
<1>7. UpToSize(D, n) = SUBSET D
  BY <1>6 DEF UpToSize
<1> QED
  BY <1>5, <1>7

SumOf(f, g) ==
  /\ IsFiniteSet(DOMAIN f) /\ f \in [DOMAIN f -> Nat]
  /\ Sums(f, g, SUBSET DOMAIN f)

(* BagCardinality is that sum over the whole bag.                          *)
LEMMA BagSum ==
  ASSUME NEW B, IsFiniteSet(DOMAIN B), B \in [DOMAIN B -> Nat]
  PROVE  \E g : SumOf(B, g) /\ BagCardinality(B) = g[DOMAIN B]
<1> DEFINE DSum == CHOOSE g : Sums(B, g, SUBSET DOMAIN B)
<1>1. Sums(B, DSum, SUBSET DOMAIN B)
  BY SumsExist
<1>2. BagCardinality(B) = DSum[DOMAIN B]
  BY DEF BagCardinality, Sums
<1> QED
  BY <1>1, <1>2 DEF SumOf

(* Whichever element is taken first.                                       *)
LEMMA SumTakes ==
  ASSUME NEW f, NEW g, SumOf(f, g)
  PROVE  /\ g[{}] = 0
         /\ \A S \in SUBSET DOMAIN f :
              g[S] \in Nat /\ \A x \in S : g[S] = f[x] + g[S \ {x}]
<1>0. PICK D : D = DOMAIN f
  OBVIOUS
<1>a. IsFiniteSet(D) /\ f \in [D -> Nat] /\ Sums(f, g, SUBSET D)
  BY <1>0 DEF SumOf
<1> DEFINE Elt(S) == CHOOSE e \in S : TRUE
           Holds(S) == g[S] \in Nat /\ \A x \in S : g[S] = f[x] + g[S \ {x}]
           N == {n \in Nat : \A S \in SUBSET D : Cardinality(S) <= n => Holds(S)}
<1>1. \A S \in SUBSET D : g[S] = IF S = {} THEN 0 ELSE f[Elt(S)] + g[S \ {Elt(S)}]
  BY <1>a, Zenon DEF Sums
<1>2. g[{}] = 0
  BY <1>1
<1>3. \A S \in SUBSET D : IsFiniteSet(S) /\ Cardinality(S) \in Nat
  BY <1>a, FS_Subset, FS_CardinalityType
<1>4. 0 \in N
  <2> SUFFICES ASSUME NEW S \in SUBSET D, Cardinality(S) <= 0 PROVE Holds(S)
    OBVIOUS
  <2>1. Cardinality(S) = 0 /\ IsFiniteSet(S)
    BY <1>3
  <2>2. S = {}
    BY <2>1, FS_EmptySet
  <2> QED
    BY <1>2, <2>2
<1>5. ASSUME NEW n \in Nat, n \in N PROVE n + 1 \in N
  <2> SUFFICES ASSUME NEW S \in SUBSET D, Cardinality(S) <= n + 1, S # {} PROVE Holds(S)
    <3>1. Holds({})
      BY <1>2
    <3>2. n + 1 \in Nat
      OBVIOUS
    <3> HIDE DEF Holds
    <3> QED
      BY <3>1, <3>2
  <2>1. ASSUME NEW x \in S PROVE Cardinality(S \ {x}) <= n
    <3>1. IsFiniteSet(S) /\ Cardinality(S) \in Nat
      BY <1>3
    <3>2. Cardinality(S \ {x}) = Cardinality(S) - 1
      BY <3>1, FS_RemoveElement
    <3> QED
      BY <3>1, <3>2
  <2>2. \A x \in S : Holds(S \ {x})
    BY <1>5, <2>1
  <2>3. PICK e \in S : e = Elt(S)
    OBVIOUS
  <2>4. g[S] = f[e] + g[S \ {e}]
    BY <1>1, <2>3
  <2>5. f[e] \in Nat /\ g[S \ {e}] \in Nat
    BY <1>a, <2>2
  <2>6. ASSUME NEW x \in S PROVE g[S] = f[x] + g[S \ {x}]
    <3>1. CASE x = e
      BY <2>4, <3>1
    <3>2. CASE x # e
      <4>1. PICK T : T = S \ {e}
        OBVIOUS
      <4>2. PICK U : U = S \ {x}
        OBVIOUS
      <4>3. PICK R : R = T \ {x}
        OBVIOUS
      <4>4. R = U \ {e} /\ R \in SUBSET D /\ T \in SUBSET D /\ x \in T /\ e \in U
        BY <3>2, <4>1, <4>2, <4>3
      <4>5. Cardinality(R) <= n
        <5>1. Cardinality(T) <= n /\ Cardinality(T) \in Nat /\ IsFiniteSet(T)
          BY <1>3, <2>1, <4>1, <4>4
        <5>2. Cardinality(R) <= Cardinality(T) /\ Cardinality(R) \in Nat
          BY <1>3, <4>3, <4>4, <5>1, FS_Subset
        <5> QED
          BY <5>1, <5>2
      <4>6. g[R] \in Nat
        BY <1>5, <4>4, <4>5
      <4>7. g[T] = f[x] + g[R] /\ g[U] = f[e] + g[R]
        BY <2>2, <4>1, <4>2, <4>3, <4>4
      <4>8. f[x] \in Nat
        BY <1>a, <4>4
      <4>9. g[S] = f[e] + g[T]
        BY <2>4, <4>1
      <4>10. g[S] = f[x] + g[U]
        BY <2>5, <4>6, <4>7, <4>8, <4>9
      <4> QED
        BY <4>2, <4>10
    <3> QED
      BY <3>1, <3>2
  <2>7. g[S] \in Nat
    BY <2>4, <2>5
  <2> QED
    BY <2>6, <2>7, Zenon
<1> HIDE DEF N
<1>6. Nat \subseteq N
  BY <1>4, <1>5, NatInd
<1>7. \A S \in SUBSET D : Holds(S)
  <2> SUFFICES ASSUME NEW S \in SUBSET D PROVE Holds(S)
    OBVIOUS
  <2>1. PICK n \in Nat : n = Cardinality(S)
    BY <1>3
  <2>2. n \in N /\ Cardinality(S) <= n
    BY <1>6, <2>1
  <2> QED
    BY <2>2 DEF N
<1> QED
  BY <1>0, <1>2, <1>7, Zenon

LEMMA TotalTakes ==
  ASSUME NEW f, NEW g, SumOf(f, g), NEW x \in DOMAIN f
  PROVE  g[DOMAIN f] = f[x] + g[DOMAIN f \ {x}]
<1>1. PICK D : D = DOMAIN f
  OBVIOUS
<1>2. ASSUME NEW S \in SUBSET DOMAIN f, NEW y \in S PROVE g[S] = f[y] + g[S \ {y}]
  BY SumTakes
<1>3. D \in SUBSET DOMAIN f /\ x \in D
  BY <1>1
<1>4. g[D] = f[x] + g[D \ {x}]
  BY <1>2, <1>3
<1> QED
  BY <1>1, <1>4

(* The same sum of what is the same.                                       *)
LEMMA SumSame ==
  ASSUME NEW e, NEW f, NEW d, NEW g, SumOf(e, d), SumOf(f, g),
         NEW S, S \subseteq DOMAIN e, S \subseteq DOMAIN f, \A x \in S : e[x] = f[x]
  PROVE  d[S] = g[S]
<1> DEFINE N == {n \in Nat : \A T \in SUBSET S : Cardinality(T) = n => d[T] = g[T]}
<1>1. \A T \in SUBSET S : IsFiniteSet(T) /\ Cardinality(T) \in Nat
  <2>1. IsFiniteSet(DOMAIN e) /\ \A T \in SUBSET S : T \in SUBSET DOMAIN e
    BY DEF SumOf
  <2> QED
    BY <2>1, FS_Subset, FS_CardinalityType
<1>2. 0 \in N
  <2> SUFFICES ASSUME NEW T \in SUBSET S, Cardinality(T) = 0 PROVE d[T] = g[T]
    OBVIOUS
  <2>1. T = {}
    BY <1>1, FS_EmptySet
  <2> QED
    BY <2>1, SumTakes
<1>3. ASSUME NEW n \in Nat, n \in N PROVE n + 1 \in N
  <2> SUFFICES ASSUME NEW T \in SUBSET S, Cardinality(T) = n + 1 PROVE d[T] = g[T]
    OBVIOUS
  <2>1. IsFiniteSet(T)
    BY <1>1
  <2>2. T # {}
    <3> SUFFICES ASSUME T = {} PROVE FALSE
      OBVIOUS
    <3>1. Cardinality({}) = 0
      BY FS_EmptySet
    <3> QED
      BY <3>1
  <2>3. PICK x : x \in T
    BY <2>2
  <2>4. PICK U : U = T \ {x}
    OBVIOUS
  <2>5. Cardinality(U) = Cardinality(T) - 1
    BY <2>1, <2>3, <2>4, FS_RemoveElement
  <2>6. Cardinality(U) = n
    BY <2>5
  <2>7. d[U] = g[U]
    BY <1>3, <2>4, <2>6
  <2>8. T \in SUBSET DOMAIN e /\ T \in SUBSET DOMAIN f
    OBVIOUS
  <2>9. d[T] = e[x] + d[U]
    BY <2>3, <2>4, <2>8, SumTakes
  <2>11. g[T] = f[x] + g[U]
    BY <2>3, <2>4, <2>8, SumTakes
  <2> QED
    BY <2>3, <2>7, <2>9, <2>11
<1> HIDE DEF N
<1>4. Nat \subseteq N
  BY <1>2, <1>3, NatInd
<1> QED
  BY <1>1, <1>4 DEF N

-----------------------------------------------------------------------------
IsBag(B) == IsFiniteSet(DOMAIN B) /\ B \in [DOMAIN B -> Nat] /\ \A x \in DOMAIN B : B[x] > 0

LEMMA EmptyIsBag == IsBag(EmptyBag) /\ BagCardinality(EmptyBag) = 0 /\ BagToSet(EmptyBag) = {}
<1>1. EmptyBag = [x \in {} |-> 1] /\ DOMAIN EmptyBag = {} /\ IsFiniteSet({})
  BY FS_EmptySet DEF EmptyBag, SetToBag
<1>2. IsBag(EmptyBag)
  BY <1>1 DEF IsBag
<1>3. PICK g : SumOf(EmptyBag, g) /\ BagCardinality(EmptyBag) = g[{}]
  BY <1>1, BagSum
<1>4. EmptyBag \in [{} -> Nat]
  BY <1>1
<1>5. g[{}] = 0
  BY <1>1, <1>3, <1>4, SumTakes
<1> QED
  BY <1>1, <1>2, <1>3, <1>5 DEF BagToSet

LEMMA CountIsNat == ASSUME NEW B, IsBag(B) PROVE BagCardinality(B) \in Nat
<1>1. PICK g : SumOf(B, g) /\ BagCardinality(B) = g[DOMAIN B]
  BY BagSum DEF IsBag
<1>2. \A S \in SUBSET DOMAIN B : g[S] \in Nat
  BY <1>1, SumTakes DEF IsBag
<1> QED
  BY <1>1, <1>2

(* Two bags that differ in the copies of x alone.                          *)
LEMMA CountDiffers ==
  ASSUME NEW B, NEW C, IsBag(B), IsBag(C), NEW x, x \in DOMAIN C,
         \/ /\ x \in DOMAIN B /\ C[x] = B[x] + 1 /\ DOMAIN B = DOMAIN C
         \/ /\ x \notin DOMAIN B /\ C[x] = 1 /\ DOMAIN B = DOMAIN C \ {x},
         \A y \in DOMAIN B : y # x => C[y] = B[y]
  PROVE  BagCardinality(C) = BagCardinality(B) + 1
<1>1. PICK g : SumOf(B, g) /\ BagCardinality(B) = g[DOMAIN B]
  BY BagSum DEF IsBag
<1>2. PICK h : SumOf(C, h) /\ BagCardinality(C) = h[DOMAIN C]
  BY BagSum DEF IsBag
<1>3. PICK S : S = DOMAIN C \ {x}
  OBVIOUS
<1>4. h[DOMAIN C] = C[x] + h[S]
  BY <1>2, <1>3, TotalTakes
<1>5. S \subseteq DOMAIN B /\ S \subseteq DOMAIN C /\ \A y \in S : B[y] = C[y]
  BY <1>3
<1>6. g[S] = h[S]
  BY <1>1, <1>2, <1>5, SumSame
<1>7. g[S] \in Nat
  BY <1>1, <1>5, SumTakes DEF IsBag
<1>8. CASE x \in DOMAIN B
  <2>1. g[DOMAIN B] = B[x] + g[S]
    <3>1. S = DOMAIN B \ {x}
      BY <1>3, <1>8
    <3> QED
      BY <1>1, <1>8, <3>1, TotalTakes
  <2>2. B[x] \in Nat
    BY <1>8 DEF IsBag
  <2> QED
    BY <1>1, <1>2, <1>4, <1>6, <1>7, <1>8, <2>1, <2>2
<1>9. CASE x \notin DOMAIN B
  BY <1>1, <1>2, <1>3, <1>4, <1>6, <1>7, <1>9
<1> QED
  BY <1>8, <1>9

LEMMA OneMoreOf ==
  ASSUME NEW B, IsBag(B), NEW x
  PROVE  /\ IsBag(B (+) One(x))
         /\ BagToSet(B (+) One(x)) = BagToSet(B) \cup {x}
         /\ BagCardinality(B (+) One(x)) = BagCardinality(B) + 1
<1>1. PICK C : C = B (+) One(x)
  OBVIOUS
<1>2. C = [e \in DOMAIN B \cup {x} |->
             (IF e \in DOMAIN B THEN B[e] ELSE 0) + (IF e \in {x} THEN 1 ELSE 0)]
  BY <1>1 DEF (+), One, SetToBag
<1>3. IsFiniteSet(DOMAIN B \cup {x}) /\ DOMAIN C = DOMAIN B \cup {x}
  BY <1>2, FS_AddElement DEF IsBag
<1>4. \A y \in DOMAIN B : B[y] \in Nat /\ B[y] > 0
  BY DEF IsBag
<1>5. \A y \in DOMAIN B : y # x => C[y] = B[y]
  BY <1>2, <1>4
<1>6. C[x] = (IF x \in DOMAIN B THEN B[x] ELSE 0) + 1
  BY <1>2
<1>7. \A y \in DOMAIN C : C[y] \in Nat /\ C[y] > 0
  BY <1>3, <1>4, <1>5, <1>6
<1>8. IsBag(C)
  BY <1>2, <1>3, <1>7 DEF IsBag
<1>9. BagCardinality(C) = BagCardinality(B) + 1
  <2>1. CASE x \in DOMAIN B
    <3>1. x \in DOMAIN C /\ C[x] = B[x] + 1 /\ DOMAIN B = DOMAIN C
      BY <1>3, <1>6, <2>1
    <3> QED
      BY <1>5, <1>8, <2>1, <3>1, CountDiffers
  <2>2. CASE x \notin DOMAIN B
    <3>1. x \in DOMAIN C /\ C[x] = 1 /\ DOMAIN B = DOMAIN C \ {x}
      BY <1>3, <1>6, <2>2
    <3> QED
      BY <1>5, <1>8, <2>2, <3>1, CountDiffers
  <2> QED
    BY <2>1, <2>2
<1> QED
  BY <1>1, <1>3, <1>8, <1>9 DEF BagToSet

LEMMA OneLessOf ==
  ASSUME NEW B, IsBag(B), NEW x \in BagToSet(B)
  PROVE  /\ IsBag(B (-) One(x))
         /\ BagToSet(B (-) One(x)) \subseteq BagToSet(B)
         /\ BagToSet(B) \ {x} \subseteq BagToSet(B (-) One(x))
         /\ BagCardinality(B (-) One(x)) = BagCardinality(B) - 1
<1>1. PICK C : C = B (-) One(x)
  OBVIOUS
<1>2. \A y \in DOMAIN B : B[y] \in Nat /\ B[y] > 0
  BY DEF IsBag
<1>3. x \in DOMAIN B
  BY DEF BagToSet
<1> DEFINE D == [e \in DOMAIN B |-> IF e \in {x} THEN B[e] - 1 ELSE B[e]]
<1>4. C = [e \in {d \in DOMAIN B : D[d] > 0} |-> D[e]]
  BY <1>1 DEF (-), One, SetToBag
<1>5. D[x] = B[x] - 1 /\ \A y \in DOMAIN B : y # x => D[y] = B[y]
  BY <1>3
<1> HIDE DEF D
<1>6. DOMAIN C = IF B[x] = 1 THEN DOMAIN B \ {x} ELSE DOMAIN B
  BY <1>2, <1>3, <1>4, <1>5
<1>7. \A y \in DOMAIN C : C[y] = D[y] /\ C[y] > 0 /\ C[y] \in Nat
  BY <1>2, <1>3, <1>4, <1>5
<1>8. IsFiniteSet(DOMAIN C)
  BY <1>6, FS_Subset DEF IsBag
<1>9. IsBag(C)
  BY <1>4, <1>7, <1>8 DEF IsBag
<1>10. BagCardinality(B) = BagCardinality(C) + 1
  <2>1. \A y \in DOMAIN C : y # x => B[y] = C[y]
    BY <1>5, <1>6, <1>7
  <2>2. CASE B[x] = 1
    <3>1. x \notin DOMAIN C /\ DOMAIN C = DOMAIN B \ {x}
      BY <1>6, <2>2
    <3> QED
      BY <1>3, <1>9, <2>1, <2>2, <3>1, CountDiffers
  <2>3. CASE B[x] # 1
    <3>1. x \in DOMAIN C /\ DOMAIN C = DOMAIN B
      BY <1>3, <1>6, <2>3
    <3>2. B[x] = C[x] + 1
      BY <1>2, <1>3, <1>5, <1>7, <3>1
    <3> QED
      BY <1>3, <1>9, <2>1, <3>1, <3>2, CountDiffers
  <2> QED
    BY <2>2, <2>3
<1>11. BagCardinality(C) \in Nat
  BY <1>9, CountIsNat
<1> QED
  BY <1>1, <1>3, <1>6, <1>9, <1>10, <1>11 DEF BagToSet

LEMMA EmptyTaken ==
  ASSUME NEW B, IsBag(B)
  PROVE  B (-) SetToBag({}) = B /\ B (+) SetToBag({}) = B
<1>1. \A y \in DOMAIN B : B[y] \in Nat /\ B[y] > 0
  BY DEF IsBag
<1>2. DOMAIN SetToBag({}) = {}
  BY DEF SetToBag
<1>3. B = [y \in DOMAIN B |-> B[y]]
  BY DEF IsBag
<1>4. B (-) SetToBag({}) = [y \in {d \in DOMAIN B : B[d] > 0} |-> B[y]]
  BY <1>2 DEF (-)
<1>5. {d \in DOMAIN B : B[d] > 0} = DOMAIN B
  BY <1>1
<1>6. B (+) SetToBag({}) = [y \in DOMAIN B |-> B[y] + 0]
  BY <1>2 DEF (+)
<1> QED
  BY <1>1, <1>3, <1>4, <1>5, <1>6

(* Taking one element more. *)
LEMMA TakenOneByOne ==
  ASSUME NEW B, IsBag(B), NEW T, NEW x \in T, x \in BagToSet(B)
  PROVE  B (-) SetToBag(T) = (B (-) SetToBag(T \ {x})) (-) One(x)
<1>1. \A y \in DOMAIN B : B[y] \in Nat /\ B[y] > 0
  BY DEF IsBag
<1>2. x \in DOMAIN B
  BY DEF BagToSet
<1> DEFINE D == [e \in DOMAIN B |-> IF e \in T THEN B[e] - 1 ELSE B[e]]
           E == [e \in DOMAIN B |-> IF e \in T \ {x} THEN B[e] - 1 ELSE B[e]]
<1>3. PICK C : C = B (-) SetToBag(T \ {x})
  OBVIOUS
<1>4. C = [e \in {d \in DOMAIN B : E[d] > 0} |-> E[e]]
  BY <1>3 DEF (-), SetToBag
<1> DEFINE F == [e \in DOMAIN C |-> IF e \in {x} THEN C[e] - 1 ELSE C[e]]
<1>5. C (-) One(x) = [e \in {d \in DOMAIN C : F[d] > 0} |-> F[e]]
  BY DEF (-), One, SetToBag
<1>6. B (-) SetToBag(T) = [e \in {d \in DOMAIN B : D[d] > 0} |-> D[e]]
  BY DEF (-), SetToBag
<1>7. E[x] = B[x] /\ x \in DOMAIN C /\ D[x] = B[x] - 1
  BY <1>1, <1>2, <1>4
<1>8. \A e \in DOMAIN B : e # x => E[e] = D[e]
  OBVIOUS
<1>9. \A e \in DOMAIN C : e \in DOMAIN B /\ C[e] = E[e] /\ F[e] = D[e]
  BY <1>4, <1>7, <1>8
<1>10. \A e \in DOMAIN B : D[e] > 0 => e \in DOMAIN C
  <2>1. \A e \in DOMAIN B : D[e] > 0 => E[e] > 0
    BY <1>1, <1>7, <1>8
  <2> QED
    BY <1>4, <2>1
<1> HIDE DEF D, E, F
<1>11. {d \in DOMAIN C : F[d] > 0} = {d \in DOMAIN B : D[d] > 0}
  BY <1>9, <1>10
<1> QED
  BY <1>3, <1>5, <1>6, <1>9, <1>11

LEMMA SetTaken ==
  ASSUME NEW B, IsBag(B), NEW S, S \subseteq BagToSet(B)
  PROVE  /\ IsBag(B (-) SetToBag(S))
         /\ BagToSet(B (-) SetToBag(S)) \subseteq BagToSet(B)
         /\ BagToSet(B) \ S \subseteq BagToSet(B (-) SetToBag(S))
         /\ BagCardinality(B (-) SetToBag(S)) = BagCardinality(B) - Cardinality(S)
<1> DEFINE Left(T) == B (-) SetToBag(T)
           Holds(T) == /\ IsBag(Left(T))
                       /\ BagToSet(Left(T)) \subseteq BagToSet(B)
                       /\ BagToSet(B) \ T \subseteq BagToSet(Left(T))
                       /\ BagCardinality(Left(T)) = BagCardinality(B) - Cardinality(T)
           N == {n \in Nat : \A T \in SUBSET S : Cardinality(T) = n => Holds(T)}
<1>1. \A T \in SUBSET S : IsFiniteSet(T) /\ Cardinality(T) \in Nat
  <2>1. IsFiniteSet(BagToSet(B)) /\ \A T \in SUBSET S : T \in SUBSET BagToSet(B)
    BY DEF IsBag, BagToSet
  <2> QED
    BY <2>1, FS_Subset, FS_CardinalityType
<1>2. BagCardinality(B) \in Nat
  BY CountIsNat
<1>3. 0 \in N
  <2> SUFFICES ASSUME NEW T \in SUBSET S, Cardinality(T) = 0 PROVE Holds(T)
    OBVIOUS
  <2>1. T = {}
    BY <1>1, FS_EmptySet
  <2>2. Left({}) = B
    BY EmptyTaken
  <2> HIDE DEF Left
  <2> QED
    BY <1>2, <2>1, <2>2
<1>4. ASSUME NEW n \in Nat, n \in N PROVE n + 1 \in N
  <2> SUFFICES ASSUME NEW T \in SUBSET S, Cardinality(T) = n + 1 PROVE Holds(T)
    OBVIOUS
  <2>1. IsFiniteSet(T)
    BY <1>1
  <2>2. T # {}
    <3> SUFFICES ASSUME T = {} PROVE FALSE
      OBVIOUS
    <3>1. Cardinality({}) = 0
      BY FS_EmptySet
    <3> QED
      BY <3>1
  <2>3. PICK x : x \in T
    BY <2>2
  <2>4. PICK U : U = T \ {x}
    OBVIOUS
  <2>5. Cardinality(U) = Cardinality(T) - 1
    BY <2>1, <2>3, <2>4, FS_RemoveElement
  <2>6. Cardinality(U) = n /\ U \in SUBSET S
    BY <2>4, <2>5
  <2>7. Holds(U)
    BY <1>4, <2>6
  <2>8. x \in BagToSet(B) /\ x \in BagToSet(Left(U))
    BY <2>3, <2>4, <2>7
  <2>9. Left(T) = Left(U) (-) One(x)
    BY <2>3, <2>4, <2>8, TakenOneByOne
  <2>10. PICK C : C = Left(U)
    OBVIOUS
  <2>11. /\ IsBag(C (-) One(x))
         /\ BagToSet(C (-) One(x)) \subseteq BagToSet(C)
         /\ BagToSet(C) \ {x} \subseteq BagToSet(C (-) One(x))
         /\ BagCardinality(C (-) One(x)) = BagCardinality(C) - 1
    BY <2>7, <2>8, <2>10, OneLessOf
  <2> HIDE DEF Left
  <2>12. BagCardinality(Left(T)) = BagCardinality(B) - Cardinality(T)
    BY <1>2, <2>6, <2>7, <2>9, <2>10, <2>11
  <2>13. BagToSet(B) \ T \subseteq BagToSet(Left(T))
    BY <2>4, <2>7, <2>9, <2>10, <2>11
  <2> QED
    BY <2>7, <2>9, <2>10, <2>11, <2>12, <2>13
<1> HIDE DEF N
<1>5. Nat \subseteq N
  BY <1>3, <1>4, NatInd
<1>6. Holds(S)
  BY <1>1, <1>5 DEF N
<1> QED
  BY <1>6

LEMMA GivenOneByOne ==
  ASSUME NEW B, IsBag(B), NEW T, NEW x \in T
  PROVE  B (+) SetToBag(T) = (B (+) SetToBag(T \ {x})) (+) One(x)
<1>1. \A y \in DOMAIN B : B[y] \in Nat
  BY DEF IsBag
<1>2. PICK C : C = B (+) SetToBag(T \ {x})
  OBVIOUS
<1>3. C = [e \in DOMAIN B \cup (T \ {x}) |->
             (IF e \in DOMAIN B THEN B[e] ELSE 0) + (IF e \in T \ {x} THEN 1 ELSE 0)]
  BY <1>2 DEF (+), SetToBag
<1>4. C (+) One(x) = [e \in DOMAIN C \cup {x} |->
             (IF e \in DOMAIN C THEN C[e] ELSE 0) + (IF e \in {x} THEN 1 ELSE 0)]
  BY DEF (+), One, SetToBag
<1>5. B (+) SetToBag(T) = [e \in DOMAIN B \cup T |->
             (IF e \in DOMAIN B THEN B[e] ELSE 0) + (IF e \in T THEN 1 ELSE 0)]
  BY DEF (+), SetToBag
<1>6. DOMAIN C \cup {x} = DOMAIN B \cup T
  BY <1>3
<1>7. ASSUME NEW e \in DOMAIN B \cup T
      PROVE  (IF e \in DOMAIN C THEN C[e] ELSE 0) + (IF e \in {x} THEN 1 ELSE 0)
               = (IF e \in DOMAIN B THEN B[e] ELSE 0) + (IF e \in T THEN 1 ELSE 0)
  <2>1. PICK b \in Nat : b = IF e \in DOMAIN B THEN B[e] ELSE 0
    BY <1>1
  <2>2. CASE e = x
    <3>1. (IF e \in DOMAIN C THEN C[e] ELSE 0) = b
      BY <1>1, <1>3, <2>1, <2>2
    <3> QED
      BY <2>1, <2>2, <3>1
  <2>3. CASE e # x
    <3>1. e \in DOMAIN C /\ C[e] = b + (IF e \in T THEN 1 ELSE 0)
      BY <1>3, <2>1, <2>3
    <3> QED
      BY <2>1, <2>3, <3>1
  <2> QED
    BY <2>2, <2>3
<1> QED
  BY <1>2, <1>4, <1>5, <1>6, <1>7

LEMMA SetGiven ==
  ASSUME NEW B, IsBag(B), NEW S, IsFiniteSet(S)
  PROVE  /\ IsBag(B (+) SetToBag(S))
         /\ BagToSet(B (+) SetToBag(S)) = BagToSet(B) \cup S
         /\ BagCardinality(B (+) SetToBag(S)) = BagCardinality(B) + Cardinality(S)
<1> DEFINE More(T) == B (+) SetToBag(T)
           Holds(T) == /\ IsBag(More(T))
                       /\ BagToSet(More(T)) = BagToSet(B) \cup T
                       /\ BagCardinality(More(T)) = BagCardinality(B) + Cardinality(T)
           N == {n \in Nat : \A T \in SUBSET S : Cardinality(T) = n => Holds(T)}
<1>1. \A T \in SUBSET S : IsFiniteSet(T) /\ Cardinality(T) \in Nat
  BY FS_Subset, FS_CardinalityType
<1>2. BagCardinality(B) \in Nat
  BY CountIsNat
<1>3. 0 \in N
  <2> SUFFICES ASSUME NEW T \in SUBSET S, Cardinality(T) = 0 PROVE Holds(T)
    OBVIOUS
  <2>1. T = {}
    BY <1>1, FS_EmptySet
  <2>2. More({}) = B
    BY EmptyTaken
  <2> HIDE DEF More
  <2> QED
    BY <1>2, <2>1, <2>2
<1>4. ASSUME NEW n \in Nat, n \in N PROVE n + 1 \in N
  <2> SUFFICES ASSUME NEW T \in SUBSET S, Cardinality(T) = n + 1 PROVE Holds(T)
    OBVIOUS
  <2>1. IsFiniteSet(T)
    BY <1>1
  <2>2. T # {}
    <3> SUFFICES ASSUME T = {} PROVE FALSE
      OBVIOUS
    <3>1. Cardinality({}) = 0
      BY FS_EmptySet
    <3> QED
      BY <3>1
  <2>3. PICK x : x \in T
    BY <2>2
  <2>4. PICK U : U = T \ {x}
    OBVIOUS
  <2>5. Cardinality(U) = Cardinality(T) - 1
    BY <2>1, <2>3, <2>4, FS_RemoveElement
  <2>6. Cardinality(U) = n /\ U \in SUBSET S
    BY <2>4, <2>5
  <2>7. Holds(U)
    BY <1>4, <2>6
  <2>8. More(T) = More(U) (+) One(x)
    BY <2>3, <2>4, GivenOneByOne
  <2>9. PICK C : C = More(U)
    OBVIOUS
  <2>10. /\ IsBag(C (+) One(x))
         /\ BagToSet(C (+) One(x)) = BagToSet(C) \cup {x}
         /\ BagCardinality(C (+) One(x)) = BagCardinality(C) + 1
    BY <2>7, <2>9, OneMoreOf
  <2> HIDE DEF More
  <2>11. BagCardinality(More(T)) = BagCardinality(B) + Cardinality(T)
    BY <1>2, <2>6, <2>7, <2>8, <2>9, <2>10
  <2>12. BagToSet(More(T)) = BagToSet(B) \cup T
    BY <2>3, <2>4, <2>7, <2>8, <2>9, <2>10
  <2> QED
    BY <2>8, <2>9, <2>10, <2>11, <2>12
<1> HIDE DEF N
<1>5. Nat \subseteq N
  BY <1>3, <1>4, NatInd
<1>6. Holds(S)
  BY <1>1, <1>5 DEF N
<1> QED
  BY <1>6

-----------------------------------------------------------------------------
(* The router page.  Reads and changes are records, their bags finite, and *)
(* what a spinner or a busy item stands for is among them.                 *)

ReadRecs == [got : Seen, stale : BOOLEAN, closes : BOOLEAN]

Jobs == [what : {"act", "delete", "remove", "save", "create"},
         id : Items \cup {None, NewKey}, done : BOOLEAN, own : BOOLEAN]

JobRecs == {job \in Jobs : job.what = "save" => job.id = None}

ReadsFit ==
  IsBag(reads) /\ BagToSet(reads) \subseteq ReadRecs /\ BagCardinality(reads) <= MaxReads

ShownFits ==
  /\ shown \in [data : Seen, error : BOOLEAN, loading : BOOLEAN]
  /\ shown.loading => \E q \in BagToSet(reads) : ~q.stale

JobsFit ==
  IsBag(jobs) /\ BagToSet(jobs) \subseteq JobRecs /\ BagCardinality(jobs) <= MaxJobs

BusyFits ==
  /\ busy \in Items \cup {None, NewKey}
  /\ busy # None => \E job \in BagToSet(jobs) : job.id = busy

EditorFits ==
  /\ editor \in {"closed", "open", "saving", "created"}
  /\ editor = "saving" => \E job \in BagToSet(jobs) : job.what = "save" /\ job.own

TabFits ==
  /\ tab \in Tabs \cup {"away"} /\ visible \in BOOLEAN
  /\ poll \in [every : Nat, load : {"no", "asked", "done"}]
  /\ deleting \in Items \cup {None} /\ live \in Seen
  /\ link \in {"off", "trying", "open", "waiting"}

PanelInv ==
  TabFits /\ ReadsFit /\ ShownFits /\ JobsFit /\ BusyFits /\ EditorFits

LEMMA PanelIsSound == PanelInv => PanelsTypeOK /\ NothingIsStuck
<1> SUFFICES ASSUME PanelInv PROVE PanelsTypeOK /\ NothingIsStuck
  OBVIOUS
<1>1. NothingIsStuck
  BY DEF PanelInv, ShownFits, BusyFits, EditorFits, NothingIsStuck
<1>2. poll.every \in Nat /\ poll.load \in {"no", "asked", "done"}
  BY DEF PanelInv, TabFits
<1>3. \A q \in BagToSet(reads) : q.got \in Seen
  BY DEF PanelInv, ReadsFit, ReadRecs
<1> QED
  BY <1>1, <1>2, <1>3
     DEF PanelInv, TabFits, ReadsFit, ShownFits, JobsFit, BusyFits, EditorFits, PanelsTypeOK

LEMMA PanelStarts == InitPanels => PanelInv
<1> SUFFICES ASSUME InitPanels PROVE PanelInv
  OBVIOUS
<1>1. ReadsFit /\ JobsFit
  BY EmptyIsBag, PanelAssumption DEF InitPanels, ReadsFit, JobsFit
<1>2. ShownFits /\ BusyFits /\ EditorFits
  BY DEF InitPanels, Unread, Seen, ShownFits, BusyFits, EditorFits
<1>3. TabFits
  BY PanelAssumption DEF InitPanels, TabFits, Seen
<1> QED
  BY <1>1, <1>2, <1>3 DEF PanelInv

(* What a step leaves alone.                                               *)
LEMMA TabStays ==
  ASSUME TabFits, UNCHANGED <<tab, visible, poll, deleting, live, link>> PROVE TabFits'
  BY DEF TabFits, Seen

LEMMA ReadsStay ==
  ASSUME ReadsFit, ShownFits, UNCHANGED <<reads, shown>> PROVE ReadsFit' /\ ShownFits'
  BY DEF ReadsFit, ShownFits, ReadRecs, Seen

LEMMA JobsStay ==
  ASSUME JobsFit, BusyFits, EditorFits, UNCHANGED <<jobs, busy, editor>>
  PROVE  JobsFit' /\ BusyFits' /\ EditorFits'
<1>1. JobsFit'
  BY DEF JobsFit, JobRecs, Jobs
<1>2. BusyFits'
  BY DEF BusyFits
<1>3. EditorFits'
  BY DEF EditorFits
<1> QED
  BY <1>1, <1>2, <1>3

LEMMA ReadIs == \A c \in BOOLEAN : Read(c) \in ReadRecs /\ ~Read(c).stale
  BY DEF Read, ReadRecs, Seen

LEMMA LoadingIs ==
  ASSUME shown \in [data : Seen, error : BOOLEAN, loading : BOOLEAN]
  PROVE  Loading \in [data : Seen, error : BOOLEAN, loading : BOOLEAN]
  BY DEF Loading

LEMMA RefreshFits ==
  ASSUME ReadsFit, ShownFits, NEW c \in BOOLEAN, Refresh(c)
  PROVE  ReadsFit' /\ ShownFits'
<1>1. /\ BagCardinality(reads) < MaxReads /\ reads' = reads (+) One(Read(c))
      /\ shown' = Loading
  BY DEF Refresh
<1>2. IsBag(reads) /\ BagCardinality(reads) \in Nat /\ MaxReads \in Nat
  BY CountIsNat, PanelAssumption DEF ReadsFit
<1>3. PICK r \in ReadRecs : r = Read(c) /\ ~r.stale
  BY ReadIs
<1>4. /\ IsBag(reads') /\ BagToSet(reads') = BagToSet(reads) \cup {r}
      /\ BagCardinality(reads') = BagCardinality(reads) + 1
  BY <1>1, <1>2, <1>3, OneMoreOf
<1>5. ReadsFit'
  <2>1. BagToSet(reads') \subseteq ReadRecs
    BY <1>3, <1>4 DEF ReadsFit
  <2>2. BagCardinality(reads') <= MaxReads
    BY <1>1, <1>2, <1>4
  <2> QED
    BY <1>4, <2>1, <2>2 DEF ReadsFit, ReadRecs, Seen
<1>6. ShownFits'
  <2>1. \E q \in BagToSet(reads') : ~q.stale
    BY <1>3, <1>4
  <2>2. shown' \in [data : Seen, error : BOOLEAN, loading : BOOLEAN]
    BY <1>1, LoadingIs DEF ShownFits
  <2> QED
    BY <2>1, <2>2 DEF ShownFits, Seen
<1> QED
  BY <1>5, <1>6

LEMMA ServeHolds ==
  ASSUME PanelInv, DataTypeOK, NEW q \in BagToSet(reads), Serve(q)
  PROVE  PanelInv'
<1>1. /\ UNCHANGED <<tab, visible, poll, shown, jobs, busy, deleting, editor, link, live>>
      /\ reads' = Swap(reads, q, [q EXCEPT !.got = table])
  BY DEF Serve, dialogVars, streamVars
<1>2. q \in ReadRecs /\ IsBag(reads) /\ BagToSet(reads) \subseteq ReadRecs
  BY DEF PanelInv, ReadsFit
<1>3. PICK r : r = [q EXCEPT !.got = table]
  OBVIOUS
<1>4. r \in ReadRecs /\ r.stale = q.stale
  BY <1>2, <1>3 DEF ReadRecs, DataTypeOK, Seen
<1>5. PICK C : C = reads (-) One(q)
  OBVIOUS
<1>6. /\ IsBag(C) /\ BagToSet(C) \subseteq BagToSet(reads)
      /\ BagToSet(reads) \ {q} \subseteq BagToSet(C)
      /\ BagCardinality(C) = BagCardinality(reads) - 1
  BY <1>2, <1>5, OneLessOf
<1>7. reads' = C (+) One(r)
  BY <1>1, <1>3, <1>5 DEF Swap
<1>8. /\ IsBag(reads') /\ BagToSet(reads') = BagToSet(C) \cup {r}
      /\ BagCardinality(reads') = BagCardinality(C) + 1
  BY <1>6, <1>7, OneMoreOf
<1>9. ReadsFit'
  <2>1. BagToSet(reads') \subseteq ReadRecs
    BY <1>2, <1>4, <1>6, <1>8
  <2>2. BagCardinality(reads) \in Nat
    BY <1>2, CountIsNat
  <2>3. BagCardinality(reads') <= MaxReads
    BY <1>6, <1>8, <2>2 DEF PanelInv, ReadsFit
  <2> QED
    BY <1>8, <2>1, <2>3 DEF ReadsFit, ReadRecs, Seen
<1>10. ShownFits'
  <2>1. ASSUME NEW p \in BagToSet(reads), ~p.stale
        PROVE  \E s \in BagToSet(reads') : ~s.stale
    BY <1>4, <1>6, <1>8, <2>1
  <2> QED
    BY <1>1, <2>1 DEF PanelInv, ShownFits, Seen
<1> QED
  BY <1>1, <1>9, <1>10, TabStays, JobsStay DEF PanelInv

LEMMA AnswerHolds ==
  ASSUME PanelInv, NEW q \in BagToSet(reads), NEW ok \in BOOLEAN, Answer(q, ok)
  PROVE  PanelInv'
<1>1. /\ UNCHANGED <<tab, visible, poll, jobs, busy, editor, link, live>>
      /\ reads' = reads (-) One(q)
      /\ deleting' = IF q.closes THEN None ELSE deleting
      /\ shown' = IF q.stale THEN shown
                  ELSE IF ok THEN [data |-> q.got, error |-> FALSE, loading |-> FALSE]
                  ELSE [shown EXCEPT !.error = TRUE, !.loading = FALSE]
  BY DEF Answer, streamVars
<1>2. q \in ReadRecs /\ IsBag(reads) /\ BagToSet(reads) \subseteq ReadRecs
  BY DEF PanelInv, ReadsFit
<1>3. /\ IsBag(reads') /\ BagToSet(reads') \subseteq BagToSet(reads)
      /\ BagToSet(reads) \ {q} \subseteq BagToSet(reads')
      /\ BagCardinality(reads') = BagCardinality(reads) - 1
  BY <1>1, <1>2, OneLessOf
<1>4. ReadsFit'
  <2>1. BagCardinality(reads) \in Nat
    BY <1>2, CountIsNat
  <2>2. BagCardinality(reads') <= MaxReads
    BY <1>3, <2>1, PanelAssumption DEF PanelInv, ReadsFit
  <2> QED
    BY <1>2, <1>3, <2>2 DEF ReadsFit, ReadRecs, Seen
<1>5. ShownFits'
  <2>1. CASE q.stale
    BY <1>1, <1>3, <2>1 DEF PanelInv, ShownFits, Seen
  <2>2. CASE ~q.stale
    <3>1. shown \in [data : Seen, error : BOOLEAN, loading : BOOLEAN] /\ q.got \in Seen
      BY <1>2 DEF PanelInv, ShownFits, ReadRecs
    <3>2. /\ shown' \in [data : Seen, error : BOOLEAN, loading : BOOLEAN]
          /\ ~shown'.loading
      BY <1>1, <2>2, <3>1
    <3> QED
      BY <3>2 DEF ShownFits, Seen
  <2> QED
    BY <2>1, <2>2
<1>6. TabFits'
  BY <1>1 DEF PanelInv, TabFits, Seen
<1> QED
  BY <1>1, <1>4, <1>5, <1>6, JobsStay DEF PanelInv

(* Steps that may read, and change nothing else that reads depend on.      *)
LEMMA RefreshHolds ==
  ASSUME PanelInv, TabFits', Refresh(FALSE) \/ UNCHANGED <<reads, shown>>,
         UNCHANGED <<jobs, busy, editor>>
  PROVE  PanelInv'
<1>1. ReadsFit' /\ ShownFits'
  BY RefreshFits, ReadsStay DEF PanelInv
<1> QED
  BY <1>1, JobsStay DEF PanelInv

LEMMA LookHolds ==
  ASSUME PanelInv, Poll \/ Hide \/ Show \/ Demand
  PROVE  PanelInv'
<1>1. /\ UNCHANGED <<tab, poll, jobs, busy, editor, deleting, link, live>>
      /\ Refresh(FALSE) \/ UNCHANGED <<reads, shown>>
      /\ visible' \in BOOLEAN
  BY DEF PanelInv, TabFits, Poll, Hide, Show, Demand, dialogVars, streamVars, hookVars
<1>2. TabFits'
  BY <1>1 DEF PanelInv, TabFits, Seen
<1> QED
  BY <1>1, <1>2, RefreshHolds

LEMMA OutdatedFits ==
  ASSUME ReadsFit
  PROVE  IsBag(Outdated) /\ BagToSet(Outdated) \subseteq ReadRecs
<1> DEFINE From == {q \in BagToSet(reads) : q.closes}
           To == {[q EXCEPT !.stale = TRUE] : q \in From}
           f == [q \in From |-> [q EXCEPT !.stale = TRUE]]
<1>1. IsFiniteSet(From)
  <2>1. IsFiniteSet(BagToSet(reads)) /\ From \in SUBSET BagToSet(reads)
    BY DEF ReadsFit, IsBag, BagToSet
  <2> QED
    BY <2>1, FS_Subset
<1>2. f \in Surjection(From, To)
  BY DEF Surjection
<1>3. IsFiniteSet(To)
  BY <1>1, <1>2, FS_Surjection
<1>4. Outdated = [e \in To |-> 1]
  BY DEF Outdated, SetToBag
<1>5. To \subseteq ReadRecs
  BY DEF ReadsFit, ReadRecs
<1> HIDE DEF To
<1> QED
  BY <1>3, <1>4, <1>5 DEF IsBag, BagToSet

LEMMA PollLoadedHolds ==
  ASSUME PanelInv, NEW ms \in Polls, PollLoaded(ms)
  PROVE  PanelInv'
<1>1. /\ poll' = [every |-> SetPollDefault(ms), load |-> "done"]
      /\ UNCHANGED <<tab, visible, jobs, busy, deleting, editor, link, live>>
  BY DEF PollLoaded, dialogVars, streamVars
<1>2. SetPollDefault(ms) \in Nat
  BY PanelAssumption DEF SetPollDefault
<1>3. TabFits'
  BY <1>1, <1>2 DEF PanelInv, TabFits, Seen
<1>4. ReadsFit' /\ ShownFits'
  <2>1. CASE UNCHANGED <<reads, shown>>
    BY <2>1, ReadsStay DEF PanelInv
  <2>2. CASE /\ BagCardinality(Outdated) < MaxReads
             /\ reads' = Outdated (+) One(Read(FALSE)) /\ shown' = Loading
    <3>1. IsBag(Outdated) /\ BagToSet(Outdated) \subseteq ReadRecs
      BY OutdatedFits DEF PanelInv
    <3>2. BagCardinality(Outdated) \in Nat
      BY <3>1, CountIsNat
    <3>3. PICK r \in ReadRecs : r = Read(FALSE) /\ ~r.stale
      BY ReadIs
    <3>4. /\ IsBag(reads') /\ BagToSet(reads') = BagToSet(Outdated) \cup {r}
          /\ BagCardinality(reads') = BagCardinality(Outdated) + 1
      BY <2>2, <3>1, <3>3, OneMoreOf
    <3>5. BagCardinality(reads') <= MaxReads
      <4>1. PICK n \in Nat : n = BagCardinality(Outdated)
        BY <3>2
      <4>2. n < MaxReads /\ BagCardinality(reads') = n + 1
        BY <2>2, <3>4, <4>1
      <4> QED
        BY <4>1, <4>2, PanelAssumption
    <3>6. BagToSet(reads') \subseteq ReadRecs
      BY <3>1, <3>3, <3>4
    <3>7. ReadsFit'
      BY <3>4, <3>5, <3>6 DEF ReadsFit, ReadRecs, Seen
    <3>8. shown' \in [data : Seen, error : BOOLEAN, loading : BOOLEAN]
      BY <2>2, LoadingIs DEF PanelInv, ShownFits
    <3>9. \E q \in BagToSet(reads') : ~q.stale
      BY <3>3, <3>4
    <3> QED
      BY <3>7, <3>8, <3>9 DEF ShownFits, Seen
  <2> QED
    BY <2>1, <2>2 DEF PollLoaded
<1> QED
  BY <1>1, <1>3, <1>4, JobsStay DEF PanelInv

LEMMA SavePollHolds ==
  ASSUME PanelInv, NEW ms \in Polls, SavePoll(ms)
  PROVE  PanelInv'
<1>1. /\ poll' = [poll EXCEPT !.every = SetPollDefault(ms)]
      /\ UNCHANGED <<tab, visible, reads, shown, jobs, busy, deleting, editor, link, live>>
  BY DEF SavePoll, dialogVars, streamVars
<1>2. SetPollDefault(ms) \in Nat
  BY PanelAssumption DEF SetPollDefault
<1>3. TabFits'
  BY <1>1, <1>2 DEF PanelInv, TabFits, Seen
<1> QED
  BY <1>1, <1>3, ReadsStay, JobsStay DEF PanelInv

(* Another panel starts with a read of its own, no panel with none.        *)
LEMMA FreshFits == Fresh => JobsFit' /\ BusyFits' /\ EditorFits'
<1> SUFFICES ASSUME Fresh PROVE JobsFit' /\ BusyFits' /\ EditorFits'
  OBVIOUS
<1>1. jobs' = EmptyBag /\ busy' = None /\ editor' = "closed"
  BY DEF Fresh
<1>2. JobsFit'
  BY <1>1, EmptyIsBag, PanelAssumption DEF JobsFit, JobRecs, Jobs
<1> QED
  BY <1>1, <1>2 DEF BusyFits, EditorFits

LEMMA MountHolds ==
  ASSUME PanelInv, NEW t \in Tabs, Mount(t)
  PROVE  PanelInv'
<1>1. /\ tab' = t /\ Fresh /\ link' = IF t = "usage" THEN "trying" ELSE "off"
      /\ poll' = IF poll.load = "no" THEN [poll EXCEPT !.load = "asked"] ELSE poll
      /\ reads' = One(Read(FALSE)) /\ shown' = [Unread EXCEPT !.loading = TRUE]
      /\ visible' = visible
  BY DEF Mount
<1>2. poll' \in [every : Nat, load : {"no", "asked", "done"}]
  BY <1>1 DEF PanelInv, TabFits
<1>3. TabFits'
  BY <1>1, <1>2 DEF PanelInv, TabFits, Fresh, Seen
<1>4. PICK r \in ReadRecs : r = Read(FALSE) /\ ~r.stale
  BY ReadIs
<1>5. reads' = EmptyBag (+) One(r)
  <2>1. One(r) = [e \in {r} |-> 1] /\ DOMAIN EmptyBag = {}
    BY DEF One, SetToBag, EmptyBag
  <2>2. EmptyBag (+) One(r) = [e \in {r} |-> 0 + 1]
    BY <2>1 DEF (+)
  <2>3. [e \in {r} |-> 0 + 1] = [e \in {r} |-> 1]
    OBVIOUS
  <2>4. reads' = One(r)
    BY <1>1, <1>4, Zenon
  <2> QED
    BY <2>1, <2>2, <2>3, <2>4, Zenon
<1>6. /\ IsBag(reads') /\ BagToSet(reads') = {r} /\ BagCardinality(reads') = 1
  BY <1>5, EmptyIsBag, OneMoreOf
<1>7. ReadsFit'
  BY <1>6, PanelAssumption DEF ReadsFit, ReadRecs, Seen
<1>8. ShownFits'
  BY <1>1, <1>4, <1>6 DEF ShownFits, Unread, Seen
<1> QED
  BY <1>1, <1>3, <1>7, <1>8, FreshFits DEF PanelInv

LEMMA LeaveHolds ==
  ASSUME PanelInv, NEW reloaded \in BOOLEAN, Leave(reloaded)
  PROVE  PanelInv'
<1>1. /\ tab' = "away" /\ Fresh /\ link' = "off" /\ visible' = visible
      /\ poll' = IF reloaded THEN [every |-> DefaultPoll, load |-> "no"] ELSE poll
      /\ reads' = EmptyBag /\ shown' = Unread
  BY DEF Leave
<1>2. TabFits'
  BY <1>1, PanelAssumption DEF PanelInv, TabFits, Fresh, Seen
<1>3. ReadsFit'
  BY <1>1, EmptyIsBag, PanelAssumption DEF ReadsFit, ReadRecs, Seen
<1>4. ShownFits'
  BY <1>1 DEF ShownFits, Unread, Seen
<1> QED
  BY <1>1, <1>2, <1>3, <1>4, FreshFits DEF PanelInv

(* A change that begins. *)
LEMMA BeginFits ==
  ASSUME JobsFit, NEW what \in {"act", "delete", "remove", "save", "create"},
         NEW id \in Items \cup {None, NewKey}, what = "save" => id = None,
         Begin(what, id)
  PROVE  /\ JobsFit'
         /\ BagToSet(jobs') = BagToSet(jobs)
              \cup {[what |-> what, id |-> id, done |-> FALSE, own |-> TRUE]}
<1>1. PICK r : r = [what |-> what, id |-> id, done |-> FALSE, own |-> TRUE]
  OBVIOUS
<1>2. BagCardinality(jobs) < MaxJobs /\ jobs' = jobs (+) One(r)
  BY <1>1 DEF Begin
<1>3. r \in JobRecs
  BY <1>1 DEF JobRecs, Jobs
<1>4. IsBag(jobs) /\ BagToSet(jobs) \subseteq JobRecs /\ BagCardinality(jobs) \in Nat
  BY CountIsNat DEF JobsFit
<1>5. /\ IsBag(jobs') /\ BagToSet(jobs') = BagToSet(jobs) \cup {r}
      /\ BagCardinality(jobs') = BagCardinality(jobs) + 1
  BY <1>2, <1>4, OneMoreOf
<1>6. BagCardinality(jobs') <= MaxJobs
  BY <1>2, <1>4, <1>5, PanelAssumption
<1>7. BagToSet(jobs') \subseteq JobRecs
  BY <1>3, <1>4, <1>5
<1> QED
  BY <1>1, <1>5, <1>6, <1>7 DEF JobsFit, JobRecs, Jobs

LEMMA BeginHolds ==
  ASSUME PanelInv, TabFits', UNCHANGED <<reads, shown>>,
         NEW what \in {"act", "delete", "remove", "save", "create"},
         NEW id \in Items \cup {None, NewKey}, Begin(what, id),
         \/ what # "save" /\ busy' = id /\ editor' = editor
         \/ what = "save" /\ id = None /\ busy' = busy /\ editor' = "saving"
  PROVE  PanelInv'
<1>1. PICK r : r = [what |-> what, id |-> id, done |-> FALSE, own |-> TRUE]
  OBVIOUS
<1>2. JobsFit' /\ BagToSet(jobs') = BagToSet(jobs) \cup {r}
  BY <1>1, BeginFits DEF PanelInv
<1>3. r.what = what /\ r.id = id /\ r.own
  BY <1>1
<1>4. BusyFits'
  <2>1. CASE busy' = id
    BY <1>2, <1>3, <2>1 DEF BusyFits
  <2>2. CASE busy' = busy
    BY <1>2, <2>2 DEF PanelInv, BusyFits
  <2> QED
    BY <2>1, <2>2
<1>5. EditorFits'
  <2>1. CASE editor' = editor
    BY <1>2, <2>1 DEF PanelInv, EditorFits
  <2>2. CASE what = "save" /\ editor' = "saving"
    BY <1>2, <1>3, <2>2 DEF EditorFits
  <2> QED
    BY <2>1, <2>2
<1> QED
  BY <1>2, <1>4, <1>5, ReadsStay DEF PanelInv

LEMMA ChangesBegin ==
  ASSUME PanelInv,
         \/ \E id \in Items, closing \in BOOLEAN : Act(id, closing)
         \/ Unlist \/ Save \/ CreateKey
  PROVE  PanelInv'
<1>1. CASE \E id \in Items, closing \in BOOLEAN : Act(id, closing)
  <2>1. PICK id \in Items, closing \in BOOLEAN : Act(id, closing)
    BY <1>1
  <2>2. PICK what \in {"act", "delete"} : what = IF closing THEN "delete" ELSE "act"
    OBVIOUS
  <2>3. /\ Begin(what, id) /\ busy' = id
        /\ UNCHANGED <<tab, visible, poll, reads, shown, deleting, editor, link, live>>
    BY <2>1, <2>2 DEF Act, hookVars, streamVars
  <2>4. TabFits'
    BY <2>3, TabStays DEF PanelInv
  <2> QED
    BY <2>2, <2>3, <2>4, BeginHolds
<1>2. CASE Unlist
  <2>1. /\ Begin("remove", deleting) /\ busy' = deleting
        /\ UNCHANGED <<tab, visible, poll, reads, shown, deleting, editor, link, live>>
    BY <1>2 DEF Unlist, hookVars, streamVars
  <2>2. TabFits' /\ deleting \in Items \cup {None, NewKey}
    BY <2>1, TabStays DEF PanelInv, TabFits
  <2> QED
    BY <2>1, <2>2, BeginHolds
<1>3. CASE Save
  <2>1. /\ Begin("save", None) /\ editor' = "saving" /\ busy' = busy
        /\ UNCHANGED <<tab, visible, poll, reads, shown, deleting, link, live>>
    BY <1>3 DEF Save, hookVars, streamVars
  <2>2. TabFits'
    BY <2>1, TabStays DEF PanelInv
  <2> QED
    BY <2>1, <2>2, BeginHolds
<1>4. CASE CreateKey
  <2>1. /\ Begin("create", NewKey) /\ busy' = NewKey
        /\ UNCHANGED <<tab, visible, poll, reads, shown, deleting, editor, link, live>>
    BY <1>4 DEF CreateKey, hookVars, streamVars
  <2>2. TabFits'
    BY <2>1, TabStays DEF PanelInv
  <2> QED
    BY <2>1, <2>2, BeginHolds
<1> QED
  BY <1>1, <1>2, <1>3, <1>4

(* What is asked about, and an editor that opens.                          *)
LEMMA QuestionsHold ==
  ASSUME PanelInv, (\E id \in Items : AskDelete(id)) \/ Keep \/ OpenEditor
  PROVE  PanelInv'
<1>1. /\ UNCHANGED <<tab, visible, poll, reads, shown, jobs, busy, link, live>>
      /\ deleting' \in Items \cup {None}
      /\ editor' \in {editor, "open"}
  BY DEF AskDelete, Keep, OpenEditor, hookVars, streamVars, PanelInv, TabFits
<1>2. TabFits'
  BY <1>1 DEF PanelInv, TabFits, Seen
<1>3. JobsFit' /\ BusyFits'
  BY <1>1 DEF PanelInv, JobsFit, BusyFits, JobRecs, Jobs
<1>4. EditorFits'
  BY <1>1 DEF PanelInv, EditorFits
<1> QED
  BY <1>1, <1>2, <1>3, <1>4, ReadsStay DEF PanelInv

(* The saves of an editor that closes stay, as nobody's.                   *)
LEMMA DisownedFits ==
  ASSUME NEW bag, IsBag(bag), BagToSet(bag) \subseteq JobRecs
  PROVE  /\ IsBag(Disowned(bag)) /\ BagToSet(Disowned(bag)) \subseteq JobRecs
         /\ BagCardinality(Disowned(bag)) <= BagCardinality(bag)
         /\ \A job \in BagToSet(bag) : \E left \in BagToSet(Disowned(bag)) : left.id = job.id
<1> DEFINE Own == {job \in BagToSet(bag) : job.what = "save" /\ job.own}
           Nobodys == {[job EXCEPT !.own = FALSE] : job \in Own}
           f == [job \in Own |-> [job EXCEPT !.own = FALSE]]
<1>1. IsFiniteSet(Own)
  <2>1. IsFiniteSet(BagToSet(bag)) /\ Own \in SUBSET BagToSet(bag)
    BY DEF IsBag, BagToSet
  <2> QED
    BY <2>1, FS_Subset
<1>2. f \in Surjection(Own, Nobodys)
  BY DEF Surjection
<1>3. IsFiniteSet(Nobodys) /\ Cardinality(Nobodys) <= Cardinality(Own)
  BY <1>1, <1>2, FS_Surjection
<1>4. Nobodys \subseteq JobRecs
  BY DEF JobRecs, Jobs
<1>5. \A job \in Own : \E left \in Nobodys : left.id = job.id
  <2> SUFFICES ASSUME NEW job \in Own PROVE \E left \in Nobodys : left.id = job.id
    OBVIOUS
  <2>1. job \in JobRecs
    OBVIOUS
  <2>2. [job EXCEPT !.own = FALSE].id = job.id
    BY <2>1 DEF JobRecs, Jobs
  <2>3. [job EXCEPT !.own = FALSE] \in Nobodys
    OBVIOUS
  <2> QED
    BY <2>2, <2>3
<1>6. Disowned(bag) = (bag (-) SetToBag(Own)) (+) SetToBag(Nobodys)
  BY Zenon DEF Disowned
<1>7. Own \subseteq BagToSet(bag)
  OBVIOUS
<1> HIDE DEF Own, Nobodys, f
<1>8. PICK C : C = bag (-) SetToBag(Own)
  OBVIOUS
<1>9. /\ IsBag(C) /\ BagToSet(C) \subseteq BagToSet(bag)
      /\ BagToSet(bag) \ Own \subseteq BagToSet(C)
      /\ BagCardinality(C) = BagCardinality(bag) - Cardinality(Own)
  BY <1>7, <1>8, SetTaken
<1>10. PICK D : D = Disowned(bag)
  OBVIOUS
<1>11. /\ IsBag(D) /\ BagToSet(D) = BagToSet(C) \cup Nobodys
       /\ BagCardinality(D) = BagCardinality(C) + Cardinality(Nobodys)
  BY <1>3, <1>6, <1>8, <1>9, <1>10, SetGiven
<1>12. BagCardinality(D) <= BagCardinality(bag)
  <2>1. BagCardinality(bag) \in Nat /\ Cardinality(Own) \in Nat /\ Cardinality(Nobodys) \in Nat
    BY <1>1, <1>3, CountIsNat, FS_CardinalityType
  <2> QED
    BY <1>3, <1>9, <1>11, <2>1
<1>13. \A job \in BagToSet(bag) : \E left \in BagToSet(D) : left.id = job.id
  BY <1>5, <1>9, <1>11
<1>14. BagToSet(D) \subseteq JobRecs
  BY <1>4, <1>9, <1>11
<1> QED
  BY <1>10, <1>11, <1>12, <1>13, <1>14

LEMMA CloseEditorHolds ==
  ASSUME PanelInv, CloseEditor
  PROVE  PanelInv'
<1>1. /\ editor' = "closed" /\ jobs' = Disowned(jobs)
      /\ UNCHANGED <<tab, visible, poll, reads, shown, busy, deleting, link, live>>
  BY DEF CloseEditor, hookVars, streamVars
<1>2. /\ IsBag(jobs') /\ BagToSet(jobs') \subseteq JobRecs
      /\ BagCardinality(jobs') <= BagCardinality(jobs)
      /\ \A job \in BagToSet(jobs) : \E left \in BagToSet(jobs') : left.id = job.id
  BY <1>1, DisownedFits DEF PanelInv, JobsFit
<1>3. JobsFit'
  <2>1. BagCardinality(jobs) \in Nat /\ BagCardinality(jobs') \in Nat
    BY <1>2, CountIsNat DEF PanelInv, JobsFit
  <2>2. BagCardinality(jobs') <= MaxJobs
    BY <1>2, <2>1, PanelAssumption DEF PanelInv, JobsFit
  <2> QED
    BY <1>2, <2>2 DEF JobsFit, JobRecs, Jobs
<1>4. BusyFits'
  BY <1>1, <1>2 DEF PanelInv, BusyFits
<1>5. EditorFits'
  BY <1>1 DEF EditorFits
<1> QED
  BY <1>1, <1>3, <1>4, <1>5, TabStays, ReadsStay DEF PanelInv

LEMMA PerformHolds ==
  ASSUME PanelInv, NEW job \in BagToSet(jobs), Perform(job)
  PROVE  PanelInv'
<1>1. /\ jobs' = Swap(jobs, job, [job EXCEPT !.done = TRUE])
      /\ UNCHANGED <<tab, visible, poll, reads, shown, busy, deleting, editor, link, live>>
  BY DEF Perform, hookVars, streamVars
<1>2. job \in JobRecs /\ IsBag(jobs) /\ BagToSet(jobs) \subseteq JobRecs
  BY DEF PanelInv, JobsFit
<1>3. PICK r : r = [job EXCEPT !.done = TRUE]
  OBVIOUS
<1>4. r \in JobRecs /\ r.id = job.id /\ r.what = job.what /\ r.own = job.own
  BY <1>2, <1>3 DEF JobRecs, Jobs
<1>5. PICK C : C = jobs (-) One(job)
  OBVIOUS
<1>6. /\ IsBag(C) /\ BagToSet(C) \subseteq BagToSet(jobs)
      /\ BagToSet(jobs) \ {job} \subseteq BagToSet(C)
      /\ BagCardinality(C) = BagCardinality(jobs) - 1
  BY <1>2, <1>5, OneLessOf
<1>7. jobs' = C (+) One(r)
  BY <1>1, <1>3, <1>5 DEF Swap
<1>8. /\ IsBag(jobs') /\ BagToSet(jobs') = BagToSet(C) \cup {r}
      /\ BagCardinality(jobs') = BagCardinality(C) + 1
  BY <1>6, <1>7, OneMoreOf
<1>9. JobsFit'
  <2>1. BagToSet(jobs') \subseteq JobRecs
    BY <1>2, <1>4, <1>6, <1>8
  <2>2. BagCardinality(jobs) \in Nat
    BY <1>2, CountIsNat
  <2>3. BagCardinality(jobs') <= MaxJobs
    BY <1>6, <1>8, <2>2 DEF PanelInv, JobsFit
  <2> QED
    BY <1>8, <2>1, <2>3 DEF JobsFit, JobRecs, Jobs
<1>10. \A k \in BagToSet(jobs) : \E left \in BagToSet(jobs') :
         left.id = k.id /\ left.what = k.what /\ left.own = k.own
  BY <1>4, <1>6, <1>8
<1>11. BusyFits'
  BY <1>1, <1>10 DEF PanelInv, BusyFits
<1>12. EditorFits'
  <2>1. EditorFits
    BY DEF PanelInv
  <2>2. editor = "saving" => \E left \in BagToSet(jobs') : left.what = "save" /\ left.own
    <3> SUFFICES ASSUME editor = "saving"
                 PROVE  \E left \in BagToSet(jobs') : left.what = "save" /\ left.own
      OBVIOUS
    <3>1. PICK k \in BagToSet(jobs) : k.what = "save" /\ k.own
      BY <2>1 DEF EditorFits
    <3>2. PICK left \in BagToSet(jobs') : left.what = k.what /\ left.own = k.own
      BY <1>10
    <3> QED
      BY <3>1, <3>2
  <2> QED
    BY <1>1, <2>1, <2>2 DEF EditorFits
<1> QED
  BY <1>1, <1>9, <1>11, <1>12, TabStays, ReadsStay DEF PanelInv

(* The one that returns is not busy any more, or was nobody's item.        *)
LEMMA ReturnHolds ==
  ASSUME PanelInv, NEW job \in BagToSet(jobs), NEW ok \in BOOLEAN, Return(job, ok)
  PROVE  PanelInv'
<1>1. PICK left : left = jobs (-) One(job)
  OBVIOUS
<1>2. /\ busy' = Unbusy(job, ok) /\ editor' = EditorAfter(job, ok)
      /\ jobs' = IF editor' = "closed" THEN Disowned(left) ELSE left
      /\ deleting' = IF job.what = "remove" THEN None ELSE deleting
      /\ (\E c \in BOOLEAN : Refresh(c)) \/ UNCHANGED <<reads, shown>>
      /\ UNCHANGED <<tab, visible, poll, link, live>>
  BY <1>1 DEF Return, streamVars
<1>3. job \in JobRecs /\ IsBag(jobs) /\ BagToSet(jobs) \subseteq JobRecs
  BY DEF PanelInv, JobsFit
<1>4. /\ IsBag(left) /\ BagToSet(left) \subseteq BagToSet(jobs)
      /\ BagToSet(jobs) \ {job} \subseteq BagToSet(left)
      /\ BagCardinality(left) = BagCardinality(jobs) - 1
  BY <1>1, <1>3, OneLessOf
<1>5. /\ IsBag(jobs') /\ BagToSet(jobs') \subseteq JobRecs
      /\ BagCardinality(jobs') <= BagCardinality(left)
      /\ \A k \in BagToSet(left) : \E l \in BagToSet(jobs') : l.id = k.id
  <2>1. BagToSet(left) \subseteq JobRecs /\ BagCardinality(left) \in Nat
    BY <1>3, <1>4, CountIsNat
  <2>2. CASE editor' = "closed"
    BY <1>2, <1>4, <2>1, <2>2, DisownedFits
  <2>3. CASE editor' # "closed"
    BY <1>2, <1>4, <2>1, <2>3
  <2> QED
    BY <2>2, <2>3
<1>6. JobsFit'
  <2>1. BagCardinality(jobs) \in Nat /\ BagCardinality(jobs') \in Nat
    BY <1>3, <1>5, CountIsNat
  <2>2. BagCardinality(jobs') <= MaxJobs
    BY <1>4, <1>5, <2>1, PanelAssumption DEF PanelInv, JobsFit
  <2> QED
    BY <1>5, <2>2 DEF JobsFit, JobRecs, Jobs
<1>7. BusyFits'
  <2>1. CASE job.what # "save"
    BY <1>2, <2>1 DEF Unbusy, BusyFits
  <2>2. CASE job.what = "save"
    <3>1. busy' = busy
      BY <1>2, <2>2 DEF Unbusy
    <3>2. \A k \in BagToSet(jobs) : k.id # None => k # job
      BY <1>3, <2>2 DEF JobRecs
    <3> QED
      BY <1>4, <1>5, <3>1, <3>2 DEF PanelInv, BusyFits
  <2> QED
    BY <2>1, <2>2
<1>8. EditorFits'
  BY <1>2, <1>4, <1>5 DEF EditorAfter, PanelInv, EditorFits
<1>9. TabFits'
  BY <1>2 DEF PanelInv, TabFits, Seen
<1>10. ReadsFit' /\ ShownFits'
  BY <1>2, RefreshFits, ReadsStay DEF PanelInv
<1> QED
  BY <1>6, <1>7, <1>8, <1>9, <1>10 DEF PanelInv

LEMMA StreamHolds ==
  ASSUME PanelInv, DataTypeOK, Drop \/ Streams
  PROVE  PanelInv'
<1>1. /\ UNCHANGED <<tab, visible, poll, reads, shown, jobs, busy, deleting, editor>>
      /\ link' \in {"off", "trying", "open", "waiting"} /\ live' \in Seen
  BY DEF PanelInv, TabFits, Drop, Streams, Connect, Retry, Push, Link, hookVars, dialogVars,
         DataTypeOK, Seen
<1>2. TabFits'
  BY <1>1 DEF PanelInv, TabFits, Seen
<1> QED
  BY <1>1, <1>2, ReadsStay, JobsStay DEF PanelInv

LEMMA PanelHoldsOn ==
  ASSUME PanelInv, DataTypeOK, PanelsNext
  PROVE  PanelInv'
<1>1. CASE UserOfPanels
  <2>1. CASE Hide \/ Show \/ Demand
    BY <2>1, LookHolds
  <2>2. CASE \E t \in Tabs : Mount(t)
    BY <2>2, MountHolds
  <2>3. CASE \E reloaded \in BOOLEAN : Leave(reloaded)
    BY <2>3, LeaveHolds
  <2>4. CASE (\E id \in Items : AskDelete(id)) \/ Keep \/ OpenEditor
    BY <2>4, QuestionsHold
  <2>5. CASE \/ \E id \in Items, closing \in BOOLEAN : Act(id, closing)
             \/ Unlist \/ Save \/ CreateKey
    BY <2>5, ChangesBegin
  <2>6. CASE CloseEditor
    BY <2>6, CloseEditorHolds
  <2> QED
    BY <1>1, <2>1, <2>2, <2>3, <2>4, <2>5, <2>6, Zenon DEF UserOfPanels
<1>2. CASE Poll
  BY <1>2, LookHolds
<1>3. CASE \E ms \in Polls : PollLoaded(ms) \/ SavePoll(ms)
  BY <1>3, PollLoadedHolds, SavePollHolds
<1>4. CASE Serves
  BY <1>4, ServeHolds DEF Serves
<1>5. CASE Answers
  BY <1>5, AnswerHolds DEF Answers
<1>6. CASE \E job \in BagToSet(jobs) : Perform(job)
  BY <1>6, PerformHolds
<1>7. CASE Returns
  BY <1>7, ReturnHolds DEF Returns
<1>8. CASE Drop \/ Streams
  BY <1>8, StreamHolds
<1> QED
  BY <1>1, <1>2, <1>3, <1>4, <1>5, <1>6, <1>7, <1>8, Zenon DEF PanelsNext

-----------------------------------------------------------------------------
(* The types of the others. *)

(* The router's page moves by its own actions, and only the router itself  *)
(* starts and stops.                                                       *)
LEMMA PanelMoves ==
  ASSUME [Next]_vars
  PROVE  /\ PanelsNext \/ UNCHANGED panelVars
         /\ up' = up \/ up' = ~up
<1>1. CASE Page /\ PanelsNext
  <2>1. UserOfPanels => UNCHANGED up
    BY DEF UserOfPanels, Hide, Show, Demand, Mount, Leave, AskDelete, Act, Keep, Unlist,
       OpenEditor, CloseEditor, Save, CreateKey, dataVars
  <2>2. Poll \/ (\E ms \in Polls : PollLoaded(ms) \/ SavePoll(ms)) => UNCHANGED up
    BY DEF Poll, PollLoaded, SavePoll, dataVars
  <2>3. Serves \/ Answers \/ Returns \/ Drop \/ Streams => UNCHANGED up
    BY DEF Serves, Serve, Answers, Answer, Returns, Return, Drop, Streams, Connect, Retry,
       Link, Push, dataVars
  <2>4. (\E job \in BagToSet(jobs) : Perform(job)) => UNCHANGED up
    BY DEF Perform
  <2> QED
    BY <1>1, <2>1, <2>2, <2>3, <2>4 DEF PanelsNext
<1>2. CASE Around /\ UNCHANGED panelVars
  BY <1>2 DEF Around, Outside, Flips
<1>3. CASE Prompt /\ CommandsNext
  <2>1. UNCHANGED up
    BY <1>3 DEF CommandsNext, Run, Serving, Settled, Failed, Listed, Catalogued, Joined, AskAgain,
       Shows, PickOver, Reload, Setup, Tick, dataVars
  <2> QED
    BY <1>3, <2>1 DEF Prompt
<1>4. CASE Prompt /\ Around
  BY <1>4 DEF Prompt, Around, Outside, Flips
<1>5. CASE UNCHANGED Router
  BY <1>5 DEF Router, dataVars
<1>6. CASE UNCHANGED vars
  BY <1>6 DEF vars, dataVars
<1> QED
  BY <1>1, <1>2, <1>3, <1>4, <1>5, <1>6 DEF Next, FilesOnly, Work, Restoring, Replays

LEMMA DataHolds ==
  ASSUME DataTypeOK, [Next]_vars
  PROVE  DataTypeOK'
<1>1. table' = table \/ (table < MaxChanges /\ table' = table + 1)
  BY RouterMoves DEF dataVars
<1>2. table' \in Versions
  BY <1>1, DataAssumption DEF DataTypeOK, Versions
<1>3. up' \in BOOLEAN
  BY PanelMoves DEF DataTypeOK
<1> QED
  BY <1>2, <1>3 DEF DataTypeOK, Versions

LEMMA PanelStays == PanelInv /\ UNCHANGED panelVars => PanelInv'
<1> SUFFICES ASSUME PanelInv, UNCHANGED panelVars PROVE PanelInv'
  OBVIOUS
<1>1. UNCHANGED <<tab, visible, poll, reads, shown, jobs, busy, deleting, editor, link, live>>
  BY DEF panelVars, hookVars, dialogVars, streamVars
<1> QED
  BY <1>1, TabStays, ReadsStay, JobsStay DEF PanelInv

(* The command under way. *)
CmdFits == cmd \in Commands \cup {"none", "picking", "dead", Again}

LEMMA CmdHolds ==
  ASSUME CmdFits, [Next]_vars
  PROVE  CmdFits'
<1>1. CASE UNCHANGED cmd
  BY <1>1 DEF CmdFits, Commands, Pickers, Lists, Uncached, Again
<1>2. ASSUME NEW c \in Commands, Run(c) PROVE CmdFits'
  BY <1>2 DEF CmdFits, Run, Commands, Pickers, Lists, Uncached, Again
<1>3. ASSUME AskAgain \/ PickOver PROVE CmdFits'
  BY <1>3 DEF CmdFits, AskAgain, PickOver
<1>4. ASSUME NEW where \in {"none", "picking", "dead"}, Shows(where) PROVE CmdFits'
  BY <1>4 DEF CmdFits, Shows
<1>5. ASSUME \/ \E w \in Wanted : Serving(w) \/ Settled(w) \/ Failed(w)
             \/ \E l \in Lists : Listed(l)
             \/ Catalogued \/ Joined \/ Reload \/ Setup \/ Tick
      PROVE  UNCHANGED cmd
  BY <1>5 DEF Serving, Settled, Failed, Listed, Catalogued, Joined, Reload, Setup, Tick
<1>6. CommandsNext \/ UNCHANGED commandVars
  BY RouterMoves, Zenon
<1>7. UNCHANGED commandVars => UNCHANGED cmd
  BY DEF commandVars
<1> QED
  BY <1>1, <1>2, <1>3, <1>4, <1>5, <1>6, <1>7, Zenon DEF CommandsNext

LEMMA CommandTypes == CommandInv /\ CmdFits => CommandsTypeOK
<1> SUFFICES ASSUME CommandInv, CmdFits PROVE CommandsTypeOK
  OBVIOUS
<1>1. since \in Versions
  BY DataAssumption DEF CommandInv, ClockInv, Versions
<1>2. (\A l \in Lists : native[l] \in Entries) /\ models \in Entries
  BY DEF CommandInv, CacheTypes
<1> QED
  BY <1>1, <1>2, Zenon DEF CmdFits, CommandsTypeOK

-----------------------------------------------------------------------------
(* What an update is about to write has the keys of its file.              *)
FilesFit ==
  /\ spoiled \subseteq Files /\ saves <= MaxSaves /\ faults \in 0..MaxFaults
  /\ \A f \in Files : disk[f] # Torn => DOMAIN disk[f] = DOMAIN Unset[f]
  /\ \A u \in updates : /\ u.nr # 0
                        /\ u.at # "read" => DOMAIN u.next = DOMAIN Unset[u.file]

LEMMA FilesInit == Init => FilesFit
  BY SettingsAssumption DEF Init, InitSettings, FilesFit, Files

LEMMA SettingTypes == SettingsInv /\ FilesFit => SettingsTypeOK
<1> SUFFICES ASSUME SettingsInv, FilesFit PROVE SettingsTypeOK
  OBVIOUS
<1>1. \A u \in updates : u.nr \in 1..saves /\ u.at \in {"read", "write", "fill"}
  BY DEF SettingsInv, FilesFit, IsUpdate
<1>2. saves \in 0..MaxSaves
  BY SettingsAssumption DEF SettingsInv, FilesFit
<1>3. DOMAIN disk = Files
  BY DEF SettingsInv
<1> QED
  BY <1>1, <1>2, <1>3 DEF SettingsInv, FilesFit, SettingsTypeOK

LEMMA FilesStay ==
  ASSUME FilesFit, UNCHANGED <<disk, updates, saves, faults, spoiled>>
  PROVE  FilesFit'
  BY DEF FilesFit

LEMMA UpdateFits ==
  ASSUME SettingsInv, FilesFit, NEW f \in Files, NEW by, NEW patch, Update(f, by, patch)
  PROVE  FilesFit'
<1>1. PICK u : u = [nr |-> New, file |-> f, by |-> by, patch |-> patch,
                    at |-> "read", next |-> Torn]
  OBVIOUS
<1>2. /\ saves < MaxSaves /\ saves' = saves + 1 /\ updates' = updates \cup {u}
      /\ disk' = disk /\ faults' = faults
      /\ spoiled' = spoiled \/ spoiled' = spoiled \cup {f}
  BY <1>1 DEF Update
<1>3. u.nr = saves + 1 /\ u.at = "read"
  BY <1>1 DEF New
<1>4. saves' <= MaxSaves /\ u.nr # 0
  BY <1>2, <1>3, SettingsAssumption DEF SettingsInv
<1>5. spoiled' \subseteq Files
  BY <1>2 DEF FilesFit
<1> QED
  BY <1>2, <1>3, <1>4, <1>5 DEF FilesFit

LEMMA WriteFits ==
  ASSUME SettingsInv, FilesFit, NEW u \in updates, ReadFile(u) \/ Empty(u) \/ Fill(u)
  PROVE  FilesFit'
<1>1. IsUpdate(u) /\ u.nr # 0 /\ (u.at # "read" => DOMAIN u.next = DOMAIN Unset[u.file])
  BY DEF SettingsInv, FilesFit
<1>2. UNCHANGED <<saves, faults>> /\ (spoiled \subseteq Files => spoiled' \subseteq Files)
  BY <1>1 DEF ReadFile, Empty, Fill, IsUpdate
<1>3. CASE ReadFile(u)
  <2>1. PICK c \in Reads(u.file) : Becomes(u, [u EXCEPT !.at = "write", !.next = Patched(c, u.patch)])
    BY <1>3 DEF ReadFile
  <2>2. PICK n : n = Patched(c, u.patch)
    OBVIOUS
  <2>3. PICK v : v = [u EXCEPT !.at = "write", !.next = n]
    OBVIOUS
  <2>4. updates' = (updates \ {u}) \cup {v} /\ disk' = disk
    BY <1>3, <2>1, <2>2, <2>3 DEF ReadFile, Becomes
  <2>5. v.nr = u.nr /\ v.file = u.file /\ v.next = n
    BY <1>1, <2>3 DEF IsUpdate
  <2>6. DOMAIN c = DOMAIN Unset[u.file]
    BY <1>1, <2>1 DEF Reads, Contents, FilesFit, IsUpdate
  <2>7. DOMAIN n = DOMAIN Unset[u.file]
    BY <2>2, <2>6 DEF Patched
  <2> QED
    BY <1>1, <1>2, <2>4, <2>5, <2>7 DEF FilesFit
<1>4. CASE Empty(u)
  <2>1. PICK v : v = [u EXCEPT !.at = "fill"]
    OBVIOUS
  <2>2. PICK t : t = Torn
    OBVIOUS
  <2>3. /\ updates' = (updates \ {u}) \cup {v} /\ u.at = "write"
        /\ disk' = [disk EXCEPT ![u.file] = t]
    BY <1>4, <2>1, <2>2 DEF Empty, Becomes
  <2>4. v.nr = u.nr /\ v.file = u.file /\ v.next = u.next
    BY <1>1, <2>1 DEF IsUpdate
  <2>5. \A f \in Files : disk'[f] = disk[f] \/ disk'[f] = t
    BY <2>3 DEF SettingsInv
  <2>6. \A f \in Files : disk'[f] # Torn => DOMAIN disk'[f] = DOMAIN Unset[f]
    BY <2>2, <2>5 DEF FilesFit
  <2>7. \A w \in updates' : w.nr # 0 /\ (w.at # "read" => DOMAIN w.next = DOMAIN Unset[w.file])
    BY <1>1, <2>3, <2>4 DEF FilesFit
  <2> QED
    BY <1>2, <2>6, <2>7 DEF FilesFit
<1>5. CASE Fill(u)
  <2>1. /\ updates' = updates \ {u} /\ u.at = "fill"
        /\ disk' = [disk EXCEPT ![u.file] = u.next]
    BY <1>5 DEF Fill
  <2>2. \A f \in Files : disk'[f] = IF f = u.file THEN u.next ELSE disk[f]
    BY <2>1 DEF SettingsInv
  <2>3. \A f \in Files : disk'[f] # Torn => DOMAIN disk'[f] = DOMAIN Unset[f]
    BY <1>1, <2>1, <2>2 DEF FilesFit
  <2> QED
    BY <1>2, <2>1, <2>3 DEF FilesFit
<1> QED
  BY <1>3, <1>4, <1>5

LEMMA CutFits ==
  ASSUME SettingsInv, FilesFit, NEW U \in SUBSET updates,
         updates' \subseteq updates, spoiled' = spoiled \cup CutBy(U),
         faults < MaxFaults, faults' = faults + 1, UNCHANGED <<disk, saves>>
  PROVE  FilesFit'
<1>1. CutBy(U) \subseteq Files
  BY DEF CutBy, SettingsInv, IsUpdate
<1>2. faults' \in 0..MaxFaults
  BY SettingsAssumption DEF FilesFit
<1> QED
  BY <1>1, <1>2 DEF FilesFit

LEMMA FilesHold ==
  ASSUME SettingsInv, FilesFit, [Next]_vars
  PROVE  FilesFit'
<1>1. ASSUME NEW u \in updates, ReadFile(u) \/ Empty(u) \/ Fill(u) PROVE FilesFit'
  BY <1>1, WriteFits
<1>2. ASSUME NEW u \in updates, FailWrite(u) PROVE FilesFit'
  <2>1. {u} \in SUBSET updates
    OBVIOUS
  <2> QED
    BY <1>2, <2>1, CutFits DEF FailWrite
<1>3. ASSUME NEW process \in {"desktop", "cli"}, End(process) PROVE FilesFit'
  <2> DEFINE its == {u \in updates : Process(u.by) = process}
  <2>1. /\ updates' = updates \ its /\ spoiled' = spoiled \cup CutBy(its)
        /\ faults < MaxFaults /\ faults' = faults + 1 /\ UNCHANGED <<disk, saves>>
    BY <1>3 DEF End
  <2>2. PICK U \in SUBSET updates : U = its
    OBVIOUS
  <2> HIDE DEF its
  <2> QED
    BY <2>1, <2>2, CutFits
<1>4. "config" \in Files /\ "desktop" \in Files
  BY DEF Files, Unset
<1>5. ASSUME \/ \E edit \in Edits : SaveDefaults(edit)
             \/ \E clear \in BOOLEAN : SaveApp(clear)
             \/ PersistBounds \/ DefaultModel \/ Created
             \/ \E key \in {"model", "provider"} : SetDefault(key)
      PROVE  FilesFit'
  BY <1>4, <1>5, UpdateFits DEF SaveDefaults, SaveApp, PersistBounds, DefaultModel, Created,
     SetDefault
<1>6. ASSUME \/ \E s \in Sections : ShowForm(s)
             \/ LeavePage \/ StartCli \/ OpenDialog \/ Cancel \/ Create \/ NotCreated \/ Unlisted
             \/ \E choice \in Backends, host_1 \in Hosts : Detect(choice, host_1)
      PROVE  FilesFit'
  BY <1>6, FilesStay DEF ShowForm, LeavePage, StartCli, OpenDialog, Cancel, Create,
     NotCreated, Unlisted, Detect, DialogStep
<1>7. CASE UNCHANGED settingVars
  BY <1>7, FilesStay DEF settingVars
<1> QED
  BY <1>1, <1>2, <1>3, <1>5, <1>6, <1>7, Parts DEF SettingsNext

-----------------------------------------------------------------------------
(* The turns that the window was told of are turns of the session.         *)
TurnsFit ==
  /\ turns \in 0..MaxTurns /\ told.turns \in 0..turns
  /\ host \in {"idle", "running", "waiting"}
  /\ host # "idle" => turns < MaxTurns

LEMMA TurnsInit == Init => TurnsFit
  BY RewindDialogAssumption DEF Init, InitRewindDialog, HostSnapshot, TurnsFit

LEMMA TurnsHold ==
  ASSUME TurnsFit, [Next]_vars
  PROVE  TurnsFit'
<1>1. CASE BeginTurn \/ AskInTurn \/ AnswerInTurn
  BY <1>1 DEF TurnsFit, BeginTurn, AskInTurn, AnswerInTurn, HostTurns
<1>2. CASE FinishTurn
  BY <1>2, RewindDialogAssumption DEF TurnsFit, FinishTurn, HostTurns
<1>3. CASE Tell
  BY <1>3, RewindDialogAssumption DEF TurnsFit, Tell, HostSnapshot
<1>4. CASE UNCHANGED <<turns, told, host>>
  BY <1>4 DEF TurnsFit
<1>5. ASSUME \/ OpenRewind \/ CloseRewind \/ Restore
             \/ \E t \in 1..MaxTurns : Pick(t)
             \/ \E q \in requests : HandleRewind(q) \/ RewindAnswered(q)
      PROVE  UNCHANGED <<turns, told, host>>
  BY <1>5 DEF OpenRewind, CloseRewind, Restore, Pick, Ask, HandleRewind, RewindAnswered
<1>6. UNCHANGED rewindVars => UNCHANGED <<turns, told, host>>
  BY DEF rewindVars
<1> QED
  BY <1>1, <1>2, <1>3, <1>4, <1>5, <1>6, Parts DEF RewindNext

-----------------------------------------------------------------------------
(* The sessions that are listed, and the dialog of a task.                 *)
ListFits ==
  /\ listed \subseteq Sessions /\ active \in listed \cup {0}
  /\ active = 0 <=> listed = {}
  /\ modal = "team" => \E t \in Tasks : tasks[t].at = "dialog"
  /\ moved \cup excused \subseteq Tasks

LEMMA ListTypes == ListFits => WorkbenchTypeOK
  BY DEF ListFits, WorkbenchTypeOK, TasksAt

LEMMA ListInit == Init => ListFits
  BY WorkbenchAssumption DEF Init, InitWorkbench, ListFits

(* The sessions stay, and no dialog of a task is left.                     *)
LEMMA ListStays ==
  ASSUME ListFits, UNCHANGED <<listed, active>>,
         modal' # "team" \/ \E t \in Tasks : tasks'[t].at = "dialog",
         moved' \cup excused' \subseteq Tasks
  PROVE  ListFits'
  BY DEF ListFits

LEMMA ListHolds ==
  ASSUME WorkInv, ListFits, [Next]_vars
  PROVE  ListFits'
<1>1. \A p : TasksAt(p) \subseteq Tasks
  BY DEF TasksAt
<1>2. \A t \in Tasks : IsTask(tasks[t])
  BY DEF WorkInv
<1>3. ASSUME NEW t \in Tasks, TypeTask(t) \/ SubmitTask(t) \/ PickTeam(t) \/ CancelTeam(t)
      PROVE  ListFits'
  <2>1. UNCHANGED <<listed, active>> /\ modal' # "team"
    BY <1>3 DEF TypeTask, SubmitTask, PickTeam, CancelTeam, Composing, Covered
  <2>2. moved' \cup excused' \subseteq Tasks
    BY <1>1, <1>3 DEF TypeTask, SubmitTask, PickTeam, CancelTeam, ListFits
  <2> QED
    BY <2>1, <2>2, ListStays
<1>4. ASSUME NEW t \in Tasks, StartTask(t) PROVE ListFits'
  <2>1. /\ tasks[t].at = "sent"
        /\ UNCHANGED <<listed, active, modal, moved, excused>>
        /\ \E p \in {"run", "refused"} : tasks' = Put({t}, p)
    BY <1>4 DEF StartTask
  <2>2. PICK p \in {"run", "refused"} : Placed(tasks', {t}, p)
    BY <1>2, <2>1, PutFacts
  <2>3. \A u \in Tasks : tasks[u].at = "dialog" => tasks'[u].at = "dialog"
    BY <2>1, <2>2 DEF Placed
  <2> QED
    BY <2>1, <2>3 DEF ListFits
<1>5. ASSUME NEW t \in Tasks, NEW yes \in BOOLEAN, Suggested(t, yes) PROVE ListFits'
  <2>1. tasks[t].at = "asked" /\ UNCHANGED <<listed, active, moved, excused>>
    BY <1>5 DEF Suggested
  <2>2. CASE yes
    <3>1. PICK f : f = Put(TasksAt("dialog"), "lost")
      OBVIOUS
    <3>2. Placed(f, TasksAt("dialog"), "lost")
      BY <1>2, <3>1, PutFacts
    <3>3. tasks' = [f EXCEPT ![t].at = "dialog"]
      BY <1>5, <2>2, <3>1 DEF Suggested
    <3>4. tasks'[t].at = "dialog"
      BY <3>2, <3>3 DEF Placed, IsTask
    <3> QED
      BY <2>1, <3>4 DEF ListFits
  <2>3. CASE ~yes
    <3>1. tasks' = Put({t}, "sent") /\ UNCHANGED modal
      BY <1>5, <2>3 DEF Suggested
    <3>2. Placed(tasks', {t}, "sent")
      BY <1>2, <3>1, PutFacts
    <3>3. \A u \in Tasks : tasks[u].at = "dialog" => tasks'[u].at = "dialog"
      BY <2>1, <3>2 DEF Placed
    <3> QED
      BY <2>1, <3>1, <3>3 DEF ListFits
  <2> QED
    BY <2>2, <2>3
<1>6. ASSUME CloseModal \/ ToggleTeam \/ \E s \in Sessions : EndTask(s) \/ Snapshot(s)
      PROVE  ListFits'
  BY <1>6 DEF CloseModal, ToggleTeam, EndTask, Snapshot, ListFits
<1>7. ASSUME NEW kind \in {"session", "new"}, OpenModal(kind) PROVE ListFits'
  <2>1. UNCHANGED <<listed, active>> /\ modal' # "team"
    BY <1>7 DEF OpenModal
  <2>2. moved' \cup excused' \subseteq Tasks
    BY <1>1, <1>7 DEF OpenModal, ListFits
  <2> QED
    BY <2>1, <2>2, ListStays
<1>8. CASE LeaveAgents
  <2>1. /\ UNCHANGED <<listed, active, modal, moved>>
        /\ tasks' = Put(TasksAt("box"), "lost")
        /\ excused' = excused \cup UNION {TasksAt(p) : p \in {"box", "asked", "dialog"}}
    BY <1>8 DEF LeaveAgents
  <2>2. Placed(tasks', TasksAt("box"), "lost")
    BY <1>2, <2>1, PutFacts
  <2>3. \A u \in Tasks : tasks[u].at = "dialog" => tasks'[u].at = "dialog"
    BY <2>2 DEF Placed, TasksAt
  <2>4. UNION {TasksAt(p) : p \in {"box", "asked", "dialog"}} \subseteq Tasks
    BY <1>1
  <2>5. moved' \cup excused' \subseteq Tasks
    BY <2>1, <2>4 DEF ListFits
  <2> QED
    BY <2>1, <2>3, <2>5 DEF ListFits
<1>9. CloseSessionDialog => modal' # "team"
  BY DEF CloseSessionDialog, Closes
<1>10. CASE BackToAgents
  <2>1. UNCHANGED <<listed, active>> /\ modal' # "team"
    BY <1>9, <1>10 DEF BackToAgents
  <2>2. moved' \cup excused' \subseteq Tasks
    BY <1>1, <1>10 DEF BackToAgents, ListFits
  <2> QED
    BY <2>1, <2>2, ListStays
<1>11. Elsewhere => moved' \cup excused' \subseteq Tasks
  BY <1>1 DEF Elsewhere, ListFits
<1>12. ASSUME NEW s \in Sessions, SelectSession(s) PROVE ListFits'
  <2>1. s \in listed /\ active' = s /\ listed' = listed /\ modal' # "team"
    BY <1>9, <1>12 DEF SelectSession
  <2>2. moved' \cup excused' \subseteq Tasks
    BY <1>11, <1>12 DEF SelectSession
  <2>3. 0 \notin Sessions
    BY WorkbenchAssumption
  <2> QED
    BY <2>1, <2>2, <2>3 DEF ListFits
<1>13. ASSUME NEW s \in Sessions, RemoveSession(s) PROVE ListFits'
  <2>1. s \in listed /\ listed' = listed \ {s} /\ modal = "none" /\ modal' = "none"
    BY <1>13 DEF RemoveSession, Covered
  <2>2. 0 \notin Sessions
    BY WorkbenchAssumption
  <2>3. CASE active # s
    BY <1>13, <2>1, <2>2, <2>3 DEF RemoveSession, ListFits
  <2>4. CASE active = s /\ listed' # {}
    <3>1. active' \in listed' /\ Elsewhere
      BY <1>13, <2>4 DEF RemoveSession
    <3> QED
      BY <1>11, <2>1, <2>2, <3>1 DEF ListFits
  <2>5. CASE active = s /\ listed' = {}
    <3>1. active' = 0 /\ moved' = moved \cup TasksAt("asked")
          /\ excused' = excused \cup TasksAt("asked") \cup TasksAt("box")
      BY <1>13, <2>5 DEF RemoveSession
    <3> QED
      BY <1>1, <2>1, <2>5, <3>1 DEF ListFits
  <2> QED
    BY <2>3, <2>4, <2>5
<1>14. CASE UNCHANGED workVars
  BY <1>14 DEF workVars, ListFits
<1> QED
  BY <1>3, <1>4, <1>5, <1>6, <1>7, <1>8, <1>10, <1>12, <1>13, <1>14, Parts DEF WorkbenchNext

-----------------------------------------------------------------------------
(* Playbacks, and starts that may make one more.                           *)
Starts(cs) == {i \in DOMAIN cs : cs[i].op = "start"}

PlaysFit ==
  /\ Len(players) + Cardinality(Starts(calls)) <= MaxPlays
  /\ aborted \subseteq DOMAIN players

LEMMA StartsAre ==
  ASSUME NEW cs \in Seq(CallsToPlay)
  PROVE  IsFiniteSet(Starts(cs)) /\ Cardinality(Starts(cs)) \in Nat
<1>1. Len(cs) \in Nat /\ DOMAIN cs = 1..Len(cs)
  BY LenProperties
<1>2. Starts(cs) \in SUBSET (1..Len(cs))
  BY <1>1 DEF Starts
<1>3. IsFiniteSet(1..Len(cs))
  BY <1>1, FS_Interval
<1>4. IsFiniteSet(Starts(cs))
  BY <1>2, <1>3, FS_Subset
<1> QED
  BY <1>4, FS_CardinalityType

LEMMA PlaybackTypes ==
  ASSUME PlayTypes, PlaysFit
  PROVE  PlaybackTypeOK
<1>1. Len(players) <= MaxPlays
  <2>1. Len(players) \in Nat /\ Cardinality(Starts(calls)) \in Nat
    BY StartsAre, LenProperties DEF PlayTypes
  <2> QED
    BY <2>1, PlaybackAssumption DEF PlaysFit
<1>2. \A p \in DOMAIN players : players[p].sent \in 0..Length
  BY PlayerIs
<1> QED
  BY <1>1, <1>2 DEF PlaysFit, PlaybackTypeOK, PlayTypes

LEMMA PlaysStart == Init => PlaysFit
<1> SUFFICES ASSUME Init PROVE PlaysFit
  OBVIOUS
<1>1. players = <<>> /\ calls = <<>> /\ aborted = {}
  BY DEF Init, InitPlayback
<1>2. Starts(calls) = {}
  BY <1>1 DEF Starts
<1>3. Len(players) = 0 /\ Cardinality({}) = 0
  BY <1>1, FS_EmptySet
<1> QED
  BY <1>1, <1>2, <1>3, PlaybackAssumption DEF PlaysFit

(* Nothing is started, and none but playbacks are told to stop.            *)
LEMMA PlaysStay ==
  ASSUME PlaysFit, Len(players') = Len(players), DOMAIN players' = DOMAIN players,
         Starts(calls') = Starts(calls), aborted' \subseteq DOMAIN players
  PROVE  PlaysFit'
  BY DEF PlaysFit

(* The calls move up, and a start is one less.                             *)
LEMMA FirstIsTaken ==
  ASSUME PlayTypes, PlayTypes', calls # <<>>, calls' = Tail(calls)
  PROVE  /\ Cardinality(Starts(calls')) <= Cardinality(Starts(calls))
         /\ calls[1].op = "start" => Cardinality(Starts(calls')) <= Cardinality(Starts(calls)) - 1
<1>1. /\ IsFiniteSet(Starts(calls)) /\ Cardinality(Starts(calls)) \in Nat
      /\ IsFiniteSet(Starts(calls')) /\ Cardinality(Starts(calls')) \in Nat
  BY StartsAre DEF PlayTypes
<1>2. PICK f : f = [i \in Starts(calls') |-> i + 1]
  OBVIOUS
<1>3. PICK S : S = Starts(calls) \ {1}
  OBVIOUS
<1>4. /\ IsFiniteSet(S) /\ Cardinality(S) <= Cardinality(Starts(calls))
      /\ 1 \in Starts(calls) => Cardinality(S) = Cardinality(Starts(calls)) - 1
  <2>1. /\ IsFiniteSet(S)
        /\ Cardinality(S) = IF 1 \in Starts(calls) THEN Cardinality(Starts(calls)) - 1
                            ELSE Cardinality(Starts(calls))
    BY <1>1, <1>3, FS_RemoveElement
  <2> QED
    BY <1>1, <2>1
<1>5. \A i \in Starts(calls') : i \in Nat /\ i # 0 /\ i + 1 \in Starts(calls)
  BY CallIsTaken DEF Starts
<1>6. \A i \in Starts(calls') : f[i] \in S
  BY <1>2, <1>3, <1>5
<1>7. f \in [Starts(calls') -> S] /\ \A i, j \in Starts(calls') : f[i] = f[j] => i = j
  BY <1>2, <1>5, <1>6
<1>8. f \in Injection(Starts(calls'), S)
  BY <1>7 DEF Injection, IsInjective
<1>9. Cardinality(Starts(calls')) <= Cardinality(S)
  BY <1>4, <1>8, FS_Injection
<1>10. calls[1].op = "start" => 1 \in Starts(calls)
  BY CallIsTaken DEF Starts
<1>11. Cardinality(S) \in Nat
  BY <1>4, FS_CardinalityType
<1> QED
  BY <1>1, <1>4, <1>9, <1>10, <1>11

(* The calls that a page leaves behind.                                    *)
LEMMA CallsAtClose ==
  ASSUME PlayTypes, ClosePage
  PROVE  /\ DOMAIN calls \subseteq DOMAIN calls'
         /\ \A i \in DOMAIN calls : calls'[i].op = calls[i].op /\ calls'[i].of = calls[i].of
         /\ \A i \in DOMAIN calls' :
              \/ i \in DOMAIN calls
              \/ calls'[i].op = "stop" /\ calls'[i].of = page.status.of /\ StatusIs("playing")
<1> DEFINE D == [i \in DOMAIN calls |-> [calls[i] EXCEPT !.mine = FALSE]]
<1>1. PICK c : c = [op |-> "stop", of |-> page.status.of, mine |-> FALSE]
  OBVIOUS
<1>2. calls' = IF StatusIs("playing") THEN Append(D, c) ELSE D
  BY <1>1 DEF ClosePage
<1>3. /\ Len(calls) \in Nat /\ DOMAIN calls = 1..Len(calls)
      /\ \A i \in DOMAIN calls : calls[i] \in CallsToPlay
  BY ElementOfSeq, LenProperties DEF PlayTypes
<1>4. \A i \in 1..Len(calls) : [calls[i] EXCEPT !.mine = FALSE] \in CallsToPlay
  BY <1>3 DEF CallsToPlay
<1>5. D \in [1..Len(calls) -> CallsToPlay]
  BY <1>3, <1>4
<1>6. D \in Seq(CallsToPlay) /\ Len(D) = Len(calls) /\ DOMAIN D = DOMAIN calls
  BY <1>3, <1>5
<1>7. \A i \in DOMAIN calls : D[i].op = calls[i].op /\ D[i].of = calls[i].of
  BY <1>3 DEF CallsToPlay
<1> HIDE DEF D
<1>8. CASE StatusIs("playing")
  <2>1. IsOpened(page)
    BY <1>8, PageIs DEF StatusIs
  <2>2. c \in CallsToPlay /\ c.op = "stop" /\ c.of = page.status.of
    BY <1>1, <2>1 DEF CallsToPlay, IsOpened
  <2>3. calls' = Append(D, c)
    BY <1>2, <1>8
  <2>4. /\ calls' \in Seq(CallsToPlay) /\ Len(calls') = Len(D) + 1 /\ calls'[Len(D) + 1] = c
        /\ \A i \in 1..Len(D) : calls'[i] = D[i]
    BY <1>6, <2>2, <2>3, AppendProperties
  <2>5. DOMAIN calls' = 1..Len(calls')
    BY <2>4, LenProperties
  <2>6. \A i \in DOMAIN calls : i \in DOMAIN calls' /\ calls'[i] = D[i]
    BY <1>3, <1>6, <2>4, <2>5
  <2>7. \A i \in DOMAIN calls' : i \in DOMAIN calls \/ calls'[i] = c
    BY <1>3, <1>6, <2>4, <2>5
  <2> QED
    BY <1>7, <1>8, <2>2, <2>6, <2>7
<1>9. CASE ~StatusIs("playing")
  BY <1>2, <1>6, <1>7, <1>9
<1> QED
  BY <1>8, <1>9

(* What is told to stop, or said to play, is a playback.                   *)
NamesFit ==
  /\ \A i \in DOMAIN calls : calls[i].op = "stop" => calls[i].of # 0
  /\ StatusIs("playing") => page.status.of # 0

LEMMA NamesStart == Init => NamesFit
  BY DEF Init, InitPlayback, NamesFit, StatusIs, Closed

(* A message says something of a playback, or leaves the status.           *)
LEMMA StatusComes ==
  ASSUME PlayTypes, Receive, page.open
  PROVE  page'.status.of # 0 \/ page'.status = page.status
<1>1. PICK m : m = Head(wire)
  OBVIOUS
<1>2. m \in Messages /\ page' = Received(m)
  BY <1>1, MessageIsTaken DEF Receive
<1>3. m.of # 0
  BY <1>2 DEF Messages
<1>4. IsOpened(page)
  BY PageIs
<1>5. \A pg, seqs : DOMAIN pg = PageFields => Applied(pg, seqs).status = pg.status
  BY DEF Applied, PageFields
<1>6. DOMAIN page = PageFields
  BY <1>4 DEF IsOpened
<1>7. CASE page' = page
  BY <1>7
<1>8. CASE page' = Applied(page, <<m.seq>>)
  BY <1>5, <1>6, <1>8
<1>9. ASSUME NEW e, page' = [page EXCEPT !.early = e] PROVE page'.status = page.status
  BY <1>6, <1>9 DEF PageFields
<1>10. CASE page' = [page EXCEPT !.starting = FALSE, !.early = <<>>]
  BY <1>6, <1>10 DEF PageFields
<1>11. CASE page' = [page EXCEPT !.status = [of |-> m.of, state |-> m.state]]
  <2>1. PICK x : x = [of |-> m.of, state |-> m.state]
    OBVIOUS
  <2>2. x.of = m.of
    BY <2>1
  <2>3. page' = [page EXCEPT !.status = x]
    BY <1>11, <2>1
  <2>4. page'.status = x
    BY <1>6, <2>3 DEF PageFields
  <2> QED
    BY <1>3, <2>2, <2>4
<1>12. CASE page' = Applied([page EXCEPT !.starting = FALSE, !.early = <<>>,
                                         !.view = ReplayView(m.of),
                                         !.status = StatusAfter(page.status, m.of)],
                            EarlyOf(page, m.of))
  <2>1. PICK st, v, e : st = StatusAfter(page.status, m.of) /\ v = ReplayView(m.of)
                        /\ e = EarlyOf(page, m.of)
    OBVIOUS
  <2>2. PICK pg : pg = [page EXCEPT !.starting = FALSE, !.early = <<>>, !.view = v, !.status = st]
    OBVIOUS
  <2>3. page' = Applied(pg, e)
    BY <1>12, <2>1, <2>2
  <2>4. DOMAIN pg = PageFields /\ pg.status = st
    BY <1>6, <2>2 DEF PageFields
  <2>5. st.of = m.of
    BY <2>1 DEF StatusAfter
  <2> QED
    BY <1>3, <1>5, <2>3, <2>4, <2>5
<1>13. \/ page' = page \/ page' = Applied(page, <<m.seq>>)
       \/ \E e : page' = [page EXCEPT !.early = e]
       \/ page' = [page EXCEPT !.starting = FALSE, !.early = <<>>]
       \/ page' = [page EXCEPT !.status = [of |-> m.of, state |-> m.state]]
       \/ page' = Applied([page EXCEPT !.starting = FALSE, !.early = <<>>,
                                       !.view = ReplayView(m.of),
                                       !.status = StatusAfter(page.status, m.of)],
                          EarlyOf(page, m.of))
  <2>1. m.kind \in {"event", "status", "reply"} /\ page.starting \in BOOLEAN
    BY <1>2, <1>4 DEF Messages, IsOpened
  <2>2. CASE m.kind = "event" /\ page.starting
    BY <1>2, <2>2 DEF Received
  <2>3. CASE m.kind = "event" /\ ~page.starting
    BY <1>2, <2>3 DEF Received
  <2>4. CASE m.kind = "status"
    BY <1>2, <2>4 DEF Received
  <2>5. CASE m.kind = "reply" /\ ~players[m.of].mine
    BY <1>2, <2>5 DEF Received
  <2>6. CASE m.kind = "reply" /\ players[m.of].mine /\ m.state = "error"
    BY <1>2, <2>6 DEF Received
  <2>7. CASE m.kind = "reply" /\ players[m.of].mine /\ m.state # "error"
    BY <1>2, <2>7 DEF Received
  <2> QED
    BY <2>1, <2>2, <2>3, <2>4, <2>5, <2>6, <2>7
<1> QED
  BY <1>7, <1>8, <1>9, <1>10, <1>11, <1>12, <1>13

LEMMA NamesHold ==
  ASSUME PlayInv, NamesFit, [Next]_vars
  PROVE  NamesFit'
<1>1. PlayTypes
  BY DEF PlayInv
<1>2. CASE HandleStart \/ HandleStop
  <2>1. calls # <<>> /\ calls' = Tail(calls) /\ page' = page
    BY <1>2 DEF HandleStart, HandleStop
  <2> QED
    BY <1>1, <2>1, CallIsTaken DEF NamesFit, StatusIs
<1>3. CASE Receive
  <2>1. calls' = calls /\ (~page.open => page' = page)
    BY <1>3 DEF Receive
  <2>2. page.open => page'.status.of # 0 \/ page'.status = page.status
    BY <1>1, <1>3, StatusComes
  <2> QED
    BY <2>1, <2>2 DEF NamesFit, StatusIs
<1>4. CASE OpenPage
  <2>1. calls' = calls /\ page' = Opened
    BY <1>4 DEF OpenPage
  <2>2. page'.status.state = "none"
    BY <2>1 DEF Opened
  <2> QED
    BY <2>1, <2>2 DEF NamesFit, StatusIs
<1>5. ASSUME NEW p \in DOMAIN players, ReadLog(p) \/ FailRead(p) \/ Resume(p)
      PROVE  NamesFit'
  <2>1. calls' = calls /\ page' = page
    BY <1>5 DEF ReadLog, FailRead, Resume
  <2> QED
    BY <2>1 DEF NamesFit, StatusIs
<1>6. CASE Play
  <2>1. PICK c : c = [op |-> "start", of |-> 0, mine |-> TRUE]
    OBVIOUS
  <2>2. calls' = Append(calls, c) /\ c \in CallsToPlay /\ c.op = "start"
    BY <1>6, <2>1 DEF Play, CallsToPlay
  <2>3. \A i \in DOMAIN calls' : calls'[i] = c \/ (i \in DOMAIN calls /\ calls'[i] = calls[i])
    BY <1>1, <2>2, CallIsAdded
  <2>4. DOMAIN page = PageFields
    BY <1>1, <1>6, PageIs DEF Play, IsOpened
  <2>5. page.open /\ page'.status = page.status
    BY <1>6, <2>4 DEF Play, PageFields
  <2> QED
    BY <2>2, <2>3, <2>5 DEF NamesFit, StatusIs
<1>7. CASE Stop
  <2>1. PICK n : n = IF page.view.of # 0 THEN page.view.of ELSE page.status.of
    OBVIOUS
  <2>2. PICK c : c = [op |-> "stop", mine |-> TRUE, of |-> n]
    OBVIOUS
  <2>3. calls' = Append(calls, c) /\ page' = page /\ StatusIs("playing")
    BY <1>7, <2>1, <2>2 DEF Stop
  <2>4. n # 0
    BY <2>1, <2>3 DEF NamesFit
  <2>5. n \in Nat
    <3>1. IsOpened(page)
      BY <1>1, <2>3, PageIs DEF StatusIs
    <3> QED
      BY <2>1, <3>1 DEF IsOpened
  <2>6. c \in CallsToPlay /\ c.of = n
    BY <2>2, <2>5 DEF CallsToPlay
  <2>7. \A i \in DOMAIN calls' : calls'[i] = c \/ (i \in DOMAIN calls /\ calls'[i] = calls[i])
    BY <1>1, <2>3, <2>6, CallIsAdded
  <2> QED
    BY <2>3, <2>4, <2>6, <2>7 DEF NamesFit, StatusIs
<1>8. CASE ClosePage
  <2>1. page' = Closed
    BY <1>8 DEF ClosePage
  <2>2. ~StatusIs("playing")'
    BY <2>1 DEF StatusIs, Closed
  <2>3. \A i \in DOMAIN calls' :
          \/ i \in DOMAIN calls /\ calls'[i].op = calls[i].op /\ calls'[i].of = calls[i].of
          \/ calls'[i].of = page.status.of /\ StatusIs("playing")
    BY <1>1, <1>8, CallsAtClose
  <2> QED
    BY <2>2, <2>3 DEF NamesFit
<1>9. CASE UNCHANGED playVars
  BY <1>9 DEF playVars, NamesFit, StatusIs
<1> QED
  BY <1>2, <1>3, <1>4, <1>5, <1>6, <1>7, <1>8, <1>9, Parts DEF PlaybackNext

LEMMA PlaysHold ==
  ASSUME PlayInv, PlayInv', NamesFit, PlaysFit, [Next]_vars
  PROVE  PlaysFit'
<1>1. PlayTypes /\ PlayTypes'
  BY DEF PlayInv
<1>2. /\ IsFiniteSet(Starts(calls)) /\ Cardinality(Starts(calls)) \in Nat
      /\ Len(players) \in Nat /\ DOMAIN players = 1..Len(players)
      /\ aborted \subseteq DOMAIN players
      /\ Len(players) + Cardinality(Starts(calls)) <= MaxPlays
  BY <1>1, StartsAre, LenProperties DEF PlaysFit, PlayTypes
<1>3. /\ IsFiniteSet(Starts(calls')) /\ Cardinality(Starts(calls')) \in Nat
      /\ Len(players') \in Nat /\ DOMAIN players' = 1..Len(players')
  BY <1>1, StartsAre, LenProperties DEF PlayTypes
<1>4. current \in 0..Len(players)
  BY <1>1 DEF PlayTypes
<1>5. calls' = calls => Starts(calls') = Starts(calls)
  BY DEF Starts
<1>6. CASE HandleStart
  <2>1. /\ calls # <<>> /\ calls' = Tail(calls) /\ Head(calls).op = "start"
        /\ aborted' = IF current = 0 THEN aborted ELSE aborted \cup {current}
    BY <1>6 DEF HandleStart
  <2>2. calls[1].op = "start"
    BY <1>1, <2>1, CallIsTaken
  <2>3. Cardinality(Starts(calls')) <= Cardinality(Starts(calls)) - 1
    BY <1>1, <2>1, <2>2, FirstIsTaken
  <2>4. Len(players') = Len(players) + 1
    BY <1>1, <1>6, AppendProperties DEF HandleStart, PlayTypes
  <2>5. DOMAIN players \subseteq DOMAIN players'
    BY <1>2, <1>3, <2>4
  <2>6. aborted' \subseteq DOMAIN players'
    BY <1>2, <1>4, <2>1, <2>5
  <2>7. Len(players') + Cardinality(Starts(calls')) <= MaxPlays
    BY <1>2, <1>3, <2>3, <2>4, PlaybackAssumption
  <2> QED
    BY <2>6, <2>7 DEF PlaysFit
<1>7. CASE HandleStop
  <2>1. /\ calls # <<>> /\ calls' = Tail(calls) /\ Head(calls).op = "stop"
        /\ players' = players
        /\ aborted' = IF Head(calls).of = current THEN aborted \cup {current} ELSE aborted
    BY <1>7 DEF HandleStop
  <2>2. Cardinality(Starts(calls')) <= Cardinality(Starts(calls))
    BY <1>1, <2>1, FirstIsTaken
  <2>3. aborted' \subseteq DOMAIN players'
    <3>1. current = 0 \/ current \in DOMAIN players
      BY <1>2, <1>4
    <3>2. Head(calls).of = current => current # 0
      BY <1>1, <2>1, CallIsTaken DEF NamesFit
    <3> QED
      BY <1>2, <2>1, <3>1, <3>2
  <2>4. Len(players') + Cardinality(Starts(calls')) <= MaxPlays
    BY <1>2, <1>3, <2>1, <2>2, PlaybackAssumption
  <2> QED
    BY <2>3, <2>4 DEF PlaysFit
<1>8. CASE Receive \/ OpenPage
  BY <1>2, <1>5, <1>8, PlaysStay DEF Receive, OpenPage
<1>9. ASSUME NEW p \in DOMAIN players, ReadLog(p) \/ FailRead(p) \/ Resume(p)
      PROVE  PlaysFit'
  <2>1. PICK n, a, st, r : Spoke(p, n, a, st, r)
    BY <1>9, PlayerHolds
  <2>2. Len(players') = Len(players) /\ DOMAIN players' = DOMAIN players
    BY <1>1, <2>1, PlayersAfter
  <2>3. aborted' \subseteq aborted /\ calls' = calls
    BY <1>9 DEF ReadLog, FailRead, Resume, GetsTo
  <2> QED
    BY <1>2, <1>5, <2>2, <2>3, PlaysStay
<1>10. CASE Play
  <2>1. PICK c : c = [op |-> "start", of |-> 0, mine |-> TRUE]
    OBVIOUS
  <2>2. /\ calls' = Append(calls, c) /\ UNCHANGED <<aborted, players>>
        /\ Len(players) + Cardinality(Starts(calls)) < MaxPlays
    BY <1>10, <2>1 DEF Play, Starts
  <2>3. c \in CallsToPlay
    BY <2>1 DEF CallsToPlay
  <2>4. PICK last : /\ last \notin DOMAIN calls
                    /\ \A i \in DOMAIN calls' : i \in DOMAIN calls \/ i = last
                    /\ \A i \in DOMAIN calls : calls'[i] = calls[i]
    BY <1>1, <2>2, <2>3, CallIsAdded
  <2>5. PICK S : S = Starts(calls) \cup {last}
    OBVIOUS
  <2>6. IsFiniteSet(S) /\ Cardinality(S) <= Cardinality(Starts(calls)) + 1
    <3>1. /\ IsFiniteSet(S)
          /\ Cardinality(S) = IF last \in Starts(calls) THEN Cardinality(Starts(calls))
                              ELSE Cardinality(Starts(calls)) + 1
      BY <1>2, <2>5, FS_AddElement
    <3> QED
      BY <1>2, <3>1
  <2>7. Starts(calls') \in SUBSET S
    BY <2>4, <2>5 DEF Starts
  <2>8. Cardinality(Starts(calls')) <= Cardinality(S) /\ Cardinality(S) \in Nat
    BY <2>6, <2>7, FS_Subset, FS_CardinalityType
  <2>9. Len(players') + Cardinality(Starts(calls')) <= MaxPlays
    BY <1>2, <1>3, <2>2, <2>6, <2>8, PlaybackAssumption
  <2> QED
    BY <1>2, <2>2, <2>9 DEF PlaysFit
<1>11. CASE Stop
  <2>1. PICK c : c = [op |-> "stop", mine |-> TRUE,
                      of |-> IF page.view.of # 0 THEN page.view.of ELSE page.status.of]
    OBVIOUS
  <2>2. calls' = Append(calls, c) /\ UNCHANGED <<aborted, players>>
    BY <1>11, <2>1 DEF Stop
  <2>3. IsOpened(page)
    BY <1>1, <1>11, PageIs DEF Stop, StatusIs
  <2>4. c \in CallsToPlay /\ c.op = "stop"
    BY <2>1, <2>3 DEF CallsToPlay, IsOpened
  <2>5. PICK last \in DOMAIN calls' :
               /\ last \notin DOMAIN calls /\ calls'[last] = c
               /\ \A i \in DOMAIN calls' : i \in DOMAIN calls \/ i = last
               /\ \A i \in DOMAIN calls : i \in DOMAIN calls' /\ calls'[i] = calls[i]
    BY <1>1, <2>2, <2>4, CallIsAdded
  <2>6. Starts(calls') = Starts(calls)
    BY <2>4, <2>5 DEF Starts
  <2> QED
    BY <1>2, <2>2, <2>6, PlaysStay
<1>12. CASE ClosePage
  <2>1. /\ players' = [p \in DOMAIN players |-> [players[p] EXCEPT !.mine = FALSE]]
        /\ aborted' = aborted
    BY <1>12 DEF ClosePage
  <2>2. Starts(calls') = Starts(calls)
    BY <1>1, <1>12, CallsAtClose DEF Starts
  <2>3. DOMAIN players' = DOMAIN players
    BY <2>1
  <2>4. Len(players') = Len(players)
    <3>1. \A p \in 1..Len(players) : [players[p] EXCEPT !.mine = FALSE] \in Players
      BY <1>1, <1>2, PlayerIs DEF Players
    <3>2. players' \in [1..Len(players) -> Players]
      BY <1>2, <2>1, <3>1
    <3> QED
      BY <1>2, <3>2
  <2> QED
    BY <1>2, <2>1, <2>2, <2>3, <2>4, PlaysStay
<1>13. CASE UNCHANGED playVars
  BY <1>2, <1>5, <1>13, PlaysStay DEF playVars
<1> QED
  BY <1>6, <1>7, <1>8, <1>9, <1>10, <1>11, <1>12, <1>13, Parts DEF PlaybackNext

-----------------------------------------------------------------------------
(* All of it.                                                              *)
SoundInv ==
  /\ DataTypeOK /\ PanelInv /\ CommandInv /\ CmdFits /\ SettingsInv /\ FilesFit
  /\ WorkInv /\ ListFits /\ TurnsFit /\ PlayInv /\ PlaysFit /\ NamesFit

LEMMA SoundInit == Init => SoundInv
<1>1. Init => DataTypeOK /\ PanelInv
  BY PanelStarts, DataAssumption DEF Init, InitData, DataTypeOK, Versions
<1>2. Init => CmdFits
  BY DEF Init, InitCommands, CmdFits
<1> QED
  BY <1>1, <1>2, CommandInit, SettingsInit, FilesInit, WorkInit, ListInit, TurnsInit, PlayInit,
     PlaysStart, NamesStart DEF SoundInv

LEMMA SoundHolds == SoundInv /\ [Next]_vars => SoundInv'
<1> SUFFICES ASSUME SoundInv, [Next]_vars PROVE SoundInv'
  OBVIOUS
<1>1. PanelInv'
  BY PanelMoves, PanelHoldsOn, PanelStays DEF SoundInv
<1>2. DataTypeOK' /\ CommandInv' /\ CmdFits' /\ SettingsInv' /\ FilesFit'
  BY DataHolds, CommandHold, CmdHolds, SettingsHold, FilesHold DEF SoundInv
<1>3. WorkInv' /\ ListFits' /\ TurnsFit' /\ PlayInv'
  BY WorkHold, ListHolds, TurnsHold, PlayHold DEF SoundInv
<1>4. PlaysFit' /\ NamesFit'
  BY <1>3, PlaysHold, NamesHold DEF SoundInv
<1> QED
  BY <1>1, <1>2, <1>3, <1>4 DEF SoundInv

(* Whatever part is looked at, and whatever was done with it: everything   *)
(* is of its kind, and nothing of the router's page is stuck: a spinner, a *)
(* busy item and a saving editor have a request of their own under way     *)
(* (ConsoleIsSound).                                                       *)
THEOREM TheConsoleIsSound == Spec => []ConsoleIsSound
<1>1. TurnsFit => RewindTypeOK
  BY DEF TurnsFit, RewindTypeOK
<1>2. SoundInv => ConsoleIsSound
  <2> SUFFICES ASSUME SoundInv PROVE ConsoleIsSound
    OBVIOUS
  <2>1. DataTypeOK /\ PanelsTypeOK /\ NothingIsStuck
    BY PanelIsSound DEF SoundInv
  <2>2. CommandsTypeOK /\ SettingsTypeOK /\ WorkbenchTypeOK /\ RewindTypeOK
    BY <1>1, CommandTypes, SettingTypes, ListTypes DEF SoundInv
  <2>3. PlaybackTypeOK
    BY PlaybackTypes DEF SoundInv, PlayInv
  <2> QED
    BY <2>1, <2>2, <2>3 DEF ConsoleIsSound
<1> QED
  BY <1>2, SoundInit, SoundHolds, PTL DEF Spec
=============================================================================
