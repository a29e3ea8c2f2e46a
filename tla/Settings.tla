------------------------------ MODULE Settings ------------------------------
(***************************************************************************)
(* The two files of settings: config.json (config.ts), which the settings  *)
(* page of the desktop application and any command line write, and         *)
(* desktop.json (main/appState.ts), which the main process writes for the  *)
(* window's bounds, the settings page and the dialog of a new session.     *)
(*                                                                         *)
(* An update reads the file, empties it and fills it.  The updates of      *)
(* desktop.json wait for each other; those of config.json do not.  A file  *)
(* that is read while it is empty, or whose read fails, reads as if        *)
(* nothing were set.                                                       *)
(*                                                                         *)
(* Settings that are always written together are one key, and what is      *)
(* saved is the number of the save, except for the backend.  There is one  *)
(* command line, and one dialog, at a time.                                *)
(***************************************************************************)
EXTENDS Integers, Sequences

CONSTANTS
  MaxSaves,   \* bound: updates
  MaxFaults,  \* bound: writes that fail, and processes that end
  Envs        \* values of NINE_ROUTER_BACKEND

Backends == {"auto", "router", "direct"}

ASSUME SettingsAssumption ==
  /\ MaxSaves \in Nat /\ MaxFaults \in Nat
  /\ Envs \subseteq Backends

VARIABLES
  disk,     \* disk[f]: what file f holds, Torn if it is empty or cut
  updates,  \* the updates under way; nr: the order they were asked for in
  form,     \* form[s]: what a section of the settings page holds
  held,     \* what the command line read of config.json when it started
  dialog,   \* the dialog of a new session, and what it creates
  saves,    \* the updates asked for
  faults,   \* the faults so far
  kept,     \* kept[f]: the updates that were written, in their order (history)
  spoiled   \* the files that a fault or an overlap may have cost something
            \* (history)

settingVars == <<disk, updates, form, held, dialog, saves, faults, kept, spoiled>>

Unset == [config  |-> [model |-> 0, provider |-> 0, backend |-> "auto"],
          desktop |-> [window |-> 0, app |-> 0, recent |-> 0]]
Files == DOMAIN Unset
Torn == <<>>

Sections == {"defaults", "app"}
NoForm == [s \in Sections |-> Torn]
NoDialog == [at |-> "closed", backend |-> "auto"]

InitSettings ==
  /\ disk = Unset /\ kept = Unset /\ spoiled = {}
  /\ updates = {} /\ form = NoForm /\ held = Torn /\ dialog = NoDialog
  /\ saves = 0 /\ faults = 0

-----------------------------------------------------------------------------
(* An update of a file. *)

(* readUserConfig, readAppState: what is there, or the defaults if the     *)
(* read fails.                                                             *)
Contents(f) == IF disk[f] = Torn THEN Unset[f] ELSE disk[f]
Reads(f) == {Contents(f), Unset[f]}

(* { ...old, ...patch } *)
Patched(old, patch) == [k \in DOMAIN old |-> IF k \in DOMAIN patch THEN patch[k] ELSE old[k]]

Process(by) == IF by = "cli" THEN "cli" ELSE "desktop"
Busy(by) == \E u \in updates : u.by = by

New == saves + 1

(* updateUserConfig, updateAppState. *)
Update(f, by, patch) ==
  /\ saves < MaxSaves /\ saves' = saves + 1
  /\ updates' = updates \cup {[nr |-> New, file |-> f, by |-> by, patch |-> patch,
                               at |-> "read", next |-> Torn]}
  /\ spoiled' = IF f = "config" /\ \E u \in updates : u.file = f
                THEN spoiled \cup {f} ELSE spoiled
  /\ UNCHANGED <<disk, faults, kept>>

(* A mutation of HasTurn: no update waits. *)
HasTurnAlways(u) == TRUE

(* The chain of updateAppState; updateUserConfig has none. *)
HasTurn(u) == u.file = "desktop" => \A v \in updates : v.file = "desktop" => u.nr <= v.nr

Becomes(u, v) == updates' = (updates \ {u}) \cup {v}

(* A read that fails is not noticed: the update goes on from the defaults. *)
ReadFile(u) ==
  /\ HasTurn(u) /\ u.at = "read"
  /\ \E old \in Reads(u.file) :
       /\ Becomes(u, [u EXCEPT !.at = "write", !.next = Patched(old, u.patch)])
       /\ spoiled' = IF old = Contents(u.file) THEN spoiled ELSE spoiled \cup {u.file}
  /\ UNCHANGED <<disk, form, held, dialog, saves, faults, kept>>

(* writeFile: first it empties the file. *)
Empty(u) ==
  /\ u.at = "write"
  /\ Becomes(u, [u EXCEPT !.at = "fill"])
  /\ disk' = [disk EXCEPT ![u.file] = Torn]
  /\ UNCHANGED <<form, held, dialog, saves, faults, kept, spoiled>>

(* A section that is still shown takes over what it saved. *)
Fill(u) ==
  /\ u.at = "fill"
  /\ updates' = updates \ {u}
  /\ disk' = [disk EXCEPT ![u.file] = u.next]
  /\ kept' = [kept EXCEPT ![u.file] = Patched(@, u.patch)]
  /\ form' = IF u.by \in Sections /\ form[u.by] # Torn THEN [form EXCEPT ![u.by] = u.next] ELSE form
  /\ UNCHANGED <<held, dialog, saves, faults, spoiled>>

(* What is lost when the updates U stop half way. *)
CutBy(U) == {u.file : u \in {v \in U : v.at = "fill"}}

(* The write fails, of a full disk; the updates that wait go on. *)
FailWrite(u) ==
  /\ faults < MaxFaults /\ faults' = faults + 1
  /\ u.at \in {"write", "fill"}
  /\ updates' = updates \ {u} /\ spoiled' = spoiled \cup CutBy({u})
  /\ UNCHANGED <<disk, form, held, dialog, saves, kept>>

(* A process ends, with the updates it had not written. *)
End(process) ==
  LET its == {u \in updates : Process(u.by) = process} IN
  /\ faults < MaxFaults /\ faults' = faults + 1
  /\ updates' = updates \ its /\ spoiled' = spoiled \cup CutBy(its)
  /\ IF process = "cli" THEN held' = Torn /\ UNCHANGED <<form, dialog>>
     ELSE form' = NoForm /\ dialog' = NoDialog /\ UNCHANGED held
  /\ UNCHANGED <<disk, saves, kept>>

-----------------------------------------------------------------------------
(* The settings page (SettingsPage.tsx). *)

FileOf(s) == IF s = "defaults" THEN "config" ELSE "desktop"

(* useAsync has read the file, and the form shows it. *)
ShowForm(s) ==
  /\ form[s] = Torn
  /\ \E read \in Reads(FileOf(s)) : form' = [form EXCEPT ![s] = read]
  /\ UNCHANGED <<disk, updates, held, dialog, saves, faults, kept, spoiled>>

LeavePage ==
  /\ form # NoForm /\ form' = NoForm
  /\ UNCHANGED <<disk, updates, held, dialog, saves, faults, kept, spoiled>>

(* submit of DefaultsSection: every field, changed or not. *)
Edits == {[model |-> New], [provider |-> New]} \cup {[backend |-> b] : b \in Backends}

SaveDefaults(edit) ==
  /\ form["defaults"] # Torn /\ ~Busy("defaults")
  /\ Update("config", "defaults", Patched(form["defaults"], edit))
  /\ UNCHANGED <<form, held, dialog>>

(* apply of AppSection: its fields, or no recent directories. *)
SaveApp(clear) ==
  /\ form["app"] # Torn /\ ~Busy("app")
  /\ Update("desktop", "app", IF clear THEN [recent |-> 0] ELSE [app |-> New])
  /\ UNCHANGED <<form, held, dialog>>

(* persistBounds. *)
PersistBounds ==
  /\ Update("desktop", "bounds", [window |-> New])
  /\ UNCHANGED <<form, held, dialog>>

-----------------------------------------------------------------------------
(* The command line. *)

(* main reads the defaults. *)
StartCli ==
  /\ held = Torn /\ ~Busy("cli") /\ held' \in Reads("config")
  /\ UNCHANGED <<disk, updates, form, dialog, saves, faults, kept, spoiled>>

(* --set-default-model or --set-default-provider, perhaps after a picker:  *)
(* the other of the two is written as it was when the process started.     *)
SetDefault(key) ==
  /\ held # Torn /\ held' = Torn
  /\ Update("config", "cli", [k \in {"model", "provider"} |-> IF k = key THEN New ELSE held[k]])
  /\ UNCHANGED <<form, dialog>>

(* /default-model. *)
DefaultModel ==
  /\ held # Torn /\ ~Busy("cli")
  /\ Update("config", "cli", [model |-> New])
  /\ UNCHANGED <<form, held, dialog>>

-----------------------------------------------------------------------------
(* A new session (NewSessionDialog.tsx, sessionRegistry.ts). *)

DialogStep(record) ==
  /\ dialog' = record
  /\ UNCHANGED <<disk, updates, form, held, saves, faults, kept, spoiled>>

OpenDialog == dialog.at = "closed" /\ DialogStep([NoDialog EXCEPT !.at = "open"])

Cancel == dialog.at = "open" /\ DialogStep(NoDialog)

(* create: first assertDirectory. *)
Create == dialog.at = "open" /\ DialogStep([dialog EXCEPT !.at = "directory"])

(* There is no such directory, or no model to be had: the dialog says so   *)
(* and stays.                                                              *)
NotCreated == dialog.at \in {"directory", "unlisted"} /\ DialogStep([NoDialog EXCEPT !.at = "open"])

(* Where the application was started: NINE_ROUTER_BACKEND, and what the    *)
(* keys and addresses set suggest, "direct" for a provider's key without a *)
(* router's address.                                                       *)
Hosts == [env : Envs, suggests : {"direct", "router"}]

(* detectBackend: the dialog's choice, the environment, the settings, then *)
(* what the environment suggests; mapChoice knows no other choices.        *)
BackendOf(choice, host, settings) ==
  LET named == SelectSeq(<<choice, host.env, settings.backend>>, LAMBDA b : b # "auto") IN
  IF named # <<>> THEN Head(named) ELSE host.suggests

Detect(choice, host) ==
  /\ dialog.at = "directory"
  /\ \E read \in Reads("config") :
       DialogStep([at |-> "model", backend |-> BackendOf(choice, host, read)])

(* defaultModel reads the settings once more, if no model was typed in: a  *)
(* direct backend without one is asked for its models.                     *)
AsksForModels == dialog.backend = "direct" /\ \E read \in Reads("config") : read.model = 0

Unlisted == dialog.at = "model" /\ AsksForModels /\ DialogStep([dialog EXCEPT !.at = "unlisted"])

(* The session is there; the dialog has its directory and its backend      *)
(* remembered, and closes.                                                 *)
Created ==
  /\ dialog.at = "model" /\ dialog' = NoDialog
  /\ Update("desktop", "dialog", [recent |-> New])
  /\ UNCHANGED <<form, held>>

SettingsNext ==
  \/ \E u \in updates : ReadFile(u) \/ Empty(u) \/ Fill(u) \/ FailWrite(u)
  \/ \E process \in {"desktop", "cli"} : End(process)
  \/ \E s \in Sections : ShowForm(s)
  \/ LeavePage
  \/ \E edit \in Edits : SaveDefaults(edit)
  \/ \E clear \in BOOLEAN : SaveApp(clear)
  \/ PersistBounds
  \/ StartCli \/ DefaultModel \/ \E key \in {"model", "provider"} : SetDefault(key)
  \/ OpenDialog \/ Cancel \/ Create \/ NotCreated \/ Created \/ Unlisted
  \/ \E choice \in Backends, host \in Hosts : Detect(choice, host)

-----------------------------------------------------------------------------
(* Properties. *)

(* The variables of the settings keep their types. *)
SettingsTypeOK ==
  /\ DOMAIN disk = Files /\ spoiled \subseteq Files
  /\ \A f \in Files : DOMAIN kept[f] = DOMAIN Unset[f]
  /\ \A f \in Files : disk[f] # Torn => DOMAIN disk[f] = DOMAIN Unset[f]
  /\ \A u \in updates : u.nr \in 1..saves /\ u.at \in {"read", "write", "fill"}
  /\ saves \in 0..MaxSaves /\ faults \in 0..MaxFaults

(* Whoever writes a setting, the others stay as they were last saved: a    *)
(* file holds every update that was written to it, in its order.           *)
(* desktop.json does whatever its writers do, until a write of it is cut   *)
(* short or an update could not read it; config.json does as long as no    *)
(* two updates of it overlap either.                                       *)
SavedIsKept ==
  \A f \in Files \ spoiled :
    IF disk[f] = Torn THEN \E u \in updates : u.file = f /\ u.at = "fill"
    ELSE disk[f] = kept[f]
=============================================================================
