------------------------------- MODULE Console -------------------------------
(***************************************************************************)
(* What 9rh has around its sessions: the router page of the desktop        *)
(* application (RouterPanels), the commands of the REPL that read the      *)
(* router (RouterCommands), the settings of both (Settings), and, in the   *)
(* desktop window, a task's way to its session (Workbench), the dialog     *)
(* that restores files (RewindDialog) and the page of recorded runs        *)
(* (Playback).                                                             *)
(*                                                                         *)
(* The router page and the commands share the router's table, which either *)
(* may change through the router and the router's own clients may change   *)
(* too.  To one of them the other is somebody outside (Outside).  The      *)
(* others share nothing but the files and the hosts, which others use at   *)
(* any time in their modules.  So one is looked at at a time.              *)
(***************************************************************************)
EXTENDS RouterPanels, RouterCommands, Settings, Workbench, RewindDialog, Playback

VARIABLE front   \* which of them is looked at

vars == <<front, dataVars, panelVars, commandVars, settingVars, workVars, rewindVars, playVars>>

Init ==
  /\ front \in {"page", "commands", "settings", "work", "rewind", "replays"}
  /\ InitData /\ InitPanels /\ InitCommands /\ InitSettings
  /\ InitWorkbench /\ InitRewindDialog /\ InitPlayback
  /\ front \notin {"page", "commands"} => up
  /\ front # "rewind" => turns = 0
  /\ front # "work" => \A s \in Sessions : active <= s

(* The others stand still. *)
Window == UNCHANGED <<workVars, rewindVars, playVars>>
Page == front = "page" /\ UNCHANGED <<front, commandVars, settingVars>> /\ Window
Prompt == front = "commands" /\ UNCHANGED <<front, panelVars, settingVars>> /\ Window
Router == <<front, dataVars, panelVars, commandVars>>
FilesOnly == front = "settings" /\ UNCHANGED Router /\ Window
Work == front = "work" /\ UNCHANGED <<Router, settingVars, rewindVars, playVars>>
Restoring == front = "rewind" /\ UNCHANGED <<Router, settingVars, workVars, playVars>>
Replays == front = "replays" /\ UNCHANGED <<Router, settingVars, workVars, rewindVars>>

Around == Outside \/ Flips

Next ==
  \/ Page /\ (PanelsNext \/ (Around /\ UNCHANGED panelVars))
  \/ Prompt /\ (CommandsNext \/ (Around /\ UNCHANGED commandVars))
  \/ FilesOnly /\ SettingsNext
  \/ Work /\ WorkbenchNext
  \/ Restoring /\ RewindNext
  \/ Replays /\ PlaybackNext

(* The window's timers fire while it is visible, requests are answered or  *)
(* fail, and the stream of usage is tried again.                           *)
Fairness ==
  /\ WF_vars(Page /\ Poll) /\ WF_vars(Page /\ Serves) /\ WF_vars(Page /\ Answers)
  /\ WF_vars(Page /\ Streams)

Spec == Init /\ [][Next]_vars /\ Fairness

-----------------------------------------------------------------------------
(* Properties. *)

(* The variables keep their types, and nothing on the page is stuck: see   *)
(* NothingIsStuck.                                                         *)
ConsoleIsSound ==
  /\ DataTypeOK /\ PanelsTypeOK /\ CommandsTypeOK /\ SettingsTypeOK
  /\ WorkbenchTypeOK /\ RewindTypeOK /\ PlaybackTypeOK
  /\ NothingIsStuck

(* The user looks at a panel while the router answers, and at no other     *)
(* from some moment on.                                                    *)
Followed == front = "page" /\ up /\ visible /\ Mounted
Stays == <>[]Followed /\ <>[][tab' = tab]_vars

Current == Displayed = table /\ ~shown.error

(* A panel that is looked at, of a router that answers, comes to show what *)
(* is there and stays with it, whatever was changed, failed or was slow.   *)
PanelSettles == Stays => <>[]Current
=============================================================================
