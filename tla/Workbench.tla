------------------------------ MODULE Workbench ------------------------------
(***************************************************************************)
(* The way of a task through the desktop window: typed in the composer     *)
(* (Composer.tsx), perhaps held up by the question whether it should be    *)
(* run as a team (AgentPage.tsx, TeamSuggestDialog.tsx), and run by the    *)
(* session's host, while the user moves among the pages, the sessions and  *)
(* the dialogs (App.tsx, SessionSidebar.tsx).                              *)
(*                                                                         *)
(* The composer and the store of the one dialog belong to the window, not  *)
(* to a session, and the question is asked of the main process: its answer *)
(* may find the window elsewhere.  A session that waits for an answer is   *)
(* running here, one whose turn ended with an error is not.  The dialogs   *)
(* of one session are one; so are the dialog of a new session and the      *)
(* viewer of reports, which belong to none.                                *)
(***************************************************************************)
EXTENDS Integers

CONSTANTS
  Sessions,  \* the sessions there are at first, by their ages
  MaxTasks   \* bound: tasks that are typed

ASSUME WorkbenchAssumption ==
  /\ Sessions \subseteq Nat \ {0} /\ Sessions # {}
  /\ MaxTasks \in Nat

VARIABLES
  listed,   \* the sessions that are not removed
  active,   \* activeId, 0 if there is none
  agents,   \* whether the agent page is shown
  modal,    \* the kind of modalState
  teams,    \* the sessions in team mode
  engine,   \* the sessions whose hosts run a turn
  view,     \* those that do, as far as the window was told
  tasks,    \* tasks[t]: where task t is, where it was submitted and sent
  moved,    \* tasks whose session was left while their question was open
            \* (history)
  excused   \* tasks that the user's own moves may have cost (history)

workVars == <<listed, active, agents, modal, teams, engine, view, tasks, moved, excused>>

Tasks == 1..MaxTasks
Untyped == [at |-> "untyped", from |-> 0, to |-> 0]

InitWorkbench ==
  /\ listed = Sessions /\ active \in Sessions
  /\ agents = TRUE /\ modal = "none"
  /\ teams = {} /\ engine = {} /\ view = {}
  /\ tasks = [t \in Tasks |-> Untyped]
  /\ moved = {} /\ excused = {}

-----------------------------------------------------------------------------
(* Where the tasks are. *)

TasksAt(p) == {t \in Tasks : tasks[t].at = p}

(* tasks, with those of T at place p. *)
Put(T, p) == [t \in Tasks |-> IF t \in T THEN [tasks[t] EXCEPT !.at = p] ELSE tasks[t]]

Idle(s) == s \notin view

(* A dialog covers the page and keeps the focus to itself. *)
Covered == modal # "none"

Composing == agents /\ active # 0 /\ ~Covered

(* A mutation of Closes: a dialog stays. *)
ClosesNone(kind) == FALSE

(* The effect of another active session, or of the page's mounting. *)
Closes(kind) == kind \notin {"none", "new"}

(* The dialog closes, and with it what it asked about is gone. *)
CloseSessionDialog ==
  /\ modal' = IF Closes(modal) THEN "none" ELSE modal
  /\ tasks' = IF Closes(modal) THEN Put(TasksAt("dialog"), "lost") ELSE tasks

-----------------------------------------------------------------------------
(* The composer. *)

TypeTask(t) ==
  /\ Composing /\ Idle(active)
  /\ TasksAt("box") = {} /\ tasks[t] = Untyped
  /\ \A u \in 1..(t-1) : tasks[u] # Untyped
  /\ tasks' = Put({t}, "box")
  /\ excused' = IF TasksAt("asked") = {} THEN excused ELSE excused \cup TasksAt("asked") \cup {t}
  /\ UNCHANGED <<listed, active, agents, modal, teams, engine, view, moved>>

(* submit of the composer and of the page: unless the session is in team   *)
(* mode, the main process is asked whether it looks like a team's task.    *)
SubmitTask(t) ==
  /\ Composing /\ Idle(active) /\ tasks[t].at = "box"
  /\ tasks' = [tasks EXCEPT ![t] =
       [at |-> IF active \in teams THEN "sent" ELSE "asked", from |-> active, to |-> active]]
  /\ UNCHANGED <<listed, active, agents, modal, teams, engine, view, moved, excused>>

(* Its answer: the dialog, in place of whichever is open, or a run of the  *)
(* session that was active at the submission.                              *)
Suggested(t, yes) ==
  /\ tasks[t].at = "asked"
  /\ IF yes
     THEN /\ modal' = "team"
          /\ tasks' = [Put(TasksAt("dialog"), "lost") EXCEPT ![t].at = "dialog"]
     ELSE tasks' = Put({t}, "sent") /\ UNCHANGED modal
  /\ UNCHANGED <<listed, active, agents, teams, engine, view, moved, excused>>

(* onPick, of either button: a run of the session that is active now. *)
PickTeam(t) ==
  /\ agents /\ active # 0 /\ modal = "team" /\ tasks[t].at = "dialog"
  /\ modal' = "none"
  /\ tasks' = [tasks EXCEPT ![t].at = "sent", ![t].to = active]
  /\ UNCHANGED <<listed, active, agents, teams, engine, view, moved, excused>>

(* onCancel: the draft takes the place of what is in the box. *)
CancelTeam(t) ==
  /\ agents /\ active # 0 /\ modal = "team" /\ tasks[t].at = "dialog"
  /\ modal' = "none"
  /\ tasks' = [Put(TasksAt("box"), "lost") EXCEPT ![t].at = "box"]
  /\ UNCHANGED <<listed, active, agents, teams, engine, view, moved, excused>>

-----------------------------------------------------------------------------
(* The user's moves; the palette lies over every dialog. *)

(* From another page, the page mounts, and its effect closes the dialog    *)
(* that was asked for, if it is of a session.                              *)
OpenModal(kind) ==
  /\ kind = "session" => active # 0
  /\ agents' = TRUE
  /\ modal' = IF ~agents /\ Closes(kind) THEN "none" ELSE kind
  /\ tasks' = Put(TasksAt("dialog"), "lost")
  /\ excused' = excused \cup TasksAt("dialog")
  /\ UNCHANGED <<listed, active, teams, engine, view, moved>>

CloseModal ==
  /\ agents /\ modal \in {"session", "new"} /\ modal' = "none"
  /\ UNCHANGED <<listed, active, agents, teams, engine, view, tasks, moved, excused>>

(* The page unmounts with its composer; the store of the dialog stays. *)
LeaveAgents ==
  /\ agents /\ agents' = FALSE
  /\ tasks' = Put(TasksAt("box"), "lost")
  /\ excused' = excused \cup UNION {TasksAt(p) : p \in {"box", "asked", "dialog"}}
  /\ UNCHANGED <<listed, active, modal, teams, engine, view, moved>>

BackToAgents ==
  /\ ~agents /\ agents' = TRUE
  /\ CloseSessionDialog
  /\ excused' = excused \cup TasksAt("dialog")
  /\ UNCHANGED <<listed, active, teams, engine, view, moved>>

Elsewhere ==
  /\ moved' = moved \cup TasksAt("asked")
  /\ excused' = excused \cup TasksAt("asked") \cup TasksAt("dialog")

(* By the sidebar, or by the palette from any page. *)
SelectSession(s) ==
  /\ s \in listed /\ s # active
  /\ active' = s /\ agents' = TRUE
  /\ CloseSessionDialog /\ Elsewhere
  /\ UNCHANGED <<listed, teams, engine, view>>

(* removeView: the oldest of the others becomes active.  Without any, the  *)
(* composer is gone.                                                       *)
RemoveSession(s) ==
  /\ agents /\ ~Covered /\ s \in listed
  /\ listed' = listed \ {s} /\ engine' = engine \ {s} /\ view' = view \ {s} /\ teams' = teams \ {s}
  /\ IF active # s THEN UNCHANGED <<active, moved, excused, tasks>>
     ELSE IF listed' # {}
     THEN /\ active' \in {a \in listed' : \A b \in listed' : a <= b}
          /\ Elsewhere /\ UNCHANGED tasks
     ELSE /\ active' = 0
          /\ tasks' = Put(TasksAt("box"), "lost")
          /\ moved' = moved \cup TasksAt("asked")
          /\ excused' = excused \cup TasksAt("asked") \cup TasksAt("box")
  /\ UNCHANGED <<agents, modal>>

ToggleTeam ==
  /\ active # 0 /\ Idle(active)
  /\ teams' = IF active \in teams THEN teams \ {active} ELSE teams \cup {active}
  /\ UNCHANGED <<listed, active, agents, modal, engine, view, tasks, moved, excused>>

-----------------------------------------------------------------------------
(* The hosts. *)

(* run of the host, or its refusal: it is busy, or gone. *)
StartTask(t) ==
  LET s == tasks[t].to
      taken == s \in listed \ engine IN
  /\ tasks[t].at = "sent"
  /\ tasks' = Put({t}, IF taken THEN "run" ELSE "refused")
  /\ engine' = IF taken THEN engine \cup {s} ELSE engine
  /\ UNCHANGED <<listed, active, agents, modal, teams, view, moved, excused>>

EndTask(s) ==
  /\ s \in engine
  /\ engine' = engine \ {s}
  /\ UNCHANGED <<listed, active, agents, modal, teams, view, tasks, moved, excused>>

(* A snapshot reaches the window. *)
Snapshot(s) ==
  /\ (s \in view) # (s \in engine)
  /\ view' = IF s \in engine THEN view \cup {s} ELSE view \ {s}
  /\ UNCHANGED <<listed, active, agents, modal, teams, engine, tasks, moved, excused>>

WorkbenchNext ==
  \/ \E t \in Tasks :
       TypeTask(t) \/ SubmitTask(t) \/ PickTeam(t) \/ CancelTeam(t) \/ StartTask(t)
  \/ \E t \in Tasks, yes \in BOOLEAN : Suggested(t, yes)
  \/ \E kind \in {"session", "new"} : OpenModal(kind)
  \/ CloseModal \/ LeaveAgents \/ BackToAgents \/ ToggleTeam
  \/ \E s \in Sessions : SelectSession(s) \/ RemoveSession(s) \/ EndTask(s) \/ Snapshot(s)

-----------------------------------------------------------------------------
(* Properties. *)

WorkbenchTypeOK ==
  /\ listed \subseteq Sessions /\ active \in listed \cup {0}
  /\ active = 0 <=> listed = {}
  /\ modal = "team" => TasksAt("dialog") # {}
  /\ moved \cup excused \subseteq Tasks

(* A task is run by the session it was submitted in, whatever dialogs,     *)
(* pages and sessions the user went through meanwhile, unless the session  *)
(* was left in the moment its question was open (AgentPage.tsx, submit and *)
(* onPick).  And what was typed is not lost on its way, as long as the     *)
(* user stays with it until it is sent.                                    *)
TasksArrive ==
  \A t \in Tasks :
    /\ tasks[t].at \in {"sent", "run", "refused"} => tasks[t].to = tasks[t].from \/ t \in moved
    /\ tasks[t].at = "lost" => t \in excused
=============================================================================
