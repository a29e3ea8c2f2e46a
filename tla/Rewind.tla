------------------------------- MODULE Rewind -------------------------------
(***************************************************************************)
(* How the harness records what a turn's tools do to files, and how        *)
(* /rewind undoes it: executeToolWithRepair (src/src/agent.ts), the shell  *)
(* snapshots (src/src/reports/workdirSnapshot.ts) and planRewind and       *)
(* applyRewind (src/src/rewind.ts).                                        *)
(*                                                                         *)
(* A write_file call reads its file before and after it writes.  A shell   *)
(* command is diffed from two cheap snapshots: in a git work tree from     *)
(* `git status`, the content before being taken from the index; elsewhere  *)
(* from a walk over sizes and times, which knows no content before at all. *)
(* Calls that may change files hold the mutation lock, but a command that  *)
(* is taken to be read-only does not: its snapshots may lie around a write *)
(* of another call of the turn, which it then records as its own.          *)
(* Commits and staging are left out: the index keeps its content.          *)
(***************************************************************************)
EXTENDS Integers, Sequences, FiniteSets

CONSTANTS
  Files,       \* files of the working directory
  Shells,      \* run_bash calls that may be in flight together
  Contents,    \* what a file may hold, the next four excepted
  NoFile,      \* the content of a file that does not exist
  Empty,       \* the empty content, recorded for a file that is gone
  Large,       \* a content longer than a record may hold
  Cut,         \* the part of it that a record holds
  MaxTurns,    \* bound: turns
  MaxChanges,  \* bound: commands, and file changes by tools and by the user
  MaxRewinds   \* bound: rewinds

ASSUME RewindAssumption ==
  /\ IsFiniteSet(Files)
  /\ {NoFile, Empty, Large, Cut} \cap Contents = {}
  /\ NoFile # Empty /\ NoFile # Large /\ NoFile # Cut
  /\ Empty # Large /\ Empty # Cut /\ Large # Cut
  /\ MaxTurns \in Nat /\ MaxChanges \in Nat /\ MaxRewinds \in Nat

VARIABLES
  disk,      \* disk[f]: what file f holds now
  index,     \* index[f]: what git's index holds for f; nothing outside git
  running,   \* a turn is running
  records,   \* records[t]: the file changes in the receipt of turn t
  atStart,   \* atStart[t]: the files when turn t began (history)
  others,    \* the files that anything but a recorded write_file had to do
             \* with, and the turn in or after which (history)
  changes,   \* commands and changes so far (bound)
  writer,    \* the write_file call in flight
  shell,     \* shell[s]: the run_bash call s
  plan,      \* the places of the records a rewind has left to apply
  checked,   \* the next of them was compared and is about to be written
  raced,     \* its file was edited since it was compared (history)
  target,    \* the turn a rewind goes back to, 0 if a turn began since
  ioFailed,  \* the files the last rewind failed to read or to restore
  undone,    \* turns an earlier rewind went back past (history)
  rewinds    \* rewinds so far (bound)

calls   == <<writer, shell>>
session == <<running, records, atStart, changes, calls>>
rewind  == <<plan, checked, raced, target, ioFailed, undone, rewinds>>
rewindVars == <<disk, index, others, session, rewind>>

Content == Contents \cup {Empty, Large, Cut}
OnDisk  == Content \cup {NoFile}
Record  == [file : Files, before : OnDisk, after : Content]
Truncated(r) == Large \in {r.before, r.after}

Turn == Len(records)

-----------------------------------------------------------------------------

NoCall == [at |-> "off"]

RewindInit ==
  /\ disk \in [Files -> Contents \cup {NoFile, Large}]
  /\ index \in [Files -> Contents \cup {NoFile, Large}]
  /\ running = FALSE
  /\ records = <<>> /\ atStart = <<>>
  /\ others = {} /\ changes = 0
  /\ writer = NoCall /\ shell = [s \in Shells |-> NoCall]
  /\ plan = {} /\ checked = FALSE /\ raced = FALSE /\ target = 0
  /\ ioFailed = {} /\ undone = {} /\ rewinds = 0

(* Something else than a recorded write_file has to do with the files F.   *)
Mark(F) == others' = others \cup {[turn |-> Turn, file |-> f] : f \in F}

BeginTurn ==
  /\ ~running /\ plan = {} /\ Turn < MaxTurns
  /\ running' = TRUE
  /\ records' = Append(records, <<>>)
  /\ atStart' = Append(atStart, disk)
  /\ target' = 0
  /\ UNCHANGED <<disk, index, others, changes, calls, plan, checked,
                 raced, ioFailed, undone, rewinds>>

FilesOf(rs) == {rs[i].file : i \in DOMAIN rs}

(* All calls of a turn end before it does.  Its receipt may be lost: a     *)
(* turn is closed by its first `error', which may come without one.        *)
EndTurn ==
  /\ running /\ writer = NoCall /\ \A s \in Shells : shell[s] = NoCall
  /\ running' = FALSE
  /\ \/ Mark({}) /\ UNCHANGED records
     \/ Mark(FilesOf(records[Turn])) /\ records' = [records EXCEPT ![Turn] = <<>>]
  /\ UNCHANGED <<disk, index, atStart, changes, calls, rewind>>

(* File f holds c by the hand of a tool or the user; M is the set of files *)
(* to mark.                                                                *)
Change(f, c, M) ==
  /\ changes < MaxChanges
  /\ changes' = changes + 1
  /\ disk' = [disk EXCEPT ![f] = c]
  /\ Mark(M)
  /\ UNCHANGED <<index, running, atStart, plan, checked, target, ioFailed,
                 undone, rewinds>>

(* Every command that runs will find that f has moved. *)
SeenToMove(f) ==
  shell' = [s \in Shells |->
             IF shell[s].at = "ran"
             THEN [shell[s] EXCEPT !.moved = @ \cup {f}] ELSE shell[s]]

Log(rs) == records' = [records EXCEPT ![Turn] = @ \o rs]

-----------------------------------------------------------------------------
(* write_file, under the mutation lock.                                    *)

LockFree ==
  /\ writer = NoCall
  /\ \A s \in Shells : shell[s] # NoCall => ~shell[s].locked

InCall == UNCHANGED <<index, running, atStart, rewind>>

(* Its file is read; one that cannot be read counts as absent. *)
WriteBegin(f, before) ==
  /\ running /\ LockFree
  /\ before \in {disk[f], NoFile}
  /\ writer' = [at |-> "reads", file |-> f, before |-> before]
  /\ Mark(IF before = disk[f] THEN {} ELSE {f})
  /\ InCall /\ UNCHANGED <<disk, records, changes, shell>>

(* The file is written, or left empty by a write that fails, which a       *)
(* repair may have tried again.                                            *)
WriteTool(c) ==
  /\ writer.at = "reads"
  /\ \/ Change(writer.file, c, {}) /\ writer' = [writer EXCEPT !.at = "wrote"]
     \/ Change(writer.file, Empty, {}) /\ UNCHANGED writer
  /\ SeenToMove(writer.file)
  /\ UNCHANGED <<records, raced>>

(* A call that fails records nothing. *)
WriteFails ==
  /\ writer.at = "reads"
  /\ writer' = NoCall
  /\ Mark(IF disk[writer.file] = writer.before THEN {} ELSE {writer.file})
  /\ InCall /\ UNCHANGED <<disk, records, changes, shell>>

(* recordFileChange *)
FileRecord(f, before, after) ==
  [file |-> f, before |-> before, after |-> after]

(* The file is read again and recorded, unless it cannot be read. *)
WriteEnd ==
  /\ writer.at = "wrote"
  /\ writer' = NoCall
  /\ LET f == writer.file IN
       \/ /\ disk[f] # NoFile
          /\ Log(<<FileRecord(f, writer.before, disk[f])>>)
          /\ Mark({})
       \/ Mark({f}) /\ UNCHANGED records
  /\ InCall /\ UNCHANGED <<disk, changes, shell>>

-----------------------------------------------------------------------------
(* run_bash, with the lock or, if it is taken to be read-only, without.    *)

(* What a snapshot says of a file that holds c: `git status', or whether a *)
(* walk comes upon it.                                                     *)
Status(f, c) ==
  CASE c = index[f]                       -> "none"
    [] c # index[f] /\ index[f] = NoFile -> "untracked"
    [] OTHER                              -> "modified"

Snapshot == [f \in Files |-> Status(f, disk[f])]

(* The first snapshot is taken. *)
BashBegin(s, locked) ==
  /\ running /\ shell[s] = NoCall /\ (locked => LockFree)
  /\ changes < MaxChanges /\ changes' = changes + 1
  /\ shell' = [shell EXCEPT ![s] =
                 [at |-> "ran", locked |-> locked, was |-> Snapshot, moved |-> {}]]
  /\ InCall /\ UNCHANGED <<disk, records, others, writer>>

(* The command changes a file. *)
BashChange(s, f, c) ==
  /\ shell[s].at = "ran" /\ c # disk[f]
  /\ Change(f, c, {f}) /\ SeenToMove(f)
  /\ UNCHANGED <<records, writer, raced>>

(* Nothing is recorded of a command that fails. *)
BashFails(s) ==
  /\ shell[s].at = "ran"
  /\ shell' = [shell EXCEPT ![s] = NoCall]
  /\ InCall /\ UNCHANGED <<disk, records, others, changes, writer>>

(* The second snapshot is taken and compared with the first. *)
BashLook(s) ==
  /\ shell[s].at = "ran"
  /\ LET was == shell[s].was
         is  == Snapshot
     IN  shell' = [shell EXCEPT ![s] =
           [at |-> "looked", locked |-> shell[s].locked, was |-> was, is |-> is,
            files |-> {f \in shell[s].moved : was[f] # "none" \/ is[f] # "none"}]]
  /\ InCall /\ UNCHANGED <<disk, records, others, changes, writer>>

(* What a diff keeps of a content, without saying that it was cut, and     *)
(* what it reads for a file that is gone.                                  *)
Clipped(c)  == IF c = Large THEN Cut ELSE c
Hydrated(c) == IF c = NoFile THEN Empty ELSE Clipped(c)

(* What is recorded of f, which the index knew with the content indexed,   *)
(* if it could be read.                                                    *)
Diffed(f, was, is, indexed) ==
  [before |-> IF is = "modified" \/ (is = "none" /\ was = "modified")
              THEN Clipped(indexed) ELSE NoFile,
   after  |-> IF is = "none" THEN Empty ELSE Hydrated(disk[f])]

(* The files that changed are read, and the index: that may fail for the   *)
(* files in unread.                                                        *)
BashRead(s, unread) ==
  /\ shell[s].at = "looked" /\ unread \subseteq shell[s].files
  /\ LET was == shell[s].was
         is  == shell[s].is
     IN  shell' = [shell EXCEPT ![s] =
           [at |-> "read", locked |-> shell[s].locked,
            found |-> [f \in shell[s].files |->
                        Diffed(f, was[f], is[f],
                               IF f \in unread THEN NoFile ELSE index[f])]]]
  /\ InCall /\ UNCHANGED <<disk, records, others, changes, writer>>

(* The set S in some order. *)
Orders(S) ==
  {o \in [1..Cardinality(S) -> S] : \A x \in S : \E i \in DOMAIN o : o[i] = x}

(* What was found is recorded. *)
BashEnd(s) ==
  /\ shell[s].at = "read"
  /\ LET found == shell[s].found IN
       /\ \E o \in Orders(DOMAIN found) :
            Log([i \in DOMAIN o |-> FileRecord(o[i], found[o[i]].before, found[o[i]].after)])
       /\ Mark(DOMAIN found)
  /\ shell' = [shell EXCEPT ![s] = NoCall]
  /\ InCall /\ UNCHANGED <<disk, changes, writer>>

-----------------------------------------------------------------------------
(* The user, and the order of the records.                                 *)

(* A record is numbered by its turn and its place in it. *)
At(p) == records[p[1]][p[2]]
Earlier(p, q) == p[1] < q[1] \/ (p[1] = q[1] /\ p[2] < q[2])

(* A mutation of IsNext: the records are taken oldest first. *)
IsOldest(p) == \A q \in plan : q = p \/ Earlier(p, q)

(* p is the newest of what is left to apply. *)
IsNext(p) == \A q \in plan : q = p \/ Earlier(q, p)

(* Someone edits a file, at any time. *)
UserEdit(f, c) ==
  /\ c # disk[f]
  /\ Change(f, c, {f}) /\ SeenToMove(f)
  /\ raced' = (raced \/ (checked /\ \E p \in plan : IsNext(p) /\ f = At(p).file))
  /\ UNCHANGED <<records, writer>>

-----------------------------------------------------------------------------
(* Rewinding.                                                              *)

Places(t) == UNION {{<<u, i>> : i \in DOMAIN records[u]} : u \in t..Turn}

(* planRewind: every record of the turns from t on, without those that     *)
(* were truncated; they are applied newest first.                          *)
Plan(t) == {p \in Places(t) : ~Truncated(At(p))}

(* The user picks the turn to go back before, between two turns. *)
BeginRewind(t) ==
  /\ ~running /\ plan = {} /\ rewinds < MaxRewinds
  /\ plan' = Plan(t)
  /\ plan' # {}
  /\ target' = t
  /\ ioFailed' = {}
  /\ undone' = undone \cup (t+1..Turn)
  /\ rewinds' = rewinds + 1
  /\ UNCHANGED <<disk, index, others, session, checked, raced>>

(* A mutation of Matches: the file is not compared. *)
MatchesAnything(r) == r.file \in Files

(* The file still holds what the record says the turn left. *)
Matches(r) == disk[r.file] = r.after

(* applyRewind, one action: the file is read; one that does not match the  *)
(* record is skipped, and so is one that cannot be read.                   *)
Check ==
  /\ ~checked
  /\ \E p \in plan :
       /\ IsNext(p)
       /\ \/ checked' = Matches(At(p)) /\ UNCHANGED ioFailed
          \/ checked' = FALSE /\ ioFailed' = ioFailed \cup {At(p).file}
       /\ plan' = IF checked' THEN plan ELSE plan \ {p}
  /\ UNCHANGED <<disk, index, others, session, raced, target, undone,
                 rewinds>>

(* A file that matched is restored, or deleted if it had no content        *)
(* before; this may fail, and a write that does may leave the file empty.  *)
Restore ==
  /\ checked
  /\ checked' = FALSE /\ raced' = FALSE
  /\ \E p \in plan :
       /\ IsNext(p) /\ plan' = plan \ {p}
       /\ LET r == At(p) IN
          \/ /\ disk' = [disk EXCEPT ![r.file] = r.before]
             /\ Mark({}) /\ UNCHANGED ioFailed
          \/ /\ Mark({}) /\ UNCHANGED disk
             /\ ioFailed' = ioFailed \cup {r.file}
          \/ /\ r.before # NoFile
             /\ disk' = [disk EXCEPT ![r.file] = Empty]
             /\ Mark({r.file}) /\ ioFailed' = ioFailed \cup {r.file}
  /\ UNCHANGED <<index, session, target, undone, rewinds>>

Quiet == ~running /\ plan = {} /\ UNCHANGED rewindVars

Written == Contents \cup {Large}

RewindNext ==
  \/ BeginTurn \/ EndTurn
  \/ \E f \in Files, before \in OnDisk : WriteBegin(f, before)
  \/ \E c \in Written : WriteTool(c)
  \/ WriteFails \/ WriteEnd
  \/ \E s \in Shells :
       \/ \E locked \in BOOLEAN : BashBegin(s, locked)
       \/ \E f \in Files, c \in Written \cup {NoFile} : BashChange(s, f, c)
       \/ BashFails(s) \/ BashLook(s)
       \/ \E unread \in SUBSET Files : BashRead(s, unread)
       \/ BashEnd(s)
  \/ \E f \in Files, c \in Written \cup {NoFile} : UserEdit(f, c)
  \/ \E t \in 1..Turn : BeginRewind(t)
  \/ Check \/ Restore
  \/ Quiet

RewindSpec == RewindInit /\ [][RewindNext]_rewindVars

-----------------------------------------------------------------------------

Statuses == {"none", "untracked", "modified"}

WriterType ==
  {NoCall} \cup [at : {"reads", "wrote"}, file : Files, before : OnDisk]

ShellType ==
  {NoCall} \cup
  [at : {"ran"}, locked : BOOLEAN, was : [Files -> Statuses], moved : SUBSET Files] \cup
  [at : {"looked"}, locked : BOOLEAN, was : [Files -> Statuses],
   is : [Files -> Statuses], files : SUBSET Files] \cup
  [at : {"read"}, locked : BOOLEAN,
   found : UNION {[D -> [before : OnDisk, after : Content]] : D \in SUBSET Files}]

TypeOK ==
  /\ disk \in [Files -> OnDisk]
  /\ index \in [Files -> OnDisk]
  /\ running \in BOOLEAN
  /\ records \in Seq(Seq(Record))
  /\ atStart \in Seq([Files -> OnDisk]) /\ Len(atStart) = Turn
  /\ others \subseteq [turn : 0..MaxTurns, file : Files]
  /\ changes \in 0..MaxChanges
  /\ writer \in WriterType
  /\ shell \in [Shells -> ShellType]
  /\ plan \subseteq Plan(1) /\ checked \in BOOLEAN /\ raced \in BOOLEAN
  /\ target \in 0..Turn
  /\ ioFailed \subseteq Files
  /\ undone \subseteq 1..Turn
  /\ rewinds \in 0..MaxRewinds

(* In and after turn t, only write_file calls changed f, and only they are *)
(* recorded to have done so, each in full.                                 *)
OnlyWritten(f, t) ==
  /\ \A x \in others : x.file = f => x.turn < t
  /\ \A u \in t..Turn : \A i \in DOMAIN records[u] :
       records[u][i].file = f => ~Truncated(records[u][i])

(* A rewind that has run to its end gave every file that only write_file   *)
(* changed since then, and that no run_bash call claims to have changed,   *)
(* the content it had before the target turn began, whatever calls ran     *)
(* beside each other and whatever happened before that turn.  Only a turn  *)
(* that an earlier rewind went back past cannot be returned to: there is   *)
(* no redo.                                                                *)
RestoresWrittenFiles ==
  target # 0 /\ plan = {} /\ target \notin undone =>
    \A f \in Files \ ioFailed :
      OnlyWritten(f, target) => disk[f] = atStart[target][f]

(* However turns, changes and rewinds follow each other. *)
RewindIsSound == TypeOK /\ RestoresWrittenFiles

(* "Rewind never clobbers work it didn't see": a rewind changes a file     *)
(* only if the file holds what some record says a tool of a rewound turn   *)
(* left there.  What the code does not exclude, and this property leaves   *)
(* out, is an edit of the very file between its check and its write.       *)
NeverClobbers ==
  [][(\E p \in plan : plan' = plan \ {p}) /\ ~raced =>
       \A f \in Files : disk'[f] # disk[f] =>
         \E u \in target..Turn : \E i \in DOMAIN records[u] :
           records[u][i].file = f /\ records[u][i].after = disk[f]]_rewindVars

(* "... restores every recorded change to its pre-turn content, deleting   *)
(* files that a rewound turn created": a rewind deletes no file that was   *)
(* there before the first turn it rewinds.                                 *)
DeletesOnlyCreated ==
  [][(\E p \in plan : plan' = plan \ {p}) =>
       \A f \in Files : disk'[f] = NoFile /\ disk[f] # NoFile =>
         atStart[target][f] = NoFile]_rewindVars

(* "truncated records are skipped (restoring a cut buffer would corrupt    *)
(* the file)": no file ever holds the cut part of its content.             *)
NothingIsCutShort == \A f \in Files : disk[f] # Cut
=============================================================================
