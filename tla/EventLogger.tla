---------------------------- MODULE EventLogger ----------------------------
(***************************************************************************)
(* EventLogger (src/src/replay/eventLogger.ts): the replay log of one run. *)
(* Events are kept in memory; when FlushEvery of them wait, or when the    *)
(* log is finalized, a drain is scheduled, which hands all of them to a    *)
(* write stream.  finalize waits for the drain, ends the stream, and       *)
(* writes a summary beside the log.  A crash loses what is in memory and   *)
(* may cut the line being written.                                         *)
(*                                                                         *)
(* The stream is Node's: it writes what it was given, in order, and ends   *)
(* when all is written.  A drain is scheduled exactly while drainPromise   *)
(* is set, so one variable stands for both.                                *)
(***************************************************************************)
EXTENDS Integers, Sequences

CONSTANT FlushEvery   \* flushEvery

ASSUME LoggerAssumption == FlushEvery \in Nat \ {0}

VARIABLES
  pending,    \* pending: the events in memory
  drain,      \* drainScheduled, drainPromise
  stream,     \* events handed to the writer and not on disk
  file,       \* the events on disk
  closing,    \* how far finalize has come, "no" before it is called
  meta,       \* eventCount in the summary file, -1 if there is none
  crashed,    \* the process has died
  torn,       \* the file ends in a part of a line
  logged      \* every event log() accepted (history); seq is its length

loggerVars == <<pending, drain, stream, file, closing, meta, crashed, torn, logged>>

Alive     == ~crashed
Finalized == closing # "no"

LoggerInit ==
  /\ pending = <<>> /\ drain = FALSE
  /\ stream = <<>> /\ file = <<>>
  /\ closing = "no" /\ meta = -1
  /\ crashed = FALSE /\ torn = FALSE
  /\ logged = <<>>

(* log, before the log is finalized (later events are dropped). *)
Log(event) ==
  /\ Alive /\ ~Finalized
  /\ logged' = Append(logged, event)
  /\ pending' = Append(pending, event)
  /\ drain' = (drain \/ Len(pending') >= FlushEvery)
  /\ UNCHANGED <<stream, file, closing, meta, crashed, torn>>

(* A mutation of Drain: drainPromise is not reset. *)
DrainForever ==
  /\ Alive /\ drain
  /\ stream' = stream \o pending
  /\ pending' = <<>>
  /\ UNCHANGED <<drain, file, closing, meta, crashed, torn, logged>>

(* drainPending: all that waits is written at once. *)
Drain ==
  /\ Alive /\ drain
  /\ stream' = stream \o pending
  /\ pending' = <<>>
  /\ drain' = FALSE
  /\ UNCHANGED <<file, closing, meta, crashed, torn, logged>>

(* The stream writes the next line. *)
WriteLine ==
  /\ Alive /\ stream # <<>>
  /\ file' = Append(file, Head(stream))
  /\ stream' = Tail(stream)
  /\ UNCHANGED <<pending, drain, closing, meta, crashed, torn, logged>>

(* A mutation of Finalize: no drain is scheduled for the last events. *)
FinalizeAtOnce ==
  /\ Alive /\ ~Finalized
  /\ closing' = "draining"
  /\ UNCHANGED <<pending, drain, stream, file, meta, crashed, torn, logged>>

(* finalize, up to its first wait. *)
Finalize ==
  /\ Alive /\ ~Finalized
  /\ closing' = "draining"
  /\ drain' = (drain \/ pending # <<>>)
  /\ UNCHANGED <<pending, stream, file, meta, crashed, torn, logged>>

(* The drain is over: writer.end. *)
EndWriter ==
  /\ Alive /\ closing = "draining" /\ ~drain
  /\ closing' = "ending"
  /\ UNCHANGED <<pending, drain, stream, file, meta, crashed, torn, logged>>

(* The stream has ended, and the summary is written, if it can be. *)
WriterEnded ==
  /\ Alive /\ closing = "ending" /\ stream = <<>>
  /\ closing' = "done"
  /\ meta' \in {-1, Len(logged)}
  /\ UNCHANGED <<pending, drain, stream, file, crashed, torn, logged>>

(* The process dies, maybe in the middle of a line. *)
Crash ==
  /\ Alive /\ closing # "done"
  /\ crashed' = TRUE
  /\ torn' \in IF stream = <<>> THEN {FALSE} ELSE BOOLEAN
  /\ UNCHANGED <<pending, drain, stream, file, closing, meta, logged>>

(* What the logger does on its own. *)
Progress == Drain \/ WriteLine \/ EndWriter \/ WriterEnded

-----------------------------------------------------------------------------

LoggerTypeOK(Events) ==
  /\ \A s \in {pending, stream, file, logged} : s \in Seq(Events)
  /\ drain \in BOOLEAN /\ crashed \in BOOLEAN /\ torn \in BOOLEAN
  /\ closing \in {"no", "draining", "ending", "done"}
  /\ meta \in {-1} \cup Nat

(* Nothing logged is lost, doubled or moved: what is on disk is where the  *)
(* run began, the rest is on its way.  A finalized log is whole, and its   *)
(* summary counts its lines.                                               *)
LogIsWhole ==
  /\ logged = file \o stream \o pending
  /\ closing = "done" => file = logged /\ meta \in {-1, Len(file)}

(* finalize, which the run waits for before it returns, returns. *)
FinalizeReturns == Finalized ~> closing = "done" \/ crashed
=============================================================================
