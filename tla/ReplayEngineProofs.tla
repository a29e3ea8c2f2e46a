------------------------ MODULE ReplayEngineProofs ------------------------
(***************************************************************************)
(* The replay log is whole, and a replay follows it, for any number of     *)
(* events between two drains, any steps and any calls.                     *)
(***************************************************************************)
EXTENDS ReplayEngine, SequenceTheorems, FiniteSetTheorems, TLAPS

(* The log's parts are sequences, of whatever the agent logs. *)
LogOf(S) == /\ pending \in Seq(S) /\ stream \in Seq(S)
            /\ file \in Seq(S) /\ logged \in Seq(S)

NothingLost == logged = file \o stream \o pending

(* What finalize has already waited for: the drain that empties the        *)
(* memory, and then the stream.                                            *)
ClosingFits ==
  /\ Finalized => drain \/ pending = <<>>
  /\ closing \in {"ending", "done"} => ~drain
  /\ closing = "done" => stream = <<>> /\ meta \in {-1, Len(logged)}

LogInv == (\E S : LogOf(S)) /\ NothingLost /\ ClosingFits

-----------------------------------------------------------------------------
(* Sequences. *)

(* Moving the head of the second part to the end of the first changes      *)
(* nothing in the whole.                                                   *)
LEMMA MoveHead ==
  ASSUME NEW S, NEW f \in Seq(S), NEW s \in Seq(S), s # <<>>
  PROVE  /\ Append(f, Head(s)) \in Seq(S) /\ Tail(s) \in Seq(S)
         /\ Append(f, Head(s)) \o Tail(s) = f \o s
<1> DEFINE g == Append(f, Head(s))
           t == Tail(s)
<1>1. /\ Head(s) \in S /\ Head(s) = s[1]
      /\ t \in Seq(S) /\ Len(t) = Len(s) - 1
      /\ \A i \in 1..Len(t) : t[i] = s[i + 1]
  BY HeadTailProperties
<1>2. /\ g \in Seq(S) /\ Len(g) = Len(f) + 1
      /\ \A i \in 1..Len(f) : g[i] = f[i]
      /\ g[Len(f) + 1] = s[1]
  BY <1>1, AppendProperties
<1>3. Len(f) \in Nat /\ Len(s) \in Nat \ {0}
  BY LenProperties, EmptySeq
<1>4. /\ g \o t \in Seq(S) /\ f \o s \in Seq(S)
      /\ Len(g \o t) = Len(f \o s) /\ Len(f \o s) = Len(f) + Len(s)
  BY <1>1, <1>2, <1>3, ConcatProperties
<1> HIDE DEF g, t
<1>5. ASSUME NEW i \in 1..Len(g \o t) PROVE (g \o t)[i] = (f \o s)[i]
  <2>1. /\ i \in 1..Len(g) + Len(t) /\ i \in 1..Len(f) + Len(s)
        /\ (g \o t)[i] = IF i <= Len(g) THEN g[i] ELSE t[i - Len(g)]
        /\ (f \o s)[i] = IF i <= Len(f) THEN f[i] ELSE s[i - Len(f)]
    BY <1>1, <1>2, <1>3, <1>4, ConcatProperties
  <2>2. CASE i <= Len(f)
    BY <2>1, <2>2, <1>2, <1>3
  <2>3. CASE i = Len(f) + 1
    BY <2>1, <2>3, <1>2, <1>3
  <2>4. CASE i > Len(f) + 1
    <3>1. i - Len(g) \in 1..Len(t) /\ (i - Len(g)) + 1 = i - Len(f)
      BY <2>1, <2>4, <1>1, <1>2, <1>3
    <3>2. t[i - Len(g)] = s[i - Len(f)]
      BY <3>1, <1>1
    <3> QED
      BY <2>1, <2>4, <3>2, <1>2, <1>3
  <2> QED
    BY <2>1, <2>2, <2>3, <2>4, <1>3
<1>6. g \o t = f \o s
  BY <1>4, <1>5, SeqEqual
<1> QED
  BY <1>1, <1>2, <1>6 DEF g, t

-----------------------------------------------------------------------------
(* The logger's steps. *)

(* The log is empty before the run. *)
LEMMA InitHolds == Init => LogInv
<1> SUFFICES ASSUME Init PROVE LogInv
  OBVIOUS
<1>1. LogOf({})
  BY EmptySeq DEF Init, LoggerInit, LogOf
<1>2. NothingLost
  BY <1>1, ConcatEmptySeq DEF Init, LoggerInit, LogOf, NothingLost
<1>3. ClosingFits
  BY DEF Init, LoggerInit, ClosingFits, Finalized
<1> QED
  BY <1>1, <1>2, <1>3 DEF LogInv

(* An event is logged at the end of what waits in memory.                  *)
LEMMA LogHolds == ASSUME NEW e, LogInv, Log(e) PROVE LogInv'
<1>1. PICK S : LogOf(S)
  BY DEF LogInv
<1> DEFINE T == S \cup {e}
<1>2. LogOf(T)
  BY <1>1, SeqMonotonic DEF LogOf
<1> HIDE DEF T
<1>e. e \in T
  BY DEF T
<1>3. LogOf(T)'
  BY <1>2, <1>e, AppendProperties DEF LogOf, Log
<1>4. NothingLost'
  <2>1. file \o stream \in Seq(T) /\ <<e>> \in Seq(T)
    BY <1>2, <1>e, ConcatProperties DEF LogOf
  <2>2. /\ logged' = logged \o <<e>> /\ pending' = pending \o <<e>>
        /\ file' = file /\ stream' = stream
    BY <1>2, <1>e, AppendIsConcat DEF LogOf, Log
  <2>3. (file \o stream) \o (pending \o <<e>>) = ((file \o stream) \o pending) \o <<e>>
    BY <1>2, <2>1, ConcatAssociative DEF LogOf
  <2> QED
    BY <2>2, <2>3 DEF LogInv, NothingLost
<1>5. ClosingFits'
  BY DEF Log, ClosingFits, Finalized
<1> QED
  BY <1>3, <1>4, <1>5 DEF LogInv

(* All that waits in memory goes to the end of the stream.                 *)
LEMMA DrainHolds == LogInv /\ Drain => LogInv'
<1> SUFFICES ASSUME LogInv, Drain PROVE LogInv'
  OBVIOUS
<1>1. PICK S : LogOf(S)
  BY DEF LogInv
<1>2. LogOf(S)'
  BY <1>1, ConcatProperties, EmptySeq DEF LogOf, Drain
<1>3. NothingLost'
  <2>1. file \o (stream \o pending) \in Seq(S)
    BY <1>1, ConcatProperties DEF LogOf
  <2>2. (file \o (stream \o pending)) \o <<>> = file \o (stream \o pending)
    BY <2>1, ConcatEmptySeq
  <2>3. (file \o stream) \o pending = file \o (stream \o pending)
    BY <1>1, ConcatAssociative DEF LogOf
  <2>4. logged = (file \o stream) \o pending
    BY DEF LogInv, NothingLost
  <2>5. /\ logged' = logged /\ file' = file
        /\ stream' = stream \o pending /\ pending' = <<>>
    BY DEF Drain
  <2>6. (file' \o stream') \o pending' = (file \o (stream \o pending)) \o <<>>
    BY <2>5
  <2> QED
    BY <2>2, <2>3, <2>4, <2>5, <2>6, Zenon DEF NothingLost
<1>4. ClosingFits'
  BY DEF LogInv, ClosingFits, Drain, Finalized
<1> QED
  BY <1>2, <1>3, <1>4 DEF LogInv

(* A line goes from the head of the stream to the end of the file.         *)
LEMMA WriteLineHolds == LogInv /\ WriteLine => LogInv'
<1> SUFFICES ASSUME LogInv, WriteLine PROVE LogInv'
  OBVIOUS
<1>1. PICK S : LogOf(S)
  BY DEF LogInv
<1>2. /\ file' \in Seq(S) /\ stream' \in Seq(S)
      /\ file' \o stream' = file \o stream
  BY <1>1, MoveHead DEF LogOf, WriteLine
<1>3. LogOf(S)'
  BY <1>1, <1>2 DEF LogOf, WriteLine
<1>4. NothingLost'
  BY <1>2 DEF LogInv, NothingLost, WriteLine
<1>5. ClosingFits'
  BY DEF LogInv, ClosingFits, WriteLine, Finalized
<1> QED
  BY <1>3, <1>4, <1>5 DEF LogInv

(* finalize asks for the drain it then waits for; a crash moves nothing.   *)
LEMMA ClosingHolds ==
  LogInv /\ (Finalize \/ EndWriter \/ WriterEnded \/ Crash) => LogInv'
<1> SUFFICES ASSUME LogInv, Finalize \/ EndWriter \/ WriterEnded \/ Crash
             PROVE  LogInv'
  OBVIOUS
<1>1. UNCHANGED <<pending, stream, file, logged>>
  BY DEF Finalize, EndWriter, WriterEnded, Crash
<1>2. (\E S : LogOf(S))' /\ NothingLost'
  BY <1>1 DEF LogInv, LogOf, NothingLost
<1>3. CASE Finalize
  <2>1. closing' = "draining" /\ (drain' \/ pending' = <<>>)
    BY <1>3 DEF Finalize
  <2> QED
    BY <1>2, <2>1 DEF ClosingFits, Finalized, LogInv
<1>4. CASE EndWriter
  BY <1>2, <1>4 DEF LogInv, ClosingFits, Finalized, EndWriter
<1>5. CASE WriterEnded
  BY <1>2, <1>5 DEF LogInv, ClosingFits, Finalized, WriterEnded
<1>6. CASE Crash
  BY <1>2, <1>6 DEF LogInv, ClosingFits, Finalized, Crash
<1> QED
  BY <1>2, <1>3, <1>4, <1>5, <1>6 DEF LogInv

(* LogInv is inductive: the engine reads the log and changes nothing in    *)
(* it.                                                                     *)
LEMMA NextHolds == LogInv /\ [Next]_vars => LogInv'
<1> SUFFICES ASSUME LogInv, [Next]_vars PROVE LogInv'
  OBVIOUS
<1>1. CASE Record
  BY <1>1, LogHolds DEF Record
<1>2. CASE Logger
  BY <1>2, DrainHolds, WriteLineHolds, ClosingHolds DEF Logger, Progress
<1>3. CASE UNCHANGED loggerVars
  BY <1>3 DEF LogInv, LogOf, NothingLost, ClosingFits, Finalized, loggerVars
<1>4. Load \/ Replay \/ ReplayOver \/ Done \/ UNCHANGED vars => UNCHANGED loggerVars
  BY DEF Load, Replay, ReplayOver, Done, vars
<1> QED
  BY <1>1, <1>2, <1>3, <1>4 DEF Next

-----------------------------------------------------------------------------

(* Nothing logged is lost, doubled or moved on its way to the disk, but    *)
(* for what a crash cuts off at the end; and a log that has been finalized *)
(* is complete, with a summary that counts its events.                     *)
THEOREM LogKeepsEverything == Spec => []LogIsWhole
<1>1. LogInv => LogIsWhole
  <2> SUFFICES ASSUME LogInv PROVE LogIsWhole
    OBVIOUS
  <2>1. PICK S : LogOf(S)
    BY DEF LogInv
  <2>2. CASE closing = "done"
    <3>1. stream = <<>> /\ pending = <<>>
      BY <2>2 DEF LogInv, ClosingFits, Finalized
    <3>2. logged = file
      BY <2>1, <3>1, ConcatEmptySeq DEF LogOf, LogInv, NothingLost
    <3> QED
      BY <2>2, <3>2 DEF LogIsWhole, LogInv, NothingLost, ClosingFits
  <2>3. CASE closing # "done"
    BY <2>3 DEF LogIsWhole, LogInv, NothingLost
  <2> QED
    BY <2>2, <2>3
<1> QED
  BY <1>1, InitHolds, NextHolds, PTL DEF Spec

-----------------------------------------------------------------------------
(* The engine.  It takes the step of an event for the last that a start or *)
(* a checkpoint named; the event has a step of its own.                    *)

(* The step of the n-th event. *)
StepAt(n) == IF n = 0 THEN 0 ELSE logged[n].step

(* Only a start begins a step, the one after the step before. *)
StepsRise ==
  \A i \in 1..Len(logged) :
    logged[i].step = StepAt(i - 1) + (IF logged[i].type = "step_start" THEN 1 ELSE 0)

CallsAreNamed ==
  \A i \in 1..Len(logged) :
    logged[i].type \in {"tool_call", "tool_result"} => logged[i].call \in Calls

EngineInv ==
  /\ ReplayIsSound /\ StepsRise /\ CallsAreNamed
  /\ stepIndex = StepAt(index)
  /\ mode = "recording" => index = 0 /\ executed = <<>>

(* What is on disk is where the log begins. *)
LEMMA FileIsRead ==
  ASSUME LogInv
  PROVE  Len(file) <= Len(logged) /\ \A i \in 1..Len(file) : file[i] = logged[i]
<1>1. PICK S : LogOf(S)
  BY DEF LogInv
<1> DEFINE begun == file \o stream
<1>2. /\ begun \in Seq(S) /\ Len(begun) = Len(file) + Len(stream)
      /\ \A i \in 1..Len(file) : begun[i] = file[i]
  BY <1>1 DEF LogOf
<1> HIDE DEF begun
<1>3. Len(file) \in Nat /\ Len(stream) \in Nat /\ Len(pending) \in Nat
  BY <1>1 DEF LogOf
<1>4. logged = begun \o pending
  BY DEF LogInv, NothingLost, begun
<1>5. /\ Len(begun \o pending) = Len(begun) + Len(pending)
      /\ \A i \in 1..Len(begun) : (begun \o pending)[i] = begun[i]
  <2>1. begun \in Seq(S) /\ pending \in Seq(S) /\ Len(begun) \in Nat
    BY <1>1, <1>2, <1>3 DEF LogOf
  <2>2. \A i \in 1..Len(begun) + Len(pending) :
          (begun \o pending)[i] = IF i <= Len(begun) THEN begun[i] ELSE pending[i - Len(begun)]
    BY <2>1, ConcatProperties
  <2>3. Len(begun \o pending) = Len(begun) + Len(pending)
    BY <2>1, ConcatProperties
  <2> QED
    BY <2>1, <2>2, <2>3, <1>3
<1> QED
  BY <1>2, <1>3, <1>4, <1>5

(* What the agent logs next: an event of the step it is in, or of the next *)
(* one if it starts that.                                                  *)
LEMMA NextIsOfTheStep ==
  ASSUME EngineInv, NEW e \in Recordable
  PROVE  /\ e \in Events
         /\ e.step = StepAt(Len(logged)) + (IF e.type = "step_start" THEN 1 ELSE 0)
         /\ e.type \in {"tool_call", "tool_result"} => e.call \in Calls
<1>1. logged \in Seq(Events) /\ Len(logged) \in Nat
  BY DEF EngineInv, ReplayIsSound, TypeOK, LoggerTypeOK
<1>2. \A i \in 1..Len(logged) : logged[i] \in Events /\ logged[i].step \in 1..MaxSteps
  <2>1. \A i \in 1..Len(logged) : logged[i] \in Events
    BY <1>1, ElementOfSeq
  <2>2. \A e2 \in Events : e2.step \in 1..MaxSteps
    BY DEF Events
  <2> QED
    BY <2>1, <2>2
<1>3. Step = StepAt(Len(logged))
  BY <1>1, EmptySeq DEF Step, StepAt, Last
<1>4. logged # <<>> => Step \in 1..MaxSteps
  BY <1>1, <1>2, <1>3, EmptySeq DEF StepAt
<1>5. LastType \in {"step_start", "checkpoint", "tool_call"} => logged # <<>>
  BY DEF LastType
<1>6. Called \subseteq Calls
  BY <1>1 DEF Called, CallsIn, EngineInv, CallsAreNamed
<1>7. Called # {} => logged # <<>>
  BY DEF Called, CallsIn
<1>8. CASE \E s \in 1..MaxSteps : s = Step + 1 /\ e = Event("step_start", s, 0)
  BY <1>3, <1>8 DEF Event, Events, Types
<1>9. CASE logged # <<>> /\ e = Event("checkpoint", Step, 0)
  BY <1>3, <1>4, <1>9 DEF Event, Events, Types
<1>10. CASE logged # <<>> /\ \E c \in Calls : e \in {Event("tool_call", Step, c), Event("tool_result", Step, c)}
  BY <1>3, <1>4, <1>10 DEF Event, Events, Types
<1>11. \/ \E s \in 1..MaxSteps : s = Step + 1 /\ e = Event("step_start", s, 0)
       \/ logged # <<>> /\ e = Event("checkpoint", Step, 0)
       \/ logged # <<>> /\ \E c \in Calls : e \in {Event("tool_call", Step, c), Event("tool_result", Step, c)}
  BY <1>5, <1>6, <1>7 DEF Recordable
<1> QED
  BY <1>8, <1>9, <1>10, <1>11

(* The logger's steps add to the log and to the file, at their ends.       *)
LEMMA LogGrows ==
  ASSUME EngineInv, (\E e \in Recordable : Log(e)) \/ Finalize \/ Progress \/ Crash
  PROVE  /\ LoggerTypeOK(Events)'
         /\ Len(file) <= Len(file') /\ Len(logged) <= Len(logged')
         /\ \A i \in 1..Len(logged) : logged'[i] = logged[i]
<1>1. /\ pending \in Seq(Events) /\ stream \in Seq(Events)
      /\ file \in Seq(Events) /\ logged \in Seq(Events)
      /\ Len(file) \in Nat /\ Len(logged) \in Nat
  BY DEF EngineInv, ReplayIsSound, TypeOK, LoggerTypeOK
<1>2. /\ drain \in BOOLEAN /\ crashed \in BOOLEAN /\ torn \in BOOLEAN
      /\ closing \in {"no", "draining", "ending", "done"} /\ meta \in {-1} \cup Nat
  BY DEF EngineInv, ReplayIsSound, TypeOK, LoggerTypeOK
<1>3. CASE \E e \in Recordable : Log(e)
  <2>1. PICK e \in Events : Log(e)
    BY <1>3, NextIsOfTheStep
  <2>2. /\ logged' = Append(logged, e) /\ pending' = Append(pending, e)
        /\ UNCHANGED <<stream, file, closing, meta, crashed, torn>>
    BY <2>1 DEF Log
  <2>3. drain' \in BOOLEAN
    BY <2>1, <1>2 DEF Log
  <2> QED
    BY <1>1, <1>2, <2>1, <2>2, <2>3, AppendProperties DEF LoggerTypeOK
<1>4. CASE WriteLine
  <2>1. /\ file' = Append(file, Head(stream)) /\ stream' = Tail(stream) /\ stream # <<>>
        /\ UNCHANGED <<pending, drain, closing, meta, crashed, torn, logged>>
    BY <1>4 DEF WriteLine
  <2>2. file' \in Seq(Events) /\ stream' \in Seq(Events) /\ Len(file') = Len(file) + 1
    BY <1>1, <2>1, HeadTailProperties, AppendProperties
  <2> QED
    BY <1>1, <1>2, <2>1, <2>2 DEF LoggerTypeOK
<1>5. CASE Drain
  <2>1. stream' \in Seq(Events) /\ pending' \in Seq(Events)
    BY <1>1, <1>5, ConcatProperties, EmptySeq DEF Drain
  <2>2. drain' = FALSE /\ UNCHANGED <<file, closing, meta, crashed, torn, logged>>
    BY <1>5 DEF Drain
  <2>3. LoggerTypeOK(Events)'
    BY <1>1, <1>2, <2>1, <2>2 DEF LoggerTypeOK
  <2> QED
    BY <1>1, <2>2, <2>3
<1>6. CASE Finalize \/ EndWriter \/ WriterEnded \/ Crash
  <2>1. UNCHANGED <<pending, stream, file, logged>>
    BY <1>6 DEF Finalize, EndWriter, WriterEnded, Crash
  <2>2. /\ drain' \in BOOLEAN /\ crashed' \in BOOLEAN /\ torn' \in BOOLEAN
        /\ closing' \in {"no", "draining", "ending", "done"} /\ meta' \in {-1} \cup Nat
    BY <1>1, <1>2, <1>6 DEF Finalize, EndWriter, WriterEnded, Crash
  <2>3. UNCHANGED <<file, logged>> /\ LoggerTypeOK(Events)'
    BY <1>1, <2>1, <2>2 DEF LoggerTypeOK
  <2> QED
    BY <1>1, <2>3
<1> QED
  BY <1>3, <1>4, <1>5, <1>6 DEF Progress

-----------------------------------------------------------------------------
(* The calls that are due. *)

(* There are as many as there are; with the next event comes at most one.  *)
LEMMA DueCounts ==
  ASSUME NEW n \in Nat
  PROVE  /\ IsFiniteSet(Due(n)) /\ Cardinality(Due(n)) \in Nat
         /\ \A i \in Due(n) : /\ Cardinality(Due(i)) \in Nat
                              /\ Cardinality(Due(i)) >= 1
                              /\ Cardinality(Due(i)) <= Cardinality(Due(n))
<1>1. \A m \in Nat : IsFiniteSet(Due(m)) /\ Cardinality(Due(m)) \in Nat
  <2> TAKE m \in Nat
  <2>1. IsFiniteSet(1..m)
    BY FS_Interval
  <2>2. Due(m) \in SUBSET (1..m)
    BY DEF Due
  <2> QED
    BY <2>1, <2>2, FS_Subset, FS_CardinalityType
<1>2. ASSUME NEW i \in Due(n)
      PROVE  /\ Cardinality(Due(i)) \in Nat /\ Cardinality(Due(i)) >= 1
             /\ Cardinality(Due(i)) <= Cardinality(Due(n))
  <2>1. i \in 1..n /\ i \in Nat /\ i \in Due(i)
    BY DEF Due
  <2>2. Due(i) \in SUBSET Due(n)
    BY <2>1 DEF Due
  <2>3. Cardinality(Due(i)) <= Cardinality(Due(n))
    BY <1>1, <2>2, FS_Subset
  <2>4. Cardinality(Due(i)) # 0
    BY <1>1, <2>1, FS_EmptySet
  <2> QED
    BY <1>1, <2>1, <2>3, <2>4
<1> QED
  BY <1>1, <1>2

LEMMA DueGrows ==
  ASSUME NEW n \in Nat
  PROVE  IF logged[n + 1].type = "tool_call" /\ logged[n + 1].step >= fromStep
         THEN /\ Due(n + 1) = Due(n) \cup {n + 1}
              /\ Cardinality(Due(n + 1)) = Cardinality(Due(n)) + 1
         ELSE Due(n + 1) = Due(n)
<1>1. 1..(n + 1) = (1..n) \cup {n + 1} /\ n + 1 \notin 1..n
  OBVIOUS
<1>2. CASE logged[n + 1].type = "tool_call" /\ logged[n + 1].step >= fromStep
  <2>1. Due(n + 1) = Due(n) \cup {n + 1} /\ n + 1 \notin Due(n)
    BY <1>1, <1>2 DEF Due
  <2>2. Cardinality(Due(n + 1)) = Cardinality(Due(n)) + 1
    BY <2>1, DueCounts, FS_AddElement
  <2> QED
    BY <1>2, <2>1, <2>2
<1>3. CASE ~(logged[n + 1].type = "tool_call" /\ logged[n + 1].step >= fromStep)
  BY <1>1, <1>3 DEF Due
<1> QED
  BY <1>2, <1>3

-----------------------------------------------------------------------------
(* The engine's steps. *)

(* Whatever only adds to the log changes nothing of what is due. *)
LEMMA LogOnlyGrows ==
  ASSUME EngineInv, LogInv,
         (\E e \in Recordable : Log(e)) \/ Finalize \/ Progress \/ Crash,
         UNCHANGED engineVars
  PROVE  EngineInv'
<1>1. /\ logged \in Seq(Events) /\ Len(logged) \in Nat /\ Len(file) \in Nat
      /\ index \in 0..Len(file)
  BY DEF EngineInv, ReplayIsSound, TypeOK, LoggerTypeOK
<1>2. index <= Len(logged)
  BY <1>1, FileIsRead
<1>3. /\ LoggerTypeOK(Events)'
      /\ Len(file) <= Len(file') /\ Len(logged) <= Len(logged')
      /\ \A i \in 1..Len(logged) : logged'[i] = logged[i]
  BY LogGrows
<1>4. Len(file') \in Nat /\ Len(logged') \in Nat
  BY <1>3 DEF LoggerTypeOK
<1>5. TypeOK'
  BY <1>1, <1>3, <1>4 DEF EngineInv, ReplayIsSound, TypeOK, engineVars, options
<1>6. \A n \in 0..Len(logged) : Due(n)' = Due(n) /\ StepAt(n)' = StepAt(n)
  BY <1>1, <1>3 DEF Due, StepAt, engineVars, options
<1>7. \A i \in Due(index) : i \in 0..Len(logged) /\ logged'[i] = logged[i]
  BY <1>1, <1>2, <1>3 DEF Due
<1>8. ReplayFollowsRun'
  BY <1>1, <1>2, <1>6, <1>7
     DEF EngineInv, ReplayIsSound, ReplayFollowsRun, engineVars, options
<1>9. StepsRise' /\ CallsAreNamed'
  <2>1. CASE logged' = logged
    BY <2>1 DEF EngineInv, StepsRise, CallsAreNamed, StepAt
  <2>2. CASE \E e \in Recordable : Log(e)
    <3>1. PICK e \in Recordable : Log(e)
      BY <2>2
    <3>2. /\ Len(logged') = Len(logged) + 1 /\ logged'[Len(logged) + 1] = e
          /\ e.step = StepAt(Len(logged)) + (IF e.type = "step_start" THEN 1 ELSE 0)
          /\ e.type \in {"tool_call", "tool_result"} => e.call \in Calls
      BY <1>1, <3>1, NextIsOfTheStep, AppendProperties DEF Log
    <3>3. \A i \in 1..Len(logged') :
            \/ i \in 1..Len(logged) /\ i - 1 \in 0..Len(logged)
            \/ i = Len(logged) + 1 /\ i - 1 = Len(logged)
      BY <1>1, <3>2
    <3>4. StepsRise'
      <4> SUFFICES ASSUME NEW i \in 1..Len(logged')
                   PROVE  logged'[i].step = StepAt(i - 1)'
                            + (IF logged'[i].type = "step_start" THEN 1 ELSE 0)
        BY DEF StepsRise
      <4>1. CASE i \in 1..Len(logged) /\ i - 1 \in 0..Len(logged)
        <5>1. logged'[i] = logged[i] /\ StepAt(i - 1)' = StepAt(i - 1)
          BY <4>1, <1>3, <1>6
        <5> QED
          BY <4>1, <5>1 DEF EngineInv, StepsRise
      <4>2. CASE i = Len(logged) + 1 /\ i - 1 = Len(logged)
        <5>1. StepAt(i - 1)' = StepAt(Len(logged))
          BY <4>2, <1>1, <1>6
        <5> QED
          BY <4>2, <5>1, <3>2
      <4> QED
        BY <3>3, <4>1, <4>2
    <3>5. CallsAreNamed'
      BY <3>2, <3>3, <1>3 DEF EngineInv, CallsAreNamed
    <3> QED
      BY <3>4, <3>5
  <2>3. Finalize \/ Progress \/ Crash => logged' = logged
    BY DEF Finalize, Progress, Drain, WriteLine, EndWriter, WriterEnded, Crash
  <2> QED
    BY <2>1, <2>2, <2>3
<1>10. /\ stepIndex' = StepAt(index)'
       /\ mode' = "recording" => index' = 0 /\ executed' = <<>>
  BY <1>1, <1>2, <1>6 DEF EngineInv, engineVars
<1> QED
  BY <1>5, <1>8, <1>9, <1>10 DEF EngineInv, ReplayIsSound

(* The engine reads the log, and writes nothing to it. *)
LEMMA LogIsOnlyRead ==
  ASSUME EngineInv, UNCHANGED loggerVars
  PROVE  /\ LoggerTypeOK(Events)' /\ StepsRise' /\ CallsAreNamed'
         /\ \A n : StepAt(n)' = StepAt(n)
  BY DEF EngineInv, ReplayIsSound, TypeOK, LoggerTypeOK, StepsRise, CallsAreNamed,
         StepAt, loggerVars

(* No call is due before the first event, wherever the replay begins. *)
LEMMA LoadHolds ==
  ASSUME EngineInv, Load
  PROVE  EngineInv'
<1>1. /\ UNCHANGED <<loggerVars, index, stepIndex, known, diverged, executed, differed>>
      /\ index = 0 /\ executed = <<>> /\ mode' \in {"replaying", "failed"}
      /\ fromStep' \in 0..MaxSteps /\ execute' \in BOOLEAN /\ stop' \in BOOLEAN
  BY DEF Load, EngineInv
<1>2. UNCHANGED <<file, logged>>
  BY <1>1 DEF loggerVars
<1>3. TypeOK'
  BY <1>1, <1>2, LogIsOnlyRead DEF EngineInv, ReplayIsSound, TypeOK
<1>4. ReplayFollowsRun'
  <2>1. Due(index)' = {} /\ Cardinality({}) = 0 /\ Len(<<>>) = 0
    BY <1>1, FS_EmptySet DEF Due
  <2> QED
    BY <1>1, <2>1 DEF ReplayFollowsRun
<1> QED
  BY <1>1, <1>3, <1>4, LogIsOnlyRead DEF EngineInv, ReplayIsSound

(* The event the engine is at, and the step it is of. *)
LEMMA EventIsRead ==
  ASSUME EngineInv, LogInv, mode = "replaying", index < Len(file)
  PROVE  /\ index \in Nat /\ index + 1 \in 1..Len(logged) /\ index + 1 \in 1..Len(file)
         /\ file[index + 1] = logged[index + 1] /\ logged[index + 1] \in Events
         /\ logged[index + 1].step =
              stepIndex + (IF logged[index + 1].type = "step_start" THEN 1 ELSE 0)
         /\ logged[index + 1].type \in {"tool_call", "tool_result"} =>
              logged[index + 1].call \in Calls
<1>1. /\ logged \in Seq(Events) /\ Len(logged) \in Nat /\ Len(file) \in Nat
      /\ index \in 0..Len(file)
  BY DEF EngineInv, ReplayIsSound, TypeOK, LoggerTypeOK
<1>2. Len(file) <= Len(logged) /\ \A i \in 1..Len(file) : file[i] = logged[i]
  BY FileIsRead
<1>3. /\ index \in Nat /\ index + 1 \in 1..Len(logged) /\ index + 1 \in 1..Len(file)
      /\ (index + 1) - 1 = index
  BY <1>1, <1>2
<1>4. file[index + 1] = logged[index + 1] /\ logged[index + 1] \in Events
  BY <1>1, <1>2, <1>3, ElementOfSeq
<1> QED
  BY <1>3, <1>4 DEF EngineInv, StepsRise, CallsAreNamed

(* An event takes the engine one call further along the run, or leaves it  *)
(* where it is.                                                            *)
LEMMA ReplayHolds ==
  ASSUME EngineInv, LogInv, Replay
  PROVE  EngineInv'
<1> DEFINE n == index + 1
           e == logged[n]
<1>1. /\ mode = "replaying" /\ index < Len(file) /\ index' = n
      /\ UNCHANGED <<loggerVars, mode, options>>
  BY DEF Replay
<1>2. /\ index \in Nat /\ n \in 1..Len(file) /\ n # 0
      /\ file[n] = e /\ e \in Events
      /\ e.step = stepIndex + (IF e.type = "step_start" THEN 1 ELSE 0)
      /\ e.type \in {"tool_call", "tool_result"} => e.call \in Calls
  BY <1>1, EventIsRead
<1>3. /\ UNCHANGED <<file, logged, mode, fromStep, execute, stop>>
  BY <1>1 DEF loggerVars, options
<1>4. /\ e.type \in Types /\ e.step \in 1..MaxSteps
      /\ stepIndex \in 0..MaxSteps /\ fromStep \in 0..MaxSteps
      /\ MaxSteps \in Nat /\ known \subseteq Calls /\ diverged \in BOOLEAN
      /\ executed \in Seq(Calls) /\ differed \subseteq Calls
      /\ execute \in BOOLEAN /\ stop \in BOOLEAN
  BY <1>2, ReplayAssumption DEF Events, EngineInv, ReplayIsSound, TypeOK
<1>5. /\ stepIndex' = IF e.type = "step_start" \/
                         (e.type = "checkpoint" /\ ~Skipped(stepIndex) /\ fromStep > 0)
                      THEN e.step ELSE stepIndex
      /\ IF e.type = "tool_call" /\ ~Skipped(stepIndex) /\ ~diverged /\ execute
         THEN Execute(e.call)
         ELSE /\ known' = IF e.type = "tool_result" /\ ~Skipped(stepIndex) /\ ~diverged
                          THEN known \cup {e.call} ELSE known
              /\ UNCHANGED <<executed, differed, diverged>>
  BY <1>1, <1>2 DEF Replay
<1>6. \A m : Due(m)' = Due(m)
  BY <1>3 DEF Due
<1>7. IF e.type = "tool_call" /\ e.step >= fromStep
      THEN /\ Due(n) = Due(index) \cup {n}
           /\ Cardinality(Due(n)) = Cardinality(Due(index)) + 1
      ELSE Due(n) = Due(index)
  BY <1>2, DueGrows
<1>c. /\ Cardinality(Due(index)) \in Nat
      /\ \A i \in Due(index) : /\ Cardinality(Due(i)) \in Nat /\ Cardinality(Due(i)) >= 1
                              /\ Cardinality(Due(i)) <= Cardinality(Due(index))
  BY <1>2, DueCounts
<1>s. StepAt(n) = e.step
  BY <1>2 DEF StepAt
<1> HIDE DEF e
<1>8. stepIndex' = e.step
  BY <1>2, <1>4, <1>5
<1>9. stepIndex' = StepAt(index)'
  BY <1>1, <1>8, <1>s, LogIsOnlyRead
<1>10. /\ known' \subseteq Calls /\ diverged' \in BOOLEAN
       /\ executed' \in Seq(Calls) /\ differed' \subseteq Calls
  <2>1. CASE e.type = "tool_call" /\ ~Skipped(stepIndex) /\ ~diverged /\ execute
    <3>1. e.call \in Calls /\ Execute(e.call)
      BY <2>1, <1>2, <1>5
    <3>2. executed' \in Seq(Calls)
      BY <3>1, <1>4, AppendProperties DEF Execute
    <3>3. known' \subseteq Calls /\ diverged' \in BOOLEAN /\ differed' \subseteq Calls
      BY <3>1, <1>4 DEF Execute
    <3> QED
      BY <3>2, <3>3
  <2>2. CASE ~(e.type = "tool_call" /\ ~Skipped(stepIndex) /\ ~diverged /\ execute)
    BY <2>2, <1>2, <1>4, <1>5
  <2> QED
    BY <2>1, <2>2
<1>11. TypeOK'
  <2>1. index' \in 0..Len(file') /\ stepIndex' \in 0..MaxSteps
    BY <1>1, <1>2, <1>3, <1>4, <1>8
  <2> QED
    BY <2>1, <1>1, <1>3, <1>4, <1>10, LogIsOnlyRead DEF TypeOK, EngineInv, ReplayIsSound
<1>12. ReplayFollowsRun'
  <2>1. CASE diverged
    BY <2>1, <1>5 DEF ReplayFollowsRun
  <2>2. CASE ~diverged /\ ~execute
    <3>1. executed = <<>> /\ executed' = executed /\ ~execute'
      BY <2>2, <1>3, <1>5 DEF EngineInv, ReplayIsSound, ReplayFollowsRun
    <3> QED
      BY <3>1 DEF ReplayFollowsRun
  <2>3. CASE ~diverged /\ execute
    <3>1. /\ Len(executed) = Cardinality(Due(index))
          /\ \A i \in Due(index) : executed[Cardinality(Due(i))] = logged[i].call
      BY <2>3 DEF EngineInv, ReplayIsSound, ReplayFollowsRun
    <3>2. CASE e.type = "tool_call" /\ e.step >= fromStep
      <4>1. executed' = Append(executed, e.call)
        BY <2>3, <3>2, <1>2, <1>4, <1>5 DEF Skipped, Execute
      <4>2. e.call \in Calls
        BY <3>2, <1>2
      <4>3. /\ Len(executed') = Len(executed) + 1
            /\ executed'[Len(executed) + 1] = e.call
            /\ \A k \in 1..Len(executed) : executed'[k] = executed[k]
        BY <4>1, <4>2, <1>4, AppendProperties
      <4>4. Len(executed') = Cardinality(Due(n))
        BY <3>1, <3>2, <4>3, <1>7
      <4>5. \A i \in Due(index) : executed'[Cardinality(Due(i))] = logged[i].call
        BY <3>1, <4>3, <1>c
      <4>6. executed'[Cardinality(Due(n))] = logged[n].call
        BY <3>1, <3>2, <4>3, <1>7 DEF e
      <4>7. \A i \in Due(n) : executed'[Cardinality(Due(i))] = logged[i].call
        BY <3>2, <4>5, <4>6, <1>7
      <4> QED
        BY <2>3, <4>4, <4>7, <1>1, <1>3, <1>6 DEF ReplayFollowsRun
    <3>3. CASE ~(e.type = "tool_call" /\ e.step >= fromStep)
      <4>1. executed' = executed /\ Due(n) = Due(index)
        BY <3>3, <1>2, <1>4, <1>5, <1>7 DEF Skipped
      <4> QED
        BY <2>3, <3>1, <4>1, <1>1, <1>3, <1>6 DEF ReplayFollowsRun
    <3> QED
      BY <3>2, <3>3
  <2> QED
    BY <2>1, <2>2, <2>3, <1>4
<1> QED
  BY <1>1, <1>3, <1>9, <1>11, <1>12, LogIsOnlyRead DEF EngineInv, ReplayIsSound

(* No event is logged and none is read before the run. *)
LEMMA EngineInit == Init => EngineInv
<1> SUFFICES ASSUME Init PROVE EngineInv
  OBVIOUS
<1>1. /\ pending = <<>> /\ stream = <<>> /\ file = <<>> /\ logged = <<>>
      /\ executed = <<>> /\ known = {} /\ differed = {} /\ index = 0 /\ stepIndex = 0
      /\ fromStep = 0 /\ execute = FALSE /\ stop = FALSE /\ diverged = FALSE
      /\ mode = "recording"
  BY DEF Init, LoggerInit
<1>2. <<>> \in Seq(Events) /\ <<>> \in Seq(Calls) /\ Len(<<>>) = 0
  BY EmptySeq
<1>3. LoggerTypeOK(Events)
  BY <1>1, <1>2 DEF Init, LoggerInit, LoggerTypeOK
<1>4. TypeOK
  <2>1. 0 \in 0..MaxSteps /\ 0 \in 0..0
    BY ReplayAssumption
  <2>2. index \in 0..Len(file) /\ executed \in Seq(Calls)
    BY <1>1, <1>2, <2>1
  <2> QED
    BY <1>1, <1>3, <2>1, <2>2 DEF TypeOK
<1>5. StepsRise /\ CallsAreNamed /\ ReplayFollowsRun /\ stepIndex = StepAt(index)
  BY <1>1, <1>2 DEF StepsRise, CallsAreNamed, ReplayFollowsRun, StepAt
<1> QED
  BY <1>1, <1>4, <1>5 DEF EngineInv, ReplayIsSound

LEMMA EngineStep ==
  ASSUME EngineInv, LogInv, [Next]_vars
  PROVE  EngineInv'
<1>1. CASE Record
  BY <1>1, LogOnlyGrows DEF Record
<1>2. CASE Logger
  BY <1>2, LogOnlyGrows DEF Logger
<1>3. CASE Load
  BY <1>3, LoadHolds
<1>4. CASE Replay
  BY <1>4, ReplayHolds
<1>5. CASE UNCHANGED <<loggerVars, options, index, stepIndex, known, diverged, executed,
                       differed>> /\ (UNCHANGED mode \/ ReplayOver)
  <2>1. UNCHANGED <<file, logged, fromStep, execute, stop, index, stepIndex, known,
                    diverged, executed, differed>>
    BY <1>5 DEF loggerVars, options
  <2>2. mode' = mode \/ mode' = "over"
    BY <1>5 DEF ReplayOver
  <2>3. TypeOK'
    BY <1>5, <2>1, <2>2, LogIsOnlyRead DEF EngineInv, ReplayIsSound, TypeOK
  <2>4. ReplayFollowsRun'
    BY <2>1 DEF EngineInv, ReplayIsSound, ReplayFollowsRun, Due
  <2> QED
    BY <1>5, <2>1, <2>2, <2>3, <2>4, LogIsOnlyRead DEF EngineInv, ReplayIsSound
<1>6. ReplayOver \/ Done \/ UNCHANGED vars =>
        UNCHANGED <<loggerVars, options, index, stepIndex, known, diverged, executed,
                    differed>> /\ (UNCHANGED mode \/ ReplayOver)
  BY DEF ReplayOver, Done, vars, engineVars, options
<1> QED
  BY <1>1, <1>2, <1>3, <1>4, <1>5, <1>6 DEF Next

(* Wherever a replay begins and however the run's log ended, a replay that *)
(* executes has, at every event, executed the calls the run had, from the  *)
(* chosen step on, in their order, until it diverges; one that does not    *)
(* execute has executed none.                                              *)
THEOREM ReplaysFollowTheRun == Spec => []ReplayIsSound
<1>1. Init => LogInv /\ EngineInv
  BY InitHolds, EngineInit
<1>2. LogInv /\ EngineInv /\ [Next]_vars => (LogInv /\ EngineInv)'
  BY NextHolds, EngineStep
<1>3. EngineInv => ReplayIsSound
  BY DEF EngineInv
<1> QED
  BY <1>1, <1>2, <1>3, PTL DEF Spec
=============================================================================
