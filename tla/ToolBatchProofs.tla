-------------------------- MODULE ToolBatchProofs --------------------------
(***************************************************************************)
(* Theorems about ToolBatch, for any number of tool calls of any kinds and *)
(* any concurrency.  What is known of every pool (MapPoolProofs) is used   *)
(* for the pool of the batch.                                              *)
(***************************************************************************)
EXTENDS ToolBatch, FunctionTheorems, FiniteSetTheorems, TLAPS

PoolFacts == INSTANCE MapPoolProofs
             WITH NumItems <- NumCalls, MayReject <- {}, Values <- SUBSET Calls

(* The pool's instance satisfies what MapPoolProofs assumes. *)
LEMMA PoolAssumed == PoolFacts!PoolAssumption
<1>1. SUBSET Calls # {}
  OBVIOUS
<1> QED
  BY <1>1, BatchAssumption DEF PoolFacts!PoolAssumption

(* The batch's pool starts and moves as a pool does. *)
LEMMA InitOfPool == Init => PoolFacts!Init
BY DEF Init, Pool!Init, PoolFacts!Init, Pool!Width, PoolFacts!Width,
       Pool!Workers, PoolFacts!Workers, Pool!Items, PoolFacts!Items,
       Pool!NoResult, PoolFacts!NoResult

(* The two instances of the pool have the same types. *)
LEMMA TypeOfPool == Pool!TypeOK <=> PoolFacts!TypeOK
BY DEF Pool!TypeOK, PoolFacts!TypeOK, Pool!Workers, PoolFacts!Workers, Pool!Items,
       PoolFacts!Items, Pool!Result, PoolFacts!Result, Pool!NoResult, PoolFacts!NoResult

(* A step of the batch is one of the pool, or leaves the pool alone. *)
LEMMA NextOfPool ==
  ASSUME TypeOK, [Next]_vars
  PROVE  [PoolFacts!Next]_(PoolFacts!vars)
<1>1. ASSUME NEW w \in Calls, Complete(w)
      PROVE  PoolFacts!Next
  <2>1. job[w] \in Calls
    BY <1>1 DEF TypeOK, Pool!TypeOK, Pool!Workers, Pool!Items, Calls, Complete
  <2>2. output[job[w]] \in SUBSET Calls
    BY <2>1 DEF TypeOK
  <2>3. PoolFacts!Resolve(w, output[job[w]])
    BY <1>1 DEF Complete, Pool!Resolve, PoolFacts!Resolve, Pool!Pull, PoolFacts!Pull
  <2> QED
    BY <2>2, <2>3 DEF PoolFacts!Next, PoolFacts!Run, PoolFacts!Workers,
                      PoolFacts!Items, Calls
<1>2. CASE PoolResolves
  BY <1>2 DEF PoolResolves, Pool!Settle, PoolFacts!Settle, Pool!InFlight,
              PoolFacts!InFlight, Pool!Workers, PoolFacts!Workers, Pool!Items,
              PoolFacts!Items, PoolFacts!Next
<1>3. ASSUME UNCHANGED poolVars PROVE UNCHANGED PoolFacts!vars
  BY <1>3 DEF poolVars, PoolFacts!vars
<1> QED
  BY <1>1, <1>2, <1>3 DEF Next, Acquire, Act, AppendResults, Returned, vars

-----------------------------------------------------------------------------

(* The batch starts well typed. *)
LEMMA BatchInitTypeOK == Init => TypeOK
<1> SUFFICES ASSUME Init PROVE TypeOK
  OBVIOUS
<1>1. Pool!TypeOK
  BY PoolAssumed, InitOfPool, TypeOfPool, PoolFacts!InitTypeOK
<1>2. IsFiniteSet(Calls)
  BY BatchAssumption, FS_Interval DEF Calls
<1>3. \A S \in SUBSET Calls : Cardinality(S) \in Nat
  BY <1>2, FS_Subset, FS_CardinalityType
<1>4. /\ issued \in Nat
      /\ ticket \in [Calls -> Nat]
  BY <1>3 DEF Init, Mutating
<1>5. phase \in [Calls -> Phases]
  BY DEF Init, StartPhase, Phases
<1> QED
  BY <1>1, <1>4, <1>5 DEF Init, TypeOK

(* The pool keeps what PoolFacts knows of it at every step of the batch.   *)
LEMMA StepOfPool ==
  ASSUME TypeOK, PoolFacts!PoolInv, [Next]_vars
  PROVE  PoolFacts!PoolInv' /\ Pool!TypeOK'
<1>1. PoolFacts!PoolInv'
  BY NextOfPool, PoolAssumed, PoolFacts!StepPreserves
<1>2. Pool!TypeOK'
  BY <1>1 DEF PoolFacts!PoolInv, Pool!TypeOK, PoolFacts!TypeOK, Pool!Workers,
              PoolFacts!Workers, Pool!Items, PoolFacts!Items, Pool!Result,
              PoolFacts!Result, Pool!NoResult, PoolFacts!NoResult
<1> QED
  BY <1>1, <1>2

(* A resolved pool has a value in every slot. *)
LEMMA ResolvedIsFull ==
  ASSUME TypeOK, PoolFacts!PoolInv, outcome = "resolved", NEW c \in Calls
  PROVE  results[c].value \in SUBSET Calls
<1>1. results[c].item = c /\ c # 0
  BY DEF PoolFacts!PoolInv, PoolFacts!SettlesWhenQuiet, PoolFacts!Items, Calls
<1>2. results[c] \in Pool!Result \cup {Pool!NoResult}
  BY DEF TypeOK, Pool!TypeOK, Pool!Items, Calls
<1>3. Pool!NoResult.item = 0
  BY DEF Pool!NoResult
<1> QED
  BY <1>1, <1>2, <1>3 DEF Pool!Result

(* Every step of the batch keeps the types. *)
LEMMA BatchStepTypeOK ==
  ASSUME TypeOK, PoolFacts!PoolInv, [Next]_vars
  PROVE  TypeOK'
<1>1. Pool!TypeOK'
  BY StepOfPool
<1>2. ASSUME NEW c \in Calls, Acquire(c) PROVE TypeOK'
  BY <1>1, <1>2 DEF Acquire, TypeOK, lockVars, Phases
<1>3. ASSUME NEW c \in Calls, Act(c) PROVE TypeOK'
  BY <1>1, <1>3 DEF Act, TypeOK, lockVars, Phases, Mutating
<1>4. ASSUME NEW w \in Calls, Complete(w) PROVE TypeOK'
  <2>1. phase' \in [Calls -> Phases]
    BY <1>4 DEF Complete, StartPhase, TypeOK, Phases
  <2>2. issued' \in Nat /\ settled' \in Nat /\ ticket' \in [Calls -> Nat]
    BY <1>4 DEF Complete, Relock, TypeOK
  <2> QED
    BY <1>1, <1>4, <2>1, <2>2 DEF Complete, TypeOK
<1>5. CASE PoolResolves
  BY <1>1, <1>5 DEF PoolResolves, TypeOK, lockVars
<1>6. CASE AppendResults
  BY <1>1, <1>6, ResolvedIsFull DEF AppendResults, TypeOK, lockVars
<1>7. CASE UNCHANGED vars
  BY <1>1, <1>7 DEF vars, lockVars, TypeOK
<1> QED
  BY <1>2, <1>3, <1>4, <1>5, <1>6, <1>7 DEF Next, Returned

(* The batch's variables keep their types; the answers appended are those  *)
(* of calls, because a resolved pool has a value in every slot.            *)
THEOREM TypeCorrect == SafeSpec => []TypeOK
<1>1. Init => PoolFacts!PoolInv
  BY InitOfPool, PoolAssumed, PoolFacts!InitEstablishes
<1> QED
  BY BatchInitTypeOK, BatchStepTypeOK, StepOfPool, <1>1, PTL DEF SafeSpec

-----------------------------------------------------------------------------
(* The inductive invariant behind the order of the mutations.  A call that *)
(* has been pulled is in no phase its kind cannot reach, and exactly the   *)
(* calls that are done have their output stored.                           *)
PhasesFit ==
  \A c \in Calls :
    /\ phase[c] = "idle" <=> c >= next
    /\ kind[c] = "parse_error" => phase[c] \in {"idle", "acted", "done"}
    /\ kind[c] = "low" => phase[c] # "queued"

ResultsFit ==
  /\ failed = FALSE
  /\ \A c \in Calls :
       /\ phase[c] = "done" <=> results[c] # Pool!NoResult
       /\ results[c] # Pool!NoResult => results[c].value = output[c]

(* The mutating calls that have joined the lock's chain. *)
Joined == {c \in Mutating : c < next}

(* Tickets are handed out in call order and without a gap. *)
TicketsFit ==
  /\ \A c \in Joined : ticket[c] \in 1..issued
  /\ \A c \in Calls \ Joined : ticket[c] = 0
  /\ \A b, c \in Joined : b < c => ticket[b] < ticket[c]
  /\ \A k \in 1..issued : \E c \in Joined : ticket[c] = k

(* The chain moves one ticket at a time: what is below `settled' is done,  *)
(* what runs is just above it.                                             *)
ChainFits ==
  /\ settled <= issued
  /\ \A c \in Joined :
       /\ phase[c] = "done" <=> ticket[c] <= settled
       /\ phase[c] \in {"running", "acted"} => ticket[c] = settled + 1

AnswersFit ==
  transcript # <<>> =>
    /\ outcome = "resolved"
    /\ \A c \in Calls : transcript[c] = [call |-> c, value |-> output[c]]

BatchInv ==
  /\ TypeOK
  /\ PoolFacts!PoolInv
  /\ PhasesFit
  /\ ResultsFit
  /\ TicketsFit
  /\ ChainFits
  /\ AnswersFit

(* A subset of a set of calls, its numbering by counting, and the pigeons: *)
(* counting the members up to each member numbers them without a gap.      *)
LEMMA Numbering ==
  ASSUME NEW M \in SUBSET Calls, NEW f,
         f = [c \in M |-> Cardinality(M \cap (1..c))]
  PROVE  /\ IsFiniteSet(M) /\ Cardinality(M) \in Nat
         /\ \A c \in M : f[c] \in 1..Cardinality(M)
         /\ \A b, c \in M : b < c => f[b] < f[c]
         /\ \A k \in 1..Cardinality(M) : \E c \in M : f[c] = k
<1>1. IsFiniteSet(Calls) /\ Calls \subseteq Nat
  BY BatchAssumption, FS_Interval DEF Calls
<1>2. \A S \in SUBSET Calls : IsFiniteSet(S) /\ Cardinality(S) \in Nat
  BY <1>1, FS_Subset, FS_CardinalityType
<1>3. \A S \in SUBSET Calls : \A T \in SUBSET S :
        Cardinality(T) <= Cardinality(S) /\ (Cardinality(S) = Cardinality(T) => S = T)
  BY <1>2, FS_Subset
<1>4. ASSUME NEW c \in M PROVE f[c] \in 1..Cardinality(M)
  <2>1. M \cap (1..c) \in SUBSET M /\ {} \in SUBSET (M \cap (1..c))
    OBVIOUS
  <2>2. c \in M \cap (1..c)
    BY <1>1 DEF Calls
  <2>3. Cardinality({}) = 0
    BY FS_EmptySet
  <2>4. Cardinality(M \cap (1..c)) # 0
    <3>1. M \cap (1..c) \in SUBSET Calls /\ M \cap (1..c) # {}
      BY <2>2
    <3> QED
      BY <3>1, <2>1, <2>3, <1>3
  <2>5. /\ Cardinality(M \cap (1..c)) \in Nat /\ Cardinality(M) \in Nat
        /\ Cardinality(M \cap (1..c)) <= Cardinality(M)
    BY <2>1, <1>2, <1>3
  <2> QED
    BY <2>4, <2>5
<1>5. ASSUME NEW b \in M, NEW c \in M, b < c PROVE f[b] < f[c]
  <2>1. M \cap (1..b) \in SUBSET (M \cap (1..c)) /\ M \cap (1..c) \in SUBSET Calls
    BY <1>1, <1>5
  <2>2. c \in M \cap (1..c) /\ c \notin M \cap (1..b)
    BY <1>1, <1>5 DEF Calls
  <2>3. /\ Cardinality(M \cap (1..b)) <= Cardinality(M \cap (1..c))
        /\ Cardinality(M \cap (1..b)) # Cardinality(M \cap (1..c))
    BY <2>1, <2>2, <1>3
  <2>4. Cardinality(M \cap (1..b)) \in Nat /\ Cardinality(M \cap (1..c)) \in Nat
    BY <2>1, <1>2
  <2> QED
    BY <2>3, <2>4
<1>6. ASSUME NEW k \in 1..Cardinality(M) PROVE \E c \in M : f[c] = k
  <2> DEFINE T == 1..Cardinality(M)
  <2>1. IsFiniteSet(T) /\ Cardinality(T) = Cardinality(M)
    <3>1. Cardinality(M) \in Nat
      BY <1>2
    <3>2. \A n \in Nat : IsFiniteSet(1..n) /\ Cardinality(1..n) = n
      <4> SUFFICES ASSUME NEW n \in Nat
                   PROVE  IsFiniteSet(1..n) /\ Cardinality(1..n) = n
        OBVIOUS
      <4>1. /\ IsFiniteSet(1..n)
            /\ Cardinality(1..n) = IF 1 > n THEN 0 ELSE n - 1 + 1
        BY FS_Interval
      <4> QED
        BY <4>1
    <3> QED
      BY <3>1, <3>2
  <2>2. \A b, c \in M : f[b] = f[c] => b = c
    <3>1. \A b, c \in M : b < c \/ c < b \/ b = c
      BY <1>1
    <3>2. \A c \in M : f[c] \in Nat
      BY <1>4
    <3> QED
      BY <1>5, <3>1, <3>2
  <2>3. f \in [M -> T]
    BY <1>4
  <2>4. f \in Injection(M, T)
    BY <2>2, <2>3 DEF Injection, IsInjective
  <2>5. f \in Surjection(M, T)
    BY <2>1, <2>4, FS_Injection
  <2> QED
    BY <2>5 DEF Surjection
<1> QED
  BY <1>2, <1>4, <1>5, <1>6

(* The calls pulled at the start are numbered in call order, and none has  *)
(* run.                                                                    *)
LEMMA InitBatchInv == Init => BatchInv
<1> SUFFICES ASSUME Init PROVE BatchInv
  OBVIOUS
<1>1. TypeOK /\ PoolFacts!PoolInv
  BY BatchInitTypeOK, InitOfPool, PoolAssumed, PoolFacts!InitEstablishes
<1>2. PhasesFit /\ ResultsFit
  <2>1. \A c \in Calls : phase[c] = IF c < next THEN StartPhase(c) ELSE "idle"
    BY DEF Init
  <2>2. \A c \in Calls : results[c] = Pool!NoResult
    BY DEF Init, Pool!Init, Pool!Items, Calls
  <2>3. next \in Nat
    BY <1>1 DEF TypeOK, Pool!TypeOK
  <2>4. \A c \in Calls : kind[c] \in Kinds /\ c \in Nat
    BY DEF Init, Calls
  <2>5. PhasesFit
    BY <2>1, <2>3, <2>4 DEF PhasesFit, StartPhase, Kinds
  <2>6. ResultsFit
    BY <2>1, <2>2, <2>4 DEF ResultsFit, StartPhase, Kinds, Init, Pool!Init
  <2> QED
    BY <2>5, <2>6
<1>3. TicketsFit
  <2> DEFINE f == [c \in Joined |-> Cardinality(Joined \cap (1..c))]
  <2>1. Joined \in SUBSET Calls /\ issued = Cardinality(Joined)
    BY DEF Joined, Mutating, Init
  <2>2. \A c \in Joined : Joined \cap (1..c) = Mutating \cap (1..c)
    <3>1. next \in Nat
      BY <1>1 DEF TypeOK, Pool!TypeOK
    <3> QED
      BY <3>1 DEF Joined, Mutating, Calls
  <2>3. \A c \in Joined : ticket[c] = f[c]
    BY <2>2 DEF Init, Joined, Mutating
  <2>4. \A c \in Calls \ Joined : ticket[c] = 0
    BY DEF Init, Joined
  <2>5. /\ \A c \in Joined : f[c] \in 1..Cardinality(Joined)
        /\ \A b, c \in Joined : b < c => f[b] < f[c]
        /\ \A k \in 1..Cardinality(Joined) : \E c \in Joined : f[c] = k
    <3> HIDE DEF f
    <3>1. f = [c \in Joined |-> Cardinality(Joined \cap (1..c))]
      BY DEF f
    <3> QED
      BY <2>1, <3>1, Numbering
  <2> HIDE DEF f
  <2> QED
    BY <2>1, <2>3, <2>4, <2>5 DEF TicketsFit
<1>4. ChainFits /\ AnswersFit
  <2>1. \A c \in Joined : phase[c] = "queued"
    BY DEF Init, Joined, Mutating, StartPhase
  <2>2. settled = 0 /\ transcript = <<>> /\ issued \in Nat
    BY <1>1 DEF Init, TypeOK
  <2>3. \A c \in Joined : ticket[c] \in 1..issued
    BY <1>3 DEF TicketsFit
  <2> QED
    BY <2>1, <2>2, <2>3 DEF ChainFits, AnswersFit
<1> QED
  BY <1>1, <1>2, <1>3, <1>4 DEF BatchInv

(* What one call's settling does, in terms of the call c that settled and  *)
(* the call d, if any, that was pulled in its place.                       *)
LEMMA CompleteMoves ==
  ASSUME BatchInv, NEW w \in Calls, Complete(w)
  PROVE  /\ job[w] \in Calls /\ job[w] < next
         /\ phase[job[w]] = "acted" /\ phase'[job[w]] = "done"
         /\ next \in Nat /\ next' = next + 1
         /\ job'[w] = IF next \in Calls THEN next ELSE 0
         /\ next \in Calls => phase'[next] = StartPhase(next)
         /\ \A b \in Calls : b # job[w] /\ b # next => phase'[b] = phase[b]
         /\ results' = [results EXCEPT ![job[w]] =
                          [item |-> job[w], value |-> output[job[w]]]]
         /\ UNCHANGED <<kind, failed, output, outcome, transcript, applied>>
<1>1. failed = FALSE /\ next \in Nat \ {0} /\ job \in [Calls -> Calls \cup {0}]
  BY DEF BatchInv, TypeOK, Pool!TypeOK, ResultsFit, Pool!Workers, Pool!Items, Calls
<1>2. job[w] \in Calls /\ job[w] # 0
  BY <1>1 DEF Complete
<1>3. job[w] < next
  BY DEF BatchInv, PoolFacts!PoolInv, PoolFacts!EachItemOnce, PoolFacts!Workers,
         PoolFacts!Items, Calls
<1>4. next' = next + 1 /\ job'[w] = IF next > NumCalls THEN 0 ELSE next
  BY <1>1 DEF Complete, Pool!Resolve, Pool!Pull
<1>5. next > NumCalls <=> next \notin Calls
  BY <1>1, BatchAssumption DEF Calls
<1>7. 0 \notin Calls
  BY DEF Calls
<1>8. job'[w] = IF next \in Calls THEN next ELSE 0
  BY <1>4, <1>5
<1>9. next # job[w]
  BY <1>1, <1>2, <1>3 DEF Calls
<1>6. ASSUME NEW b \in Calls
      PROVE  /\ b = job[w] => phase'[b] = "done"
             /\ b = next => phase'[b] = StartPhase(b)
             /\ b # job[w] /\ b # next => phase'[b] = phase[b]
  <2>1. phase'[b] = CASE b = job[w] -> "done"
                      [] b = job'[w] -> StartPhase(b)
                      [] OTHER -> phase[b]
    BY DEF Complete
  <2>2. (b = job'[w] <=> b = next) /\ next # job[w]
    BY <1>7, <1>8, <1>9
  <2> QED
    BY <2>1, <2>2
<1>10. phase[job[w]] = "acted" /\ results' = [results EXCEPT ![job[w]] =
                          [item |-> job[w], value |-> output[job[w]]]]
       /\ UNCHANGED <<kind, failed, output, outcome, transcript, applied>>
  BY DEF Complete, Pool!Resolve
<1> QED
  BY <1>1, <1>2, <1>3, <1>4, <1>6, <1>8, <1>10

(* A call that is over frees the lock for the next ticket, and its worker  *)
(* pulls the next call.                                                    *)
LEMMA CompletePreserves ==
  ASSUME BatchInv, NEW w \in Calls, Complete(w), TypeOK', PoolFacts!PoolInv'
  PROVE  BatchInv'
<1> DEFINE c == job[w]
<1>1. /\ c \in Calls /\ c < next
      /\ phase[c] = "acted" /\ phase'[c] = "done"
      /\ next \in Nat /\ next' = next + 1
      /\ job'[w] = IF next \in Calls THEN next ELSE 0
      /\ next \in Calls => phase'[next] = StartPhase(next)
      /\ \A b \in Calls : b # c /\ b # next => phase'[b] = phase[b]
      /\ results' = [results EXCEPT ![c] = [item |-> c, value |-> output[c]]]
      /\ UNCHANGED <<kind, failed, output, outcome, transcript, applied>>
  BY CompleteMoves
<1>2. Relock(c, job'[w])
  BY DEF Complete
<1> HIDE DEF c
<1>3. \A b \in Calls : b \in Nat /\ kind[b] \in Kinds
  BY DEF Calls, BatchInv, TypeOK
<1>4. Mutating' = Mutating /\ 0 \notin Calls /\ Mutating \subseteq Calls
  BY <1>1 DEF Mutating, Calls
<1>5. PhasesFit'
  <2> SUFFICES ASSUME NEW b \in Calls
               PROVE  /\ phase'[b] = "idle" <=> b >= next'
                      /\ kind[b] = "parse_error" => phase'[b] \in {"idle", "acted", "done"}
                      /\ kind[b] = "low" => phase'[b] # "queued"
    BY <1>1 DEF PhasesFit
  <2>1. CASE b = c
    BY <2>1, <1>1, <1>3
  <2>2. CASE b = next
    BY <2>2, <1>1, <1>3 DEF StartPhase, Kinds
  <2>3. CASE b # c /\ b # next
    BY <2>3, <1>1, <1>3 DEF BatchInv, PhasesFit
  <2> QED
    BY <2>1, <2>2, <2>3
<1>6. ResultsFit'
  <2>1. failed' = FALSE
    BY <1>1 DEF BatchInv, ResultsFit
  <2>2. ASSUME NEW b \in Calls
        PROVE  /\ phase'[b] = "done" <=> results'[b] # Pool!NoResult
               /\ results'[b] # Pool!NoResult => results'[b].value = output[b]
    <3>1. results \in [Calls -> Pool!Result \cup {Pool!NoResult}]
      BY DEF BatchInv, TypeOK, Pool!TypeOK, Pool!Items, Calls
    <3>2. CASE b = c
      <4>1. results'[b] = [item |-> b, value |-> output[b]]
        BY <3>1, <3>2, <1>1
      <4>2. results'[b].item # 0 /\ Pool!NoResult.item = 0
        BY <4>1, <1>4 DEF Pool!NoResult
      <4> QED
        BY <4>1, <4>2, <3>2, <1>1
    <3>3. CASE b = next /\ b # c
      <4>1. phase[b] = "idle"
        BY <3>3, <1>3 DEF BatchInv, PhasesFit
      <4>2. results'[b] = results[b]
        BY <3>3, <3>1, <1>1
      <4>3. phase'[b] # "done"
        BY <3>3, <1>1 DEF StartPhase
      <4> QED
        BY <4>1, <4>2, <4>3 DEF BatchInv, ResultsFit
    <3>4. CASE b # c /\ b # next
      <4>1. results'[b] = results[b] /\ phase'[b] = phase[b]
        BY <3>4, <3>1, <1>1
      <4> QED
        BY <4>1 DEF BatchInv, ResultsFit
    <3> QED
      BY <3>2, <3>3, <3>4
  <2>3. output' = output /\ Pool!NoResult' = Pool!NoResult
    BY <1>1 DEF Pool!NoResult
  <2> QED
    BY <2>1, <2>2, <2>3 DEF ResultsFit
<1>7. Joined' = IF next \in Mutating THEN Joined \cup {next} ELSE Joined
  BY <1>1, <1>3, <1>4 DEF Joined
<1>8. IF next \in Mutating
      THEN issued' = issued + 1 /\ ticket' = [ticket EXCEPT ![next] = issued + 1]
      ELSE UNCHANGED <<issued, ticket>>
  BY <1>1, <1>2, <1>4 DEF Relock
<1>9. settled' = IF c \in Mutating THEN settled + 1 ELSE settled
  BY <1>2 DEF Relock
<1>10. /\ issued \in Nat /\ settled \in Nat /\ ticket \in [Calls -> Nat]
       /\ Joined \subseteq Calls /\ next \notin Joined
       /\ \A b \in Joined : b < next
  BY <1>1, <1>3, <1>4 DEF BatchInv, TypeOK, Joined
<1>11. TicketsFit'
  <2>1. CASE next \notin Mutating
    BY <2>1, <1>7, <1>8 DEF BatchInv, TicketsFit
  <2>2. CASE next \in Mutating
    <3>1. /\ Joined' = Joined \cup {next} /\ issued' = issued + 1
          /\ next \in Calls /\ ticket'[next] = issued + 1
          /\ \A b \in Calls : b # next => ticket'[b] = ticket[b]
      BY <2>2, <1>4, <1>7, <1>8, <1>10
    <3>2. \A b \in Joined' : ticket'[b] \in 1..issued'
      BY <3>1, <1>10 DEF BatchInv, TicketsFit
    <3>3. \A b \in Calls \ Joined' : ticket'[b] = 0
      BY <3>1, <1>10 DEF BatchInv, TicketsFit
    <3>4. \A a, b \in Joined' : a < b => ticket'[a] < ticket'[b]
      BY <3>1, <1>1, <1>3, <1>10 DEF BatchInv, TicketsFit
    <3>5. ASSUME NEW k \in 1..issued' PROVE \E b \in Joined' : ticket'[b] = k
      <4>1. CASE k = issued + 1
        BY <4>1, <3>1
      <4>2. CASE k \in 1..issued
        <5>1. PICK b \in Joined : ticket[b] = k
          BY <4>2 DEF BatchInv, TicketsFit
        <5> QED
          BY <5>1, <3>1, <1>10
      <4> QED
        BY <4>1, <4>2, <3>1, <1>10
    <3>6. Calls' = Calls
      BY DEF Calls
    <3> QED
      BY <3>2, <3>3, <3>4, <3>5 DEF TicketsFit
  <2> QED
    BY <2>1, <2>2
<1>12. ChainFits'
  <2>1. c \in Mutating =>
          /\ c \in Joined /\ ticket[c] = settled + 1 /\ ticket[c] \in 1..issued
    BY <1>1 DEF Joined, BatchInv, ChainFits, TicketsFit
  <2>2. settled' <= issued' /\ settled <= issued
    BY <2>1, <1>8, <1>9, <1>10 DEF BatchInv, ChainFits
  <2>3. ASSUME NEW b \in Joined
        PROVE  /\ phase'[b] = "done" <=> ticket'[b] <= settled'
               /\ phase'[b] \in {"running", "acted"} => ticket'[b] = settled' + 1
    <3>1. b \in Calls /\ b # next /\ ticket'[b] = ticket[b] /\ ticket[b] \in Nat
      BY <1>8, <1>10
    <3>2. b \in Mutating
      BY DEF Joined
    <3>3. /\ phase[b] = "done" <=> ticket[b] <= settled
          /\ phase[b] \in {"running", "acted"} => ticket[b] = settled + 1
      BY DEF BatchInv, ChainFits
    <3>4. CASE b = c
      BY <3>1, <3>2, <3>4, <2>1, <1>1, <1>9, <1>10
    <3>5. CASE b # c /\ c \in Mutating
      <4>1. phase'[b] = phase[b]
        BY <3>1, <3>5, <1>1
      <4>2. ticket[b] # settled + 1
        <5>1. \A a, e \in Joined : a < e => ticket[a] < ticket[e]
          BY DEF BatchInv, TicketsFit
        <5>2. b < c \/ c < b
          BY <3>1, <3>5, <1>1, <1>3
        <5> QED
          BY <5>1, <5>2, <3>1, <3>5, <2>1, <1>10
      <4>3. settled' = settled + 1
        BY <3>5, <1>9
      <4> QED
        BY <3>1, <3>3, <4>1, <4>2, <4>3, <1>10
    <3>6. CASE b # c /\ c \notin Mutating
      BY <3>1, <3>3, <3>6, <1>1, <1>9
    <3> QED
      BY <3>4, <3>5, <3>6
  <2>4. ASSUME next \in Mutating
        PROVE  phase'[next] = "queued" /\ ticket'[next] > settled'
    <3>1. phase'[next] = "queued"
      BY <2>4, <1>1 DEF Mutating, StartPhase
    <3>2. ticket'[next] = issued + 1
      BY <2>4, <1>4, <1>8, <1>10
    <3>3. settled' <= issued
      BY <2>1, <2>2, <1>9, <1>10
    <3>4. settled' \in Nat
      BY <1>9, <1>10
    <3> QED
      BY <3>1, <3>2, <3>3, <3>4, <1>10
  <2>5. settled' \in Nat /\ ticket' \in [Calls -> Nat]
    BY DEF TypeOK
  <2> QED
    BY <2>2, <2>3, <2>4, <2>5, <1>4, <1>7 DEF ChainFits
<1>13. AnswersFit'
  BY <1>1 DEF BatchInv, AnswersFit
<1> QED
  BY <1>5, <1>6, <1>11, <1>12, <1>13 DEF BatchInv

(* The lock goes to the ticket after the last one settled. *)
LEMMA AcquirePreserves ==
  ASSUME BatchInv, NEW c \in Calls, Acquire(c), TypeOK', PoolFacts!PoolInv'
  PROVE  BatchInv'
<1>1. /\ phase[c] = "queued" /\ ticket[c] = settled + 1
      /\ phase' = [phase EXCEPT ![c] = "running"] /\ phase \in [Calls -> Phases]
      /\ UNCHANGED <<kind, next, failed, results, outcome, ticket, issued, settled,
                     output, transcript>>
  BY DEF Acquire, poolVars, lockVars, BatchInv, TypeOK
<1>2. \A b \in Calls : phase'[b] = IF b = c THEN "running" ELSE phase[b]
  BY <1>1
<1>3. Joined' = Joined /\ Joined \subseteq Calls /\ Pool!NoResult' = Pool!NoResult
  BY <1>1 DEF Joined, Mutating, Pool!NoResult
<1>4. PhasesFit'
  BY <1>1, <1>2 DEF BatchInv, PhasesFit
<1>5. ResultsFit'
  BY <1>1, <1>2, <1>3 DEF BatchInv, ResultsFit
<1>6. TicketsFit'
  BY <1>1, <1>3 DEF BatchInv, TicketsFit
<1>7. ChainFits'
  BY <1>1, <1>2, <1>3 DEF BatchInv, ChainFits
<1>8. AnswersFit'
  BY <1>1 DEF BatchInv, AnswersFit
<1> QED
  BY <1>4, <1>5, <1>6, <1>7, <1>8 DEF BatchInv

(* A call that acts keeps its place. *)
LEMMA ActPreserves ==
  ASSUME BatchInv, NEW c \in Calls, Act(c), TypeOK', PoolFacts!PoolInv'
  PROVE  BatchInv'
<1>1. /\ phase[c] = "running"
      /\ phase' = [phase EXCEPT ![c] = "acted"] /\ phase \in [Calls -> Phases]
      /\ output' = [output EXCEPT ![c] = applied] /\ output \in [Calls -> SUBSET Calls]
      /\ UNCHANGED <<kind, next, failed, results, outcome, ticket, issued, settled,
                     transcript>>
  BY DEF Act, poolVars, lockVars, BatchInv, TypeOK
<1>2. /\ \A b \in Calls : phase'[b] = IF b = c THEN "acted" ELSE phase[b]
      /\ \A b \in Calls : b # c => output'[b] = output[b]
  BY <1>1
<1>3. Joined' = Joined /\ Joined \subseteq Calls /\ Pool!NoResult' = Pool!NoResult
  BY <1>1 DEF Joined, Mutating, Pool!NoResult
<1>4. PhasesFit'
  BY <1>1, <1>2 DEF BatchInv, PhasesFit
<1>5. ResultsFit'
  BY <1>1, <1>2, <1>3 DEF BatchInv, ResultsFit
<1>6. TicketsFit'
  BY <1>1, <1>3 DEF BatchInv, TicketsFit
<1>7. ChainFits'
  BY <1>1, <1>2, <1>3 DEF BatchInv, ChainFits
<1>8. transcript = <<>>
  <2>1. results[c] = Pool!NoResult /\ Pool!NoResult.item # c
    BY <1>1 DEF BatchInv, ResultsFit, Pool!NoResult, Calls
  <2>2. outcome = "resolved" => results[c].item = c
    BY DEF BatchInv, PoolFacts!PoolInv, PoolFacts!SettlesWhenQuiet, PoolFacts!Items, Calls
  <2> QED
    BY <2>1, <2>2 DEF BatchInv, AnswersFit
<1>9. AnswersFit'
  BY <1>1, <1>8 DEF AnswersFit
<1> QED
  BY <1>4, <1>5, <1>6, <1>7, <1>9 DEF BatchInv

(* Once the pool has resolved, every call is done and what it answered is  *)
(* in its slot.                                                            *)
LEMMA ResolvedIsDone ==
  ASSUME BatchInv, outcome = "resolved", NEW c \in Calls
  PROVE  phase[c] = "done" /\ results[c].value = output[c]
<1>1. results[c].item = c /\ Pool!NoResult.item # c
  BY DEF BatchInv, PoolFacts!PoolInv, PoolFacts!SettlesWhenQuiet, PoolFacts!Items,
         Calls, Pool!NoResult
<1> QED
  BY <1>1 DEF BatchInv, ResultsFit

(* The answers are appended when the pool has settled, hence when every    *)
(* call is over.                                                           *)
LEMMA AppendPreserves ==
  ASSUME BatchInv, AppendResults, TypeOK', PoolFacts!PoolInv'
  PROVE  BatchInv'
<1>1. AnswersFit'
  BY ResolvedIsDone DEF AppendResults, AnswersFit, poolVars
<1>2. PhasesFit' /\ ResultsFit' /\ TicketsFit' /\ ChainFits'
  BY DEF AppendResults, poolVars, lockVars, BatchInv, PhasesFit, ResultsFit, TicketsFit,
         ChainFits, Joined, Mutating, Pool!NoResult
<1> QED
  BY <1>1, <1>2 DEF BatchInv

(* BatchInv is inductive. *)
LEMMA BatchStep == BatchInv /\ [Next]_vars => BatchInv'
<1> SUFFICES ASSUME BatchInv, [Next]_vars PROVE BatchInv'
  OBVIOUS
<1>1. TypeOK' /\ PoolFacts!PoolInv'
  BY BatchStepTypeOK, StepOfPool DEF BatchInv
<1>2. CASE PoolResolves
  <2>1. UNCHANGED <<kind, next, failed, results, phase, ticket, issued, settled, output,
                    transcript>> /\ outcome = "pending"
    BY <1>2 DEF PoolResolves, Pool!Settle, lockVars
  <2>2. PhasesFit' /\ ResultsFit' /\ TicketsFit' /\ ChainFits'
    BY <2>1 DEF BatchInv, PhasesFit, ResultsFit, TicketsFit, ChainFits, Joined, Mutating,
                Pool!NoResult
  <2>3. AnswersFit'
    BY <2>1 DEF BatchInv, AnswersFit
  <2> QED
    BY <1>1, <2>2, <2>3 DEF BatchInv
<1>3. CASE UNCHANGED vars
  <2>1. PhasesFit' /\ ResultsFit' /\ TicketsFit' /\ ChainFits' /\ AnswersFit'
    BY <1>3 DEF vars, poolVars, lockVars, BatchInv, PhasesFit, ResultsFit, TicketsFit,
                ChainFits, AnswersFit, Joined, Mutating, Pool!NoResult
  <2> QED
    BY <1>1, <2>1 DEF BatchInv
<1> QED
  BY <1>1, <1>2, <1>3, AcquirePreserves, ActPreserves, CompletePreserves, AppendPreserves
  DEF Next, Returned

(* The invariant of every batch. *)
LEMMA BatchInvariant == SafeSpec => []BatchInv
BY InitBatchInv, BatchStep, PTL DEF SafeSpec

-----------------------------------------------------------------------------
(* Tickets grow with the calls, and only the ticket after the last settled *)
(* one is under way: so mutations keep their order.                        *)
LEMMA OrderFollows == BatchInv => MutationsInCallOrder
<1> SUFFICES ASSUME BatchInv, NEW b \in Mutating, NEW c \in Mutating, b < c, Started(c)
             PROVE  phase[b] = "done"
  BY DEF MutationsInCallOrder
<1>1. b \in Calls /\ c \in Calls /\ b \in Nat /\ c \in Nat /\ next \in Nat
  BY DEF Mutating, Calls, BatchInv, TypeOK, Pool!TypeOK
<1>2. c < next
  BY <1>1 DEF Started, BatchInv, PhasesFit
<1>3. b \in Joined /\ c \in Joined
  BY <1>1, <1>2 DEF Joined
<1>4. ticket[b] < ticket[c] /\ ticket[b] \in Nat /\ ticket[c] \in Nat /\ settled \in Nat
  BY <1>1, <1>3 DEF BatchInv, TicketsFit, TypeOK
<1>5. ticket[c] <= settled + 1
  BY <1>3, <1>4 DEF Started, BatchInv, ChainFits
<1> QED
  BY <1>3, <1>4, <1>5 DEF BatchInv, ChainFits

(* No mutating call starts before every mutating call written ahead of it  *)
(* is over, whatever runs beside them.                                     *)
THEOREM MutationsKeepOrder == SafeSpec => []MutationsInCallOrder
BY BatchInvariant, OrderFollows, PTL

(* The conversation gets every call's own answer, in call order, and only  *)
(* when no tool runs and the lock is free.                                 *)
THEOREM TurnIsAnswered == SafeSpec => []AnswersAreComplete
<1>1. BatchInv => AnswersAreComplete
  <2> SUFFICES ASSUME BatchInv, transcript # <<>> PROVE
        /\ \A c \in Calls : phase[c] = "done" /\ transcript[c] = [call |-> c, value |-> output[c]]
        /\ settled = issued
    BY DEF AnswersAreComplete
  <2>1. \A c \in Calls : phase[c] = "done"
    BY ResolvedIsDone DEF BatchInv, AnswersFit
  <2>2. settled \in Nat /\ issued \in Nat /\ settled <= issued
    BY DEF BatchInv, TypeOK, ChainFits
  <2>3. ~ settled < issued
    <3> SUFFICES ASSUME settled < issued PROVE FALSE
      OBVIOUS
    <3>1. settled + 1 \in 1..issued
      BY <2>2
    <3>2. PICK c \in Joined : ticket[c] = settled + 1
      BY <3>1 DEF BatchInv, TicketsFit
    <3>3. c \in Calls
      BY DEF Joined, Mutating
    <3> QED
      BY <2>1, <2>2, <3>2, <3>3 DEF BatchInv, ChainFits
  <2> QED
    BY <2>1, <2>2, <2>3 DEF BatchInv, AnswersFit
<1> QED
  BY BatchInvariant, <1>1, PTL

(* Whenever a run waits on the lock's chain, the run ahead of all others   *)
(* is in the hands of a worker that can move it.                           *)
THEOREM LockIsOwned == SafeSpec => []LockHasOwner
<1>1. BatchInv => LockHasOwner
  <2> SUFFICES ASSUME BatchInv, issued > settled PROVE LockHasOwner
    BY DEF LockHasOwner
  <2>1. settled \in Nat /\ issued \in Nat
    BY DEF BatchInv, TypeOK
  <2>2. settled + 1 \in 1..issued
    BY <2>1
  <2>3. PICK c \in Joined : ticket[c] = settled + 1
    BY <2>2 DEF BatchInv, TicketsFit
  <2>4. c \in Calls /\ c < next /\ phase[c] # "done" /\ phase[c] \in Phases /\ next \in Nat
    BY <2>1, <2>3 DEF Joined, Mutating, BatchInv, ChainFits, TypeOK, Pool!TypeOK
  <2>5. phase[c] \in {"queued", "running", "acted"}
    BY <2>4 DEF BatchInv, PhasesFit, Phases, Calls
  <2>6. results[c] = Pool!NoResult /\ failed = FALSE
    BY <2>4 DEF BatchInv, ResultsFit
  <2>7. \E w \in Calls : job[w] = c
    BY <2>4, <2>6 DEF BatchInv, PoolFacts!PoolInv, PoolFacts!EachItemOnce,
       PoolFacts!Items, PoolFacts!Workers, Calls, Pool!NoResult, PoolFacts!NoResult
  <2> QED
    BY <2>3, <2>4, <2>5, <2>7 DEF LockHasOwner
<1> QED
  BY BatchInvariant, <1>1, PTL

(* Mutations in call order, every answer in its place, and a lock that is  *)
(* never lost: for any number of calls of any kinds, and any concurrency.  *)
THEOREM BatchIsCorrect == SafeSpec => []BatchIsSound
<1>1. MutationsInCallOrder /\ AnswersAreComplete /\ LockHasOwner => BatchIsSound
  BY DEF BatchIsSound
<1> QED
  BY <1>1, MutationsKeepOrder, TurnIsAnswered, LockIsOwned, PTL

-----------------------------------------------------------------------------
(* With one worker all calls before the one pulled last are over; what has *)
(* taken effect comes from calls that have acted.                          *)
OneAtATime ==
  Pool!Width = 1 => \A c \in Calls : c < next - 1 => phase[c] = "done"

AppliedFits == \A b \in applied : phase[b] \in {"acted", "done"}

OutputsFit ==
  Pool!Width = 1 =>
    \A c \in Calls :
      phase[c] \in {"acted", "done"} /\ kind[c] # "parse_error" => FoundAsWritten(c)

AloneInv == OneAtATime /\ AppliedFits /\ OutputsFit

(* One call was pulled, and none has acted. *)
LEMMA AloneInit == Init => AloneInv
<1> SUFFICES ASSUME Init PROVE AloneInv
  OBVIOUS
<1>1. next = Pool!Width + 1 /\ applied = {}
  BY DEF Init, Pool!Init
<1>2. OneAtATime
  BY <1>1 DEF OneAtATime, Calls
<1>3. \A c \in Calls : phase[c] \in {"acted", "done"} => kind[c] = "parse_error"
  BY DEF Init, StartPhase
<1> QED
  BY <1>1, <1>2, <1>3 DEF AloneInv, AppliedFits, OutputsFit

(* The call that is not over yet is the last one pulled.                   *)
LEMMA LastPulled ==
  ASSUME BatchInv, OneAtATime, Pool!Width = 1, NEW c \in Calls,
         phase[c] \in {"queued", "running", "acted"}
  PROVE  c = next - 1
<1>1. c < next
  BY DEF BatchInv, PhasesFit, Calls, TypeOK, Pool!TypeOK
<1>2. ~(c < next - 1)
  BY DEF OneAtATime
<1> QED
  BY <1>1, <1>2 DEF BatchInv, TypeOK, Pool!TypeOK, Calls

(* It finds what those before it left. *)
LEMMA AloneActs ==
  ASSUME BatchInv, AloneInv, NEW c \in Calls, Act(c)
  PROVE  AloneInv'
<1>1. /\ phase[c] = "running" /\ applied \subseteq Calls
      /\ phase' = [phase EXCEPT ![c] = "acted"] /\ phase \in [Calls -> Phases]
      /\ output' = [output EXCEPT ![c] = applied] /\ output \in [Calls -> SUBSET Calls]
      /\ applied' = applied \/ applied' = applied \cup {c}
      /\ UNCHANGED <<kind, next, limit>>
  BY DEF Act, poolVars, BatchInv, TypeOK, Mutating
<1>2. /\ \A b \in Calls : phase'[b] = IF b = c THEN "acted" ELSE phase[b]
      /\ \A b \in Calls : output'[b] = IF b = c THEN applied ELSE output[b]
  BY <1>1
<1>3. Pool!Width' = Pool!Width
  BY <1>1 DEF Pool!Width
<1>4. OneAtATime'
  BY <1>1, <1>2, <1>3 DEF AloneInv, OneAtATime
<1>5. AppliedFits'
  BY <1>1, <1>2 DEF AloneInv, AppliedFits
<1>6. OutputsFit'
  <2> SUFFICES ASSUME Pool!Width = 1, NEW d \in Calls, phase'[d] \in {"acted", "done"},
                      kind[d] # "parse_error"
               PROVE  output'[d] = {b \in applied' : b < d}
    BY <1>1, <1>3 DEF OutputsFit, FoundAsWritten
  <2>1. c = next - 1 /\ c \in Int /\ d \in Int /\ next \in Int
    BY <1>1, LastPulled DEF AloneInv, Calls, BatchInv, TypeOK, Pool!TypeOK
  <2>2. \A b \in Calls : phase[b] \in {"acted", "done"} => b < next
    BY DEF BatchInv, PhasesFit, TypeOK, Pool!TypeOK, Calls
  <2>3. CASE d = c
    <3>1. \A b \in applied : b < c
      <4>1. \A b \in applied : b \in Calls /\ b # c /\ b < next
        BY <1>1, <2>2 DEF AloneInv, AppliedFits
      <4> QED
        BY <2>1, <4>1 DEF Calls
    <3>2. ~(c < c)
      BY <2>1
    <3> QED
      BY <1>1, <1>2, <2>3, <3>1, <3>2
  <2>4. CASE d # c
    <3>1. d < next /\ phase[d] \in {"acted", "done"}
      BY <1>2, <2>2, <2>4
    <3>2. ~(c < d)
      BY <2>1, <3>1
    <3>3. output[d] = {b \in applied : b < d}
      BY <3>1 DEF AloneInv, OutputsFit, FoundAsWritten
    <3> QED
      BY <1>1, <1>2, <2>4, <3>2, <3>3
  <2> QED
    BY <2>3, <2>4
<1> QED
  BY <1>4, <1>5, <1>6 DEF AloneInv

(* When it is over, so are all that were pulled. *)
LEMMA AloneCompletes ==
  ASSUME BatchInv, AloneInv, NEW w \in Calls, Complete(w)
  PROVE  AloneInv'
<1> DEFINE c == job[w]
<1>1. /\ c \in Calls /\ c < next
      /\ phase[c] = "acted" /\ phase'[c] = "done"
      /\ next \in Nat /\ next' = next + 1
      /\ next \in Calls => phase'[next] = StartPhase(next)
      /\ \A b \in Calls : b # c /\ b # next => phase'[b] = phase[b]
      /\ UNCHANGED <<kind, output, applied>>
  BY CompleteMoves
<1>2. Pool!Width' = Pool!Width
  BY DEF Complete, Pool!Resolve, Pool!Width
<1>3. next \in Calls => phase[next] = "idle"
  BY <1>1 DEF BatchInv, PhasesFit
<1>4. applied \subseteq Calls
  BY DEF BatchInv, TypeOK
<1> HIDE DEF c
<1>5. AppliedFits'
  <2> SUFFICES ASSUME NEW b \in applied
               PROVE  phase'[b] \in {"acted", "done"}
    BY <1>1 DEF AppliedFits
  <2>1. b \in Calls /\ phase[b] \in {"acted", "done"}
    BY <1>4 DEF AloneInv, AppliedFits
  <2> QED
    BY <1>1, <1>3, <2>1
<1>6. OneAtATime'
  <2> SUFFICES ASSUME Pool!Width = 1, NEW b \in Calls, b < next
               PROVE  phase'[b] = "done"
    BY <1>1, <1>2 DEF OneAtATime
  <2>1. c = next - 1
    BY <1>1, LastPulled DEF AloneInv
  <2>2. CASE b = c
    BY <1>1, <2>2
  <2>3. CASE b # c
    <3>1. b < next - 1 /\ b # next
      BY <1>1, <2>1, <2>3 DEF Calls
    <3> QED
      BY <1>1, <2>3, <3>1 DEF AloneInv, OneAtATime
  <2> QED
    BY <2>2, <2>3
<1>7. OutputsFit'
  <2> SUFFICES ASSUME Pool!Width = 1, NEW d \in Calls, phase'[d] \in {"acted", "done"},
                      kind[d] # "parse_error"
               PROVE  output[d] = {b \in applied : b < d}
    BY <1>1, <1>2 DEF OutputsFit, FoundAsWritten
  <2>1. d # next
    BY <1>1 DEF StartPhase
  <2>2. phase[d] \in {"acted", "done"}
    BY <1>1, <2>1
  <2> QED
    BY <2>2 DEF AloneInv, OutputsFit, FoundAsWritten
<1> QED
  BY <1>5, <1>6, <1>7 DEF AloneInv

(* No other step changes what this is about, but for a call that starts.   *)
LEMMA AloneStep ==
  ASSUME BatchInv, AloneInv, [Next]_vars
  PROVE  AloneInv'
<1>1. ASSUME NEW c \in Calls, Acquire(c)
      PROVE  AloneInv'
  <2>1. /\ phase[c] = "queued" /\ UNCHANGED <<kind, next, limit, applied, output>>
        /\ \A b \in Calls : phase'[b] = IF b = c THEN "running" ELSE phase[b]
        /\ applied \subseteq Calls
    BY <1>1 DEF Acquire, poolVars, BatchInv, TypeOK
  <2>2. Pool!Width' = Pool!Width
    BY <2>1 DEF Pool!Width
  <2> QED
    BY <2>1, <2>2 DEF AloneInv, OneAtATime, AppliedFits, OutputsFit, FoundAsWritten
<1>2. ASSUME UNCHANGED <<kind, next, limit, applied, output, phase>>
      PROVE  AloneInv'
  <2>1. Pool!Width' = Pool!Width
    BY <1>2 DEF Pool!Width
  <2> QED
    BY <1>2, <2>1 DEF AloneInv, OneAtATime, AppliedFits, OutputsFit, FoundAsWritten
<1>3. PoolResolves => UNCHANGED <<kind, next, limit, applied, output, phase>>
  BY DEF PoolResolves, Pool!Settle
<1>4. AppendResults \/ Returned \/ UNCHANGED vars =>
        UNCHANGED <<kind, next, limit, applied, output, phase>>
  BY DEF AppendResults, Returned, vars, poolVars
<1> QED
  BY <1>1, <1>2, <1>3, <1>4, AloneActs, AloneCompletes DEF Next

(* With a concurrency of 1 a turn's calls are executed as the model wrote  *)
(* them, for any number of calls of any kinds, some of which fail.         *)
THEOREM OneWorkerIsSequential == SafeSpec => []SequentialAtOne
<1>1. AloneInv => SequentialAtOne
  BY DEF AloneInv, OutputsFit, SequentialAtOne
<1>2. SafeSpec => []AloneInv
  BY AloneInit, AloneStep, BatchInvariant, PTL DEF SafeSpec
<1> QED
  BY <1>1, <1>2, PTL

-----------------------------------------------------------------------------
(* The batch implements what a turn promises about its calls (TurnTools):  *)
(* every step is an effect allowed by call order, the turn's one answer,   *)
(* or invisible.                                                           *)
TurnActed == {c \in Calls : phase[c] \in {"acted", "done"} \/ kind[c] = "parse_error"}

(* A batch starts as a turn of which nothing has acted. *)
LEMMA InitRefines == Init => Turn!Init
<1> SUFFICES ASSUME Init PROVE Turn!Init
  OBVIOUS
<1>1. \A c \in Calls : phase[c] \in {"acted", "done"} => kind[c] = "parse_error"
  BY DEF Init, StartPhase
<1> QED
  BY <1>1 DEF Init, Turn!Init, Turn!Calls, Calls, Turn!Kinds, Kinds, Turn!Refused

(* Every step of a batch is a step of the abstract turn, or invisible in   *)
(* it.                                                                     *)
LEMMA StepRefines ==
  ASSUME BatchInv, BatchInv', [Next]_vars
  PROVE  [Turn!Next]_(Turn!turnVars)
<1>1. ASSUME NEW c \in Calls, Act(c) PROVE Turn!Act(c)
  <2>1. /\ phase[c] = "running" /\ phase \in [Calls -> Phases]
        /\ phase' = [phase EXCEPT ![c] = "acted"] /\ kind' = kind
    BY <1>1 DEF Act, BatchInv, TypeOK
  <2>2. kind[c] # "parse_error"
    BY <2>1 DEF BatchInv, PhasesFit
  <2>3. c \notin TurnActed /\ TurnActed' = TurnActed \cup {c}
    BY <2>1, <2>2 DEF TurnActed, Calls
  <2>4. c \in Mutating => \A b \in Mutating : b < c => b \in TurnActed
    BY <2>1, OrderFollows DEF MutationsInCallOrder, Started, TurnActed, Mutating
  <2>5. Turn!Mutating = Mutating /\ Turn!Calls = Calls
    BY DEF Turn!Mutating, Mutating, Turn!Calls, Calls
  <2> QED
    BY <1>1, <2>3, <2>4, <2>5 DEF Act, Turn!Act, TurnActed
<1>2. ASSUME AppendResults PROVE Turn!Answer
  <2>1. \A c \in Calls : phase[c] = "done" /\ results[c].value = output[c]
    BY <1>2, ResolvedIsDone DEF AppendResults
  <2>2. TurnActed = Calls /\ TurnActed' = TurnActed
    BY <1>2, <2>1 DEF TurnActed, AppendResults, Calls
  <2>3. Turn!Calls = Calls
    BY DEF Turn!Calls, Calls
  <2> QED
    BY <1>2, <2>1, <2>2, <2>3 DEF AppendResults, Turn!Answer, TurnActed
<1>3. ASSUME NEW w \in Calls, Complete(w) PROVE UNCHANGED Turn!turnVars
  <2>1. /\ phase[job[w]] = "acted" /\ phase'[job[w]] = "done" /\ next \in Nat
        /\ next \in Calls => phase'[next] = StartPhase(next)
        /\ \A b \in Calls : b # job[w] /\ b # next => phase'[b] = phase[b]
        /\ UNCHANGED <<kind, output, transcript, applied>>
    BY <1>3, CompleteMoves
  <2>2. next \in Calls => phase[next] = "idle"
    BY <2>1 DEF BatchInv, PhasesFit
  <2>3. ASSUME NEW b \in Calls PROVE b \in TurnActed' <=> b \in TurnActed
    <3>1. Calls' = Calls
      BY DEF Calls
    <3>2. CASE b = job[w]
      BY <3>1, <3>2, <2>1 DEF TurnActed
    <3>3. CASE b = next
      BY <3>1, <3>3, <2>1, <2>2 DEF TurnActed, StartPhase
    <3>4. CASE b # job[w] /\ b # next
      BY <3>1, <3>4, <2>1 DEF TurnActed
    <3> QED
      BY <3>2, <3>3, <3>4
  <2>4. TurnActed' = TurnActed
    BY <2>3 DEF TurnActed, Calls
  <2> QED
    BY <2>1, <2>4 DEF Turn!turnVars, TurnActed
<1>4. ASSUME NEW c \in Calls, Acquire(c) PROVE UNCHANGED Turn!turnVars
  <2>1. /\ phase[c] = "queued" /\ phase \in [Calls -> Phases]
        /\ phase' = [phase EXCEPT ![c] = "running"]
        /\ UNCHANGED <<kind, output, transcript, applied>>
    BY <1>4 DEF Acquire, BatchInv, TypeOK
  <2>2. TurnActed' = TurnActed
    BY <2>1 DEF TurnActed, Calls
  <2> QED
    BY <2>1, <2>2 DEF Turn!turnVars, TurnActed
<1>5. ASSUME PoolResolves \/ UNCHANGED vars PROVE UNCHANGED Turn!turnVars
  BY <1>5 DEF PoolResolves, vars, Turn!turnVars
<1> QED
  BY <1>1, <1>2, <1>3, <1>4, <1>5 DEF Next, Returned, Turn!Next, Turn!Calls, Calls

(* The concurrent batch of Agent.run implements the abstract turn:         *)
(* mutating calls act in call order, and each call gets its one answer, in *)
(* call order.                                                             *)
THEOREM BatchImplementsTurn == SafeSpec => TurnSpec
BY InitRefines, StepRefines, BatchInvariant, PTL DEF SafeSpec, TurnSpec, Turn!Spec
=============================================================================
