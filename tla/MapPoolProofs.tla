--------------------------- MODULE MapPoolProofs ---------------------------
(***************************************************************************)
(* Theorems about MapPool, for every number of items, every limit, every   *)
(* set of rejecting items and every set of values.                         *)
(***************************************************************************)
EXTENDS MapPool, FiniteSetTheorems, TLAPS

(* At least one worker is started, and with items never more than those.   *)
LEMMA WidthRange ==
  ASSUME NEW l \in Int, limit = l
  PROVE  /\ Width \in Nat \ {0}
         /\ NumItems > 0 => Width \in Items
BY PoolAssumption DEF Width, Items

(* The state after the workers have started is well typed. *)
LEMMA InitTypeOK == Init => TypeOK
<1> SUFFICES ASSUME Init PROVE TypeOK
  OBVIOUS
<1>1. Width \in Nat \ {0}
  BY WidthRange, PoolAssumption DEF Init
<1>2. next \in Nat \ {0} /\ limit \in Limits
  BY <1>1 DEF Init
<1>3. job \in [Workers -> Items \cup {0}]
  <2>1. \A w \in Workers : (IF w <= Width THEN w ELSE 0) \in Items \cup {0}
    BY DEF Workers
  <2> QED
    BY <2>1 DEF Init
<1>4. results \in [Items -> Result \cup {NoResult}]
  BY DEF Init
<1> QED
  BY <1>2, <1>3, <1>4 DEF Init, TypeOK

(* Every step of a worker, and the settling, keeps the types. *)
LEMMA StepTypeOK == TypeOK /\ [Next]_vars => TypeOK'
<1> SUFFICES ASSUME TypeOK, [Next]_vars PROVE TypeOK'
  OBVIOUS
<1> USE PoolAssumption DEF TypeOK, Workers, Items
<1>1. ASSUME NEW w \in Workers, NEW v \in Values, Resolve(w, v)
      PROVE  TypeOK'
  <2>1. [item |-> job[w], value |-> v] \in Result
    BY <1>1 DEF Resolve, Result
  <2> QED
    BY <1>1, <2>1 DEF Resolve, Pull
<1>2. ASSUME NEW w \in Workers, Reject(w) PROVE TypeOK'
  BY <1>2 DEF Reject
<1>3. CASE Settle
  BY <1>3 DEF Settle
<1>4. CASE UNCHANGED vars
  BY <1>4 DEF vars
<1> QED
  BY <1>1, <1>2, <1>3, <1>4 DEF Next, Run, Settled

-----------------------------------------------------------------------------
(* The counter and the workers stay in range, and every stored value is a  *)
(* value of the function mapped.                                           *)
THEOREM TypeCorrect == SafeSpec => []TypeOK
BY InitTypeOK, StepTypeOK, PTL DEF SafeSpec

-----------------------------------------------------------------------------
(* The inductive invariant behind what the pool promises.  While nothing   *)
(* has failed and items are left, every worker started is busy: this is    *)
(* what makes "no worker in flight" mean "all items done".                 *)
AllBusy ==
  ~failed /\ next <= NumItems => \A w \in 1..Width : job[w] # 0

FirstErrorKnown == failed => firstError \in MayReject

PoolInv == TypeOK /\ EachItemOnce /\ AllBusy /\ FirstErrorKnown /\ SettlesWhenQuiet

(* The workers that were started are all busy, each with an item of its    *)
(* own.                                                                    *)
LEMMA InitEstablishes == Init => PoolInv
<1> SUFFICES ASSUME Init PROVE PoolInv
  OBVIOUS
<1>1. Width \in Nat \ {0} /\ (NumItems > 0 => Width \in Items)
  BY WidthRange, PoolAssumption DEF Init
<1>2. TypeOK
  BY InitTypeOK
<1>3. EachItemOnce
  BY <1>1, PoolAssumption DEF Init, EachItemOnce, Workers, Items
<1>4. AllBusy
  BY <1>1, PoolAssumption DEF Init, AllBusy, Workers, Items
<1> QED
  BY <1>2, <1>3, <1>4 DEF Init, PoolInv, FirstErrorKnown, SettlesWhenQuiet

(* A worker that stores the value of its item and pulls the next one. *)
LEMMA ResolvePreserves ==
  ASSUME PoolInv, NEW w \in Workers, NEW v \in Values, Resolve(w, v), TypeOK'
  PROVE  PoolInv'
<1> DEFINE i == job[w]
           stored == [item |-> i, value |-> v]
<1> USE PoolAssumption
<1>1. i \in Items /\ stored.item = i /\ stored # NoResult
  <2>1. i \in Items
    BY DEF PoolInv, TypeOK, Resolve, Items
  <2>2. stored.item = i /\ NoResult.item = 0
    BY DEF NoResult
  <2> QED
    BY <2>1, <2>2 DEF Items
<1>2. /\ results' = [results EXCEPT ![i] = stored]
      /\ failed' = failed /\ firstError' = firstError /\ outcome' = outcome
      /\ limit' = limit
  BY DEF Resolve
<1>3. \A u \in Workers : u # w => job'[u] = job[u]
  BY DEF Resolve, Pull, PoolInv, TypeOK
<1>4. \/ job'[w] = 0 /\ next' = next /\ failed
      \/ job'[w] = 0 /\ next' = next + 1 /\ next > NumItems /\ ~failed
      \/ job'[w] = next /\ next' = next + 1 /\ next <= NumItems /\ ~failed
  BY DEF Resolve, Pull, PoolInv, TypeOK
<1>5. next \in Nat \ {0} /\ i < next
  BY DEF PoolInv, TypeOK, EachItemOnce
<1>6. EachItemOnce'
  <2>1. ASSUME NEW j \in Items, results'[j] # NoResult
        PROVE  results'[j].item = j /\ j < next' /\ \A u \in Workers : job'[u] # j
    <3>1. CASE j = i
      BY <3>1, <1>1, <1>2, <1>3, <1>4, <1>5 DEF PoolInv, TypeOK, EachItemOnce, Items
    <3>2. CASE j # i
      BY <2>1, <3>2, <1>2, <1>3, <1>4, <1>5 DEF PoolInv, TypeOK, EachItemOnce, Items
    <3> QED
      BY <3>1, <3>2
  <2>2. ASSUME NEW j \in Items, j < next', ~failed', results'[j] = NoResult
        PROVE  \E u \in Workers : job'[u] = j
    <3>1. j # i /\ results[j] = NoResult
      BY <2>2, <1>1, <1>2 DEF PoolInv, TypeOK
    <3>2. CASE j < next
      BY <3>1, <3>2, <2>2, <1>2, <1>3 DEF PoolInv, TypeOK, EachItemOnce
    <3>3. CASE j >= next
      BY <3>3, <2>2, <1>2, <1>4, <1>5 DEF Items
    <3> QED
      BY <3>2, <3>3, <1>5 DEF Items
  <2>3. ASSUME NEW u \in Workers PROVE job'[u] < next'
    <3>1. job[u] \in Nat /\ job[u] < next
      BY DEF PoolInv, TypeOK, EachItemOnce, Items
    <3> QED
      BY <3>1, <1>3, <1>4, <1>5
  <2>4. \A u, x \in Workers : job'[u] = job'[x] /\ job'[u] # 0 => u = x
    BY <1>3, <1>4, <1>5 DEF PoolInv, TypeOK, EachItemOnce, Items
  <2> QED
    BY <2>1, <2>2, <2>3, <2>4 DEF EachItemOnce
<1>7. AllBusy'
  <2>1. Width' = Width /\ Width \in Nat \ {0} /\ (NumItems > 0 => Width \in Items)
    BY <1>2, WidthRange DEF Width, PoolInv, TypeOK
  <2> QED
    BY <1>2, <1>3, <1>4, <1>5, <2>1 DEF AllBusy, PoolInv, Workers, Items
<1>8. FirstErrorKnown' /\ SettlesWhenQuiet'
  <2>1. outcome = "pending"
    BY DEF PoolInv, SettlesWhenQuiet, InFlight, Resolve
  <2> QED
    BY <1>2, <2>1 DEF FirstErrorKnown, SettlesWhenQuiet, PoolInv
<1> QED
  BY <1>6, <1>7, <1>8 DEF PoolInv

(* A worker whose item rejected, and the pool's settling. *)
LEMMA RejectPreserves ==
  ASSUME PoolInv, NEW w \in Workers, Reject(w), TypeOK'
  PROVE  PoolInv'
<1> USE PoolAssumption
<1>1. job[w] # 0 /\ outcome = "pending"
  BY DEF PoolInv, SettlesWhenQuiet, InFlight, Reject, Items
<1>2. EachItemOnce'
  BY DEF PoolInv, TypeOK, EachItemOnce, Reject, Items
<1>3. FirstErrorKnown' /\ AllBusy' /\ SettlesWhenQuiet'
  BY <1>1 DEF PoolInv, FirstErrorKnown, AllBusy, SettlesWhenQuiet, Reject
<1> QED
  BY <1>2, <1>3 DEF PoolInv

(* The pool settles when no worker is in flight, hence when nothing is     *)
(* left or something has failed.                                           *)
LEMMA SettlePreserves ==
  ASSUME PoolInv, Settle, TypeOK'
  PROVE  PoolInv'
<1> USE PoolAssumption
<1>1. ~failed => next > NumItems
  <2> SUFFICES ASSUME ~failed, next <= NumItems PROVE FALSE
    BY DEF PoolInv, TypeOK
  <2>1. limit \in Int /\ next \in Nat \ {0}
    BY DEF PoolInv, TypeOK
  <2>2. 1 \in 1..Width /\ 1 \in Workers
    BY <2>1, WidthRange DEF Workers, Items
  <2> QED
    BY <2>2 DEF PoolInv, AllBusy, Settle, InFlight
<1>2. ~failed => \A i \in Items : results[i].item = i
  BY <1>1 DEF PoolInv, TypeOK, EachItemOnce, Settle, InFlight, Items
<1>3. SettlesWhenQuiet'
  BY <1>2 DEF PoolInv, SettlesWhenQuiet, FirstErrorKnown, Settle, InFlight
<1>4. EachItemOnce' /\ AllBusy' /\ FirstErrorKnown'
  BY DEF PoolInv, EachItemOnce, AllBusy, FirstErrorKnown, Settle, Width
<1> QED
  BY <1>3, <1>4 DEF PoolInv

(* PoolInv is inductive. *)
LEMMA StepPreserves == PoolInv /\ [Next]_vars => PoolInv'
<1> SUFFICES ASSUME PoolInv, [Next]_vars PROVE PoolInv'
  OBVIOUS
<1>1. TypeOK'
  BY StepTypeOK DEF PoolInv
<1>2. CASE UNCHANGED vars
  BY <1>2 DEF vars, PoolInv, TypeOK, EachItemOnce, AllBusy, FirstErrorKnown,
              SettlesWhenQuiet, InFlight, Width
<1> QED
  BY <1>1, <1>2, ResolvePreserves, RejectPreserves, SettlePreserves
  DEF Next, Run, Settled

(* The workers that were never started hold no item, and the first item of *)
(* each that was is pulled.                                                *)
OnlyStarted == Width < next /\ \A w \in Workers : job[w] # 0 => w <= Width

LEMMA StartedStep == TypeOK /\ OnlyStarted /\ [Next]_vars => OnlyStarted'
<1> SUFFICES ASSUME TypeOK, OnlyStarted, [Next]_vars PROVE OnlyStarted'
  OBVIOUS
<1>1. limit' = limit
  BY DEF Next, Run, Resolve, Reject, Settle, Settled, vars
<1>2. Width' = Width
  BY <1>1 DEF Width
<1>3. ASSUME NEW w \in Workers, job'[w] # 0 PROVE job[w] # 0
  BY <1>3 DEF Next, Run, Resolve, Pull, Reject, Settle, Settled, vars, TypeOK
<1>4. Width < next'
  <2>1. limit \in Int /\ next \in Nat \ {0}
    BY PoolAssumption DEF TypeOK
  <2>2. next' = next \/ next' = next + 1
    BY DEF Next, Run, Resolve, Pull, Reject, Settle, Settled, vars
  <2> QED
    BY <2>1, <2>2, WidthRange DEF OnlyStarted
<1> QED
  BY <1>2, <1>3, <1>4 DEF OnlyStarted

(* With every worker started holding an item, as many are in flight as     *)
(* were started; otherwise fewer.                                          *)
LEMMA FlightIsBounded ==
  ASSUME PoolInv, OnlyStarted
  PROVE  LimitKept
<1> DEFINE allowed == IF limit < 1 THEN 1 ELSE limit
<1> USE PoolAssumption
<1>1. limit \in Int /\ next \in Nat \ {0} /\ NumItems \in Nat
  BY DEF PoolInv, TypeOK
<1>2. Width \in Nat \ {0} /\ Width <= allowed
  BY <1>1 DEF Width
<1>3. InFlight \subseteq 1..Width
  BY <1>1, <1>2 DEF InFlight, OnlyStarted, Workers, Items
<1>4. IsFiniteSet(1..Width) /\ Cardinality(1..Width) = Width
  BY <1>2, FS_Interval
<1>5. Cardinality(InFlight) \in Nat /\ Cardinality(InFlight) <= Width
  BY <1>3, <1>4, FS_Subset, FS_CardinalityType
<1>6. ASSUME ~failed, next <= NumItems PROVE Cardinality(InFlight) = allowed
  <2>1. Width \in Items
    BY <1>1, <1>6, WidthRange
  <2>2. InFlight = 1..Width
    BY <1>3, <1>6, <2>1 DEF InFlight, PoolInv, AllBusy, Workers, Items
  <2>3. Width = allowed
    BY <1>1, <1>6 DEF Width, OnlyStarted
  <2> QED
    BY <1>4, <2>2, <2>3
<1> QED
  BY <1>1, <1>2, <1>5, <1>6 DEF LimitKept

(* No item is lost, run twice or stored in another's slot, no more are in  *)
(* flight than the limit and no worker is idle before its time, and the    *)
(* caller gets its answer only when all that was started is over: with a   *)
(* value in every slot, or with the first error.                           *)
THEOREM PoolIsCorrect == SafeSpec => []PoolIsSound
<1>1. Init => OnlyStarted
  BY WidthRange, PoolAssumption DEF Init, OnlyStarted
<1>2. PoolInv => TypeOK
  BY DEF PoolInv
<1>3. PoolInv /\ OnlyStarted => PoolIsSound
  BY FlightIsBounded DEF PoolInv, PoolIsSound
<1> QED
  BY <1>1, <1>2, <1>3, StartedStep, InitEstablishes, StepPreserves, PTL DEF SafeSpec

(* After the first rejection no worker takes up another item, and the      *)
(* error reported is the first one.                                        *)
THEOREM FailureStopsDispatch == SafeSpec => NoDispatchAfterFailure
<1>1. TypeOK /\ [Next]_vars =>
        [failed => /\ \A w \in Workers : job'[w] \in {job[w], 0}
                   /\ firstError' = firstError]_vars
  BY DEF TypeOK, Next, Run, Resolve, Reject, Pull, Settle, Settled, vars
<1> QED
  BY <1>1, TypeCorrect, PTL DEF SafeSpec, NoDispatchAfterFailure
=============================================================================
