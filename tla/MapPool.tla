------------------------------ MODULE MapPool ------------------------------
(***************************************************************************)
(* mapPool (src/src/parallel.ts): a bounded-concurrency map over a fixed   *)
(* array of items.  Several workers pull item numbers from one shared      *)
(* counter, run the caller's function on the item, and store the value in  *)
(* the item's own slot.  The first rejection stops further pulls; the call *)
(* itself settles only when every worker has returned.                     *)
(*                                                                         *)
(* A worker never yields between the moment its item settles and the       *)
(* moment it has pulled (and started) the next one, so "settle, then pull" *)
(* is one action here.  Items are numbered from 1; item 0 means "none".    *)
(***************************************************************************)
EXTENDS Integers, FiniteSets

CONSTANTS
  NumItems,   \* items.length
  Limits,     \* the concurrency limits callers pass, any integers
  MayReject,  \* the items whose function may reject
  Values      \* what the caller's function may resolve to

ASSUME PoolAssumption ==
  /\ NumItems \in Nat
  /\ Limits \subseteq Int
  /\ MayReject \subseteq 1..NumItems
  /\ Values # {}

VARIABLES
  limit,      \* the limit this call was given
  next,       \* the shared counter: the item the next pull takes
  job,        \* job[w]: the item worker w is running, 0 once w has returned
  results,    \* results[i]: the stored value of item i
  failed,     \* a rejection has been seen
  firstError, \* the item whose rejection was seen first, 0 if none
  outcome     \* what the promise returned to the caller is

vars == <<limit, next, job, results, failed, firstError, outcome>>

Items == 1..NumItems

(* max(1, min(limit, items.length || 1)): how many workers are started. *)
Width ==
  LET wanted == IF NumItems = 0 THEN 1 ELSE NumItems
      capped == IF limit < wanted THEN limit ELSE wanted
  IN  IF capped < 1 THEN 1 ELSE capped

(* The workers that may hold an item; those above Width never exist. *)
Workers == Items

NoResult == [item |-> 0]
Result   == [item : Items, value : Values]

InFlight == {w \in Workers : job[w] # 0}

-----------------------------------------------------------------------------

(* Array.from starts every worker, and each runs up to its first await, so *)
(* worker w has pulled item w when the pool is first observable.           *)
Init ==
  /\ limit \in Limits
  /\ next = Width + 1
  /\ job = [w \in Workers |-> IF w <= Width THEN w ELSE 0]
  /\ results = [i \in Items |-> NoResult]
  /\ failed = FALSE
  /\ firstError = 0
  /\ outcome = "pending"

(* Mutations of Pull: the counter is read but not moved; a failure is not  *)
(* noticed; a failure makes the worker go round again instead of           *)
(* returning.                                                              *)
PullUnclaimed(w) ==
  /\ job' = [job EXCEPT ![w] = IF failed \/ next > NumItems THEN 0 ELSE next]
  /\ UNCHANGED next
PullRegardless(w) ==
  /\ job' = [job EXCEPT ![w] = IF next > NumItems THEN 0 ELSE next]
  /\ next' = next + 1
PullContinues(w) ==
  IF failed THEN UNCHANGED <<job, next>> ELSE PullRegardless(w)

(* The head of the worker's loop: return after a failure or when the items *)
(* are used up (the counter has moved in the latter case), else run one.   *)
Pull(w) ==
  IF failed
  THEN /\ job' = [job EXCEPT ![w] = 0]
       /\ UNCHANGED next
  ELSE /\ job' = [job EXCEPT ![w] = IF next > NumItems THEN 0 ELSE next]
       /\ next' = next + 1

(* results[i] = await fn(items[i], i), and round the loop again. *)
Resolve(w, v) ==
  /\ job[w] # 0
  /\ results' = [results EXCEPT ![job[w]] = [item |-> job[w], value |-> v]]
  /\ Pull(w)
  /\ UNCHANGED <<limit, failed, firstError, outcome>>

(* The catch block: only the first rejection is kept; the worker returns. *)
Reject(w) ==
  /\ job[w] \in MayReject
  /\ failed' = TRUE
  /\ firstError' = IF failed THEN firstError ELSE job[w]
  /\ job' = [job EXCEPT ![w] = 0]
  /\ UNCHANGED <<limit, next, results, outcome>>

(* await Promise.all(workers), then throw firstError or return results. *)
Settle ==
  /\ outcome = "pending"
  /\ InFlight = {}
  /\ outcome' = IF failed THEN "rejected" ELSE "resolved"
  /\ UNCHANGED <<limit, next, job, results, failed, firstError>>

Run(w) == (\E v \in Values : Resolve(w, v)) \/ Reject(w)

Settled == outcome # "pending" /\ UNCHANGED vars

Next == (\E w \in Workers : Run(w)) \/ Settle \/ Settled

SafeSpec == Init /\ [][Next]_vars

(* The event loop resumes a worker whose item has settled, and each of the *)
(* caller's functions settles.                                             *)
Fairness == (\A w \in Workers : WF_vars(Run(w))) /\ WF_vars(Settle)

Spec == SafeSpec /\ Fairness

-----------------------------------------------------------------------------

TypeOK ==
  /\ limit \in Limits
  /\ next \in Nat \ {0}
  /\ job \in [Workers -> Items \cup {0}]
  /\ results \in [Items -> Result \cup {NoResult}]
  /\ failed \in BOOLEAN
  /\ firstError \in MayReject \cup {0}
  /\ outcome \in {"pending", "resolved", "rejected"}

(* The caller gets its promise settled only when nothing it started is     *)
(* still running ("in-flight invocations are awaited so their side effects *)
(* finish"): resolved with a value in every slot and each value in the     *)
(* slot of the item it was computed from, or rejected with a recorded      *)
(* first error.                                                            *)
SettlesWhenQuiet ==
  outcome # "pending" =>
    /\ InFlight = {}
    /\ outcome = "resolved" => \A i \in Items : results[i].item = i
    /\ outcome = "rejected" => firstError \in MayReject

(* Of the items pulled so far, each is being run by exactly one worker, or *)
(* has its own value stored, or the pool has failed; none is both running  *)
(* and stored: no item is lost, run twice or stored in another's slot.     *)
EachItemOnce ==
  /\ \A i \in Items :
       /\ results[i] # NoResult =>
            results[i].item = i /\ i < next /\ \A w \in Workers : job[w] # i
       /\ i < next =>
            failed \/ results[i] # NoResult \/ \E w \in Workers : job[w] = i
  /\ \A w \in Workers : job[w] < next
  /\ \A v, w \in Workers : job[v] = job[w] /\ job[v] # 0 => v = w

(* No more items are in flight than the caller's limit (a limit below 1    *)
(* counts as 1), and while items are left to pull no worker goes idle.     *)
LimitKept ==
  LET allowed == IF limit < 1 THEN 1 ELSE limit
  IN  /\ Cardinality(InFlight) <= allowed
      /\ ~failed /\ next <= NumItems => Cardinality(InFlight) = allowed

(* What mapPool promises at every moment, whatever is in flight. *)
PoolIsSound == EachItemOnce /\ SettlesWhenQuiet /\ LimitKept

(* Once a rejection has been seen no worker takes up another item, and the *)
(* error reported to the caller is never replaced by a later one.          *)
NoDispatchAfterFailure ==
  [][failed => /\ \A w \in Workers : job'[w] \in {job[w], 0}
               /\ firstError' = firstError]_vars

(* However its functions settle, the pool settles. *)
PoolSettles == <>(outcome # "pending")

=============================================================================
