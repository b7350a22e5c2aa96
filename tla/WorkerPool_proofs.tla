-------------------------- MODULE WorkerPool_proofs --------------------------
(***************************************************************************)
(* Proofs about WorkerPool, for any number of items and workers.           *)
(*                                                                         *)
(* That each result is in its slot needs that no two workers run one item; *)
(* what the pool's promise says needs to know why each worker has stopped. *)
(***************************************************************************)
EXTENDS WorkerPool, TLAPS

\* A worker that runs has an item, and no two have the same.
Apart ==
  /\ \A w \in Running : task[w] \in Item
  /\ \A v, w \in Running : task[v] = task[w] => v = w

\* A worker is done when nothing is left for it; the pool is aborted exactly when
\* a worker threw, and then a provider was missing.
WhyStopped ==
  /\ \A w \in Worker : worker[w] = "done" => aborted \/ nextIndex > Items
  /\ aborted <=> \E w \in Worker : worker[w] = "threw"
  /\ aborted <=> \E i \in Item : ran[i] = "missing"

\* The promise is settled by workers that have all stopped.
WhySettled ==
  /\ pool # "pending" => \A w \in Worker : worker[w] \in {"done", "threw"}
  /\ pool = "resolved" => ~aborted
  /\ pool = "rejected" => aborted

PoolInv == PoolTypeOK /\ ResultsInTheirSlots /\ Apart /\ WhyStopped /\ WhySettled

------------------------------------------------------------------------------
(* The initial state and the steps. *)

LEMMA PoolStarts == PoolInit => PoolInv
<1> SUFFICES ASSUME PoolInit PROVE PoolInv
  OBVIOUS
<1>1. PoolTypeOK
  <2>1. nextIndex \in 1..(Items + 1) /\ \A w \in Worker : task[w] \in 0..Items
    BY PoolAssumption DEF PoolInit
  <2> QED
    BY <2>1 DEF PoolInit, PoolTypeOK
<1>2. ResultsInTheirSlots
  BY PoolAssumption DEF PoolInit, ResultsInTheirSlots, Running, Item, Worker
<1>3. Apart /\ WhyStopped /\ WhySettled
  BY PoolAssumption DEF PoolInit, Apart, WhyStopped, WhySettled, Running, Item, Worker
<1> QED
  BY <1>1, <1>2, <1>3 DEF PoolInv

\* The next item is taken.
LEMMA TakesKeeps ==
  ASSUME PoolInv, NEW w \in Worker, Takes(w)
  PROVE  PoolInv'
<1> USE PoolAssumption
<1> nextIndex \in Item /\ ran[nextIndex] = "never"
  BY DEF PoolInv, PoolTypeOK, ResultsInTheirSlots, Takes, Item
<1> worker[w] = "loop" /\ ~aborted /\ task' = [task EXCEPT ![w] = nextIndex]
     /\ worker' = [worker EXCEPT ![w] = "running"] /\ nextIndex' = nextIndex + 1
     /\ ran' = [ran EXCEPT ![nextIndex] = "running"]
     /\ UNCHANGED <<aborted, results, pool>>
  BY DEF Takes, PoolInv, PoolTypeOK
<1>1. PoolTypeOK'
  BY DEF PoolInv, PoolTypeOK, Item, Worker, Ends
<1>2. \A v \in Running : task[v] \in Item /\ task[v] # nextIndex
  BY DEF PoolInv, ResultsInTheirSlots, Apart
<1>3. Running' = Running \cup {w}
  BY DEF PoolInv, PoolTypeOK, Running
<1>4. ASSUME NEW i \in Item
      PROVE  /\ ran'[i] # "again"
             /\ ran'[i] = "never" <=> i >= nextIndex'
             /\ ran'[i] = "running" <=> \E v \in Running' : task'[v] = i
             /\ results'[i] = "ok" <=> ran'[i] = "ok"
  <2>1. CASE i = nextIndex
    <3>1. ran'[i] = "running" /\ task'[w] = i /\ ~(i >= nextIndex')
      BY <2>1 DEF PoolInv, PoolTypeOK, Item
    <3>2. results'[i] # "ok"
      BY <2>1 DEF PoolInv, ResultsInTheirSlots
    <3>3. \E v \in Running' : task'[v] = i
      BY <3>1, <1>3
    <3> QED
      BY <3>1, <3>2, <3>3
  <2>2. CASE i # nextIndex
    <3>1. ran'[i] = ran[i] /\ results'[i] = results[i]
      BY <2>2 DEF PoolInv, PoolTypeOK
    <3>2. i >= nextIndex' <=> i >= nextIndex
      BY <2>2 DEF PoolInv, PoolTypeOK, Item
    <3>3. \A v \in Running' : task'[v] = i <=> v # w /\ task[v] = i
      BY <2>2, <1>3 DEF PoolInv, PoolTypeOK, Running
    <3>4. (\E v \in Running' : task'[v] = i) <=> \E v \in Running : task[v] = i
      BY <3>3, <1>3 DEF Running
    <3> QED
      BY <3>1, <3>2, <3>4 DEF PoolInv, ResultsInTheirSlots
  <2> QED
    BY <2>1, <2>2
<1>5. ResultsInTheirSlots'
  BY <1>4 DEF ResultsInTheirSlots, Item
<1>6. Apart'
  BY <1>2, <1>3 DEF PoolInv, PoolTypeOK, Apart, Running
<1>7. WhyStopped'
  BY DEF PoolInv, PoolTypeOK, WhyStopped, Item
<1>8. WhySettled'
  BY DEF PoolInv, PoolTypeOK, WhySettled
<1> QED
  BY <1>1, <1>5, <1>6, <1>7, <1>8 DEF PoolInv

LEMMA LeavesKeeps ==
  ASSUME PoolInv, NEW w \in Worker, Leaves(w)
  PROVE  PoolInv'
<1> USE PoolAssumption
<1>1. PoolTypeOK' /\ WhySettled'
  BY DEF PoolInv, PoolTypeOK, WhySettled, Leaves
<1>2. Running' = Running
  BY DEF PoolInv, PoolTypeOK, Running, Leaves
<1>3. ResultsInTheirSlots' /\ Apart'
  BY <1>2 DEF PoolInv, ResultsInTheirSlots, Apart, Leaves, Item
<1>4. WhyStopped'
  BY DEF PoolInv, PoolTypeOK, WhyStopped, Leaves, Item
<1> QED
  BY <1>1, <1>3, <1>4 DEF PoolInv

\* A task settles.
LEMMA SettlesKeeps ==
  ASSUME PoolInv, NEW w \in Worker, NEW end \in Ends, Settles(w, end)
  PROVE  PoolInv'
<1> USE PoolAssumption
<1> DEFINE item == task[w]
<1>1. w \in Running /\ item \in Item /\ ran[item] = "running" /\ results[item] # "ok"
  <2>1. w \in Running /\ item \in Item
    BY DEF Settles, Running, PoolInv, Apart
  <2> QED
    BY <2>1 DEF PoolInv, ResultsInTheirSlots
<1>2. /\ worker' = [worker EXCEPT ![w] = IF end = "missing" THEN "threw" ELSE "loop"]
      /\ ran' = [ran EXCEPT ![item] = end]
      /\ results' = [results EXCEPT ![item] = IF end = "ok" THEN "ok" ELSE @]
      /\ aborted' = (aborted \/ end = "missing") /\ UNCHANGED <<task, nextIndex, pool>>
  BY <1>1 DEF Settles, PoolInv, PoolTypeOK
<1> HIDE DEF item
<1>3. PoolTypeOK'
  BY <1>1, <1>2 DEF PoolInv, PoolTypeOK, Item, Worker, Ends
<1>4. Running' = Running \ {w}
  BY <1>2 DEF PoolInv, PoolTypeOK, Running
<1>5. ASSUME NEW i \in Item
      PROVE  /\ ran'[i] # "again"
             /\ ran'[i] = "never" <=> i >= nextIndex'
             /\ ran'[i] = "running" <=> \E v \in Running' : task'[v] = i
             /\ results'[i] = "ok" <=> ran'[i] = "ok"
  <2>1. CASE i = item
    <3>1. ran'[i] = end /\ (results'[i] = "ok" <=> end = "ok")
      BY <1>1, <1>2, <2>1 DEF PoolInv, PoolTypeOK
    <3>2. end \notin {"again", "never", "running"} /\ ~(i >= nextIndex')
      BY <1>1, <1>2, <2>1 DEF Ends, PoolInv, ResultsInTheirSlots
    <3>3. ~\E v \in Running' : task'[v] = i
      BY <1>1, <1>2, <1>4, <2>1 DEF PoolInv, Apart, item
    <3> QED
      BY <3>1, <3>2, <3>3
  <2>2. CASE i # item
    <3>1. ran'[i] = ran[i] /\ results'[i] = results[i] /\ nextIndex' = nextIndex
      BY <1>1, <1>2, <2>2 DEF PoolInv, PoolTypeOK
    <3>2. (\E v \in Running' : task'[v] = i) <=> \E v \in Running : task[v] = i
      BY <1>2, <1>4, <2>2 DEF item
    <3> QED
      BY <3>1, <3>2 DEF PoolInv, ResultsInTheirSlots
  <2> QED
    BY <2>1, <2>2
<1>6. ResultsInTheirSlots' /\ Apart'
  BY <1>2, <1>4, <1>5 DEF ResultsInTheirSlots, PoolInv, Apart, Item
<1>7. WhyStopped'
  <2>1. aborted' <=> \E v \in Worker : worker'[v] = "threw"
    BY <1>1, <1>2 DEF PoolInv, PoolTypeOK, WhyStopped, Running
  <2>2. aborted' <=> \E i \in Item : ran'[i] = "missing"
    BY <1>1, <1>2 DEF PoolInv, PoolTypeOK, WhyStopped
  <2>3. \A v \in Worker : worker'[v] = "done" => aborted' \/ nextIndex' > Items
    BY <1>2 DEF PoolInv, PoolTypeOK, WhyStopped
  <2> QED
    BY <2>1, <2>2, <2>3 DEF WhyStopped, Item
<1>8. WhySettled'
  BY <1>1, <1>2 DEF PoolInv, PoolTypeOK, WhySettled, Running
<1> QED
  BY <1>3, <1>6, <1>7, <1>8 DEF PoolInv

LEMMA ReturnsKeeps ==
  ASSUME PoolInv, Returns
  PROVE  PoolInv'
<1>1. UNCHANGED <<worker, task, nextIndex, aborted, results, ran>>
  BY DEF Returns
<1>2. PoolTypeOK' /\ ResultsInTheirSlots' /\ Apart' /\ WhyStopped'
  BY <1>1 DEF PoolInv, PoolTypeOK, ResultsInTheirSlots, Apart, WhyStopped, Running, Returns, Item
<1>3. WhySettled'
  BY <1>1 DEF PoolInv, WhyStopped, WhySettled, Returns
<1> QED
  BY <1>2, <1>3 DEF PoolInv

LEMMA PoolSteps ==
  ASSUME PoolInv, [PoolNext]_poolVars
  PROVE  PoolInv'
<1>1. CASE Returns
  BY <1>1, ReturnsKeeps
<1>2. ASSUME NEW w \in Worker, Takes(w)
      PROVE  PoolInv'
  BY <1>2, TakesKeeps
<1>3. ASSUME NEW w \in Worker, Leaves(w)
      PROVE  PoolInv'
  BY <1>3, LeavesKeeps
<1>4. ASSUME NEW w \in Worker, NEW end \in Ends, Settles(w, end)
      PROVE  PoolInv'
  BY <1>4, SettlesKeeps
<1>5. CASE UNCHANGED poolVars
  BY <1>5 DEF poolVars, PoolInv, PoolTypeOK, ResultsInTheirSlots, Apart, WhyStopped, WhySettled,
     Running, Item
<1> QED
  BY <1>1, <1>2, <1>3, <1>4, <1>5 DEF PoolNext

LEMMA PoolAlways == PoolSpec => []PoolInv
<1>1. PoolInv /\ [PoolNext]_poolVars => PoolInv'
  BY PoolSteps
<1> QED
  BY PoolStarts, <1>1, PTL DEF PoolSpec

------------------------------------------------------------------------------
(* The theorems. *)

\* The variables of the pool keep their types (worker-pool.ts 28-92).
THEOREM PoolTyped == PoolSpec => []PoolTypeOK
<1>1. PoolInv => PoolTypeOK
  BY DEF PoolInv
<1> QED
  BY <1>1, PoolAlways, PTL

\* Each item is run at most once and its own outcome is in its slot of the results,
\* in whatever order the tasks of however many workers settle.
THEOREM PoolResults == PoolSpec => []ResultsInTheirSlots
<1>1. PoolInv => ResultsInTheirSlots
  BY DEF PoolInv
<1> QED
  BY <1>1, PoolAlways, PTL

\* No task runs any more when the promise of runWorkerPool settles.
THEOREM PoolIsQuiet == PoolSpec => []NothingOutlivesThePool
<1>1. PoolInv => NothingOutlivesThePool
  BY DEF PoolInv, WhySettled, NothingOutlivesThePool, Running
<1> QED
  BY <1>1, PoolAlways, PTL

\* The promise is rejected only for a missing provider, and resolved only when
\* every item was run to its end.
THEOREM PoolSettlesRightly == PoolSpec => []PoolOutcome
<1>1. ASSUME PoolInv, pool = "resolved", NEW i \in Item
      PROVE  ran[i] \in {"ok", "failed"}
  <2>1. ~aborted /\ 1 \in Worker
    BY <1>1, PoolAssumption DEF PoolInv, WhySettled, Worker
  <2>2. \A w \in Worker : worker[w] = "done"
    BY <1>1, <2>1 DEF PoolInv, WhySettled, WhyStopped
  <2>3. nextIndex > Items /\ Running = {}
    BY <1>1, <2>1, <2>2 DEF PoolInv, WhyStopped, Running
  <2>4. ran[i] # "never"
    BY <1>1, <2>3, PoolAssumption DEF PoolInv, PoolTypeOK, ResultsInTheirSlots, Item
  <2> QED
    BY <1>1, <2>1, <2>3, <2>4 DEF PoolInv, PoolTypeOK, ResultsInTheirSlots, WhyStopped, Ends
<1>2. PoolInv => PoolOutcome
  BY <1>1 DEF PoolOutcome, PoolInv, WhySettled, WhyStopped
<1> QED
  BY <1>2, PoolAlways, PTL

\* After a missing provider no worker takes an item.
THEOREM PoolStopsTaking == PoolSpec => NothingStartsAfterAbort
<1>1. ASSUME [PoolNext]_poolVars, aborted
      PROVE  nextIndex' = nextIndex
  BY <1>1 DEF PoolNext, poolVars, Takes, Leaves, Settles, Returns
<1> QED
  BY <1>1, PTL DEF PoolSpec, NothingStartsAfterAbort

\* All that runWorkerPool promises.
THEOREM PoolKeepsPromises == PoolSpec => PoolIsSound
<1>1. PoolSpec => [](PoolTypeOK /\ ResultsInTheirSlots /\ NothingOutlivesThePool /\ PoolOutcome)
  BY PoolTyped, PoolResults, PoolIsQuiet, PoolSettlesRightly, PTL
<1> QED
  BY <1>1, PoolStopsTaking DEF PoolIsSound
==============================================================================
