------------------------------ MODULE WorkerPool ------------------------------
(***************************************************************************)
(* runWorkerPool of the AI commands: workers take items one by one and run *)
(* one provider task for each.  A failed task leaves a null result; a      *)
(* missing provider makes the pool stop, but the tasks that other workers  *)
(* have started come to their end first.                                   *)
(***************************************************************************)
EXTENDS Naturals, FiniteSets

CONSTANTS Items, Workers   (* how many; Workers is at least one *)

ASSUME PoolAssumption == Items \in Nat /\ Workers \in Nat \ {0}

VARIABLES
  worker,     (* where each worker is: "loop", "running", "done", "threw"       *)
  task,       (* the item it runs or ran last, 0 at first                       *)
  nextIndex, aborted,
  results,    (* of every item: "null" or "ok"                                 *)
  pool,       (* the promise of runWorkerPool: "pending", "resolved", "rejected" *)
  ran         (* history: how often each item was run, and how it ended        *)

poolVars == <<worker, task, nextIndex, aborted, results, pool, ran>>

Item == 1..Items
Worker == 1..Workers
Ends == {"ok", "failed", "missing"}

PoolInit ==
  /\ worker = [w \in Worker |-> "loop"]
  /\ task = [w \in Worker |-> 0] /\ nextIndex = 1 /\ aborted = FALSE
  /\ results = [i \in Item |-> "null"]
  /\ pool = "pending"
  /\ ran = [i \in Item |-> "never"]

\* Faulty: a worker looks at the signal only when it starts.
TakesOn(w) ==
  /\ worker[w] = "loop" /\ nextIndex <= Items
  /\ worker' = [worker EXCEPT ![w] = "running"] /\ task' = [task EXCEPT ![w] = nextIndex]
  /\ nextIndex' = nextIndex + 1
  /\ ran' = [ran EXCEPT ![nextIndex] = IF @ = "never" THEN "running" ELSE "again"]
  /\ UNCHANGED <<aborted, results, pool>>

\* Faulty: one item too many is taken.
TakesOneMore(w) ==
  /\ worker[w] = "loop" /\ ~aborted /\ nextIndex <= Items + 1
  /\ worker' = [worker EXCEPT ![w] = "running"] /\ task' = [task EXCEPT ![w] = nextIndex]
  /\ nextIndex' = nextIndex + 1
  /\ ran' = [i \in Item |-> IF i = nextIndex THEN "running" ELSE ran[i]]
  /\ UNCHANGED <<aborted, results, pool>>

\* The top of the loop: the next item is taken and its task started.
Takes(w) ==
  /\ worker[w] = "loop" /\ ~aborted /\ nextIndex <= Items
  /\ worker' = [worker EXCEPT ![w] = "running"] /\ task' = [task EXCEPT ![w] = nextIndex]
  /\ nextIndex' = nextIndex + 1
  /\ ran' = [ran EXCEPT ![nextIndex] = IF @ = "never" THEN "running" ELSE "again"]
  /\ UNCHANGED <<aborted, results, pool>>

Leaves(w) ==
  /\ worker[w] = "loop" /\ (aborted \/ nextIndex > Items)
  /\ worker' = [worker EXCEPT ![w] = "done"]
  /\ UNCHANGED <<task, nextIndex, aborted, results, pool, ran>>

\* Faulty: the result goes where the pool is, not where the task started.
SettlesAtNext(w, end) ==
  /\ worker[w] = "running"
  /\ results' = (IF end = "ok" THEN [results EXCEPT ![nextIndex - 1] = "ok"] ELSE results)
  /\ ran' = [ran EXCEPT ![task[w]] = end]
  /\ aborted' = (aborted \/ end = "missing")
  /\ worker' = [worker EXCEPT ![w] = IF end = "missing" THEN "threw" ELSE "loop"]
  /\ UNCHANGED <<task, nextIndex, pool>>

\* Faulty: a missing provider is a failed item.
SettlesAlike(w, end) ==
  /\ worker[w] = "running"
  /\ results' = (IF end = "ok" THEN [results EXCEPT ![task[w]] = "ok"] ELSE results)
  /\ ran' = [ran EXCEPT ![task[w]] = end]
  /\ worker' = [worker EXCEPT ![w] = "loop"]
  /\ UNCHANGED <<task, nextIndex, aborted, pool>>

\* The task of a worker settles.
Settles(w, end) ==
  /\ worker[w] = "running"
  /\ results' = (IF end = "ok" THEN [results EXCEPT ![task[w]] = "ok"] ELSE results)
  /\ ran' = [ran EXCEPT ![task[w]] = end]
  /\ aborted' = (aborted \/ end = "missing")
  /\ worker' = [worker EXCEPT ![w] = IF end = "missing" THEN "threw" ELSE "loop"]
  /\ UNCHANGED <<task, nextIndex, pool>>

\* Faulty: Promise.all rejects with the first worker that throws.
ReturnsAll ==
  /\ pool = "pending"
  /\ \/ (\E w \in Worker : worker[w] = "threw") /\ pool' = "rejected"
     \/ (\A w \in Worker : worker[w] = "done") /\ pool' = "resolved"
  /\ UNCHANGED <<worker, task, nextIndex, aborted, results, ran>>

\* Faulty: only workers that are done count.
ReturnsDone ==
  /\ pool = "pending" /\ \A w \in Worker : worker[w] = "done"
  /\ pool' = "resolved"
  /\ UNCHANGED <<worker, task, nextIndex, aborted, results, ran>>

\* Promise.allSettled, then the first rejection is thrown.
Returns ==
  /\ pool = "pending"
  /\ \A w \in Worker : worker[w] \in {"done", "threw"}
  /\ pool' = (IF \E w \in Worker : worker[w] = "threw" THEN "rejected" ELSE "resolved")
  /\ UNCHANGED <<worker, task, nextIndex, aborted, results, ran>>

PoolNext ==
  \/ Returns
  \/ \E w \in Worker : Takes(w) \/ Leaves(w) \/ \E end \in Ends : Settles(w, end)

\* The tasks settle.
PoolFairness == WF_poolVars(PoolNext)

PoolSpec == PoolInit /\ [][PoolNext]_poolVars /\ PoolFairness

------------------------------------------------------------------------------
(* Properties. *)

Running == {w \in Worker : worker[w] = "running"}

PoolTypeOK ==
  /\ worker \in [Worker -> {"loop", "running", "done", "threw"}] /\ task \in [Worker -> 0..Items]
  /\ nextIndex \in 1..(Items + 1) /\ aborted \in BOOLEAN
  /\ results \in [Item -> {"null", "ok"}]
  /\ pool \in {"pending", "resolved", "rejected"}
  /\ ran \in [Item -> Ends \cup {"never", "running", "again"}]

\* Every item up to the next one was started once, by one worker, and its own
\* outcome is what its slot of the results says, in whatever order tasks settle.
ResultsInTheirSlots ==
  \A i \in Item :
    /\ ran[i] # "again"
    /\ ran[i] = "never" <=> i >= nextIndex
    /\ ran[i] = "running" <=> \E w \in Running : task[w] = i
    /\ results[i] = "ok" <=> ran[i] = "ok"

\* When the pool's promise settles no task runs any more: nothing is logged or
\* written after the command has fallen back (cli/src/utils/ai/worker-pool.ts).
NothingOutlivesThePool == pool # "pending" => Running = {}

\* The pool fails exactly when a provider is missing, and otherwise has run
\* every item.
PoolOutcome ==
  /\ pool = "resolved" => \A i \in Item : ran[i] \in {"ok", "failed"}
  /\ pool = "rejected" => \E i \in Item : ran[i] = "missing"

\* Once a provider was missing no further item is started.
NothingStartsAfterAbort == [][aborted => nextIndex' = nextIndex]_poolVars

\* The pool settles.
PoolSettles == <>(pool # "pending")

\* What runWorkerPool promises: each item once and in its slot, nothing that runs
\* on, an outcome that is true, and an abort that is heard.
PoolIsSound ==
  /\ [](PoolTypeOK /\ ResultsInTheirSlots /\ NothingOutlivesThePool /\ PoolOutcome)
  /\ NothingStartsAfterAbort
==============================================================================
