------------------------------- MODULE HttpSend -------------------------------
(***************************************************************************)
(* One call of a generated TypeScript client from `send` to its outcome:   *)
(* attempts with a fresh timeout each, the caller's abort signal, the      *)
(* predicate that decides on a retry, the middleware that sees responses   *)
(* and the settled call.  A response is the attempt or the hook it came    *)
(* from; `open` are those whose body is neither read nor cancelled and so  *)
(* keeps its connection.                                                   *)
(*                                                                         *)
(* A fetch that is aborted rejects, and nothing but that ends one whose    *)
(* server is silent.  Hooks and predicates return or throw.                *)
(***************************************************************************)
EXTENDS Naturals, FiniteSets

CONSTANTS
  CallKinds,   (* the traits of the calls: retries, timeout, oneShot (a body that
              is a stream), resendable (by the default predicate), custom (a
              retryOn of the caller's own)                                    *)
  Hooks,   (* the number of middlewares                                       *)
  Nothing     (* no value                                                        *)

Traits ==
  [ retries : Nat, timeout : BOOLEAN, oneShot : BOOLEAN, resendable : BOOLEAN, custom : BOOLEAN ]

Outcomes == {"ok", "network", "abort", "budget", "TimeoutError", "hook"}

ASSUME SendAssumption ==
  CallKinds \subseteq Traits /\ Hooks \in Nat /\ Nothing \notin Nat /\ Nothing \notin Outcomes

VARIABLES
  call,      (* the call, chosen at the start                                 *)
  phase,     (* where send is                                                 *)
  attempt,   (* attempts made                                                 *)
  aborted,   (* the caller's signal                                           *)
  budget,    (* the timeout of this attempt                                   *)
  timedOut,  (* what the catch around fetch decided                           *)
  status,    (* of the response at hand: "ok", "transient", "refused"         *)
  response,  (* the response at hand                                          *)
  last,      (* lastResponse                                                  *)
  open,      (* the responses whose bodies are open                           *)
  hook,      (* the middleware whose turn it is                               *)
  outcome,   (* "ok" or the error the call ends with                          *)
  hookFailed,(* an onSettled hook of a successful call threw                  *)
  told,      (* history: the outcomes the onSettled hooks were told           *)
  cause      (* history: why the last fetch rejected                          *)

network == <<attempt, budget, cause>>
answer  == <<status, response, last, open>>
ending  == <<outcome, hookFailed, told>>
sendVars == <<call, phase, aborted, timedOut, hook, network, answer, ending>>

Phases ==
  { "idle", "loop", "fetching", "askError", "responding", "askResponse", "sleeping", "settling",
    "returned", "thrown" }

MaxAttempts == IF call.oneShot THEN 1 ELSE 1 + call.retries

Fresh ==
  /\ phase = "idle" /\ attempt = 0 /\ budget = "off" /\ timedOut = FALSE
  /\ status = Nothing /\ response = Nothing /\ last = Nothing /\ open = {}
  /\ hook = 0 /\ outcome = Nothing /\ hookFailed = FALSE /\ told = {} /\ cause = Nothing

\* The next call of the same kind.
SendAgain ==
  /\ phase' = "idle" /\ attempt' = 0 /\ budget' = "off" /\ timedOut' = FALSE
  /\ status' = Nothing /\ response' = Nothing /\ last' = Nothing /\ open' = {}
  /\ hook' = 0 /\ outcome' = Nothing /\ hookFailed' = FALSE /\ told' = {} /\ cause' = Nothing

SendInit == call \in CallKinds /\ aborted = FALSE /\ Fresh

------------------------------------------------------------------------------
(* The attempts. *)

\* The call ends with an error, or with the response at hand: on to onSettled.
SettleCall(what) ==
  /\ phase' = "settling" /\ outcome' = what /\ hook' = 1
  /\ UNCHANGED <<hookFailed, told>>

\* send up to the loop: headers and the onRequest hooks, one of which may throw.
Call ==
  /\ phase = "idle"
  /\ \/ phase' = "loop" /\ UNCHANGED outcome
     \/ phase' = "thrown" /\ outcome' = "hook"
  /\ UNCHANGED <<call, aborted, timedOut, hook, network, answer, hookFailed, told>>

\* Faulty: the first attempt has a timeout.
AttemptOneBudget ==
  /\ phase = "loop" /\ ~aborted
  /\ phase' = "fetching" /\ attempt' = attempt + 1
  /\ budget' = (IF call.timeout /\ attempt = 0 THEN "armed" ELSE "off")
  /\ UNCHANGED <<call, aborted, timedOut, hook, cause, answer, ending>>

\* The top of the loop: every attempt has a timeout of its own.
Attempt ==
  /\ phase = "loop" /\ ~aborted
  /\ phase' = "fetching" /\ attempt' = attempt + 1
  /\ budget' = (IF call.timeout THEN "armed" ELSE "off")
  /\ UNCHANGED <<call, aborted, timedOut, hook, cause, answer, ending>>

AbortedBefore ==
  /\ phase = "loop" /\ aborted
  /\ SettleCall("abort")
  /\ UNCHANGED <<call, aborted, timedOut, network, answer>>

\* The server answers.
Answers(s) ==
  /\ phase = "fetching"
  /\ phase' = "responding" /\ hook' = Hooks
  /\ status' = s /\ response' = <<attempt, 0>> /\ last' = <<attempt, 0>>
  /\ open' = open \cup {<<attempt, 0>>}
  /\ UNCHANGED <<call, aborted, timedOut, network, ending>>

\* Why a fetch rejects: a failure of the transport, or the first of the two
\* signals that fired.
Causes ==
  IF ~aborted /\ budget # "fired" THEN {"network"}
  ELSE { k \in {"abort", "budget"} :
           (k = "abort" => aborted) /\ (k = "budget" => budget = "fired") }

\* Faulty: one attempt too many.
MayRetryOnceMore == attempt <= MaxAttempts /\ ~aborted
MayRetry == attempt < MaxAttempts /\ ~aborted

\* What the call ends with when it does not go on after a failed fetch.
Surfaced(late, k) == IF late THEN "TimeoutError" ELSE k

\* fetch rejects: whether this attempt timed out is decided at once.
Rejects(k) ==
  /\ phase = "fetching" /\ k \in Causes
  /\ cause' = k /\ timedOut' = (budget = "fired" /\ ~aborted)
  /\ IF MayRetry
     THEN phase' = "askError" /\ UNCHANGED <<hook, ending>>
     ELSE SettleCall(Surfaced(timedOut', k))
  /\ UNCHANGED <<call, aborted, attempt, budget, answer>>

\* Faulty: a request that failed on its way is always sent again.
RetriesErrors(b) ==
  call.custom
    \/ b = (phase = "askError" \/ (call.resendable /\ status = "transient"))
\* defaultRetryOn, or whatever the caller's own predicate says.
Retries(b) ==
  call.custom
    \/ b = (call.resendable /\ (phase = "askError" \/ status = "transient"))

\* Faulty: the predicate's answer is awaited before the timeout is looked at.
SaysNoLate(b) ==
  /\ phase = "askError" /\ Retries(b)
  /\ timedOut' = (budget = "fired" /\ ~aborted)
  /\ IF b
     THEN phase' = "sleeping" /\ UNCHANGED <<hook, ending>>
     ELSE SettleCall(Surfaced(timedOut', cause))
  /\ UNCHANGED <<call, aborted, network, answer>>

\* retryOn answers for an error.
SaysOfError(b) ==
  /\ phase = "askError" /\ Retries(b)
  /\ IF b
     THEN phase' = "sleeping" /\ UNCHANGED <<hook, ending>>
     ELSE SettleCall(Surfaced(timedOut, cause))
  /\ UNCHANGED <<call, aborted, timedOut, network, answer>>

\* The wait before the next attempt ends, or is aborted.
Wake ==
  /\ phase = "sleeping" /\ ~aborted
  /\ phase' = "loop"
  /\ UNCHANGED <<call, aborted, timedOut, hook, network, answer, ending>>

AbortedAsleep ==
  /\ phase = "sleeping" /\ aborted
  /\ SettleCall("abort")
  /\ UNCHANGED <<call, aborted, timedOut, network, answer>>

------------------------------------------------------------------------------
(* Responses. *)

\* An onResponse hook, from the last to the first, keeps the response or
\* replaces it by one with the status `how`.
OnResponse(how) ==
  /\ phase = "responding" /\ hook > 0
  /\ hook' = hook - 1
  /\ IF how = "keep"
     THEN UNCHANGED answer
     ELSE /\ response' = <<attempt, hook>> /\ last' = <<attempt, hook>>
          /\ open' = (open \ {response}) \cup {<<attempt, hook>>}
          /\ status' = how
  /\ UNCHANGED <<call, phase, aborted, timedOut, network, ending>>

\* A hook or the caller's predicate throws; the body of the response stays open.
HookThrows ==
  /\ \/ phase = "responding" /\ hook > 0
     \/ phase \in {"askError", "askResponse"} /\ call.custom
  /\ SettleCall("hook")
  /\ UNCHANGED <<call, aborted, timedOut, network, answer>>

\* The response has passed the hooks: it is the final one, or retryOn is asked.
Judge ==
  /\ phase = "responding" /\ hook = 0
  /\ IF status # "ok" /\ MayRetry
     THEN phase' = "askResponse" /\ UNCHANGED <<hook, ending>>
     ELSE SettleCall("ok")
  /\ UNCHANGED <<call, aborted, timedOut, network, answer>>

\* Faulty: the response that is given up is not drained, ...
SaysUndrained(b) ==
  /\ phase = "askResponse" /\ Retries(b)
  /\ IF b
     THEN phase' = "sleeping" /\ last' = Nothing /\ UNCHANGED <<status, response, open, hook, ending>>
     ELSE SettleCall("ok") /\ UNCHANGED answer
  /\ UNCHANGED <<call, aborted, timedOut, network>>
\* ... or stays the last response of the call.
SaysRemembered(b) ==
  /\ phase = "askResponse" /\ Retries(b)
  /\ IF b
     THEN phase' = "sleeping" /\ open' = open \ {response}
          /\ UNCHANGED <<status, response, last, hook, ending>>
     ELSE SettleCall("ok") /\ UNCHANGED answer
  /\ UNCHANGED <<call, aborted, timedOut, network>>

\* retryOn answers for a response that is not ok.
SaysOfResponse(b) ==
  /\ phase = "askResponse" /\ Retries(b)
  /\ IF b
     THEN phase' = "sleeping" /\ last' = Nothing /\ open' = open \ {response}
          /\ UNCHANGED <<status, response, hook, ending>>
     ELSE SettleCall("ok") /\ UNCHANGED answer
  /\ UNCHANGED <<call, aborted, timedOut, network>>

------------------------------------------------------------------------------
(* The outcome. *)

\* Faulty: a hook that throws keeps the outcome from the hooks after it.
OnSettledStops(throws) ==
  /\ phase = "settling" /\ hook \in 1..Hooks
  /\ hook' = (IF throws THEN Hooks + 1 ELSE hook + 1)
  /\ told' = told \cup {<<hook, outcome, last>>}
  /\ hookFailed' = (hookFailed \/ (throws /\ outcome = "ok"))
  /\ UNCHANGED <<call, phase, aborted, timedOut, outcome, network, answer>>

\* An onSettled hook is told the outcome; what it throws counts only for a call
\* that succeeded.
OnSettled(throws) ==
  /\ phase = "settling" /\ hook \in 1..Hooks
  /\ hook' = hook + 1
  /\ told' = told \cup {<<hook, outcome, last>>}
  /\ hookFailed' = (hookFailed \/ (throws /\ outcome = "ok"))
  /\ UNCHANGED <<call, phase, aborted, timedOut, outcome, network, answer>>

\* send returns or throws.
Ends ==
  /\ phase = "settling" /\ hook = Hooks + 1
  /\ IF outcome = "ok" /\ ~hookFailed
     THEN phase' = "returned" /\ UNCHANGED <<open, outcome>>
     ELSE /\ phase' = "thrown"
          /\ open' = (IF hookFailed THEN open \ {response} ELSE open)
          /\ outcome' = (IF hookFailed THEN "hook" ELSE outcome)
  /\ UNCHANGED <<call, aborted, timedOut, hook, status, response, last, hookFailed, told, network>>

\* The caller aborts, and the timeout of the attempt fires.
Abort ==
  /\ ~aborted
  /\ aborted' = TRUE
  /\ UNCHANGED <<call, phase, timedOut, hook, network, answer, ending>>

BudgetFires ==
  /\ budget = "armed" /\ phase \in {"fetching", "askError", "responding", "askResponse", "sleeping"}
  /\ budget' = "fired"
  /\ UNCHANGED <<call, phase, attempt, aborted, timedOut, hook, cause, answer, ending>>

Statuses == {"ok", "transient", "refused"}
SendOver == phase \in {"returned", "thrown"}

\* What the call does on its own.
SendGoesOn ==
  \/ Call \/ Attempt \/ AbortedBefore \/ Wake \/ AbortedAsleep \/ Judge \/ Ends \/ HookThrows
  \/ \E b \in BOOLEAN : SaysOfError(b) \/ SaysOfResponse(b) \/ OnSettled(b)
  \/ \E how \in Statuses \cup {"keep"} : OnResponse(how)

\* A fetch whose signal has fired rejects.
FetchEnds == \E k \in Causes : Rejects(k)
SignalHeard == (aborted \/ budget = "fired") /\ FetchEnds

SendNext ==
  \/ SendGoesOn \/ FetchEnds \/ BudgetFires
  \/ \E s \in Statuses : Answers(s)

SendTypeOK ==
  /\ call \in CallKinds /\ phase \in Phases /\ attempt \in 0..MaxAttempts /\ aborted \in BOOLEAN
  /\ budget \in {"off", "armed", "fired"} /\ timedOut \in BOOLEAN
  /\ status \in Statuses \cup {Nothing}
  /\ response \in (Nat \X Nat) \cup {Nothing} /\ last \in (Nat \X Nat) \cup {Nothing}
  /\ open \in SUBSET (Nat \X Nat) /\ hook \in Nat
  /\ outcome \in Outcomes \cup {Nothing} /\ hookFailed \in BOOLEAN
  /\ told \in SUBSET (Nat \X Outcomes \X ((Nat \X Nat) \cup {Nothing}))
  /\ cause \in {"network", "abort", "budget", Nothing}

------------------------------------------------------------------------------
(* Properties. *)

\* Every response but the one at hand has been read or cancelled, and no call
\* waits, starts over or fails with a body open: only a hook or a predicate that
\* throws leaves one behind (runtime/send.ts).
BodiesReleased ==
  /\ open \subseteq {response}
  /\ phase \in {"idle", "loop", "fetching", "askError", "sleeping"} => open = {}
  /\ phase = "thrown" /\ outcome # "hook" => open = {}
  /\ phase = "thrown" /\ hookFailed => open = {}

\* The middlewares of a call that got past onRequest are all told its outcome,
\* the one the caller sees unless a hook that was told of a success threw.
SettledOnce ==
  SendOver /\ hook > 0 =>
    \A h \in 1..Hooks : \E t \in told :
       /\ t[1] = h
       /\ t[2] = "ok" <=> (phase = "returned" \/ hookFailed)
       /\ t[2] = outcome \/ hookFailed
       /\ \A u \in told : u[1] = h => u = t

\* The response the settled hooks are handed is the one whose body is still
\* there: never one that a retry drained or that a hook replaced.
HooksSeeLiveResponses ==
  phase = "settling" => \A t \in told : t[3] # Nothing => t[3] \in open

\* A TimeoutError is raised for an attempt whose own budget ended its fetch,
\* and such a fetch ends the call with nothing else, unless the caller aborted.
TimeoutsAreNamed ==
  /\ outcome = "TimeoutError" => cause = "budget"
  /\ outcome = "budget" => aborted
  /\ outcome = "network" => cause = "network"

\* A request that must not be sent twice is sent once, whatever the network does.
UnsafeSentOnce ==
  attempt > 1 => ~call.oneShot /\ attempt <= 1 + call.retries /\ (call.resendable \/ call.custom)

\* What the caller and every hook are told of a call is told once and is true.
OutcomesAreTrue == SettledOnce /\ HooksSeeLiveResponses /\ TimeoutsAreNamed
==============================================================================
