---------------------------- MODULE DeploymentWait ----------------------------
(***************************************************************************)
(* push-status --wait: the preview deployment is polled until it is over,  *)
(* then, when it succeeded on the main branch, the production deployment;  *)
(* both waits share the start time, when the command began (--start-time   *)
(* is not given).  Each wait looks the project up before it asks for the   *)
(* status, and retryUntilConditionMet looks at the clock only after an     *)
(* answer that is still pending.                                           *)
(***************************************************************************)
EXTENDS Naturals

CONSTANTS
  Window,    (* max-execution-time *)
  Interval,  (* retry-interval *)
  Latency    (* the longest a request takes *)

ASSUME WaitAssumption == Window \in Nat /\ Interval \in Nat /\ Latency \in Nat

VARIABLES
  now,
  wait,        (* "looking", "asking", "pausing", "success", "failed", "timeout", "error" *)
  build,       (* "preview" or "production"                     *)
  since,       (* when the request or the pause began           *)
  mainBranch,
  deploy,      (* at the platform, of each build                *)
  outcome      (* what push-status did with each build          *)

waitVars == <<now, wait, build, since, mainBranch, deploy, outcome>>

Builds == {"preview", "production"}
Statuses == {"pending", "success", "failed"}

WaitInit ==
  /\ now = 0 /\ since = 0 /\ wait = "looking" /\ build = "preview"
  /\ mainBranch \in BOOLEAN
  /\ deploy = [b \in Builds |-> "pending"]
  /\ outcome = [b \in Builds |-> "none"]

Requesting == wait \in {"looking", "asking"}
Waiting == Requesting \/ wait = "pausing"

\* Faulty: the production deployment has a window of its own.
DeadlineOfEach == Window + (IF build = "production" THEN Window + Interval + Latency ELSE 0)
Deadline == Window

\* A deployment ends.
Deploys(b, s) ==
  /\ deploy[b] = "pending" /\ s # "pending"
  /\ b = "production" => deploy["preview"] = "success"
  /\ deploy' = [deploy EXCEPT ![b] = s]
  /\ UNCHANGED <<now, wait, build, since, mainBranch, outcome>>

\* Time passes; a request is answered within its latency, a pause ends on time.
Tick ==
  /\ Waiting
  /\ now < since + (IF Requesting THEN Latency ELSE Interval)
  /\ now' = now + 1
  /\ UNCHANGED <<wait, build, since, mainBranch, deploy, outcome>>

\* resolveProjectRef has its answer, or was denied and keeps what it was given.
LookedUp ==
  /\ wait = "looking"
  /\ wait' = "asking" /\ since' = now
  /\ UNCHANGED <<now, build, mainBranch, deploy, outcome>>

EndsWait(s) == wait' = s /\ outcome' = [outcome EXCEPT ![build] = s] /\ UNCHANGED <<build, since>>

\* Faulty: the clock is looked at before the answer.
AnsweredLate ==
  /\ wait = "asking"
  /\ IF now > Deadline THEN EndsWait("timeout")
     ELSE IF deploy[build] = "pending"
     THEN wait' = "pausing" /\ since' = now /\ UNCHANGED <<build, outcome>>
     ELSE IF deploy[build] = "success" /\ build = "preview" /\ mainBranch
     THEN /\ build' = "production" /\ since' = now /\ wait' = "looking"
          /\ outcome' = [outcome EXCEPT !["preview"] = "success"]
     ELSE EndsWait(deploy[build])
  /\ UNCHANGED <<now, mainBranch, deploy>>

\* Faulty: production is waited for on every branch.
AnsweredAnyBranch ==
  /\ wait = "asking"
  /\ IF deploy[build] = "pending"
     THEN IF now > Deadline THEN EndsWait("timeout")
          ELSE wait' = "pausing" /\ since' = now /\ UNCHANGED <<build, outcome>>
     ELSE IF deploy[build] = "success" /\ build = "preview"
     THEN /\ build' = "production" /\ since' = now /\ wait' = "looking"
          /\ outcome' = [outcome EXCEPT !["preview"] = "success"]
     ELSE EndsWait(deploy[build])
  /\ UNCHANGED <<now, mainBranch, deploy>>

\* The status arrives: a deployment that is over ends its wait whatever the time.
Answered ==
  /\ wait = "asking"
  /\ IF deploy[build] = "pending"
     THEN IF now > Deadline THEN EndsWait("timeout")
          ELSE wait' = "pausing" /\ since' = now /\ UNCHANGED <<build, outcome>>
     ELSE IF deploy[build] = "success" /\ build = "preview" /\ mainBranch
     THEN /\ build' = "production" /\ since' = now /\ wait' = "looking"
          /\ outcome' = [outcome EXCEPT !["preview"] = "success"]
     ELSE EndsWait(deploy[build])
  /\ UNCHANGED <<now, mainBranch, deploy>>

\* The lookup or the request for the status fails: the wait does not retry it.
RequestFails ==
  /\ Requesting /\ EndsWait("error")
  /\ UNCHANGED <<now, mainBranch, deploy>>

\* Faulty: nothing but news ends a pause.
PauseForNews ==
  /\ wait = "pausing" /\ now = since + Interval /\ deploy[build] # "pending"
  /\ wait' = "asking" /\ since' = now
  /\ UNCHANGED <<now, build, mainBranch, deploy, outcome>>

\* The pause before the next attempt ends.
PauseEnds ==
  /\ wait = "pausing" /\ now = since + Interval
  /\ wait' = "asking" /\ since' = now
  /\ UNCHANGED <<now, build, mainBranch, deploy, outcome>>

WaitNext ==
  \/ Tick \/ LookedUp \/ Answered \/ RequestFails \/ PauseEnds
  \/ \E b \in Builds, s \in Statuses : Deploys(b, s)

\* Time passes, pauses end and requests are answered or fail within their latency.
WaitTimely == Tick \/ PauseEnds \/ LookedUp \/ Answered

WaitSpec == WaitInit /\ [][WaitNext]_waitVars /\ WF_waitVars(WaitTimely)

------------------------------------------------------------------------------
(* Properties. *)

\* The last request for the status of the preview starts at most one interval after
\* the window, or is the first.
LastAsked == IF Window + Interval > Latency THEN Window + Interval ELSE Latency

\* Both waits share one window (cli/src/commands/push-status.ts:54): together they
\* exceed it by no more than one interval and the three requests that may still be
\* made, that one, the lookup for production and its first status.
OneWindowForBoth == Waiting => now <= LastAsked + 3 * Latency

\* A deployment that was over when the last request was answered is never reported
\* as a timeout, and one that timed out had used up the window.
LateResultsCount ==
  [][wait' = "timeout" /\ wait # "timeout" => deploy[build] = "pending" /\ now > Window]_waitVars

\* Production is waited for only after a preview that succeeded, and what is
\* reported is what the platform said.
ReportsTheDeployment ==
  /\ outcome["production"] # "none" => outcome["preview"] = "success" /\ mainBranch
  /\ \A b \in Builds : outcome[b] \in {"success", "failed"} => outcome[b] = deploy[b]

\* The wait ends.
WaitEnds == <>~Waiting

\* What push-status --wait promises: both waits within one window, and a report of
\* what the platform said.
WaitIsSound == [](OneWindowForBoth /\ ReportsTheDeployment) /\ LateResultsCount
==============================================================================
