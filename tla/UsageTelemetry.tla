---------------------------- MODULE UsageTelemetry ----------------------------
(***************************************************************************)
(* The telemetry middleware of a generated TypeScript client: settled calls*)
(* are counted in a usage window per SDK, a window is sent when its timer  *)
(* fires, when the application flushes or when the process is about to     *)
(* exit, and the counts of a send that failed are merged into the window   *)
(* that is open by then.                                                   *)
(*                                                                         *)
(* Counts are the set of the calls they count, so that a call counted      *)
(* twice, or not at all, shows.  The endpoint does not store what it       *)
(* refuses; of a send that timed out, or whose connection broke, it may    *)
(* have.  Date.now does not go back, and a timer set while the process only*)
(* waits for its last sends (SEND_TIMEOUT_MS each) does not fire before    *)
(* they end.                                                               *)
(***************************************************************************)
EXTENDS Naturals

CONSTANTS
  Sdks,         (* the generated clients with the middleware                 *)
  Calls,        (* the calls that will settle                                *)
  SdkOf,        (* the SDK of a call                                         *)
  OperationOf,  (* its operation                                             *)
  MaxTime,      (* bound: the clock stops there                              *)
  None          (* not yet                                                   *)

ASSUME Clients == SdkOf \in [Calls -> Sdks] /\ MaxTime \in Nat /\ None \notin Nat

VARIABLES
  now,       (* Date.now()                                                   *)
  settled,   (* when each call settled                                       *)
  counts,    (* the calls counted in the window of each SDK                  *)
  start,     (* windowStart                                                  *)
  timer,     (* whether a timer is set, and what the process did when it was *)
  active,    (* activeWindows                                                *)
  sends,     (* the sends under way                                          *)
  disabled,  (* the environment opts out                                     *)
  received,  (* how often the endpoint counted each call: 0, 1 or more       *)
  broken,    (* the calls stored by sends whose connection broke             *)
  tried,     (* the calls of the sends that ended, in whatever way           *)
  dropped,   (* the calls whose counts were given up                         *)
  flushing,  (* a flush of the application awaits the sends                  *)
  before,    (* the calls that had settled when it was called                *)
  process    (* what the process is doing                                    *)

windows == <<counts, start, timer, active>>
fates   == <<received, broken, tried, dropped>>
app     == <<disabled, flushing, before, process>>
vars == <<now, settled, windows, sends, fates, app>>

Settled == { c \in Calls : settled[c] # None }

\* A send holds what flushWindow keeps in its locals, how the sink ended, and
\* whether a flush of the application awaits it.
Sends ==
  [ sdk : Sdks, calls : SUBSET Calls, from : Nat, to : Nat, onFailedSend : {"keep", "drop"},
    outcome : {"none", "sent", "keep", "drop"}, awaited : BOOLEAN ]

Init ==
  /\ now = 0
  /\ settled = [ c \in Calls |-> None ]
  /\ counts = [ s \in Sdks |-> {} ]
  /\ start = [ s \in Sdks |-> 0 ]
  /\ timer = [ s \in Sdks |-> "off" ]
  /\ active = {} /\ sends = {}
  /\ disabled = FALSE /\ flushing = FALSE /\ before = {} /\ process = "running"
  /\ received = [ c \in Calls |-> 0 ]
  /\ broken = {} /\ tried = {} /\ dropped = {}

------------------------------------------------------------------------------
(* Counting and sending. *)

\* Faulty: the window is opened once.
OpenedOnce(s) ==
  IF counts[s] = {} /\ start[s] = 0
  THEN [ start |-> now, timer |-> process, active |-> active \cup {s} ]
  ELSE [ start |-> start[s], timer |-> timer[s], active |-> active ]

\* openWindow, when there is nothing in the window yet.
Opened(s) ==
  IF counts[s] = {}
  THEN [ start |-> now, timer |-> process, active |-> active \cup {s} ]
  ELSE [ start |-> start[s], timer |-> timer[s], active |-> active ]

\* Faulty: the counts of an operation replace those of the window, ...
AddOver(s, calls, oldest) ==
  LET open == Opened(s)
      same == { c \in counts[s] : \E d \in calls : OperationOf[c] = OperationOf[d] }
  IN /\ counts' = [ counts EXCEPT ![s] = (@ \ same) \cup calls ]
     /\ start' = [ start EXCEPT ![s] = IF oldest < open.start THEN oldest ELSE open.start ]
     /\ timer' = [ timer EXCEPT ![s] = open.timer ]
     /\ active' = open.active
\* ... or the window keeps the time it was opened at.
AddLate(s, calls, oldest) ==
  LET open == Opened(s)
  IN /\ counts' = [ counts EXCEPT ![s] = @ \cup calls ]
     /\ start' = [ start EXCEPT ![s] = open.start ]
     /\ timer' = [ timer EXCEPT ![s] = open.timer ]
     /\ active' = open.active

\* `calls` are added to the window of an SDK, whose oldest call is of `oldest`.
Add(s, calls, oldest) ==
  LET open == Opened(s)
  IN /\ counts' = [ counts EXCEPT ![s] = @ \cup calls ]
     /\ start' = [ start EXCEPT ![s] = IF oldest < open.start THEN oldest ELSE open.start ]
     /\ timer' = [ timer EXCEPT ![s] = open.timer ]
     /\ active' = open.active

\* onSettled
Settle(c) ==
  /\ process = "running" /\ settled[c] = None
  /\ settled' = [ settled EXCEPT ![c] = now ]
  /\ Add(SdkOf[c], {c}, now)
  /\ UNCHANGED <<now, sends, fates, app>>

Nonempty(S) == { s \in S : counts[s] # {} }
Send(s, how) ==
  [ sdk |-> s, calls |-> counts[s], from |-> start[s], to |-> now, onFailedSend |-> how,
    outcome |-> "none", awaited |-> FALSE ]

\* flushWindow of some SDKs up to the await: the sends that begin, none if the
\* environment opts out by now, and what becomes of the windows.
Begun(S, how) == IF disabled THEN {} ELSE { Send(s, how) : s \in Nonempty(S) }
\* Faulty: a window that was sent has no time any more.
CloseReset(S) ==
  /\ counts' = [ s \in Sdks |-> IF s \in Nonempty(S) THEN {} ELSE counts[s] ]
  /\ timer' = [ s \in Sdks |-> IF s \in Nonempty(S) THEN "off" ELSE timer[s] ]
  /\ active' = active \ Nonempty(S)
  /\ dropped' = IF disabled THEN dropped \cup UNION { counts[s] : s \in S } ELSE dropped
  /\ start' = [ s \in Sdks |-> IF s \in S THEN None ELSE start[s] ]
Close(S) ==
  /\ counts' = [ s \in Sdks |-> IF s \in Nonempty(S) THEN {} ELSE counts[s] ]
  /\ timer' = [ s \in Sdks |-> IF s \in Nonempty(S) THEN "off" ELSE timer[s] ]
  /\ active' = active \ Nonempty(S)
  /\ dropped' = IF disabled THEN dropped \cup UNION { counts[s] : s \in S } ELSE dropped
  /\ UNCHANGED start

\* A timer does not keep the process alive, a send does.
TimerFires(s) ==
  /\ timer[s] = "running" /\ process # "exited"
  /\ process = "running" \/ sends # {}
  /\ sends' = sends \cup Begun({s}, "keep")
  /\ Close({s})
  /\ UNCHANGED <<now, settled, received, broken, tried, app>>

\* The endpoint stores what x holds.
Store(x, stored) ==
  received' = [ c \in Calls |->
                  IF stored /\ c \in x.calls /\ received[c] < 2 THEN received[c] + 1 ELSE received[c] ]

\* Faulty: what timed out is kept, like what was refused.
SinkEndsTwice(x) ==
  /\ x.outcome = "none"
  /\ \E outcome \in {"sent", "keep"}, stored \in BOOLEAN :
       /\ outcome = "sent" => stored
       /\ sends' = (sends \ {x}) \cup { [ x EXCEPT !.outcome = outcome ] }
       /\ Store(x, stored)
  /\ tried' = tried \cup x.calls
  /\ UNCHANGED <<now, settled, windows, broken, dropped, app>>

\* The sink ends: the counts are stored; or they are refused for now, or the
\* connection breaks; or they are refused for good, or the answer does not come
\* in time.
SinkEnds(x) ==
  /\ x.outcome = "none"
  /\ \E outcome \in {"sent", "keep", "drop"}, stored \in BOOLEAN :
       /\ outcome = "sent" => stored
       /\ sends' = (sends \ {x}) \cup { [ x EXCEPT !.outcome = outcome ] }
       /\ Store(x, stored)
       /\ broken' = IF outcome = "keep" /\ stored THEN broken \cup x.calls ELSE broken
  /\ tried' = tried \cup x.calls
  /\ UNCHANGED <<now, settled, windows, dropped, app>>

Kept(x) == x.outcome = "keep" /\ x.onFailedSend = "keep"

\* flushWindow after the await.
FlushEnds(x) ==
  /\ x.outcome # "none"
  /\ sends' = sends \ {x}
  /\ IF Kept(x)
     THEN Add(x.sdk, x.calls, x.from) /\ UNCHANGED dropped
     ELSE /\ dropped' = IF x.outcome = "sent" THEN dropped ELSE dropped \cup x.calls
          /\ UNCHANGED windows
  /\ UNCHANGED <<now, settled, received, broken, tried, app>>

------------------------------------------------------------------------------
(* The application and its process. *)

\* Faulty: only the sends that this flush began are awaited.
FlushNew ==
  /\ process = "running" /\ ~flushing
  /\ sends' = sends \cup { [ x EXCEPT !.awaited = TRUE ] : x \in Begun(active, "keep") }
  /\ Close(active)
  /\ flushing' = TRUE /\ before' = Settled
  /\ UNCHANGED <<now, settled, received, broken, tried, disabled, process>>

\* flush: all windows are sent, and all sends under way awaited.
Flush ==
  /\ process = "running" /\ ~flushing
  /\ sends' = { [ x EXCEPT !.awaited = TRUE ] : x \in sends \cup Begun(active, "keep") }
  /\ Close(active)
  /\ flushing' = TRUE /\ before' = Settled
  /\ UNCHANGED <<now, settled, received, broken, tried, disabled, process>>

FlushReturns ==
  /\ flushing /\ \A x \in sends : x.awaited => x.outcome # "none"
  /\ flushing' = FALSE /\ before' = {}
  /\ UNCHANGED <<now, settled, windows, sends, fates, disabled, process>>

OptOut ==
  /\ process = "running" /\ ~disabled
  /\ disabled' = TRUE
  /\ UNCHANGED <<now, settled, windows, sends, fates, flushing, before, process>>

AppEnds ==
  /\ process = "running"
  /\ process' = "draining"
  /\ UNCHANGED <<now, settled, windows, sends, fates, disabled, flushing, before>>

\* Faulty: what the last sends could not deliver is kept.
BeforeExitKeeping ==
  /\ process = "draining" /\ sends = {} /\ ~flushing
  /\ sends' = Begun(active, "keep")
  /\ Close(active)
  /\ process' = IF sends' = {} THEN "exited" ELSE "draining"
  /\ UNCHANGED <<now, settled, received, broken, tried, disabled, flushing, before>>

\* Faulty: the process exits with what is in the windows.
BeforeExitAtOnce ==
  /\ process = "draining" /\ sends = {} /\ ~flushing
  /\ process' = "exited"
  /\ UNCHANGED <<now, settled, windows, sends, fates, disabled, flushing, before>>

\* beforeExit is emitted whenever nothing is left to wait for: the process
\* exits if its listener begins nothing.
BeforeExit ==
  /\ process = "draining" /\ sends = {} /\ ~flushing
  /\ sends' = Begun(active, "drop")
  /\ Close(active)
  /\ process' = IF sends' = {} THEN "exited" ELSE "draining"
  /\ UNCHANGED <<now, settled, received, broken, tried, disabled, flushing, before>>

Tick ==
  /\ now < MaxTime /\ process # "exited"
  /\ now' = now + 1
  /\ UNCHANGED <<settled, windows, sends, fates, app>>

Over == process = "exited" /\ UNCHANGED vars

Next ==
  \/ \E c \in Calls : Settle(c)
  \/ \E s \in Sdks : TimerFires(s)
  \/ \E x \in sends : SinkEnds(x) \/ FlushEnds(x)
  \/ Flush \/ FlushReturns \/ OptOut \/ AppEnds \/ BeforeExit \/ Tick \/ Over

Spec == Init /\ [][Next]_vars

------------------------------------------------------------------------------
(* Properties *)

TypeOK ==
  /\ now \in 0 .. MaxTime
  /\ settled \in [Calls -> (0 .. MaxTime) \cup {None}]
  /\ counts \in [Sdks -> SUBSET Calls]
  /\ start \in [Sdks -> 0 .. MaxTime]
  /\ timer \in [Sdks -> {"off", "running", "draining"}]
  /\ active \subseteq Sdks
  /\ sends \subseteq Sends
  /\ disabled \in BOOLEAN /\ flushing \in BOOLEAN
  /\ received \in [Calls -> 0 .. 2] /\ broken \subseteq Calls
  /\ tried \subseteq Calls /\ dropped \subseteq Calls /\ before \subseteq Calls
  /\ process \in {"running", "draining", "exited"}

\* No call is lost between the windows: it is counted in the window of its SDK
\* or in a send under way, or the endpoint has it, or it was given up.
NothingIsLost ==
  \A c \in Settled :
    \/ c \in counts[SdkOf[c]] \/ \E x \in sends : c \in x.calls
    \/ received[c] > 0 \/ c \in dropped

\* However sends overlap, fail, time out and are merged, the endpoint counts no
\* call twice, but for one whose connection broke after it was stored.
CountedAtMostOnce == \A c \in Calls : received[c] > 1 => c \in broken

\* A window with counts in it will be sent: it has a timer, and it is among the
\* windows that a flush or the end of the process sends.
OpenWindowsAreArmed ==
  \A s \in Sdks : (counts[s] # {} <=> s \in active) /\ (counts[s] # {} <=> timer[s] # "off")

\* The window that an event reports covers every call that it counts.
EventsCoverTheirCalls ==
  \A x \in sends : \A c \in x.calls : settled[c] # None /\ x.from <= settled[c] /\ settled[c] <= x.to

\* When flush resolves, everything that was counted when it was called has been
\* tried, or was given up.
FlushTriesAll == [][flushing /\ ~flushing' => before \subseteq tried \cup dropped]_vars

\* A process that has exited leaves nothing unsent.
NothingIsLeft == process = "exited" => sends = {} /\ \A s \in Sdks : counts[s] = {}

\* Every settled call was sent at least once, unless the environment opts out, and
\* the process does not wait for an endpoint that keeps failing.
Drained == process # "draining" /\ \A c \in Settled : c \in tried \cup dropped

\* From its settling to the end of the process no call is lost or counted twice, and
\* the process does not end with calls that are neither sent nor given up.
CountsAreKept == NothingIsLost /\ CountedAtMostOnce /\ NothingIsLeft

\* A window with counts is armed and covers its calls, when a failed send is merged
\* into it as well (telemetry.ts, flushWindow).
WindowsAreSound == OpenWindowsAreArmed /\ EventsCoverTheirCalls
==============================================================================
