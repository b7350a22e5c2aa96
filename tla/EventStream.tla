----------------------------- MODULE EventStream -----------------------------
(***************************************************************************)
(* The client runtime of a generated TypeScript client: a plain call, or   *)
(* an event stream (`sse`) that makes one call of `send` for every         *)
(* connection, reads frames from it, hands them to its consumer one by one *)
(* and connects again, from the last event id it saw, when the connection  *)
(* breaks.                                                                 *)
(*                                                                         *)
(* The server has the events 1..Last; those in `numbered` carry an id, the *)
(* data of those in `malformed` does not parse.  A server that `resumes`   *)
(* goes on after the id of the request, any other starts where it likes.   *)
(***************************************************************************)
EXTENDS HttpSend

CONSTANT Last

ASSUME StreamAssumption == Last \in Nat

VARIABLES
  sse,       (* where the generator is; "off" for a plain call                *)
  reconnect, (* the caller's option                                           *)
  numbered, malformed, resumes,   (* the server's traits                      *)
  lastEventId, (* 0 when no event had an id                                   *)
  taken,     (* the last frame of this connection that was parsed             *)
  got,       (* the last whole frame in the buffer                            *)
  partial,   (* the buffer ends with a part of a frame                        *)
  at,        (* history: the event handed out last                            *)
  cut        (* history: the stream has no body or its consumer left          *)

traits     == <<reconnect, numbered, malformed, resumes>>
buffer     == <<taken, got, partial>>
streamVars == <<sse, traits, lastEventId, buffer, at, cut>>
clientVars       == <<sendVars, streamVars>>

StreamOver == sse \in {"ended", "failed"}

StreamInit ==
  /\ SendInit
  /\ sse \in {"off", "preparing"}
  /\ reconnect \in BOOLEAN /\ resumes \in BOOLEAN
  /\ numbered \in SUBSET (1..Last) /\ malformed \in SUBSET (1..Last)
  /\ sse = "off" => reconnect /\ resumes /\ numbered = {} /\ malformed = {}
  /\ sse = "preparing" => ~call.timeout /\ ~call.oneShot
  /\ lastEventId = 0 /\ taken = 0 /\ got = 0 /\ partial = FALSE /\ at = 0 /\ cut = FALSE

------------------------------------------------------------------------------
(* A connection. *)

\* Faulty: the signal is looked at last.
CatchesLate(final) ==
  sse' = (IF final \/ ~reconnect THEN "failed" ELSE IF aborted THEN "ended" ELSE "backoff")
\* An error inside the try block that is `final` or not.
Catches(final) ==
  sse' = (IF aborted THEN "ended" ELSE IF final \/ ~reconnect THEN "failed" ELSE "backoff")

\* The credentials are fetched again for every connection; what that throws is
\* not caught.
Prepare ==
  /\ sse = "preparing"
  /\ IF aborted THEN sse' = "ended" /\ UNCHANGED <<phase, timedOut, hook, network, answer, ending>>
     ELSE sse' = "sending" /\ SendAgain
  /\ UNCHANGED <<call, aborted, traits, lastEventId, buffer, at, cut>>

PrepareThrows ==
  /\ sse = "preparing"
  /\ sse' = "failed"
  /\ UNCHANGED <<sendVars, traits, lastEventId, buffer, at, cut>>

\* The request failed, or a middleware of it.
SendFails ==
  /\ sse = "sending" /\ phase = "thrown"
  /\ Catches(FALSE)
  /\ UNCHANGED <<sendVars, traits, lastEventId, buffer, at, cut>>

Release == open' = {} /\ UNCHANGED <<call, phase, aborted, timedOut, hook, network, ending,
                                     status, response, last>>

\* Faulty: an answer that is not ok is a connection that broke.
RefusedIsDropped ==
  /\ sse = "sending" /\ phase = "returned" /\ status # "ok"
  /\ Catches(FALSE) /\ Release
  /\ UNCHANGED <<traits, lastEventId, buffer, at, cut>>

\* An answer that is not ok is an ApiError.
Refused ==
  /\ sse = "sending" /\ phase = "returned" /\ status # "ok"
  /\ Catches(TRUE) /\ Release
  /\ UNCHANGED <<traits, lastEventId, buffer, at, cut>>

NoBody ==
  /\ sse = "sending" /\ phase = "returned" /\ status = "ok"
  /\ sse' = "ended" /\ cut' = TRUE /\ Release
  /\ UNCHANGED <<traits, lastEventId, buffer, at>>

\* Where the server starts.
Starts == IF resumes THEN {lastEventId} ELSE 0..Last

Opens(from) ==
  /\ sse = "sending" /\ phase = "returned" /\ status = "ok" /\ from \in Starts
  /\ sse' = "reading" /\ taken' = from /\ got' = from /\ partial' = FALSE
  /\ UNCHANGED <<sendVars, traits, lastEventId, at, cut>>

Reads == sse = "reading" /\ taken = got

\* A chunk completes n frames and may end inside another.
Receives(n, part) ==
  /\ Reads /\ ~aborted
  /\ got + n <= Last /\ got' = got + n
  /\ partial' = part /\ (part => got' < Last)
  /\ got' # got \/ part # partial
  /\ got' = got => part
  /\ UNCHANGED <<sendVars, sse, traits, lastEventId, taken, at, cut>>

\* Faulty: a broken connection is a clean end.
BreaksCleanly ==
  /\ Reads
  /\ sse' = "ended" /\ Release
  /\ UNCHANGED <<traits, lastEventId, buffer, at, cut>>

\* The connection breaks, or the caller's signal ends it.
Breaks ==
  /\ Reads
  /\ Catches(FALSE) /\ Release
  /\ UNCHANGED <<traits, lastEventId, buffer, at, cut>>

\* A frame that never ends.
TooLong ==
  /\ Reads /\ partial
  /\ Catches(TRUE) /\ Release
  /\ UNCHANGED <<traits, lastEventId, buffer, at, cut>>

------------------------------------------------------------------------------
(* Events. *)

\* Faulty: the id of an event is not kept.
SeesOldId(e) == UNCHANGED lastEventId
Sees(e) == lastEventId' = (IF e \in numbered THEN e ELSE lastEventId)

\* Faulty: what cannot be parsed is skipped.
HandsNext(e, then) ==
  IF e \in malformed
  THEN UNCHANGED <<sse, sendVars, lastEventId, at>>
  ELSE sse' = then /\ at' = e /\ Sees(e) /\ UNCHANGED sendVars
\* The frame e is parsed and, unless its data is malformed, handed out.
Hands(e, then) ==
  IF e \in malformed
  THEN Catches(TRUE) /\ Release /\ UNCHANGED <<lastEventId, at>>
  ELSE sse' = then /\ at' = e /\ Sees(e) /\ UNCHANGED sendVars

Yields ==
  /\ sse = "reading" /\ taken < got
  /\ taken' = taken + 1
  /\ Hands(taken', "yielding")
  /\ UNCHANGED <<traits, got, partial, cut>>

\* The server ends the stream, a resuming one after its last event; a trailing
\* frame without a delimiter is handed out.
Finishes ==
  /\ Reads /\ ~aborted /\ (resumes => got = (IF partial THEN Last - 1 ELSE Last))
  /\ IF partial THEN Hands(got + 1, "flushing")
     ELSE sse' = "ended" /\ Release /\ UNCHANGED <<lastEventId, at>>
  /\ partial' = FALSE
  /\ UNCHANGED <<traits, taken, got, cut>>

\* The consumer asks for the next event, ...
Resumes ==
  /\ sse = "yielding" /\ sse' = "reading"
  /\ UNCHANGED <<sendVars, traits, lastEventId, buffer, at, cut>>

Flushed ==
  /\ sse = "flushing" /\ sse' = "ended" /\ Release
  /\ UNCHANGED <<traits, lastEventId, buffer, at, cut>>

\* Faulty: the reader is cancelled only when the stream ends by itself.
LeavesReading ==
  /\ sse \in {"yielding", "flushing"}
  /\ sse' = "ended" /\ cut' = TRUE
  /\ UNCHANGED <<sendVars, traits, lastEventId, buffer, at>>

\* ... or leaves its loop.
Leaves ==
  /\ sse \in {"yielding", "flushing"}
  /\ sse' = "ended" /\ cut' = TRUE /\ Release
  /\ UNCHANGED <<traits, lastEventId, buffer, at>>

\* Faulty: the wait before the next connection does not hear the signal.
WakesAnyway ==
  /\ sse = "backoff" /\ ~aborted
  /\ sse' = "preparing"
  /\ UNCHANGED <<sendVars, traits, lastEventId, buffer, at, cut>>

\* The wait before the next connection ends or is aborted.
Wakes ==
  /\ sse = "backoff"
  /\ sse' = (IF aborted THEN "ended" ELSE "preparing")
  /\ UNCHANGED <<sendVars, traits, lastEventId, buffer, at, cut>>

------------------------------------------------------------------------------
Sending == sse \in {"off", "sending"}

SendSteps == Sending /\ SendNext /\ UNCHANGED streamVars
Aborts == Abort /\ ~StreamOver /\ UNCHANGED streamVars

\* What the generator and its consumer do.
StreamGoesOn ==
  \/ Prepare \/ PrepareThrows \/ SendFails \/ Refused \/ NoBody \/ Yields
  \/ Resumes \/ Flushed \/ Leaves \/ Wakes
  \/ \E from \in 0..Last : Opens(from)

\* What the server and the network do.
StreamServed ==
  \/ Breaks \/ TooLong \/ Finishes
  \/ \E n \in 0..Last, part \in BOOLEAN : Receives(n, part)

StreamNext == SendSteps \/ Aborts \/ StreamGoesOn \/ StreamServed

\* Promises settle, timers fire and an aborted signal ends a fetch and a read;
\* the consumer asks for the next event or leaves.
StreamFairness ==
  /\ WF_clientVars(Sending /\ SendGoesOn /\ UNCHANGED streamVars)
  /\ WF_clientVars(Sending /\ SignalHeard /\ UNCHANGED streamVars)
  /\ WF_clientVars(Sending /\ BudgetFires /\ UNCHANGED streamVars)
  /\ WF_clientVars(StreamGoesOn)
  /\ WF_clientVars(aborted /\ Breaks)

StreamSpec == StreamInit /\ [][StreamNext]_clientVars /\ StreamFairness

------------------------------------------------------------------------------
(* Properties. *)

StreamTypeOK ==
  /\ SendTypeOK
  /\ sse \in { "off", "preparing", "sending", "reading", "yielding", "flushing", "backoff",
              "ended", "failed" }
  /\ reconnect \in BOOLEAN /\ resumes \in BOOLEAN
  /\ numbered \subseteq 1..Last /\ malformed \subseteq 1..Last
  /\ lastEventId \in 0..Last /\ at \in 0..Last
  /\ taken \in 0..Last /\ got \in taken..Last
  /\ partial \in BOOLEAN /\ cut \in BOOLEAN

\* The consumer gets what OrderedDelivery promises: no event is skipped, and only
\* those after the last one with an id come twice.
Delivery ==
  INSTANCE OrderedDelivery WITH mark <- lastEventId, over <- StreamOver

DeliveredInOrder == Delivery!Spec

\* A stream that ends by itself has handed out every event of a server that
\* resumes, however often its connection broke.
CompleteAtEnd == sse = "ended" /\ resumes /\ ~aborted /\ ~cut => at = Last

\* A connection is given back before the next one is asked for and when the
\* stream is over: only a middleware that throws leaves a body behind.
ReadersReleased ==
  sse \in {"preparing", "backoff", "ended", "failed"} => open = {} \/ outcome = "hook"

\* A refusal or a payload that does not parse is never taken for a broken
\* connection, which would ask a server that resumes for it again and again.
DefinitiveErrorsEnd ==
  sse = "backoff" => phase = "thrown" \/ (status = "ok" /\ taken = got /\ (resumes => taken \notin malformed))

\* A stream whose signal is aborted does not fail, unless preparing the next
\* connection does.
AbortIsQuiet ==
  [][sse' = "failed" /\ sse # "failed" => ~aborted \/ sse = "preparing"]_clientVars

\* What an abort has to bring about, of a call and of a stream, and the timeout of
\* a call.
EndedAsAsked ==
  /\ aborted => IF sse = "off" THEN SendOver ELSE StreamOver
  /\ sse = "off" /\ call.timeout => SendOver

\* A stream whose events have ids does not live on events it already had: in the
\* end there are no more whole frames, however often the connection breaks.
IdsMakeProgress ==
  sse # "off" /\ resumes /\ numbered = 1..Last =>
    <>[][~\E n \in 1..Last, part \in BOOLEAN : Receives(n, part)]_clientVars

\* No connection stays checked out, of a call or of a stream (runtime/send.ts and
\* runtime/sse.ts).
ConnectionsReleased == BodiesReleased /\ ReadersReleased

\* The consumer gets the events as OrderedDelivery promises them, and all of them
\* when the stream ends by itself.
EventsAreDelivered == DeliveredInOrder /\ []CompleteAtEnd

\* A definitive error is not retried, and an abort is not an error.
FailuresAreTrue == []DefinitiveErrorsEnd /\ AbortIsQuiet
==============================================================================
