-------------------------------- MODULE MCClient --------------------------------
(***************************************************************************)
(* What runs inside a generated client.  The parts share no state: a       *)
(* behaviour is one of `part` while the other stays as it is.              *)
(*   "call"      calls with up to two retries and two middlewares, streams *)
(*               of two events over calls that never retry, any numbered   *)
(*               and one perhaps malformed; over calls that retry once,    *)
(*               all numbered or none             (HttpSend, EventStream)  *)
(*   "telemetry" one SDK with two calls of one operation (UsageTelemetry)  *)
(***************************************************************************)
EXTENDS EventStream, UsageTelemetry

VARIABLE part

clientParts == <<part, clientVars, vars>>

MCOwner == [ c \in Calls |-> "s" ]
MCOperation == [ c \in Calls |-> "op" ]

MCCallKinds ==
  { c \in [ retries : 0..2, timeout : BOOLEAN, oneShot : BOOLEAN, resendable : BOOLEAN,
            custom : BOOLEAN ] :
      /\ c.oneShot => c.retries = 1
      /\ c.retries # 1 => c.resendable /\ ~c.custom }
OnceOnly ==
  [ retries |-> 0, timeout |-> FALSE, oneShot |-> FALSE, resendable |-> TRUE, custom |-> FALSE ]

MCInit ==
  /\ part \in {"call", "telemetry"}
  /\ StreamInit /\ Init
  /\ Cardinality(malformed) <= 1
  /\ sse = "preparing" => call.resendable /\ ~call.custom /\ call.retries <= 1
  /\ sse = "preparing" /\ call.retries = 1 => malformed = {} /\ numbered \in {{}, 1..Last}
  /\ part = "telemetry" =>
       sse = "off" /\ call = OnceOnly /\ reconnect /\ resumes /\ numbered = {} /\ malformed = {}

InCall == part = "call" /\ UNCHANGED <<part, vars>>
InTelemetry == part = "telemetry" /\ UNCHANGED <<part, clientVars>>
CallSteps == InCall /\ StreamNext
\* The two calls are alike, so "a" settles first.
InTurn == settled'["b"] # None => settled'["a"] # None
TelemetrySteps == InTelemetry /\ Next /\ InTurn

\* In a call promises settle, timers fire, an aborted signal ends a fetch and a
\* read, the consumer asks for the next event or leaves; in the telemetry timers
\* fire, a sink ends (a request times out) and what awaits it goes on.
MCFairness ==
  /\ WF_clientParts(InCall /\ Sending /\ SendGoesOn /\ UNCHANGED streamVars)
  /\ WF_clientParts(InCall /\ Sending /\ SignalHeard /\ UNCHANGED streamVars)
  /\ WF_clientParts(InCall /\ Sending /\ BudgetFires /\ UNCHANGED streamVars)
  /\ WF_clientParts(InCall /\ StreamGoesOn)
  /\ WF_clientParts(InCall /\ aborted /\ Breaks)
  /\ \A s \in Sdks : WF_clientParts(InTelemetry /\ TimerFires(s))
  /\ \A c \in Calls :
       WF_clientParts(InTelemetry /\ \E x \in sends : c \in x.calls /\ (SinkEnds(x) \/ FlushEnds(x)))
  /\ WF_clientParts(InTelemetry /\ FlushReturns) /\ WF_clientParts(InTelemetry /\ BeforeExit)

MCSpec == MCInit /\ [][CallSteps \/ TelemetrySteps]_clientParts /\ MCFairness

------------------------------------------------------------------------------
\* Aborts and timeouts end calls and streams and a stream of numbered events gets
\* on; whatever the endpoint does, every call is tried and the process exits.  What
\* was asked for and what has ended stay so: "again and again" is "from then on".
ClientEnds ==
  /\ []<>(IF part = "call" THEN EndedAsAsked ELSE Drained)
  /\ IdsMakeProgress
==============================================================================
