---------------------------- MODULE MCRespectRunner ----------------------------
(* Small Arazzo descriptions for RespectRunner.                              *)
EXTENDS RespectRunner

Act0(type) ==
  [type |-> type, workflow |-> None, step |-> 0, limit |-> 0, sometimes |-> FALSE, inputs |-> TRUE]
ToWorkflow(a, w) == [a EXCEPT !.workflow = w]
ToStep(a, k) == [a EXCEPT !.step = k]
Times(a, n) == [a EXCEPT !.limit = n]
Sometimes(a) == [a EXCEPT !.sometimes = TRUE]
BadInputs(a) == [a EXCEPT !.inputs = FALSE]

End == Act0("end")
GoTo == Act0("goto")
Retry(n) == Times(Act0("retry"), n)

Does(failure, success) ==
  [calls |-> None, fault |-> "none", outputs |-> FALSE, failure |-> failure, success |-> success]
Calls(w, failure, success) == [Does(failure, success) EXCEPT !.calls = w]
Request == Does(<<>>, <<>>)
IllFormed == [Request EXCEPT !.fault = "parameter"]
Unresolved == [Calls("d", <<>>, <<>>) EXCEPT !.fault = "reference"]

Described(order, dependsOn, outputs, steps) ==
  [order |-> order, dependsOn |-> dependsOn, outputs |-> outputs, steps |-> steps]
Nothing == [v \in Workflows |-> {}]
NoOutputs == [v \in Workflows |-> FALSE]
UpTo(n, S) == UNION { [1 .. k -> S] : k \in 0 .. n }

\* One workflow, w: what its first step does when it fails, with a second step
\* that calls the other workflow, d, and may be retried through the first.
Works ==
  { Retry(2), Sometimes(Retry(1)), Times(ToWorkflow(GoTo, "d"), 0), Sometimes(ToStep(GoTo, 2)),
    ToWorkflow(Retry(1), "d"), ToStep(Retry(1), 2), Sometimes(End) }
Broken ==
  { BadInputs(ToWorkflow(Retry(1), "d")), ToStep(Retry(1), 3), BadInputs(ToWorkflow(GoTo, "d")),
    GoTo, ToWorkflow(GoTo, Missing), ToStep(ToWorkflow(GoTo, "d"), 1) }
Pairs == { <<a, b>> : a \in {x \in Works : x.sometimes}, b \in Works }
Failures == UpTo(1, Works) \cup Pairs \cup { <<a>> : a \in Broken } \cup { <<Sometimes(Retry(1)), a>> : a \in Broken }
Seconds ==
  { Request, Calls("d", <<ToStep(Retry(1), 1)>>, <<>>),
    [Calls("d", <<>>, <<Sometimes(ToStep(GoTo, 2))>>) EXCEPT !.outputs = TRUE] }
Solo ==
  { Described(<<"w">>, Nothing, NoOutputs,
      [v \in Workflows |-> IF v = "w" THEN <<Does(f, <<>>), s>> ELSE <<Request>>]) :
    f \in Failures, s \in Seconds }

\* Steps that are broken themselves, and outputs that may fail.
Faults ==
  { Described(<<"w", "d">>, Nothing, [v \in Workflows |-> v = o],
      [v \in Workflows |-> IF v = "w" THEN <<s, Request>> ELSE <<Does(<<ToWorkflow(Retry(1), "w")>>, <<>>)>>]) :
    o \in {"w", "d", None}, s \in { IllFormed, Unresolved, Calls(Missing, <<>>, <<>>), Calls("d", <<>>, <<End>>) } }

\* w after d and e, which retry and share a step limit; e alone after d.
Retrying == Does(<<Retry(1)>>, <<>>)
Dependents ==
  { Described(<<"w", "e">>, [v \in Workflows |-> IF v = "w" THEN n ELSE IF v = "e" THEN {"d"} ELSE {}],
      [v \in Workflows |-> v = o],
      [v \in Workflows |-> IF v = "w" THEN <<Request>> ELSE IF v = "d" THEN <<Retrying>> ELSE <<s>>]) :
    n \in { {"d", "e"}, {"d", Missing} }, o \in {"d", None}, s \in {Request, IllFormed} }

\* A retry through a step that is not there, or of a workflow with wrong inputs.
BrokenRetries ==
  { Described(<<"w">>, Nothing, NoOutputs, [v \in Workflows |-> <<Does(<<a>>, <<>>)>>]) :
    a \in { ToStep(Retry(1), 2), BadInputs(ToWorkflow(Retry(1), "d")) } }

All == Solo \cup Faults \cup Dependents
==============================================================================
