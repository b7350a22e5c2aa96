---------------------------- MODULE RespectRunner ----------------------------
(***************************************************************************)
(* The flow runner of packages/respect-core: runWorkflows runs the         *)
(* workflows of one Arazzo file in order, each after its dependsOn         *)
(* workflows, which run concurrently; runWorkflow runs the steps of a      *)
(* workflow and runStep runs a step, its child workflow or its request,    *)
(* and the first matching onSuccess or onFailure action.                   *)
(*                                                                         *)
(* A thread is the main flow or the run of one dependency.  Its stack holds*)
(* the runWorkflow and runStep calls in progress, the innermost last; a    *)
(* step of the model is the code between two awaits, or less.  Parameters, *)
(* outputs and expressions are abstracted to whether they evaluate, a      *)
(* request to how its checks come out; a description holds local workflows *)
(* only.                                                                   *)
(***************************************************************************)
EXTENDS Naturals, Sequences, FiniteSets

CONSTANTS
  Workflows,    (* workflow ids                                             *)
  Plans,        (* the candidate descriptions                               *)
  Longest,      (* the number of steps of the longest workflow              *)
  MaxSteps,     (* the option max-steps                                     *)
  TimeLimited,  (* whether the option execution-timeout is set              *)
  Main,         (* the thread of runWorkflows                               *)
  None,         (* no workflow                                              *)
  Missing       (* a reference that resolves to no workflow                 *)

Threads == Workflows \cup {Main}

\* An action is of type retry, goto or end, refers to a workflow or a step (by
\* its position, 0 for none), has criteria that hold always or not, and
\* parameters that evaluate or not.
Actions ==
  [ type : {"retry", "goto", "end"}, workflow : Workflows \cup {None, Missing}, step : Nat,
    limit : Nat, sometimes : BOOLEAN, inputs : BOOLEAN ]
\* A step calls a workflow or the API; a reusable reference of it may not
\* evaluate or a parameter lack `in`, and the outputs of a child workflow may
\* fail to evaluate.
StepDefs ==
  [ calls : Workflows \cup {None, Missing}, fault : {"none", "reference", "parameter"}, outputs : BOOLEAN,
    failure : Seq(Actions), success : Seq({ a \in Actions : a.type # "retry" }) ]

ASSUME Constants ==
  /\ IsFiniteSet(Workflows) /\ Longest \in Nat /\ MaxSteps \in Nat /\ TimeLimited \in BOOLEAN
  /\ Main \notin Workflows /\ {None, Missing} \cap Threads = {} /\ None # Missing
ASSUME Descriptions ==
  Plans \subseteq [ order : Seq(Workflows), dependsOn : [Workflows -> SUBSET (Workflows \cup {Missing})],
                    outputs : [Workflows -> BOOLEAN],
                    steps : [Workflows -> { s \in Seq(StepDefs) : Len(s) \in 1 .. Longest }] ]

VARIABLES
  plan,     (* the description, chosen once                                *)
  count,    (* executedStepsCount, shared by all threads                   *)
  requests, (* how many requests were let through to the API               *)
  late,     (* whether the execution timeout has passed                    *)
  copies,   (* the copies of step objects that runStep made, oldest first  *)
  checks,   (* the failed checks in the array of each step definition      *)
  lists,    (* the executedSteps arrays: the array each was added to, or 0 *)
  stack,    (* the calls in progress in each thread                        *)
  ret,      (* what the last call to return in each thread returned        *)
  threw,    (* whether runWorkflow threw out of a thread                   *)
  at,       (* the position of the workflow runWorkflows is at             *)
  pending,  (* dependencies whose run has not begun                        *)
  phase,    (* what runWorkflows is doing                                  *)
  results   (* executedWorkflows                                           *)

vars == <<plan, count, requests, late, copies, checks, lists, stack, ret, threw, at,
          pending, phase, results>>

Kinds == {"error", "failed", "action", "max steps", "timeout"}
StepIds == Workflows \X (1 .. Longest)
\* `list` is where the copy is registered (0 if it is not), `arr` the copy whose
\* array of checks it holds (0 for the array of the definition), `of` the copy
\* it is a retry of, `given` the retries left of the action that runs its workflow.
Copies == [ step : StepIds, list : Nat, left : Nat, given : Nat, arr : Nat, own : SUBSET Kinds,
            of : Nat ]
Frames ==
  [ fn : {"workflow", "step"}, w : Workflows, pos : Nat, list : Nat, left : Nat,
    retrying : SUBSET StepIds, arr : Nat, of : Nat, tries : Seq(Nat), copy : Nat,
    stage : {"steps", "start", "calling", "child", "acting", "retried", "gone"},
    kind : {"failure", "success"}, act : Nat ]
Returned == [ end : BOOLEAN, list : Nat, timeout : BOOLEAN ]
Results == [ workflow : Workflows, list : Nat, broken : BOOLEAN, timeout : BOOLEAN ]

Steps(w) == plan.steps[w]
Id(frame) == <<frame.w, frame.pos>>
Def(frame) == Steps(frame.w)[frame.pos]
FrontOf(s) == SubSeq(s, 1, Len(s) - 1)
Top(t) == stack[t][Len(stack[t])]
Under(t) == FrontOf(stack[t])

RunWorkflow(w, pos, list, left, retrying) ==
  [ fn |-> "workflow", w |-> w, pos |-> pos, list |-> list, left |-> left, retrying |-> retrying,
    arr |-> 0, of |-> 0, tries |-> <<>>, copy |-> 0, stage |-> "steps", kind |-> "success", act |-> 0 ]
\* A run of a step with the retries that each of its failure actions has.
RunStep(w, pos, list, left, retrying) ==
  [ fn |-> "step", w |-> w, pos |-> pos, list |-> list, left |-> left, retrying |-> retrying,
    arr |-> 0, of |-> 0,
    tries |-> [ k \in DOMAIN Steps(w)[pos].failure |-> Steps(w)[pos].failure[k].limit ],
    copy |-> 0, stage |-> "start", kind |-> "success", act |-> 1 ]

Init ==
  /\ plan \in Plans
  /\ count = 0 /\ requests = 0 /\ late = FALSE
  /\ copies = <<>> /\ lists = <<>> /\ results = <<>>
  /\ checks = [ s \in StepIds |-> {} ]
  /\ stack = [ t \in Threads |-> <<>> ]
  /\ ret = [ t \in Threads |-> [end |-> FALSE, list |-> 0, timeout |-> FALSE] ]
  /\ threw = [ t \in Threads |-> FALSE ]
  /\ at = 1 /\ pending = {} /\ phase = "next"

------------------------------------------------------------------------------
(* Copies of steps, their checks and what the summary makes of them.       *)

ChecksOf(c) == IF copies[c].arr = 0 THEN checks[copies[c].step] ELSE copies[copies[c].arr].own

\* The outermost array that holds, directly or nested, what is in an array.
Home ==
  LET home[l \in 0 .. Len(lists)] ==
        IF l = 0 THEN 0 ELSE IF lists[l] = 0 THEN l ELSE home[lists[l]]
  IN home

\* calculateTotals: a step with retries left is not counted.
Counted(c) == copies[c].list # 0 /\ copies[c].left = 0
Failed(list) ==
  \E c \in DOMAIN copies : Counted(c) /\ Home[copies[c].list] = list /\ ChecksOf(c) # {}

\* A failed check added to the array that a copy holds (arr), and to every copy
\* that shares it.
AddCheck(made, arr, id, kind) ==
  IF arr = 0
  THEN copies' = made /\ checks' = [ checks EXCEPT ![id] = @ \cup {kind} ]
  ELSE copies' = [ made EXCEPT ![arr].own = @ \cup {kind} ] /\ UNCHANGED checks

------------------------------------------------------------------------------
(* Calls and returns. *)

Call(t, frame, callee) == stack' = [ stack EXCEPT ![t] = Append(Append(Under(t), frame), callee) ]
Stay(t, frame) == stack' = [ stack EXCEPT ![t] = Append(Under(t), frame) ]

\* runWorkflow's loop is back from a step of its own: it goes on with the next
\* one, or to the end if the step said so.
Advance(frame, end) ==
  [ frame EXCEPT !.pos = IF end THEN Len(Steps(frame.w)) + 1 ELSE @ + 1 ]

\* A runStep call returns `end` to the call below it.
Return(t, end) ==
  LET under == Under(t)
      below == under[Len(under)]
  IN /\ stack' = [ stack EXCEPT ![t] =
                     IF below.fn = "workflow" THEN Append(FrontOf(under), Advance(below, end)) ELSE under ]
     /\ ret' = [ ret EXCEPT ![t].end = end ]

\* An error is thrown with the calls `open` in progress: the innermost
\* runWorkflow registers its step, not the copy, and goes on with the next one.
\* Without one it leaves the thread.
Throw(t, open, made) ==
  LET catching == { i \in DOMAIN open : open[i].fn = "workflow" }
      last     == CHOOSE i \in catching : \A j \in catching : j <= i
      frame    == open[last]
  IN IF catching = {}
     THEN /\ stack' = [ stack EXCEPT ![t] = <<>> ]
          /\ threw' = [ threw EXCEPT ![t] = TRUE ]
          /\ copies' = made
          /\ UNCHANGED checks
     ELSE /\ stack' = [ stack EXCEPT ![t] = Append(SubSeq(open, 1, last - 1), Advance(frame, FALSE)) ]
          /\ AddCheck(Append(made, [ step |-> Id(frame), list |-> frame.list, left |-> 0, given |-> 0,
                                     arr |-> 0, own |-> {}, of |-> 0 ]), 0, Id(frame), "error")
          /\ UNCHANGED threw

InStage(t, stage) == stack[t] # <<>> /\ Top(t).stage = stage
NewList == Len(lists) + 1
NewCopy == Len(copies) + 1

------------------------------------------------------------------------------
(* runWorkflow *)

NextStep(t) ==
  /\ InStage(t, "steps") /\ Top(t).pos <= Len(Steps(Top(t).w))
  /\ Call(t, Top(t), RunStep(Top(t).w, Top(t).pos, Top(t).list, Top(t).left, Top(t).retrying))
  /\ UNCHANGED <<plan, count, requests, late, copies, checks, lists, ret, threw, at, pending, phase, results>>

\* A global timeout is looked for in the arrays of the definitions.
TimedOut(w) == \E k \in DOMAIN Steps(w) : "timeout" \in checks[<<w, k>>]

FinishWorkflow(t) ==
  /\ InStage(t, "steps") /\ Top(t).pos > Len(Steps(Top(t).w))
  /\ stack' = [ stack EXCEPT ![t] = Under(t) ]
  /\ ret' = [ ret EXCEPT ![t] = [end |-> FALSE, list |-> Top(t).list, timeout |-> TimedOut(Top(t).w)] ]
  /\ UNCHANGED <<plan, count, requests, late, copies, checks, lists, threw, at, pending, phase, results>>

OutputsThrow(t) ==
  /\ InStage(t, "steps") /\ Top(t).pos > Len(Steps(Top(t).w))
  /\ plan.outputs[Top(t).w] /\ ~TimedOut(Top(t).w)
  /\ Throw(t, Under(t), copies)
  /\ UNCHANGED <<plan, count, requests, late, lists, ret, at, pending, phase, results>>

------------------------------------------------------------------------------
(* runStep: how a step starts, and a child workflow. *)

\* Faulty: a retried step keeps the retries left of the attempt before it.
CopyOfStale(f, list) ==
  [ step |-> Id(f), list |-> list, left |-> IF f.of = 0 THEN f.left ELSE copies[f.of].left,
    given |-> f.left, arr |-> f.arr, own |-> {}, of |-> f.of ]

CopyOf(f, list) ==
  [ step |-> Id(f), list |-> list, left |-> f.left, given |-> f.left, arr |-> f.arr, own |-> {}, of |-> f.of ]

\* An error before the step is registered.
StartBroken(t) ==
  /\ InStage(t, "start") /\ Def(Top(t)).fault = "reference"
  /\ Throw(t, Under(t), copies)
  /\ UNCHANGED <<plan, count, requests, late, lists, ret, at, pending, phase, results>>

Starting(t) == InStage(t, "start") /\ Def(Top(t)).fault # "reference"

StartChild(t) ==
  /\ Starting(t) /\ Def(Top(t)).calls \in Workflows
  /\ copies' = Append(copies, CopyOf(Top(t), 0))
  /\ lists' = Append(lists, 0)
  /\ Call(t, [ Top(t) EXCEPT !.stage = "child", !.copy = NewCopy ],
          RunWorkflow(Def(Top(t)).calls, 1, NewList, 0, {}))
  /\ UNCHANGED <<plan, count, requests, late, checks, ret, threw, at, pending, phase, results>>

StartMissing(t) ==
  /\ Starting(t) /\ Def(Top(t)).calls = Missing
  /\ AddCheck(Append(copies, CopyOf(Top(t), Top(t).list)), Top(t).arr, Id(Top(t)), "error")
  /\ Return(t, TRUE)
  /\ UNCHANGED <<plan, count, requests, late, lists, threw, at, pending, phase, results>>

\* The child's result is registered; the step itself only if its outputs fail.
ChildDone(t) ==
  LET f == Top(t)
      c == f.copy
  IN /\ InStage(t, "child")
     /\ lists' = [ lists EXCEPT ![ret[t].list] = f.list ]
     /\ \/ UNCHANGED <<copies, checks>>
        \/ /\ Def(f).outputs
           /\ AddCheck([ copies EXCEPT ![c].list = f.list ], copies[c].arr, Id(f), "error")
     /\ Stay(t, [ f EXCEPT !.stage = "acting", !.kind = IF Failed(ret[t].list) THEN "failure" ELSE "success" ])
     /\ UNCHANGED <<plan, count, requests, late, ret, threw, at, pending, phase, results>>

------------------------------------------------------------------------------
(* runStep: a request. *)

AtApi(t) == Starting(t) /\ Def(Top(t)).calls = None
Registered(t) == Append(copies, CopyOf(Top(t), Top(t).list))

StartOverLimit(t) ==
  /\ AtApi(t) /\ count' = count + 1 /\ count' > MaxSteps
  /\ AddCheck(Registered(t), Top(t).arr, Id(Top(t)), "max steps")
  /\ Return(t, TRUE)
  /\ UNCHANGED <<plan, requests, late, lists, threw, at, pending, phase, results>>

StartTimedOut(t) ==
  /\ AtApi(t) /\ count' = count + 1 /\ count' <= MaxSteps /\ late
  /\ AddCheck(Registered(t), Top(t).arr, Id(Top(t)), "timeout")
  /\ Return(t, TRUE)
  /\ UNCHANGED <<plan, requests, late, lists, threw, at, pending, phase, results>>

\* A parameter without `in` throws after the step was registered.
StartThrows(t) ==
  /\ AtApi(t) /\ count' = count + 1 /\ count' <= MaxSteps /\ ~late /\ Def(Top(t)).fault = "parameter"
  /\ Throw(t, Under(t), Registered(t))
  /\ UNCHANGED <<plan, requests, late, lists, ret, at, pending, phase, results>>

\* Faulty: the limit is compared with the count before this step.
StartRequestLate(t) ==
  /\ AtApi(t) /\ count' = count + 1 /\ count <= MaxSteps /\ ~late /\ Def(Top(t)).fault # "parameter"
  /\ requests' = requests + 1
  /\ copies' = Registered(t)
  /\ Stay(t, [ Top(t) EXCEPT !.stage = "calling", !.copy = NewCopy ])
  /\ UNCHANGED <<plan, late, checks, lists, ret, threw, at, pending, phase, results>>

StartRequest(t) ==
  /\ AtApi(t) /\ count' = count + 1 /\ count' <= MaxSteps /\ ~late /\ Def(Top(t)).fault # "parameter"
  /\ requests' = requests + 1
  /\ copies' = Registered(t)
  /\ Stay(t, [ Top(t) EXCEPT !.stage = "calling", !.copy = NewCopy ])
  /\ UNCHANGED <<plan, late, checks, lists, ret, threw, at, pending, phase, results>>

\* The copy gets an array of its own, or keeps the one it shares if the
\* request could not be prepared.
RequestDone(t) ==
  LET f == Top(t)
      c == f.copy
  IN /\ InStage(t, "calling")
     /\ \/ /\ copies' = [ copies EXCEPT ![c].arr = c ]
           /\ UNCHANGED checks
           /\ Stay(t, [ f EXCEPT !.stage = "acting", !.kind = "success" ])
        \/ /\ copies' = [ copies EXCEPT ![c].arr = c, ![c].own = {"failed"} ]
           /\ UNCHANGED checks
           /\ Stay(t, [ f EXCEPT !.stage = "acting", !.kind = "failure" ])
        \/ /\ AddCheck(copies, copies[c].arr, Id(f), "error")
           /\ Stay(t, [ f EXCEPT !.stage = "acting", !.kind = "failure" ])
     /\ UNCHANGED <<plan, count, requests, late, lists, ret, threw, at, pending, phase, results>>

------------------------------------------------------------------------------
(* runActions *)

ActionsOf(f) == IF f.kind = "failure" THEN Def(f).failure ELSE Def(f).success
Action(t) == ActionsOf(Top(t))[Top(t).act]
Acting(t) == InStage(t, "acting") /\ Top(t).act <= Len(ActionsOf(Top(t)))
Both(a) == a.workflow # None /\ a.step # 0
HasTarget(a) == a.workflow # None \/ a.step # 0
StepKnown(t, a) == a.step \in DOMAIN Steps(Top(t).w)
Matched(t, type) ==
  Acting(t) /\ ~Both(Action(t)) /\ Action(t).workflow # Missing /\ Action(t).type = type

NoMoreActions(t) ==
  /\ InStage(t, "acting") /\ Top(t).act > Len(ActionsOf(Top(t)))
  /\ Return(t, Top(t).kind = "failure")
  /\ UNCHANGED <<plan, count, requests, late, copies, checks, lists, threw, at, pending, phase, results>>

Unmatched(t) ==
  /\ Acting(t) /\ ~Both(Action(t)) /\ Action(t).sometimes
  /\ Stay(t, [ Top(t) EXCEPT !.act = @ + 1 ])
  /\ UNCHANGED <<plan, count, requests, late, copies, checks, lists, ret, threw, at, pending, phase, results>>

\* failStepWithActionError: the step gets a failed check, is registered if it
\* was not, and ends the workflow.
FailStep(t, made) ==
  LET f == Top(t)
      c == f.copy
  IN /\ AddCheck([ made EXCEPT ![c].list = f.list ], copies[c].arr, Id(f), "action")
     /\ Return(t, TRUE)
     /\ UNCHANGED <<plan, count, requests, late, lists, threw, at, pending, phase, results>>

BrokenAction(t) ==
  /\ Acting(t) /\ (Both(Action(t)) \/ Action(t).workflow = Missing)
  /\ FailStep(t, copies)

\* Faulty: a step may retry inside its own retry target.
LeftAlways(t) == Top(t).tries[Top(t).act]

\* The retries left, recorded in the step before anything is run.
Left(t) ==
  IF HasTarget(Action(t)) /\ Id(Top(t)) \in Top(t).retrying THEN 0 ELSE Top(t).tries[Top(t).act]
WithLeft(t) == [ copies EXCEPT ![Top(t).copy].left = Left(t) ]

OutOfRetries(t) ==
  /\ Matched(t, "retry") /\ Left(t) = 0
  /\ copies' = WithLeft(t)
  /\ Stay(t, [ Top(t) EXCEPT !.act = @ + 1 ])
  /\ UNCHANGED <<plan, count, requests, late, checks, lists, ret, threw, at, pending, phase, results>>

\* Faulty: a retry is not taken off the retries left.
AgainForever(t, made) ==
  LET f == Top(t)
  IN [ RunStep(f.w, f.pos, f.list, f.left, f.retrying) EXCEPT
         !.arr = made[f.copy].arr, !.of = f.copy, !.tries = f.tries ]

\* The step is run again from its copy, in place of this call.
Again(t, made) ==
  LET f == Top(t)
  IN [ RunStep(f.w, f.pos, f.list, f.left, f.retrying) EXCEPT
         !.arr = made[f.copy].arr, !.of = f.copy, !.tries = [ f.tries EXCEPT ![f.act] = Left(t) - 1 ] ]

\* Faulty: the retries left are not looked at.
RetryStepBlind(t) ==
  /\ Matched(t, "retry") /\ ~HasTarget(Action(t))
  /\ copies' = WithLeft(t)
  /\ Stay(t, Again(t, copies))
  /\ UNCHANGED <<plan, count, requests, late, checks, lists, ret, threw, at, pending, phase, results>>

RetryStep(t) ==
  /\ Matched(t, "retry") /\ Left(t) > 0 /\ ~HasTarget(Action(t))
  /\ copies' = WithLeft(t)
  /\ Stay(t, Again(t, copies))
  /\ UNCHANGED <<plan, count, requests, late, checks, lists, ret, threw, at, pending, phase, results>>

\* Only an action on a workflow takes parameters.
InputsFail(a) == a.workflow # None /\ ~a.inputs

RetryFails(t) ==
  /\ Matched(t, "retry") /\ Left(t) > 0
  /\ InputsFail(Action(t)) \/ (Action(t).step # 0 /\ ~StepKnown(t, Action(t)))
  /\ FailStep(t, WithLeft(t))

\* First the target, with an array of its own ...
RetryTarget(t) ==
  LET f  == Top(t)
      a  == Action(t)
      by == f.retrying \cup {Id(f)}
  IN /\ Matched(t, "retry") /\ Left(t) > 0 /\ HasTarget(a) /\ ~InputsFail(a)
     /\ a.step # 0 => StepKnown(t, a)
     /\ copies' = WithLeft(t)
     /\ lists' = Append(lists, 0)
     /\ Call(t, [ f EXCEPT !.stage = "retried" ],
             IF a.workflow # None
             THEN RunWorkflow(a.workflow, 1, NewList, Left(t) - 1, by)
             ELSE RunStep(f.w, a.step, NewList, 0, by))
     /\ UNCHANGED <<plan, count, requests, late, checks, ret, threw, at, pending, phase, results>>

\* ... then the step: what a target workflow ran is registered, what a target
\* step ran is not.
Retried(t) ==
  /\ InStage(t, "retried")
  /\ lists' = IF Action(t).workflow # None THEN [ lists EXCEPT ![ret[t].list] = Top(t).list ] ELSE lists
  /\ Stay(t, Again(t, copies))
  /\ UNCHANGED <<plan, count, requests, late, copies, checks, ret, threw, at, pending, phase, results>>

EndAction(t) ==
  /\ Matched(t, "end")
  /\ Return(t, TRUE)
  /\ UNCHANGED <<plan, count, requests, late, copies, checks, lists, threw, at, pending, phase, results>>

GotoFails(t) ==
  /\ Matched(t, "goto") /\ (~HasTarget(Action(t)) \/ InputsFail(Action(t)))
  /\ FailStep(t, copies)

\* The position a run from a step id starts at: findIndex gives -1 for an
\* unknown id, and slice(-1) the last step.
From(t, a) ==
  IF a.workflow # None THEN 1
  ELSE IF StepKnown(t, a) THEN a.step ELSE Len(Steps(Top(t).w))

Goto(t) ==
  LET f == Top(t)
      a == Action(t)
  IN /\ Matched(t, "goto") /\ HasTarget(a) /\ ~InputsFail(a)
     /\ lists' = Append(lists, 0)
     /\ Call(t, [ f EXCEPT !.stage = "gone" ],
             RunWorkflow(IF a.workflow # None THEN a.workflow ELSE f.w, From(t, a), NewList, 0, {}))
     /\ UNCHANGED <<plan, count, requests, late, copies, checks, ret, threw, at, pending, phase, results>>

Gone(t) ==
  /\ InStage(t, "gone")
  /\ lists' = [ lists EXCEPT ![ret[t].list] = Top(t).list ]
  /\ Return(t, TRUE)
  /\ UNCHANGED <<plan, count, requests, late, copies, checks, threw, at, pending, phase, results>>

------------------------------------------------------------------------------
(* runWorkflows and handleDependsOn *)

Current == plan.order[at]
Needs == plan.dependsOn[Current]
Result(w, list, broken, timeout) == [workflow |-> w, list |-> list, broken |-> broken, timeout |-> timeout]
Run(t, w) ==
  /\ lists' = Append(lists, 0)
  /\ stack' = [ stack EXCEPT ![t] = <<RunWorkflow(w, 1, NewList, 0, {})>> ]

RunNext ==
  /\ phase = "next" /\ at <= Len(plan.order) /\ Needs = {}
  /\ Run(Main, Current)
  /\ phase' = "running"
  /\ UNCHANGED <<plan, count, requests, late, copies, checks, ret, threw, at, pending, results>>

\* A dependency that does not resolve fails the workflow before any is run.
DependencyMissing ==
  /\ phase = "next" /\ at <= Len(plan.order) /\ Missing \in Needs
  /\ results' = Append(results, Result(Current, 0, TRUE, FALSE))
  /\ at' = at + 1
  /\ UNCHANGED <<plan, count, requests, late, copies, checks, lists, stack, ret, threw, pending, phase>>

StartDependencies ==
  /\ phase = "next" /\ at <= Len(plan.order) /\ Needs # {} /\ Missing \notin Needs
  /\ pending' = Needs
  /\ phase' = "depending"
  /\ UNCHANGED <<plan, count, requests, late, copies, checks, lists, stack, ret, threw, at, results>>

StartDependency(d) ==
  /\ d \in pending
  /\ pending' = pending \ {d}
  /\ Run(d, d)
  /\ UNCHANGED <<plan, count, requests, late, copies, checks, ret, threw, at, phase, results>>

\* Faulty: what the dependencies returned is not looked at, ...
DependenciesDoneBlind ==
  /\ phase = "depending" /\ pending = {}
  /\ \A d \in Needs : stack[d] = <<>> /\ ~threw[d]
  /\ Run(Main, Current) /\ phase' = "running"
  /\ UNCHANGED <<plan, count, requests, late, copies, checks, ret, threw, at, pending, results>>
\* ... or the workflow waits for them to pass.
DependenciesDoneWaiting ==
  /\ phase = "depending" /\ pending = {}
  /\ \A d \in Needs : stack[d] = <<>> /\ ~threw[d]
  /\ IF \E d \in Needs : Failed(ret[d].list)
     THEN UNCHANGED <<lists, stack, phase>>
     ELSE Run(Main, Current) /\ phase' = "running"
  /\ UNCHANGED <<plan, count, requests, late, copies, checks, ret, threw, at, pending, results>>

DependenciesDone ==
  /\ phase = "depending" /\ pending = {}
  /\ \A d \in Needs : stack[d] = <<>> /\ ~threw[d]
  /\ IF \E d \in Needs : Failed(ret[d].list)
     THEN /\ results' = Append(results, Result(Current, 0, TRUE, FALSE))
          /\ at' = at + 1 /\ phase' = "next"
          /\ UNCHANGED <<lists, stack>>
     ELSE /\ Run(Main, Current)
          /\ phase' = "running"
          /\ UNCHANGED <<at, results>>
  /\ UNCHANGED <<plan, count, requests, late, copies, checks, ret, threw, pending>>

\* Promise.all rejects as soon as one dependency throws, and with it the run.
DependencyThrew ==
  /\ phase = "depending" /\ \E d \in Needs : threw[d]
  /\ phase' = "aborted"
  /\ UNCHANGED <<plan, count, requests, late, copies, checks, lists, stack, ret, threw, at, pending, results>>

WorkflowDone ==
  /\ phase = "running" /\ stack[Main] = <<>>
  /\ IF threw[Main]
     THEN phase' = "aborted" /\ UNCHANGED <<at, results>>
     ELSE /\ results' = Append(results, Result(Current, ret[Main].list, FALSE, ret[Main].timeout))
          /\ at' = at + 1 /\ phase' = "next"
  /\ UNCHANGED <<plan, count, requests, late, copies, checks, lists, stack, ret, threw, pending>>

AllDone ==
  /\ phase = "next" /\ at > Len(plan.order)
  /\ phase' = "done"
  /\ UNCHANGED <<plan, count, requests, late, copies, checks, lists, stack, ret, threw, at, pending, results>>

TimeUp ==
  /\ TimeLimited /\ ~late /\ phase \notin {"done", "aborted"}
  /\ late' = TRUE
  /\ UNCHANGED <<plan, count, requests, copies, checks, lists, stack, ret, threw, at, pending, phase, results>>

Workflow(t) == NextStep(t) \/ FinishWorkflow(t) \/ OutputsThrow(t)
Step(t) ==
  \/ StartBroken(t) \/ StartChild(t) \/ StartMissing(t) \/ ChildDone(t)
  \/ StartOverLimit(t) \/ StartTimedOut(t) \/ StartThrows(t) \/ StartRequest(t) \/ RequestDone(t)
Act(t) ==
  \/ NoMoreActions(t) \/ Unmatched(t) \/ BrokenAction(t)
  \/ OutOfRetries(t) \/ RetryStep(t) \/ RetryFails(t) \/ RetryTarget(t) \/ Retried(t)
  \/ EndAction(t) \/ GotoFails(t) \/ Goto(t) \/ Gone(t)
Flow ==
  \/ RunNext \/ DependencyMissing \/ StartDependencies \/ DependenciesDone \/ DependencyThrew
  \/ WorkflowDone \/ AllDone

Runs == \E t \in Threads : Workflow(t) \/ Step(t) \/ Act(t)
Starts == \E d \in Workflows : StartDependency(d)

Over ==
  /\ phase \in {"done", "aborted"} /\ pending = {} /\ \A t \in Threads : stack[t] = <<>>
  /\ UNCHANGED vars

Next == Runs \/ Starts \/ Flow \/ TimeUp \/ Over

Spec == Init /\ [][Next]_vars
Fairness == WF_vars(Runs) /\ WF_vars(Starts) /\ WF_vars(Flow)
FairSpec == Spec /\ Fairness
------------------------------------------------------------------------------
(* Properties *)

TypeOK ==
  /\ plan \in Plans
  /\ count \in Nat /\ requests \in Nat /\ late \in BOOLEAN
  /\ copies \in Seq(Copies)
  /\ checks \in [StepIds -> SUBSET Kinds]
  /\ lists \in Seq(Nat)
  /\ stack \in [Threads -> Seq(Frames)]
  /\ ret \in [Threads -> Returned]
  /\ threw \in [Threads -> BOOLEAN]
  /\ at \in Nat \ {0}
  /\ pending \subseteq Workflows
  /\ phase \in {"next", "depending", "running", "done", "aborted"}
  /\ results \in Seq(Results)

\* However steps are retried, jumped to, nested and run concurrently by
\* dependencies, no more than max-steps of them get to send a request.
CallsBounded == requests <= MaxSteps

Superseded(c) == \E d \in DOMAIN copies : copies[d].of = c
\* The attempts registered, directly or nested, in the result of a workflow.
Reported(i) == { c \in DOMAIN copies : copies[c].list # 0 /\ Home[copies[c].list] = results[i].list }

\* The last attempt of a step decides: a workflow whose reported steps all
\* passed in the end passes whatever attempts were retried, and one with a step
\* that failed in its last attempt fails.  Left out are the runs of a retry's
\* target workflow that are not its last, and steps whose retry action is broken.
LastAttemptsDecide ==
  phase = "done" =>
    \A i \in DOMAIN results :
      /\ Failed(results[i].list) => \E c \in Reported(i) : ~Superseded(c) /\ ChecksOf(c) # {}
      /\ (\E c \in Reported(i) :
             /\ ~Superseded(c) /\ copies[c].given = 0
             /\ ChecksOf(c) # {} /\ "action" \notin ChecksOf(c)) => Failed(results[i].list)

\* How many attempts a copy is the last of, and how many its step allows.
Attempts(c) ==
  LET attempts[d \in 0 .. c] == IF d = 0 THEN 0 ELSE 1 + attempts[copies[d].of]
  IN attempts[c]
Limits(actions) ==
  LET sum[k \in 0 .. Len(actions)] == IF k = 0 THEN 0 ELSE actions[k].limit + sum[k - 1]
  IN sum[Len(actions)]

\* A step that keeps failing is tried once more than its retry actions allow
\* together, whatever their targets do and whichever action matches each time.
RetriesBounded ==
  \A c \in DOMAIN copies :
    Attempts(c) <= 1 + Limits(Steps(copies[c].step[1])[copies[c].step[2]].failure)

\* A step that fails again inside the target of its own retry action does not
\* run that target again, unless a child workflow or a goto lies in between.
NoNestedRetry ==
  \A t \in Threads :
    \A i, j \in DOMAIN stack[t] :
      (i < j /\ stack[t][i].stage = "retried" /\ stack[t][j].stage = "retried"
         /\ Id(stack[t][i]) = Id(stack[t][j]))
        => \E k \in i .. j : stack[t][k].stage \in {"child", "gone"}

\* However retries are nested in retries, a step is tried a bounded number of
\* times (respect-core/src/modules/flow-runner/run-step.ts, runActions).
RetryingIsBounded == RetriesBounded /\ NoNestedRetry

\* While a workflow runs, all it depends on has run to its end and passed, and
\* no run of a dependency is left in the background.
DependenciesGate ==
  phase = "running" =>
    /\ \A d \in Workflows : stack[d] = <<>>
    /\ \A d \in Needs : ~threw[d] /\ ~Failed(ret[d].list)

\* A broken action reference is reported: the check it fails is counted.
ActionErrorsAreCounted ==
  phase = "done" =>
    \A c \in DOMAIN copies : "action" \in ChecksOf(c) => \E i \in DOMAIN results : Failed(results[i].list)

\* The run ends, whatever is retried, reached by goto or failing.
Terminates == <>(phase \in {"done", "aborted"})
==============================================================================
