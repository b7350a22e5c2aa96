------------------------- MODULE RespectRunner_proofs -------------------------
(***************************************************************************)
(* max-steps bounds the requests of a run and retry actions its attempts,  *)
(* for every description, every number of workflows and every interleaving *)
(* of concurrent dependencies.                                             *)
(*                                                                         *)
(* That no more than max-steps requests were let through is not inductive: *)
(* one more might be let through at any time unless the count that is      *)
(* compared with the limit is at least the number of requests.             *)
(*                                                                         *)
(* That a step is tried a bounded number of times follows from a budget    *)
(* that every call of a step keeps: the attempts that led to it and the    *)
(* retries that its actions have left are together what they allow.  That  *)
(* no retry nests in itself follows from what a call knows: all steps in   *)
(* whose retry targets it runs, up to the nearest child or goto.           *)
(*                                                                         *)
(* That a workflow runs only after dependencies that passed, and that they *)
(* stay passed while it runs, needs what belongs to whom: there is a number*)
(* of arrays and a number of copies that were there when the workflow      *)
(* began, its calls hold only later ones, and an array is added to an older*)
(* one of the same region only.  The one thing that both share is the array*)
(* of checks of a step definition, to which the workflow may add a failed  *)
(* check: it would count against a dependency that registered a step       *)
(* before anything was checked, and every such copy is of a call still     *)
(* waiting for its answer, or in an array that is part of no result.       *)
(*                                                                         *)
(* That the last attempt of a step decides follows from who has a copy: one*)
(* call at most, whose last attempt it is, and which alone retries it.  A  *)
(* copy with retries left that was not retried is one that a call still    *)
(* retries or will, whose action was broken, or whose retry was cut short  *)
(* by an error, which its workflow registers in the same array.            *)
(***************************************************************************)
EXTENDS RespectRunner, SequenceTheorems, WellFoundedInduction, TLAPS

CountInv ==
  /\ count \in Nat /\ requests \in Nat
  /\ requests <= count
  /\ requests <= MaxSteps

\* Only a step that starts counts, and only StartRequest lets a request through.
LEMMA OnlyStartsCount ==
  ASSUME Next
  PROVE  \/ UNCHANGED <<count, requests>>
         \/ count' = count + 1 /\ UNCHANGED requests
         \/ count' = count + 1 /\ count' <= MaxSteps /\ requests' = requests + 1
<1>1. CASE Runs
  <2>1. PICK t \in Threads : Workflow(t) \/ Step(t) \/ Act(t)
    BY <1>1 DEF Runs
  <2>2. CASE Workflow(t)
    BY <2>2 DEF Workflow, NextStep, FinishWorkflow, OutputsThrow
  <2>3. CASE Step(t)
    <3>1. CASE StartBroken(t) \/ StartChild(t) \/ StartMissing(t) \/ ChildDone(t) \/ RequestDone(t)
      BY <3>1 DEF StartBroken, StartChild, StartMissing, ChildDone, RequestDone
    <3>2. CASE StartOverLimit(t) \/ StartTimedOut(t) \/ StartThrows(t)
      BY <3>2 DEF StartOverLimit, StartTimedOut, StartThrows
    <3>3. CASE StartRequest(t)
      BY <3>3 DEF StartRequest
    <3> QED
      BY <2>3, <3>1, <3>2, <3>3 DEF Step
  <2>4. CASE Act(t)
    <3>1. CASE NoMoreActions(t) \/ Unmatched(t) \/ OutOfRetries(t) \/ RetryStep(t)
               \/ RetryTarget(t) \/ Retried(t)
      BY <3>1 DEF NoMoreActions, Unmatched, OutOfRetries, RetryStep, RetryTarget, Retried
    <3>2. CASE EndAction(t) \/ Goto(t) \/ Gone(t)
      BY <3>2 DEF EndAction, Goto, Gone
    <3>3. CASE BrokenAction(t) \/ RetryFails(t) \/ GotoFails(t)
      BY <3>3 DEF BrokenAction, RetryFails, GotoFails, FailStep
    <3> QED
      BY <2>4, <3>1, <3>2, <3>3 DEF Act
  <2> QED
    BY <2>1, <2>2, <2>3, <2>4
<1>2. CASE Starts
  BY <1>2 DEF Starts, StartDependency
<1>3. CASE Flow
  BY <1>3 DEF Flow, RunNext, DependencyMissing, StartDependencies, DependenciesDone,
              DependencyThrew, WorkflowDone, AllDone
<1>4. CASE TimeUp \/ Over
  BY <1>4 DEF TimeUp, Over, vars
<1> QED
  BY <1>1, <1>2, <1>3, <1>4 DEF Next

\* The requests never outnumber the steps counted, nor the limit.
THEOREM CountHolds == Spec => []CountInv
<1>1. Init => CountInv
  BY Constants DEF Init, CountInv
<1>2. CountInv /\ [Next]_vars => CountInv'
  <2> SUFFICES ASSUME CountInv, [Next]_vars PROVE CountInv'
    OBVIOUS
  <2>1. CASE Next
    BY <2>1, OnlyStartsCount, Constants DEF CountInv
  <2>2. CASE UNCHANGED vars
    BY <2>2 DEF CountInv, vars
  <2> QED
    BY <2>1, <2>2
<1> QED
  BY <1>1, <1>2, PTL DEF Spec

\* However steps are retried, jumped to, nested and run concurrently by
\* dependencies, no more than max-steps of them get to send a request.
THEOREM RequestsBounded == Spec => []CallsBounded
<1>1. CountInv => CallsBounded
  BY DEF CountInv, CallsBounded
<1> QED
  BY <1>1, CountHolds, PTL

------------------------------------------------------------------------------
(* Sums of retries and numbers of attempts, which are recursive functions. *)

\* A property of 0 that goes from a number to the next holds of all.
LEMMA SetInduction ==
  ASSUME NEW S, 0 \in S, \A n \in Nat : n \in S => n + 1 \in S
  PROVE  \A n \in Nat : n \in S
<1> DEFINE T == Nat \ S
           R == OpToRel(<, Nat)
<1> SUFFICES ASSUME T # {} PROVE FALSE
  OBVIOUS
<1>1. IsWellFoundedOn(R, Nat)
  BY NatLessThanWellFounded
<1>2. T \subseteq Nat
  OBVIOUS
<1>3. \A x, y \in Nat : y < x => <<y, x>> \in R
  BY DEF OpToRel
<1> HIDE DEF R
<1>4. PICK x \in T : \A y \in T : ~ (<<y, x>> \in R)
  <2> HIDE DEF T
  <2> QED BY <1>1, <1>2, WFMin
<1>5. x \in Nat /\ x # 0 /\ x - 1 \in Nat
  BY <1>2, <1>4
<1>6. <<x - 1, x>> \in R
  BY <1>3, <1>5
<1>7. x - 1 \notin T
  BY <1>4, <1>6
<1> QED
  BY <1>4, <1>5, <1>7

\* The sums of the first k numbers.
Sums(f, n, g) == g = [k \in 0 .. n |-> IF k = 0 THEN 0 ELSE f[k] + g[k - 1]]
Sum(s) ==
  LET sum[k \in 0 .. Len(s)] == IF k = 0 THEN 0 ELSE s[k] + sum[k - 1] IN sum[Len(s)]

LEMMA SumsExist ==
  ASSUME NEW f, NEW n \in Nat
  PROVE  \E g : Sums(f, n, g)
<1> DEFINE S == { m \in Nat : \E g : Sums(f, m, g) }
<1>1. 0 \in S
  <2> DEFINE g == [k \in 0 .. 0 |-> 0]
  <2>1. Sums(f, 0, g)
    BY DEF Sums
  <2> HIDE DEF g
  <2> QED
    BY <2>1
<1>2. ASSUME NEW m \in Nat, m \in S PROVE m + 1 \in S
  <2>1. PICK g : Sums(f, m, g)
    BY <1>2
  <2> DEFINE h == [k \in 0 .. m + 1 |-> IF k = 0 THEN 0 ELSE f[k] + g[k - 1]]
  <2>2. ASSUME NEW k \in 0 .. m PROVE h[k] = g[k]
    BY <2>1 DEF Sums
  <2>3. ASSUME NEW k \in 0 .. m + 1
        PROVE  (IF k = 0 THEN 0 ELSE f[k] + g[k - 1]) = (IF k = 0 THEN 0 ELSE f[k] + h[k - 1])
    <3>1. CASE k = 0
      BY <3>1
    <3>2. CASE k # 0
      <4>1. k - 1 \in 0 .. m
        BY <3>2
      <4> QED
        BY <2>2, <3>2, <4>1
    <3> QED
      BY <3>1, <3>2
  <2>4. Sums(f, m + 1, h)
    BY <2>3 DEF Sums
  <2> HIDE DEF h
  <2> QED
    BY <2>4
<1> HIDE DEF S
<1>3. n \in S
  BY <1>1, <1>2, SetInduction
<1> QED
  BY <1>3 DEF S

LEMMA SumsGive ==
  ASSUME NEW f, NEW n \in Nat, \A k \in 1 .. n : f[k] \in Int, NEW g, Sums(f, n, g)
  PROVE  /\ DOMAIN g = 0 .. n /\ g[0] = 0
         /\ \A k \in 1 .. n : g[k] = f[k] + g[k - 1]
         /\ \A k \in 0 .. n : g[k] \in Int
         /\ (\A k \in 1 .. n : f[k] \in Nat) => \A k \in 0 .. n : g[k] \in Nat
<1>1. DOMAIN g = 0 .. n /\ g[0] = 0 /\ \A k \in 1 .. n : g[k] = f[k] + g[k - 1]
  <2>1. g = [k \in 0 .. n |-> IF k = 0 THEN 0 ELSE f[k] + g[k - 1]]
    BY DEF Sums
  <2>2. DOMAIN g = 0 .. n
    BY <2>1
  <2>3. \A k \in 0 .. n : g[k] = IF k = 0 THEN 0 ELSE f[k] + g[k - 1]
    BY <2>1
  <2> QED
    BY <2>2, <2>3
<1> DEFINE S == { m \in Nat : m <= n => /\ g[m] \in Int
                                        /\ (\A k \in 1 .. n : f[k] \in Nat) => g[m] \in Nat }
<1>2. 0 \in S
  BY <1>1
<1>3. ASSUME NEW m \in Nat, m \in S PROVE m + 1 \in S
  <2> SUFFICES ASSUME m + 1 <= n
               PROVE  g[m + 1] \in Int /\ ((\A k \in 1 .. n : f[k] \in Nat) => g[m + 1] \in Nat)
    OBVIOUS
  <2>1. m + 1 \in 1 .. n /\ (m + 1) - 1 = m /\ m <= n
    OBVIOUS
  <2>2. g[m + 1] = f[m + 1] + g[m] /\ f[m + 1] \in Int
    BY <1>1, <2>1
  <2> QED
    BY <1>3, <2>1, <2>2
<1> HIDE DEF S
<1>4. \A m \in Nat : m \in S
  BY <1>2, <1>3, SetInduction
<1> QED
  BY <1>1, <1>4 DEF S

LEMMA SumsUnique ==
  ASSUME NEW f, NEW n \in Nat, \A k \in 1 .. n : f[k] \in Int, NEW g,
         g[0] = 0, \A k \in 1 .. n : g[k] = f[k] + g[k - 1], NEW h, Sums(f, n, h)
  PROVE  g[n] = h[n]
<1> DEFINE S == { m \in Nat : m <= n => g[m] = h[m] }
<1>1. h[0] = 0 /\ \A k \in 1 .. n : h[k] = f[k] + h[k - 1]
  BY SumsGive
<1>2. 0 \in S
  BY <1>1
<1>3. ASSUME NEW m \in Nat, m \in S PROVE m + 1 \in S
  <2> SUFFICES ASSUME m + 1 <= n PROVE g[m + 1] = h[m + 1]
    OBVIOUS
  <2>1. m + 1 \in 1 .. n /\ (m + 1) - 1 = m /\ g[m] = h[m]
    BY <1>3
  <2> QED
    BY <1>1, <2>1
<1> HIDE DEF S
<1>4. \A m \in Nat : m \in S
  BY <1>2, <1>3, SetInduction
<1> QED
  BY <1>4 DEF S

LEMMA SumsSame ==
  ASSUME NEW f, NEW n \in Nat, \A k \in 1 .. n : f[k] \in Int, NEW g, Sums(f, n, g), NEW h, Sums(f, n, h)
  PROVE  g[n] = h[n]
<1>1. g[0] = 0 /\ \A k \in 1 .. n : g[k] = f[k] + g[k - 1]
  BY SumsGive
<1> QED
  BY <1>1, SumsUnique

\* The sum of a sequence of numbers, by the sums of its prefixes.
LEMMA SumIs ==
  ASSUME NEW s \in Seq(Nat)
  PROVE  /\ Sum(s) \in Nat
         /\ \E g : Sums(s, Len(s), g) /\ Sum(s) = g[Len(s)]
<1> DEFINE h == CHOOSE g : Sums(s, Len(s), g)
<1>1. Len(s) \in Nat /\ \A k \in 1 .. Len(s) : s[k] \in Nat
  OBVIOUS
<1>2. Sums(s, Len(s), h)
  BY <1>1, SumsExist
<1>3. Sum(s) = h[Len(s)]
  BY DEF Sum, Sums
<1> HIDE DEF h
<1>4. h[Len(s)] \in Nat
  <2>1. (\A k \in 1 .. Len(s) : s[k] \in Int) /\ Len(s) \in 0 .. Len(s)
    BY <1>1
  <2>2. (\A k \in 1 .. Len(s) : s[k] \in Nat) => \A k \in 0 .. Len(s) : h[k] \in Nat
    BY <1>1, <1>2, <2>1, SumsGive
  <2> QED
    BY <1>1, <2>1, <2>2
<1> QED
  BY <1>2, <1>3, <1>4

\* One less in one place is one less in the sum.
LEMMA SumLess ==
  ASSUME NEW s \in Seq(Nat), NEW i \in 1 .. Len(s), s[i] > 0
  PROVE  /\ [s EXCEPT ![i] = s[i] - 1] \in Seq(Nat)
         /\ Sum([s EXCEPT ![i] = s[i] - 1]) = Sum(s) - 1
<1> DEFINE n == Len(s)
           u == [s EXCEPT ![i] = s[i] - 1]
<1>1. n \in Nat /\ \A k \in 1 .. n : s[k] \in Nat
  OBVIOUS
<1>2. u \in Seq(Nat) /\ Len(u) = n /\ \A k \in 1 .. n : u[k] = IF k = i THEN s[k] - 1 ELSE s[k]
  OBVIOUS
<1>3. PICK g : Sums(s, n, g) /\ Sum(s) = g[n]
  BY SumIs
<1>4. PICK h : Sums(u, n, h) /\ Sum(u) = h[n]
  BY <1>2, SumIs
<1> HIDE DEF u, n
<1>5. /\ g[0] = 0 /\ \A k \in 1 .. n : g[k] = s[k] + g[k - 1]
      /\ \A k \in 0 .. n : g[k] \in Int
  BY <1>1, <1>3, SumsGive
<1> DEFINE d == [k \in 0 .. n |-> IF k < i THEN g[k] ELSE g[k] - 1]
<1>6. i \in 1 .. n
  BY DEF n
<1>7. d[0] = 0 /\ d[n] = g[n] - 1
  BY <1>1, <1>5, <1>6
<1>8. ASSUME NEW k \in 1 .. n PROVE d[k] = u[k] + d[k - 1]
  <2>1. k - 1 \in 0 .. n /\ g[k] = s[k] + g[k - 1] /\ g[k - 1] \in Int /\ s[k] \in Int
    BY <1>1, <1>5
  <2>2. u[k] = IF k = i THEN s[k] - 1 ELSE s[k]
    BY <1>2
  <2>3. /\ d[k] = IF k < i THEN g[k] ELSE g[k] - 1
        /\ d[k - 1] = IF k - 1 < i THEN g[k - 1] ELSE g[k - 1] - 1
    BY <1>1, <2>1
  <2>4. k \in Int /\ i \in Int
    BY <1>1, <1>6
  <2> HIDE DEF d
  <2>5. CASE k < i
    BY <2>1, <2>2, <2>3, <2>4, <2>5
  <2>6. CASE k = i
    BY <2>1, <2>2, <2>3, <2>4, <2>6
  <2>7. CASE k > i
    BY <2>1, <2>2, <2>3, <2>4, <2>7
  <2> QED
    BY <2>4, <2>5, <2>6, <2>7
<1> HIDE DEF d
<1>9. \A k \in 1 .. n : u[k] \in Int
  BY <1>1, <1>2
<1>10. d[n] = h[n]
  BY <1>1, <1>4, <1>7, <1>8, <1>9, SumsUnique
<1> QED
  BY <1>2, <1>3, <1>4, <1>7, <1>10 DEF u

\* The retries that the failure actions of a step allow together.
LEMMA LimitsAreSum ==
  ASSUME NEW actions \in Seq(Actions), NEW s \in Seq(Nat), Len(s) = Len(actions),
         \A k \in 1 .. Len(actions) : s[k] = actions[k].limit
  PROVE  Limits(actions) = Sum(s)
<1> DEFINE n == Len(actions)
           B(g) == [k \in 0 .. n |-> IF k = 0 THEN 0 ELSE actions[k].limit + g[k - 1]]
           h == CHOOSE g : g = B(g)
<1>1. n \in Nat /\ \A k \in 1 .. n : s[k] \in Int
  OBVIOUS
<1>2. PICK g : Sums(s, n, g) /\ Sum(s) = g[n]
  BY SumIs
<1>3. \A f : B(f) = [k \in 0 .. n |-> IF k = 0 THEN 0 ELSE s[k] + f[k - 1]]
  OBVIOUS
<1>4. g = B(g)
  BY <1>2, <1>3 DEF Sums
<1>5. h = B(h)
  <2> HIDE DEF B
  <2> QED
    BY <1>4
<1>6. Limits(actions) = h[n]
  BY DEF Limits
<1> HIDE DEF h
<1>7. Sums(s, n, h)
  BY <1>3, <1>5 DEF Sums
<1> HIDE DEF B, n
<1>8. g[n] = h[n]
  BY <1>1, <1>2, <1>7, SumsSame
<1> QED
  BY <1>2, <1>6, <1>8 DEF n

\* The attempts that a copy of `made` is the last of.
AttemptsIn(made, c) ==
  LET attempts[d \in 0 .. c] == IF d = 0 THEN 0 ELSE 1 + attempts[made[d].of] IN attempts[c]
\* Every copy is a retry of an older one, or of none.
Ordered(made, n) == \A c \in 1 .. n : made[c].of \in 0 .. c - 1
\* Two histories say the same of what the first n copies are retries of.
Alike(a, b, n) == \A c \in 1 .. n : a[c].of = b[c].of
Depths(made, n, g) == g = [d \in 0 .. n |-> IF d = 0 THEN 0 ELSE 1 + g[made[d].of]]

LEMMA DepthsExist ==
  ASSUME NEW made, NEW n \in Nat, Ordered(made, n)
  PROVE  \E g : Depths(made, n, g)
<1> DEFINE S == { m \in Nat : m <= n => \E g : Depths(made, m, g) }
<1>1. 0 \in S
  <2> DEFINE g == [k \in 0 .. 0 |-> 0]
  <2>1. Depths(made, 0, g)
    BY DEF Depths
  <2> HIDE DEF g
  <2> QED
    BY <2>1
<1>2. ASSUME NEW m \in Nat, m \in S PROVE m + 1 \in S
  <2> SUFFICES ASSUME m + 1 <= n PROVE \E g : Depths(made, m + 1, g)
    OBVIOUS
  <2>1. PICK g : Depths(made, m, g)
    BY <1>2
  <2> DEFINE h == [d \in 0 .. m + 1 |-> IF d = 0 THEN 0 ELSE 1 + g[made[d].of]]
  <2>2. ASSUME NEW d \in 0 .. m PROVE h[d] = g[d]
    BY <2>1 DEF Depths
  <2>3. ASSUME NEW d \in 0 .. m + 1
        PROVE  (IF d = 0 THEN 0 ELSE 1 + g[made[d].of]) = (IF d = 0 THEN 0 ELSE 1 + h[made[d].of])
    <3>1. CASE d = 0
      BY <3>1
    <3>2. CASE d # 0
      <4>1. made[d].of \in 0 .. m
        BY <3>2 DEF Ordered
      <4> QED
        BY <2>2, <3>2, <4>1
    <3> QED
      BY <3>1, <3>2
  <2>4. Depths(made, m + 1, h)
    BY <2>3 DEF Depths
  <2> HIDE DEF h
  <2> QED
    BY <2>4
<1> HIDE DEF S
<1>3. n \in S
  BY <1>1, <1>2, SetInduction
<1> QED
  BY <1>3 DEF S

\* Two histories that agree on what each copy is a retry of count alike.
LEMMA DepthsAgree ==
  ASSUME NEW a, NEW b, NEW m \in Nat, NEW n \in Nat, NEW i \in Nat, i \in 0 .. m, i \in 0 .. n,
         Ordered(a, i),
         Alike(a, b, i),
         NEW g, Depths(a, m, g), NEW h, Depths(b, n, h)
  PROVE  g[i] = h[i] /\ g[i] \in Nat
<1> DEFINE S == { k \in Nat : \A d \in 0 .. k : d <= i => g[d] = h[d] /\ g[d] \in Nat }
<1>1. /\ g[0] = 0 /\ \A d \in 1 .. m : g[d] = 1 + g[a[d].of]
      /\ h[0] = 0 /\ \A d \in 1 .. n : h[d] = 1 + h[b[d].of]
  <2>1. /\ \A d \in 0 .. m : g[d] = IF d = 0 THEN 0 ELSE 1 + g[a[d].of]
        /\ \A d \in 0 .. n : h[d] = IF d = 0 THEN 0 ELSE 1 + h[b[d].of]
    BY DEF Depths
  <2> QED
    BY <2>1
<1>2. 0 \in S
  BY <1>1
<1>3. ASSUME NEW k \in Nat, k \in S PROVE k + 1 \in S
  <2> SUFFICES ASSUME k + 1 <= i PROVE g[k + 1] = h[k + 1] /\ g[k + 1] \in Nat
    BY <1>3
  <2> DEFINE d == k + 1
  <2>1. d \in 1 .. m /\ d \in 1 .. n /\ d \in 1 .. i
    OBVIOUS
  <2>2. a[d].of = b[d].of /\ a[d].of \in 0 .. k
    BY <2>1 DEF Ordered, Alike
  <2>3. g[d] = 1 + g[a[d].of] /\ h[d] = 1 + h[b[d].of]
    BY <1>1, <2>1
  <2>4. g[a[d].of] = h[a[d].of] /\ g[a[d].of] \in Nat
    BY <1>3, <2>2
  <2> QED
    BY <2>2, <2>3, <2>4
<1> HIDE DEF S
<1>4. i \in S
  BY <1>2, <1>3, SetInduction
<1> QED
  BY <1>4 DEF S

LEMMA AttemptsAre ==
  ASSUME NEW made, NEW c \in Nat, Ordered(made, c)
  PROVE  \E g : Depths(made, c, g) /\ AttemptsIn(made, c) = g[c]
<1> DEFINE h == CHOOSE g : Depths(made, c, g)
<1>1. Depths(made, c, h)
  BY DepthsExist
<1>2. AttemptsIn(made, c) = h[c]
  BY DEF AttemptsIn, Depths
<1> QED
  BY <1>1, <1>2

\* A first attempt is one, and a retry is one more than what it is a retry of.
LEMMA AttemptsStep ==
  ASSUME NEW made, NEW c \in Nat \ {0}, Ordered(made, c)
  PROVE  /\ AttemptsIn(made, c) = 1 + AttemptsIn(made, made[c].of)
         /\ AttemptsIn(made, c) \in Nat /\ AttemptsIn(made, made[c].of) \in Nat
<1>1. PICK g : Depths(made, c, g) /\ AttemptsIn(made, c) = g[c]
  BY AttemptsAre
<1> DEFINE d == made[c].of
<1>2. d \in 0 .. c - 1 /\ Ordered(made, d)
  BY DEF Ordered
<1> HIDE DEF d
<1>3. PICK h : Depths(made, d, h) /\ AttemptsIn(made, d) = h[d]
  BY <1>2, AttemptsAre
<1>4. g[d] = h[d] /\ g[d] \in Nat
  <2>1. c \in Nat /\ d \in Nat /\ d \in 0 .. c /\ d \in 0 .. d /\ Alike(made, made, d)
    BY <1>2 DEF Alike
  <2> QED
    BY <1>1, <1>2, <1>3, <2>1, DepthsAgree
<1>5. g[c] = 1 + g[d]
  BY <1>1 DEF Depths, d
<1> QED
  BY <1>1, <1>3, <1>4, <1>5 DEF d

LEMMA AttemptsOfNone == \A made : AttemptsIn(made, 0) = 0
<1> SUFFICES ASSUME NEW made PROVE AttemptsIn(made, 0) = 0
  OBVIOUS
<1>1. Ordered(made, 0)
  BY DEF Ordered
<1>2. PICK g : Depths(made, 0, g) /\ AttemptsIn(made, 0) = g[0]
  BY <1>1, AttemptsAre
<1> QED
  BY <1>2 DEF Depths

\* Copies that are added, or filled in, change no number of attempts.
LEMMA AttemptsKept ==
  ASSUME NEW a, NEW b, NEW c \in Nat, Ordered(a, c), Alike(a, b, c)
  PROVE  AttemptsIn(a, c) = AttemptsIn(b, c)
<1>1. Ordered(b, c)
  BY DEF Ordered, Alike
<1>2. PICK g : Depths(a, c, g) /\ AttemptsIn(a, c) = g[c]
  BY AttemptsAre
<1>3. PICK h : Depths(b, c, h) /\ AttemptsIn(b, c) = h[c]
  BY <1>1, AttemptsAre
<1>4. g[c] = h[c]
  <2>1. c \in 0 .. c
    OBVIOUS
  <2> QED
    BY <1>2, <1>3, <2>1, DepthsAgree
<1> QED
  BY <1>2, <1>3, <1>4

------------------------------------------------------------------------------
(* The copies of steps and the calls in progress.                          *)

\* A copy is of a step there is, and no more attempts than the step allows led to it.
StepOf(id) == Steps(id[1])[id[2]]
CopiesOK(made) ==
  /\ made \in Seq(Copies) /\ Ordered(made, Len(made))
  /\ \A c \in 1 .. Len(made) :
       /\ made[c].step[2] \in DOMAIN Steps(made[c].step[1])
       /\ AttemptsIn(made, c) <= 1 + Limits(StepOf(made[c].step).failure)

\* Copies are added and filled in, but stay copies of the same steps and attempts.
Kept(a, b) ==
  /\ Len(a) <= Len(b)
  /\ \A c \in 1 .. Len(a) : b[c].of = a[c].of /\ b[c].step = a[c].step

\* A call that runs the target of its retry action has retries left, and is not
\* inside the target of an action of its own.
MayRetry(f) ==
  /\ f.kind = "failure" /\ f.act \in DOMAIN Def(f).failure
  /\ f.tries[f.act] > 0
  /\ HasTarget(Def(f).failure[f.act])
  /\ Id(f) \notin f.retrying

\* What was tried and what is left to try is what the step allows.
Budget(made, f) == AttemptsIn(made, f.of) + Sum(f.tries) = Limits(Def(f).failure)

GoodStep(made, f) ==
  /\ f.pos \in DOMAIN Steps(f.w) /\ f.act >= 1
  /\ Len(f.tries) = Len(Def(f).failure)
  /\ f.of <= Len(made) /\ Budget(made, f)
  /\ f.stage # "start" => f.copy \in 1 .. Len(made) /\ made[f.copy].of = f.of
  /\ f.stage = "retried" => MayRetry(f)
GoodFrame(made, f) ==
  /\ f \in Frames /\ f.pos >= 1
  /\ f.fn = "workflow" <=> f.stage = "steps"
  /\ f.fn = "step" => GoodStep(made, f)

\* A workflow that waits for a call is at one of its steps.
Open(f) == f.fn = "workflow" => f.pos <= Len(Steps(f.w))
\* A call knows the steps whose retry targets it is inside of.
Within(s, f) ==
  \A i \in 1 .. Len(s) :
    s[i].stage = "retried" /\ (\A k \in i + 1 .. Len(s) : s[k].stage \notin {"child", "gone"})
      => Id(s[i]) \in f.retrying

Upto(s, n) == SubSeq(s, 1, n)
GoodStack(made, s) ==
  /\ s \in Seq(Frames)
  /\ s # <<>> => s[1].fn = "workflow"
  /\ \A i \in 1 .. Len(s) : GoodFrame(made, s[i]) /\ Within(Upto(s, i - 1), s[i])
  /\ \A i \in 1 .. Len(s) - 1 : Open(s[i])
Ready(made, s) == GoodStack(made, s) /\ \A i \in 1 .. Len(s) : Open(s[i])

PhaseOK == phase \in {"depending", "running"} => at <= Len(plan.order)
RunInv == TypeOK /\ PhaseOK /\ CopiesOK(copies) /\ \A t \in Threads : GoodStack(copies, stack[t])

------------------------------------------------------------------------------
(* Facts about descriptions, sequences and calls. *)

LEMMA PlanTypes ==
  ASSUME plan \in Plans
  PROVE  /\ plan.order \in Seq(Workflows)
         /\ \A w \in Workflows :
              /\ plan.dependsOn[w] \subseteq Workflows \cup {Missing}
              /\ Steps(w) \in Seq(StepDefs) /\ Len(Steps(w)) \in 1 .. Longest
              /\ \A k \in DOMAIN Steps(w) :
                   /\ k \in 1 .. Len(Steps(w)) /\ <<w, k>> \in StepIds
                   /\ Steps(w)[k] \in StepDefs
                   /\ Steps(w)[k].failure \in Seq(Actions)
                   /\ Steps(w)[k].success \in Seq({ a \in Actions : a.type # "retry" })
<1>1. plan \in [ order : Seq(Workflows), dependsOn : [Workflows -> SUBSET (Workflows \cup {Missing})],
                 outputs : [Workflows -> BOOLEAN],
                 steps : [Workflows -> { s \in Seq(StepDefs) : Len(s) \in 1 .. Longest }] ]
  BY Descriptions
<1>2. ASSUME NEW w \in Workflows
      PROVE  Steps(w) \in Seq(StepDefs) /\ Len(Steps(w)) \in 1 .. Longest
  BY <1>1 DEF Steps
<1>3. ASSUME NEW w \in Workflows, NEW k \in DOMAIN Steps(w)
      PROVE  /\ k \in 1 .. Len(Steps(w)) /\ <<w, k>> \in StepIds
             /\ Steps(w)[k] \in StepDefs
  <2>1. DOMAIN Steps(w) = 1 .. Len(Steps(w)) /\ Len(Steps(w)) \in 1 .. Longest
    BY <1>2
  <2> QED
    BY <1>2, <1>3, <2>1, Constants DEF StepIds
<1>4. ASSUME NEW d \in StepDefs
      PROVE  d.failure \in Seq(Actions) /\ d.success \in Seq({ a \in Actions : a.type # "retry" })
  BY DEF StepDefs
<1>5. plan.order \in Seq(Workflows)
      /\ \A w \in Workflows : plan.dependsOn[w] \subseteq Workflows \cup {Missing}
  BY <1>1
<1> QED
  BY <1>2, <1>3, <1>4, <1>5

LEMMA UptoIs ==
  ASSUME NEW S, NEW s \in Seq(S), NEW n \in 0 .. Len(s)
  PROVE  /\ Upto(s, n) \in Seq(S) /\ Len(Upto(s, n)) = n
         /\ \A i \in 1 .. n : Upto(s, n)[i] = s[i]
         /\ \A i \in 0 .. n : Upto(Upto(s, n), i) = Upto(s, i)
<1>1. Len(s) \in Nat /\ n \in Nat
  OBVIOUS
<1>2. \A m \in 0 .. Len(s) : /\ Upto(s, m) \in Seq(S) /\ Len(Upto(s, m)) = m
                              /\ \A i \in 1 .. m : Upto(s, m)[i] = s[i]
  <2> SUFFICES ASSUME NEW m \in 0 .. Len(s)
               PROVE  /\ Upto(s, m) \in Seq(S) /\ Len(Upto(s, m)) = m
                      /\ \A i \in 1 .. m : Upto(s, m)[i] = s[i]
    OBVIOUS
  <2> QED
    BY <1>1 DEF Upto
<1> DEFINE u == Upto(s, n)
<1>3. u \in Seq(S) /\ Len(u) = n /\ \A i \in 1 .. n : u[i] = s[i]
  BY <1>2
<1>4. ASSUME NEW i \in 0 .. n PROVE Upto(u, i) = Upto(s, i)
  <2> HIDE DEF u
  <2>1. Upto(u, i) \in Seq(S) /\ Len(Upto(u, i)) = i /\ \A k \in 1 .. i : Upto(u, i)[k] = u[k]
    BY <1>1, <1>3 DEF Upto
  <2>2. i \in 0 .. Len(s)
    BY <1>1
  <2>3. Upto(s, i) \in Seq(S) /\ Len(Upto(s, i)) = i /\ \A k \in 1 .. i : Upto(s, i)[k] = s[k]
    BY <1>2, <2>2
  <2>4. \A k \in 1 .. i : Upto(u, i)[k] = Upto(s, i)[k]
    BY <1>1, <1>3, <2>1, <2>3
  <2> QED
    BY <2>1, <2>3, <2>4, SeqEqual
<1> QED
  BY <1>3, <1>4

\* The calls below some of the calls in progress.
LEMMA PrefixGood ==
  ASSUME NEW made, NEW s, GoodStack(made, s), NEW n \in 0 .. Len(s) - 1
  PROVE  Ready(made, Upto(s, n)) /\ Upto(s, n) \in Seq(Frames) /\ Len(Upto(s, n)) = n
<1>1. s \in Seq(Frames) /\ Len(s) \in Nat /\ n \in 0 .. Len(s)
  BY DEF GoodStack
<1> DEFINE u == Upto(s, n)
<1>2. /\ u \in Seq(Frames) /\ Len(u) = n /\ \A i \in 1 .. n : u[i] = s[i]
      /\ \A i \in 0 .. n : Upto(u, i) = Upto(s, i)
  BY <1>1, UptoIs
<1> HIDE DEF u
<1>3. ASSUME NEW i \in 1 .. n
      PROVE  GoodFrame(made, u[i]) /\ Within(Upto(u, i - 1), u[i]) /\ Open(u[i])
  <2>1. i \in 1 .. Len(s) /\ i \in 1 .. Len(s) - 1 /\ i - 1 \in 0 .. n
    BY <1>1
  <2>2. u[i] = s[i] /\ Upto(u, i - 1) = Upto(s, i - 1)
    BY <1>2, <2>1
  <2> QED
    BY <2>1, <2>2 DEF GoodStack
<1>4. u # <<>> => u[1].fn = "workflow"
  <2> SUFFICES ASSUME u # <<>> PROVE u[1].fn = "workflow"
    OBVIOUS
  <2>1. n >= 1
    BY <1>1, <1>2
  <2>2. u[1] = s[1] /\ s # <<>>
    BY <1>1, <1>2, <2>1
  <2> QED
    BY <2>2 DEF GoodStack
<1>5. GoodStack(made, u)
  BY <1>2, <1>3, <1>4 DEF GoodStack
<1> QED
  BY <1>2, <1>3, <1>5 DEF Ready, u

\* One more call.
LEMMA PushGood ==
  ASSUME NEW made, NEW s, Ready(made, s), NEW f, GoodFrame(made, f), Within(s, f),
         s = <<>> => f.fn = "workflow"
  PROVE  /\ GoodStack(made, Append(s, f))
         /\ Open(f) => Ready(made, Append(s, f))
<1>1. s \in Seq(Frames) /\ Len(s) \in Nat /\ f \in Frames
  BY DEF Ready, GoodStack, GoodFrame
<1> DEFINE u == Append(s, f)
           n == Len(s)
<1>2. /\ u \in Seq(Frames) /\ Len(u) = n + 1 /\ u # <<>>
      /\ \A i \in 1 .. n : u[i] = s[i]
      /\ u[n + 1] = f
  BY <1>1
<1>3. ASSUME NEW i \in 0 .. n PROVE Upto(u, i) = Upto(s, i)
  <2>1. i \in 0 .. Len(u) /\ i \in 0 .. Len(s)
    BY <1>2
  <2> HIDE DEF u
  <2>2. Upto(u, i) \in Seq(Frames) /\ Len(Upto(u, i)) = i /\ \A k \in 1 .. i : Upto(u, i)[k] = u[k]
    BY <1>2, <2>1, UptoIs
  <2>3. Upto(s, i) \in Seq(Frames) /\ Len(Upto(s, i)) = i /\ \A k \in 1 .. i : Upto(s, i)[k] = s[k]
    BY <1>1, <2>1, UptoIs
  <2>4. \A k \in 1 .. i : Upto(u, i)[k] = Upto(s, i)[k]
    BY <1>2, <2>2, <2>3
  <2> QED
    BY <2>2, <2>3, <2>4, SeqEqual
<1>4. Upto(s, n) = s
  <2>1. Upto(s, n) \in Seq(Frames) /\ Len(Upto(s, n)) = n /\ \A k \in 1 .. n : Upto(s, n)[k] = s[k]
    BY <1>1, UptoIs
  <2> QED
    BY <1>1, <2>1, SeqEqual
<1> HIDE DEF u, n
<1>5. n \in Nat /\ n = Len(s)
  BY <1>1 DEF n
<1>6. ASSUME NEW i \in 1 .. n + 1 PROVE GoodFrame(made, u[i]) /\ Within(Upto(u, i - 1), u[i])
  <2>1. CASE i = n + 1
    <3>1. u[i] = f /\ i - 1 = n /\ n \in 0 .. n
      BY <1>2, <1>5, <2>1
    <3>2. Upto(u, i - 1) = s
      BY <1>3, <1>4, <3>1
    <3> QED
      BY <3>1, <3>2
  <2>2. CASE i # n + 1
    <3>1. i \in 1 .. n /\ i - 1 \in 0 .. n
      BY <1>5, <2>2
    <3>2. u[i] = s[i] /\ Upto(u, i - 1) = Upto(s, i - 1)
      BY <1>2, <1>3, <3>1
    <3> QED
      BY <1>5, <3>1, <3>2 DEF Ready, GoodStack
  <2> QED
    BY <2>1, <2>2
<1>7. u[1].fn = "workflow"
  <2>1. CASE s = <<>>
    <3>1. n = 0
      BY <1>5, <2>1
    <3>2. u[1] = f
      BY <1>2, <3>1
    <3> QED
      BY <2>1, <3>2
  <2>2. CASE s # <<>>
    <3>1. n >= 1
      BY <1>1, <1>5, <2>2
    <3>2. u[1] = s[1]
      BY <1>2, <1>5, <3>1
    <3> QED
      BY <2>2, <3>2 DEF Ready, GoodStack
  <2> QED
    BY <2>1, <2>2
<1>8. \A i \in 1 .. n : Open(u[i])
  BY <1>2, <1>5 DEF Ready
<1>9. GoodStack(made, u)
  <2>1. Len(u) - 1 = n
    BY <1>2, <1>5
  <2> QED
    BY <1>2, <1>6, <1>7, <1>8, <2>1 DEF GoodStack
<1>10. Open(f) => \A i \in 1 .. n + 1 : Open(u[i])
  <2> SUFFICES ASSUME Open(f), NEW i \in 1 .. n + 1 PROVE Open(u[i])
    OBVIOUS
  <2>1. i \in 1 .. n \/ i = n + 1
    BY <1>5
  <2> QED
    BY <1>2, <1>8, <2>1
<1> QED
  BY <1>2, <1>9, <1>10 DEF Ready, u

------------------------------------------------------------------------------
(* What may happen to the copies. *)

LEMMA KeptTwice ==
  ASSUME NEW a \in Seq(Copies), NEW b \in Seq(Copies), NEW c, Kept(a, b), Kept(b, c), Len(c) \in Nat
  PROVE  Kept(a, c)
<1>1. Len(a) \in Nat /\ Len(b) \in Nat
  OBVIOUS
<1> QED
  BY <1>1 DEF Kept

LEMMA KeptSame == \A a \in Seq(Copies) : Kept(a, a)
  BY DEF Kept

\* Copies that are filled in, and stay copies of the same.
LEMMA FillIn ==
  ASSUME NEW a, CopiesOK(a), NEW b \in Seq(Copies), Len(b) = Len(a),
         \A c \in 1 .. Len(a) : b[c].of = a[c].of /\ b[c].step = a[c].step
  PROVE  CopiesOK(b) /\ Kept(a, b)
<1>1. a \in Seq(Copies) /\ Len(a) \in Nat /\ Ordered(a, Len(a))
  BY DEF CopiesOK
<1>2. Kept(a, b)
  BY <1>1 DEF Kept
<1>3. Ordered(b, Len(b))
  BY <1>1 DEF Ordered
<1>4. ASSUME NEW c \in 1 .. Len(b)
      PROVE  /\ b[c].step[2] \in DOMAIN Steps(b[c].step[1])
             /\ AttemptsIn(b, c) <= 1 + Limits(StepOf(b[c].step).failure)
  <2>1. b[c].step = a[c].step /\ c \in Nat /\ Ordered(a, c) /\ Alike(a, b, c)
    BY <1>1 DEF Ordered, Alike
  <2>2. AttemptsIn(a, c) = AttemptsIn(b, c)
    BY <2>1, AttemptsKept
  <2> QED
    BY <2>1, <2>2 DEF CopiesOK
<1> QED
  BY <1>2, <1>3, <1>4 DEF CopiesOK

\* One more copy, of a step that may be tried once more.
LEMMA AddCopy ==
  ASSUME NEW a, CopiesOK(a), NEW k \in Copies, k.of \in 0 .. Len(a),
         k.step[2] \in DOMAIN Steps(k.step[1]),
         1 + AttemptsIn(a, k.of) <= 1 + Limits(StepOf(k.step).failure)
  PROVE  /\ CopiesOK(Append(a, k)) /\ Kept(a, Append(a, k))
         /\ Len(Append(a, k)) = Len(a) + 1 /\ Append(a, k)[Len(a) + 1] = k
<1> DEFINE n == Len(a)
           b == Append(a, k)
<1>1. a \in Seq(Copies) /\ n \in Nat /\ Ordered(a, n)
  BY DEF CopiesOK
<1>2. /\ b \in Seq(Copies) /\ Len(b) = n + 1 /\ b[n + 1] = k
      /\ \A c \in 1 .. n : b[c] = a[c]
  BY <1>1
<1> HIDE DEF b, n
<1>3. n = Len(a) /\ k.of \in 0 .. n
  BY DEF n
<1>4. Kept(a, b)
  BY <1>1, <1>2, <1>3 DEF Kept
<1>5. Ordered(b, n + 1)
  <2> SUFFICES ASSUME NEW c \in 1 .. n + 1 PROVE b[c].of \in 0 .. c - 1
    BY DEF Ordered
  <2>1. CASE c = n + 1
    BY <1>1, <1>2, <1>3, <2>1
  <2>2. CASE c # n + 1
    <3>1. c \in 1 .. n
      BY <1>1, <2>2
    <3> QED
      BY <1>1, <1>2, <3>1 DEF Ordered
  <2> QED
    BY <2>1, <2>2
<1>6. \A c \in 0 .. n : AttemptsIn(a, c) = AttemptsIn(b, c)
  <2> SUFFICES ASSUME NEW c \in 0 .. n PROVE AttemptsIn(a, c) = AttemptsIn(b, c)
    OBVIOUS
  <2>1. c \in Nat /\ \A d \in 1 .. c : d \in 1 .. n
    BY <1>1
  <2>2. Ordered(a, c)
    BY <1>1, <2>1 DEF Ordered
  <2>3. Alike(a, b, c)
    BY <1>2, <2>1 DEF Alike
  <2> QED
    BY <2>1, <2>2, <2>3, AttemptsKept
<1>7. AttemptsIn(b, n + 1) = 1 + AttemptsIn(b, k.of)
  <2>1. n + 1 \in Nat \ {0}
    BY <1>1
  <2>2. AttemptsIn(b, n + 1) = 1 + AttemptsIn(b, b[n + 1].of)
    BY <1>5, <2>1, AttemptsStep
  <2> QED
    BY <1>2, <2>2
<1>8. ASSUME NEW c \in 1 .. n + 1
      PROVE  /\ b[c].step[2] \in DOMAIN Steps(b[c].step[1])
             /\ AttemptsIn(b, c) <= 1 + Limits(StepOf(b[c].step).failure)
  <2>1. CASE c = n + 1
    BY <1>2, <1>3, <1>6, <1>7, <2>1
  <2>2. CASE c # n + 1
    <3>1. c \in 1 .. n /\ c \in 0 .. n
      BY <1>1, <2>2
    <3> QED
      BY <1>2, <1>3, <1>6, <3>1 DEF CopiesOK
  <2> QED
    BY <2>1, <2>2
<1> QED
  BY <1>2, <1>3, <1>4, <1>5, <1>8 DEF CopiesOK, b

LEMMA CheckAdded ==
  ASSUME NEW made, CopiesOK(made), NEW arr, NEW id \in StepIds, NEW kind \in Kinds,
         checks \in [StepIds -> SUBSET Kinds], AddCheck(made, arr, id, kind)
  PROVE  /\ CopiesOK(copies') /\ Kept(made, copies')
         /\ checks' \in [StepIds -> SUBSET Kinds]
<1>1. made \in Seq(Copies)
  BY DEF CopiesOK
<1>2. CASE arr = 0
  <2>1. copies' = made /\ checks' = [ checks EXCEPT ![id] = @ \cup {kind} ]
    BY <1>2 DEF AddCheck
  <2> QED
    BY <1>1, <2>1, KeptSame
<1>3. CASE arr # 0
  <2>1. copies' = [ made EXCEPT ![arr].own = @ \cup {kind} ] /\ checks' = checks
    BY <1>3 DEF AddCheck
  <2>2. CASE arr \in 1 .. Len(made)
    <3>1. made[arr] \in Copies
      BY <1>1, <2>2
    <3>2. /\ [made[arr] EXCEPT !.own = @ \cup {kind}] \in Copies
          /\ [made[arr] EXCEPT !.own = @ \cup {kind}].of = made[arr].of
          /\ [made[arr] EXCEPT !.own = @ \cup {kind}].step = made[arr].step
      BY <3>1 DEF Copies
    <3>3. PICK k \in Copies : /\ k.of = made[arr].of /\ k.step = made[arr].step
                              /\ copies' = [ made EXCEPT ![arr] = k ]
      BY <2>1, <3>2
    <3>4. /\ copies' \in Seq(Copies) /\ Len(copies') = Len(made)
          /\ \A c \in 1 .. Len(made) : copies'[c] = IF c = arr THEN k ELSE made[c]
      BY <1>1, <2>2, <3>3, ExceptSeq
    <3>5. \A c \in 1 .. Len(made) : copies'[c].of = made[c].of /\ copies'[c].step = made[c].step
      BY <3>3, <3>4
    <3> QED
      BY <2>1, <3>4, <3>5, FillIn
  <2>3. CASE arr \notin 1 .. Len(made)
    <3>1. copies' = made
      BY <1>1, <2>1, <2>3
    <3> QED
      BY <1>1, <2>1, <3>1, KeptSame
  <2> QED
    BY <2>2, <2>3
<1> QED
  BY <1>2, <1>3

\* Calls in progress stay good when copies are added and filled in.
LEMMA StacksKept ==
  ASSUME NEW a, NEW b, CopiesOK(a), CopiesOK(b), Kept(a, b)
  PROVE  /\ \A f : GoodFrame(a, f) => GoodFrame(b, f)
         /\ \A s : GoodStack(a, s) => GoodStack(b, s)
         /\ \A s : Ready(a, s) => Ready(b, s)
<1>1. Len(a) \in Nat /\ Len(b) \in Nat /\ Len(a) <= Len(b)
  BY DEF CopiesOK, Kept
<1>2. ASSUME NEW f, GoodFrame(a, f) PROVE GoodFrame(b, f)
  <2>1. CASE f.fn = "step"
    <3>1. GoodStep(a, f) /\ f \in Frames
      BY <1>2, <2>1 DEF GoodFrame
    <3>2. f.of \in Nat /\ f.of <= Len(a)
      BY <3>1 DEF GoodStep, Frames
    <3>3. Ordered(a, f.of) /\ Alike(a, b, f.of)
      BY <1>1, <3>2 DEF CopiesOK, Ordered, Alike, Kept
    <3>4. AttemptsIn(a, f.of) = AttemptsIn(b, f.of)
      BY <3>2, <3>3, AttemptsKept
    <3>5. Budget(b, f)
      BY <3>1, <3>4 DEF GoodStep, Budget
    <3>6. f.stage # "start" => f.copy \in 1 .. Len(b) /\ b[f.copy].of = f.of
      BY <1>1, <3>1 DEF GoodStep, Kept
    <3>7. f.of <= Len(b)
      BY <1>1, <3>2
    <3>8. GoodStep(b, f)
      BY <3>1, <3>5, <3>6, <3>7 DEF GoodStep
    <3> QED
      BY <1>2, <3>8 DEF GoodFrame
  <2>2. CASE f.fn # "step"
    BY <1>2, <2>2 DEF GoodFrame
  <2> QED
    BY <2>1, <2>2
<1>3. ASSUME NEW s, GoodStack(a, s) PROVE GoodStack(b, s)
  BY <1>2, <1>3 DEF GoodStack
<1>4. ASSUME NEW s, Ready(a, s) PROVE Ready(b, s)
  BY <1>3, <1>4 DEF Ready
<1> QED
  BY <1>2, <1>3, <1>4

------------------------------------------------------------------------------
(* What may happen to the calls in progress in a thread. *)

Moved(t) == \E s : GoodStack(copies', s) /\ stack' = [ stack EXCEPT ![t] = s ]
Filled == CopiesOK(copies') /\ Kept(copies, copies') /\ checks' \in [StepIds -> SUBSET Kinds]

LEMMA TopGood ==
  ASSUME RunInv, NEW t \in Threads, stack[t] # <<>>
  PROVE  /\ Ready(copies, Under(t)) /\ GoodFrame(copies, Top(t)) /\ Within(Under(t), Top(t))
         /\ Under(t) = <<>> => Top(t).fn = "workflow"
         /\ Under(t) \in Seq(Frames) /\ Under(t) = Upto(stack[t], Len(stack[t]) - 1)
         /\ Len(Under(t)) = Len(stack[t]) - 1 /\ Len(stack[t]) \in Nat \ {0}
<1> DEFINE s == stack[t]
           n == Len(s) - 1
<1>1. GoodStack(copies, s) /\ s \in Seq(Frames)
  BY DEF RunInv, GoodStack
<1>2. Len(s) \in Nat \ {0} /\ n \in 0 .. Len(s) - 1 /\ Len(s) \in 1 .. Len(s)
  BY <1>1
<1>3. Under(t) = Upto(s, n) /\ Top(t) = s[Len(s)]
  BY DEF Under, FrontOf, Upto, Top
<1>4. Ready(copies, Upto(s, n)) /\ Upto(s, n) \in Seq(Frames) /\ Len(Upto(s, n)) = n
  <2> HIDE DEF n, s
  <2> QED
    BY <1>1, <1>2, PrefixGood
<1>5. GoodFrame(copies, s[Len(s)]) /\ Within(Upto(s, n), s[Len(s)])
  BY <1>1, <1>2 DEF GoodStack
<1>6. Upto(s, n) = <<>> => s[Len(s)].fn = "workflow"
  <2> SUFFICES ASSUME Upto(s, n) = <<>> PROVE s[Len(s)].fn = "workflow"
    OBVIOUS
  <2>1. n = 0
    <3> HIDE DEF n, s
    <3>1. Len(Upto(s, n)) = 0
      OBVIOUS
    <3> QED
      BY <1>4, <3>1
  <2>2. Len(s) = 1 /\ s # <<>>
    BY <1>2, <2>1
  <2> QED
    BY <1>1, <2>2 DEF GoodStack
<1> QED
  BY <1>2, <1>3, <1>4, <1>5, <1>6

\* The innermost call goes on.
LEMMA StayGood ==
  ASSUME RunInv, NEW t \in Threads, stack[t] # <<>>, Filled, NEW f, Stay(t, f),
         GoodFrame(copies', f), f.fn = Top(t).fn, f.retrying = Top(t).retrying
  PROVE  Moved(t)
<1>1. /\ Ready(copies, Under(t)) /\ Within(Under(t), Top(t))
      /\ Under(t) = <<>> => Top(t).fn = "workflow"
  BY TopGood
<1>2. Ready(copies', Under(t))
  BY <1>1, StacksKept DEF RunInv, Filled
<1>3. Within(Under(t), f)
  BY <1>1 DEF Within
<1>4. GoodStack(copies', Append(Under(t), f))
  BY <1>1, <1>2, <1>3, PushGood
<1> QED
  BY <1>4 DEF Moved, Stay

\* The calls that a call is inside of, when it is made by `f`.
LEMMA WithinPush ==
  ASSUME NEW s \in Seq(Frames), NEW f \in Frames, Within(s, f), NEW g,
         \/ f.stage \in {"child", "gone"}
         \/ f.stage # "retried" /\ f.retrying \subseteq g.retrying
         \/ f.retrying \cup {Id(f)} \subseteq g.retrying
  PROVE  Within(Append(s, f), g)
<1> DEFINE u == Append(s, f)
           n == Len(s)
<1>1. n \in Nat /\ Len(u) = n + 1 /\ (\A i \in 1 .. n : u[i] = s[i]) /\ u[n + 1] = f
  OBVIOUS
<1> SUFFICES ASSUME NEW i \in 1 .. n + 1, u[i].stage = "retried",
                    \A k \in i + 1 .. n + 1 : u[k].stage \notin {"child", "gone"}
             PROVE  Id(u[i]) \in g.retrying
  BY <1>1 DEF Within
<1> HIDE DEF u
<1>2. CASE i = n + 1
  <2>1. u[i] = f
    BY <1>1, <1>2
  <2> QED
    BY <2>1
<1>3. CASE i # n + 1
  <2>1. i \in 1 .. n /\ n + 1 \in i + 1 .. n + 1
    BY <1>1, <1>3
  <2>2. f.stage \notin {"child", "gone"}
    BY <1>1, <2>1
  <2>3. \A k \in i + 1 .. n : k \in i + 1 .. n + 1 /\ k \in 1 .. n
    BY <1>1, <2>1
  <2>4. \A k \in i + 1 .. n : s[k].stage \notin {"child", "gone"}
    BY <1>1, <2>3
  <2>5. Id(s[i]) \in f.retrying /\ u[i] = s[i]
    BY <1>1, <2>1, <2>4 DEF Within
  <2> QED
    BY <2>2, <2>5
<1> QED
  BY <1>2, <1>3

\* The innermost call makes another one.
LEMMA CallGood ==
  ASSUME RunInv, NEW t \in Threads, stack[t] # <<>>, Filled, NEW f, NEW g, Call(t, f, g),
         GoodFrame(copies', f), f.fn = Top(t).fn, f.retrying = Top(t).retrying, Open(f),
         GoodFrame(copies', g),
         \/ f.stage \in {"child", "gone"}
         \/ f.stage # "retried" /\ f.retrying \subseteq g.retrying
         \/ f.retrying \cup {Id(f)} \subseteq g.retrying
  PROVE  Moved(t)
<1>1. /\ Ready(copies, Under(t)) /\ Within(Under(t), Top(t)) /\ Under(t) \in Seq(Frames)
      /\ Under(t) = <<>> => Top(t).fn = "workflow"
  BY TopGood
<1>2. Ready(copies', Under(t))
  BY <1>1, StacksKept DEF RunInv, Filled
<1>3. Within(Under(t), f) /\ f \in Frames
  BY <1>1 DEF Within, GoodFrame
<1>4. Ready(copies', Append(Under(t), f))
  BY <1>1, <1>2, <1>3, PushGood
<1>5. Within(Append(Under(t), f), g)
  BY <1>1, <1>3, WithinPush
<1>6. Append(Under(t), f) # <<>>
  BY <1>1, <1>3
<1>7. GoodStack(copies', Append(Append(Under(t), f), g))
  BY <1>4, <1>5, <1>6, PushGood
<1> QED
  BY <1>7 DEF Moved, Call

LEMMA AdvanceGood ==
  ASSUME plan \in Plans, NEW made, NEW f, GoodFrame(made, f), f.fn = "workflow", NEW end
  PROVE  /\ GoodFrame(made, Advance(f, end)) /\ Advance(f, end).fn = "workflow"
         /\ Advance(f, end).retrying = f.retrying
<1>1. f \in Frames /\ f.w \in Workflows /\ f.pos \in Nat /\ f.stage = "steps"
  BY DEF GoodFrame, Frames
<1>2. Len(Steps(f.w)) \in 1 .. Longest
  BY <1>1, PlanTypes
<1>3. PICK p : p = IF end THEN Len(Steps(f.w)) + 1 ELSE f.pos + 1
  OBVIOUS
<1>4. p \in Nat /\ p >= 1
  BY <1>1, <1>2, <1>3, Constants
<1>5. Advance(f, end) = [f EXCEPT !.pos = p]
  BY <1>1, <1>3 DEF Advance
<1>6. /\ [f EXCEPT !.pos = p] \in Frames /\ [f EXCEPT !.pos = p].pos = p
      /\ [f EXCEPT !.pos = p].fn = f.fn /\ [f EXCEPT !.pos = p].stage = f.stage
      /\ [f EXCEPT !.pos = p].retrying = f.retrying
  BY <1>1, <1>4 DEF Frames
<1> QED
  BY <1>1, <1>4, <1>5, <1>6 DEF GoodFrame

\* The innermost call, a step's, returns to the one below it.
LEMMA ReturnGood ==
  ASSUME RunInv, NEW t \in Threads, stack[t] # <<>>, Top(t).fn = "step", Filled,
         NEW end \in BOOLEAN, Return(t, end)
  PROVE  Moved(t) /\ ret' \in [Threads -> Returned]
<1> DEFINE u == Under(t)
           n == Len(u)
           b == u[n]
<1>1. Ready(copies, u) /\ u # <<>> /\ u \in Seq(Frames)
  BY TopGood
<1>2. n \in Nat \ {0} /\ n - 1 \in 0 .. n - 1
  BY <1>1
<1>3. /\ stack' = [ stack EXCEPT ![t] = IF b.fn = "workflow" THEN Append(FrontOf(u), Advance(b, end)) ELSE u ]
      /\ ret' = [ ret EXCEPT ![t].end = end ]
  BY DEF Return
<1>4. ret' \in [Threads -> Returned]
  BY <1>3 DEF RunInv, TypeOK, Returned
<1>5. Ready(copies', u)
  BY <1>1, StacksKept DEF RunInv, Filled
<1>6. FrontOf(u) = Upto(u, n - 1)
  BY DEF FrontOf, Upto
<1> HIDE DEF u
<1>7. GoodStack(copies', u)
  BY <1>5 DEF Ready
<1>8. Ready(copies', Upto(u, n - 1)) /\ Upto(u, n - 1) \in Seq(Frames) /\ Len(Upto(u, n - 1)) = n - 1
  BY <1>2, <1>7, PrefixGood
<1>9. GoodFrame(copies', b) /\ Within(Upto(u, n - 1), b)
  BY <1>2, <1>7 DEF GoodStack
<1>10. CASE b.fn = "workflow"
  <2>1. /\ GoodFrame(copies', Advance(b, end)) /\ Advance(b, end).fn = "workflow"
        /\ Advance(b, end).retrying = b.retrying
    BY <1>9, <1>10, AdvanceGood DEF RunInv, TypeOK
  <2>2. Within(Upto(u, n - 1), Advance(b, end))
    BY <1>9, <2>1 DEF Within
  <2>3. GoodStack(copies', Append(Upto(u, n - 1), Advance(b, end)))
    BY <1>8, <2>1, <2>2, PushGood
  <2> QED
    BY <1>3, <1>4, <1>6, <1>10, <2>3 DEF Moved
<1>11. CASE b.fn # "workflow"
  BY <1>3, <1>4, <1>7, <1>11 DEF Moved
<1> QED
  BY <1>10, <1>11

------------------------------------------------------------------------------
(* The calls that the actions make, and the copies they register. *)

LEMMA AttemptsNat ==
  ASSUME NEW made, NEW c \in Nat, Ordered(made, c)
  PROVE  AttemptsIn(made, c) \in Nat
<1>1. CASE c = 0
  BY <1>1, AttemptsOfNone
<1>2. CASE c # 0
  BY <1>2, AttemptsStep
<1> QED
  BY <1>1, <1>2

\* The retries that a first attempt has are all that its step allows.
LEMMA TriesAre ==
  ASSUME plan \in Plans, NEW w \in Workflows, NEW k \in DOMAIN Steps(w), NEW s,
         s = [ j \in DOMAIN Steps(w)[k].failure |-> Steps(w)[k].failure[j].limit ]
  PROVE  /\ s \in Seq(Nat) /\ Len(s) = Len(Steps(w)[k].failure)
         /\ Sum(s) = Limits(Steps(w)[k].failure) /\ Sum(s) \in Nat
<1>1. Steps(w)[k].failure \in Seq(Actions)
  BY PlanTypes
<1> DEFINE actions == Steps(w)[k].failure
<1> HIDE DEF actions
<1>2. actions \in Seq(Actions) /\ s = [ j \in DOMAIN actions |-> actions[j].limit ]
  BY <1>1 DEF actions
<1>3. /\ Len(actions) \in Nat /\ DOMAIN actions = 1 .. Len(actions)
      /\ \A j \in 1 .. Len(actions) : actions[j] \in Actions
  BY <1>2
<1>6. \A j \in 1 .. Len(actions) : actions[j].limit \in Nat
  BY <1>3 DEF Actions
<1>7. s \in [1 .. Len(actions) -> Nat] /\ \A j \in 1 .. Len(actions) : s[j] = actions[j].limit
  BY <1>2, <1>3, <1>6
<1>4. /\ s \in Seq(Nat) /\ Len(s) = Len(actions)
      /\ \A j \in 1 .. Len(actions) : s[j] = actions[j].limit
  BY <1>3, <1>7, SeqDef, LenProperties
<1>5. Sum(s) = Limits(actions) /\ Sum(s) \in Nat
  BY <1>2, <1>4, LimitsAreSum, SumIs
<1> QED
  BY <1>4, <1>5 DEF actions

\* What the call of a step is.
LEMMA StepFacts ==
  ASSUME plan \in Plans, NEW made, CopiesOK(made), NEW f, GoodFrame(made, f), f.fn = "step"
  PROVE  /\ f \in Frames /\ f.w \in Workflows /\ f.pos \in DOMAIN Steps(f.w) /\ f.pos \in Nat
         /\ Id(f) \in StepIds /\ Id(f)[1] = f.w /\ Id(f)[2] = f.pos
         /\ Def(f) \in StepDefs /\ StepOf(Id(f)) = Def(f)
         /\ Def(f).failure \in Seq(Actions)
         /\ Def(f).success \in Seq({ a \in Actions : a.type # "retry" })
         /\ f.list \in Nat /\ f.left \in Nat /\ f.arr \in Nat /\ f.act \in Nat \ {0}
         /\ f.retrying \subseteq StepIds
         /\ f.tries \in Seq(Nat) /\ Len(f.tries) = Len(Def(f).failure)
         /\ f.of \in Nat /\ f.of \in 0 .. Len(made) /\ Ordered(made, f.of)
         /\ AttemptsIn(made, f.of) \in Nat /\ Sum(f.tries) \in Nat
         /\ AttemptsIn(made, f.of) + Sum(f.tries) = Limits(Def(f).failure)
<1>1. f \in Frames /\ GoodStep(made, f)
  BY DEF GoodFrame
<1>2. /\ f.w \in Workflows /\ f.pos \in DOMAIN Steps(f.w) /\ f.pos \in Nat
      /\ f.list \in Nat /\ f.left \in Nat /\ f.arr \in Nat /\ f.act \in Nat \ {0}
      /\ f.retrying \subseteq StepIds /\ f.tries \in Seq(Nat)
      /\ Len(f.tries) = Len(Def(f).failure)
      /\ f.of \in Nat /\ f.of <= Len(made)
  BY <1>1 DEF GoodStep, Frames
<1>3. /\ Id(f) \in StepIds /\ Id(f)[1] = f.w /\ Id(f)[2] = f.pos
      /\ Def(f) \in StepDefs /\ StepOf(Id(f)) = Def(f)
      /\ Def(f).failure \in Seq(Actions)
      /\ Def(f).success \in Seq({ a \in Actions : a.type # "retry" })
  BY <1>2, PlanTypes DEF Id, Def, StepOf
<1>4. made \in Seq(Copies) /\ Len(made) \in Nat /\ Ordered(made, Len(made))
  BY DEF CopiesOK
<1>5. f.of \in 0 .. Len(made) /\ Ordered(made, f.of)
  BY <1>2, <1>4 DEF Ordered
<1>6. AttemptsIn(made, f.of) \in Nat /\ Sum(f.tries) \in Nat
  BY <1>2, <1>5, AttemptsNat, SumIs
<1>7. AttemptsIn(made, f.of) + Sum(f.tries) = Limits(Def(f).failure)
  BY <1>1 DEF GoodStep, Budget
<1> QED
  BY <1>1, <1>2, <1>3, <1>5, <1>6, <1>7

\* A call that is the same attempt as before is good where it was good before.
LEMMA GoesOn ==
  ASSUME NEW made, NEW f, GoodFrame(made, f), f.fn = "step", NEW g \in Frames, g.fn = "step",
         g.w = f.w, g.pos = f.pos, g.of = f.of, g.tries = f.tries, g.act >= 1, g.stage # "steps",
         g.stage # "start", g.copy \in 1 .. Len(made), made[g.copy].of = g.of,
         g.stage = "retried" => MayRetry(g)
  PROVE  GoodFrame(made, g)
<1>1. Def(g) = Def(f)
  BY DEF Def
<1>2. GoodStep(made, g)
  BY <1>1 DEF GoodFrame, GoodStep, Budget
<1> QED
  BY <1>2 DEF GoodFrame

LEMMA RunWorkflowGood ==
  ASSUME NEW made, NEW w \in Workflows, NEW pos \in Nat \ {0}, NEW list \in Nat, NEW left \in Nat,
         NEW retrying \in SUBSET StepIds
  PROVE  /\ GoodFrame(made, RunWorkflow(w, pos, list, left, retrying))
         /\ RunWorkflow(w, pos, list, left, retrying).fn = "workflow"
         /\ RunWorkflow(w, pos, list, left, retrying).retrying = retrying
<1>1. <<>> \in Seq(Nat)
  OBVIOUS
<1>2. RunWorkflow(w, pos, list, left, retrying) \in Frames
  BY <1>1 DEF RunWorkflow, Frames
<1> QED
  BY <1>2 DEF GoodFrame, RunWorkflow

LEMMA RunStepGood ==
  ASSUME plan \in Plans, NEW made, CopiesOK(made), NEW w \in Workflows, NEW pos \in DOMAIN Steps(w),
         NEW list \in Nat, NEW left \in Nat, NEW retrying \in SUBSET StepIds
  PROVE  /\ GoodFrame(made, RunStep(w, pos, list, left, retrying))
         /\ RunStep(w, pos, list, left, retrying) \in Frames
         /\ RunStep(w, pos, list, left, retrying).fn = "step"
         /\ RunStep(w, pos, list, left, retrying).retrying = retrying
<1>1. pos \in Nat /\ pos >= 1
  BY PlanTypes
<1> DEFINE s == [ j \in DOMAIN Steps(w)[pos].failure |-> Steps(w)[pos].failure[j].limit ]
           g == RunStep(w, pos, list, left, retrying)
<1>2. /\ s \in Seq(Nat) /\ Len(s) = Len(Steps(w)[pos].failure)
      /\ Sum(s) = Limits(Steps(w)[pos].failure) /\ Sum(s) \in Nat
  BY TriesAre
<1>3. g = [ fn |-> "step", w |-> w, pos |-> pos, list |-> list, left |-> left, retrying |-> retrying,
            arr |-> 0, of |-> 0, tries |-> s, copy |-> 0, stage |-> "start", kind |-> "success", act |-> 1 ]
  BY DEF RunStep
<1> HIDE DEF s, g
<1>4. g \in Frames
  BY <1>1, <1>2, <1>3 DEF Frames
<1>5. Def(g) = Steps(w)[pos]
  BY <1>3 DEF Def
<1>6. Budget(made, g)
  BY <1>2, <1>3, <1>5, AttemptsOfNone DEF Budget
<1>7. made \in Seq(Copies) /\ Len(made) \in Nat
  BY DEF CopiesOK
<1>8. GoodStep(made, g)
  BY <1>2, <1>3, <1>5, <1>6, <1>7 DEF GoodStep
<1>9. g.fn = "step" /\ g.pos >= 1 /\ g.stage = "start" /\ g.retrying = retrying
  BY <1>1, <1>3
<1>10. GoodFrame(made, g)
  BY <1>4, <1>8, <1>9 DEF GoodFrame
<1> QED
  BY <1>4, <1>9, <1>10 DEF g

\* What the innermost call is.
LEMMA AtTop ==
  ASSUME RunInv, NEW t \in Threads, NEW stage, InStage(t, stage)
  PROVE  /\ stack[t] # <<>> /\ Top(t).stage = stage /\ GoodFrame(copies, Top(t))
         /\ stage = "steps" => Top(t).fn = "workflow"
         /\ stage # "steps" => Top(t).fn = "step"
         /\ plan \in Plans /\ CopiesOK(copies)
<1>1. stack[t] # <<>> /\ Top(t).stage = stage
  BY DEF InStage
<1>2. GoodFrame(copies, Top(t))
  BY <1>1, TopGood
<1>3. Top(t).fn \in {"workflow", "step"}
  BY <1>2 DEF GoodFrame, Frames
<1> QED
  BY <1>1, <1>2, <1>3 DEF GoodFrame, RunInv, TypeOK

\* A retry action is a failure action.
LEMMA RetryIsFailure ==
  ASSUME RunInv, NEW t \in Threads, Matched(t, "retry")
  PROVE  /\ Top(t).kind = "failure" /\ Top(t).act \in DOMAIN Def(Top(t)).failure
         /\ Action(t) = Def(Top(t)).failure[Top(t).act]
<1> DEFINE f == Top(t)
<1>1. /\ GoodFrame(copies, f) /\ f.fn = "step" /\ f.act <= Len(ActionsOf(f))
      /\ plan \in Plans /\ CopiesOK(copies) /\ ActionsOf(f)[f.act].type = "retry"
      /\ Action(t) = ActionsOf(f)[f.act]
  BY AtTop DEF Matched, Acting, Action
<1> HIDE DEF f
<1>2. /\ Def(f).failure \in Seq(Actions)
      /\ Def(f).success \in Seq({ a \in Actions : a.type # "retry" })
      /\ f.act \in Nat \ {0}
  BY <1>1, StepFacts
<1>3. ASSUME f.kind # "failure" PROVE FALSE
  <2>1. ActionsOf(f) = Def(f).success
    BY <1>3 DEF ActionsOf
  <2>2. f.act \in 1 .. Len(Def(f).success)
    BY <1>1, <1>2, <2>1
  <2>3. Def(f).success[f.act].type # "retry"
    BY <1>2, <2>2
  <2> QED
    BY <1>1, <2>1, <2>3
<1>4. ActionsOf(f) = Def(f).failure
  BY <1>3 DEF ActionsOf
<1> QED
  BY <1>1, <1>2, <1>3, <1>4 DEF f

\* A retry of a step is one attempt more and one retry less.
LEMMA AgainGood ==
  ASSUME RunInv, NEW t \in Threads, stack[t] # <<>>, Top(t).fn = "step", Top(t).stage # "start",
         Top(t).kind = "failure", Top(t).act \in DOMAIN Def(Top(t)).failure,
         Left(t) = Top(t).tries[Top(t).act], Left(t) > 0
  PROVE  /\ GoodFrame(copies, Again(t, copies))
         /\ Again(t, copies).fn = "step" /\ Again(t, copies).retrying = Top(t).retrying
<1> DEFINE f == Top(t)
           i == f.act
           u == [ f.tries EXCEPT ![i] = f.tries[i] - 1 ]
           c == f.copy
           g == Again(t, copies)
           r == RunStep(f.w, f.pos, f.list, f.left, f.retrying)
<1>1. GoodFrame(copies, f) /\ plan \in Plans /\ CopiesOK(copies)
  BY TopGood DEF RunInv, TypeOK
<1>2. g = [ r EXCEPT !.arr = copies[c].arr, !.of = c, !.tries = u ]
  BY DEF Again
<1>3. f.fn = "step" /\ f.stage # "start" /\ i \in DOMAIN Def(f).failure /\ f.tries[i] > 0
  OBVIOUS
<1> HIDE DEF f
<1>4. /\ f \in Frames /\ f.w \in Workflows /\ f.pos \in DOMAIN Steps(f.w)
      /\ Def(f).failure \in Seq(Actions)
      /\ f.list \in Nat /\ f.left \in Nat /\ f.retrying \subseteq StepIds
      /\ f.tries \in Seq(Nat) /\ Len(f.tries) = Len(Def(f).failure)
      /\ AttemptsIn(copies, f.of) \in Nat /\ Sum(f.tries) \in Nat
      /\ AttemptsIn(copies, f.of) + Sum(f.tries) = Limits(Def(f).failure)
  BY <1>1, <1>3, StepFacts
<1>5. i \in 1 .. Len(f.tries)
  BY <1>3, <1>4
<1>6. u \in Seq(Nat) /\ Sum(u) = Sum(f.tries) - 1 /\ Len(u) = Len(f.tries)
  BY <1>3, <1>4, <1>5, SumLess
<1>7. c \in 1 .. Len(copies) /\ copies[c].of = f.of
  BY <1>1, <1>3 DEF GoodFrame, GoodStep
<1>8. /\ copies \in Seq(Copies) /\ Len(copies) \in Nat /\ Ordered(copies, Len(copies))
  BY <1>1 DEF CopiesOK
<1>9. copies[c].arr \in Nat /\ c \in Nat \ {0} /\ Ordered(copies, c)
  <2> HIDE DEF c
  <2>1. copies[c] \in Copies /\ c \in Nat \ {0} /\ c <= Len(copies)
    BY <1>7, <1>8
  <2>2. Ordered(copies, c)
    BY <1>8, <2>1 DEF Ordered
  <2> QED
    BY <2>1, <2>2 DEF Copies
<1>10. AttemptsIn(copies, c) = 1 + AttemptsIn(copies, f.of)
  BY <1>7, <1>9, AttemptsStep
<1>11. GoodFrame(copies, r) /\ r \in Frames
  BY <1>1, <1>4, RunStepGood
<1>12. /\ r.fn = "step" /\ r.w = f.w /\ r.pos = f.pos /\ r.stage = "start" /\ r.act = 1
       /\ r.retrying = f.retrying
  BY DEF RunStep
<1> HIDE DEF u, r, i, g
<1>13. g \in Frames
  BY <1>2, <1>6, <1>9, <1>11 DEF Frames
<1>14. /\ g.fn = "step" /\ g.w = f.w /\ g.pos = f.pos /\ g.stage = "start" /\ g.act = 1
       /\ g.of = c /\ g.tries = u /\ g.retrying = f.retrying
  BY <1>2, <1>11, <1>12 DEF Frames
<1>15. Def(g) = Def(f)
  BY <1>14 DEF Def
<1>16. Budget(copies, g)
  BY <1>4, <1>6, <1>10, <1>14, <1>15 DEF Budget
<1>17. GoodStep(copies, g)
  BY <1>4, <1>6, <1>7, <1>8, <1>9, <1>14, <1>15, <1>16 DEF GoodStep
<1>18. g.pos >= 1
  BY <1>1, <1>14 DEF GoodFrame
<1>19. GoodFrame(copies, g)
  BY <1>13, <1>14, <1>17, <1>18 DEF GoodFrame
<1> QED
  BY <1>14, <1>19 DEF g, f

\* A step that is run is registered, or not, as one more attempt.
LEMMA RegisterGood ==
  ASSUME RunInv, NEW f, GoodFrame(copies, f), f.fn = "step", NEW list \in Nat
  PROVE  /\ CopiesOK(Append(copies, CopyOf(f, list))) /\ Kept(copies, Append(copies, CopyOf(f, list)))
         /\ NewCopy \in 1 .. Len(Append(copies, CopyOf(f, list)))
         /\ Append(copies, CopyOf(f, list))[NewCopy].of = f.of /\ NewCopy \in Nat
<1> DEFINE k == CopyOf(f, list)
<1>1. plan \in Plans /\ CopiesOK(copies) /\ Len(copies) \in Nat
  BY DEF RunInv, TypeOK
<1>2. /\ f.w \in Workflows /\ f.pos \in DOMAIN Steps(f.w)
      /\ Id(f) \in StepIds /\ Id(f)[1] = f.w /\ Id(f)[2] = f.pos /\ StepOf(Id(f)) = Def(f)
      /\ f.left \in Nat /\ f.arr \in Nat /\ f.of \in Nat /\ f.of \in 0 .. Len(copies)
      /\ AttemptsIn(copies, f.of) \in Nat /\ Sum(f.tries) \in Nat
      /\ AttemptsIn(copies, f.of) + Sum(f.tries) = Limits(Def(f).failure)
  BY <1>1, StepFacts
<1>3. k = [ step |-> Id(f), list |-> list, left |-> f.left, given |-> f.left, arr |-> f.arr, own |-> {}, of |-> f.of ]
  BY DEF CopyOf
<1> HIDE DEF k
<1>4. k \in Copies
  BY <1>2, <1>3 DEF Copies
<1>5. k.of = f.of /\ k.step = Id(f)
  BY <1>3
<1>6. 1 + AttemptsIn(copies, k.of) <= 1 + Limits(StepOf(k.step).failure)
  BY <1>2, <1>5
<1>7. /\ CopiesOK(Append(copies, k)) /\ Kept(copies, Append(copies, k))
      /\ Len(Append(copies, k)) = Len(copies) + 1 /\ Append(copies, k)[Len(copies) + 1] = k
  BY <1>1, <1>2, <1>4, <1>5, <1>6, AddCopy
<1> QED
  BY <1>1, <1>5, <1>7 DEF NewCopy, k

\* One copy that is filled in.
LEMMA FillOne ==
  ASSUME NEW a, CopiesOK(a), NEW c \in 1 .. Len(a), NEW k \in Copies, k.of = a[c].of, k.step = a[c].step
  PROVE  /\ CopiesOK([a EXCEPT ![c] = k]) /\ Kept(a, [a EXCEPT ![c] = k])
         /\ Len([a EXCEPT ![c] = k]) = Len(a)
<1>1. a \in Seq(Copies)
  BY DEF CopiesOK
<1> DEFINE b == [a EXCEPT ![c] = k]
<1>2. b \in Seq(Copies) /\ Len(b) = Len(a) /\ \A d \in 1 .. Len(a) : b[d] = IF d = c THEN k ELSE a[d]
  BY <1>1, ExceptSeq
<1> HIDE DEF b
<1>3. \A d \in 1 .. Len(a) : b[d].of = a[d].of /\ b[d].step = a[d].step
  BY <1>2
<1>4. CopiesOK(b) /\ Kept(a, b)
  BY <1>2, <1>3, FillIn
<1> QED
  BY <1>2, <1>4 DEF b

------------------------------------------------------------------------------
(* An error that is thrown. *)

\* A set of numbers up to n has a greatest one.
LEMMA Greatest ==
  ASSUME NEW n \in Nat, NEW S, S \subseteq 1 .. n, S # {}
  PROVE  \E i \in S : \A j \in S : j <= i
<1> DEFINE T == { m \in Nat : \A R : R \subseteq 1 .. m /\ R # {} => \E i \in R : \A j \in R : j <= i }
<1>1. 0 \in T
  OBVIOUS
<1>2. ASSUME NEW m \in Nat, m \in T PROVE m + 1 \in T
  <2> SUFFICES ASSUME NEW R, R \subseteq 1 .. m + 1, R # {}
               PROVE  \E i \in R : \A j \in R : j <= i
    OBVIOUS
  <2>1. CASE m + 1 \in R
    <3>1. \A j \in R : j <= m + 1
      OBVIOUS
    <3> QED
      BY <2>1, <3>1
  <2>2. CASE m + 1 \notin R
    <3>1. R \subseteq 1 .. m
      BY <2>2
    <3> QED
      BY <1>2, <3>1
  <2> QED
    BY <2>1, <2>2
<1> HIDE DEF T
<1>3. n \in T
  BY <1>1, <1>2, SetInduction
<1> QED
  BY <1>3 DEF T

\* The innermost runWorkflow catches it, registers its step and goes on.
LEMMA ThrowGood ==
  ASSUME RunInv, NEW t \in Threads, stack[t] # <<>>, NEW made, CopiesOK(made), Kept(copies, made),
         Throw(t, Under(t), made)
  PROVE  Filled /\ Moved(t) /\ threw' \in [Threads -> BOOLEAN]
<1> DEFINE open     == Under(t)
           n        == Len(open)
           catching == { i \in DOMAIN open : open[i].fn = "workflow" }
           last     == CHOOSE i \in catching : \A j \in catching : j <= i
           frame    == open[last]
           copy     == [ step |-> Id(frame), list |-> frame.list, left |-> 0, given |-> 0,
                         arr |-> 0, own |-> {}, of |-> 0 ]
<1>1. /\ plan \in Plans /\ checks \in [StepIds -> SUBSET Kinds] /\ threw \in [Threads -> BOOLEAN]
      /\ CopiesOK(copies)
  BY DEF RunInv, TypeOK
<1>2. Ready(copies, open) /\ open \in Seq(Frames)
  BY TopGood
<1>3. /\ copies \in Seq(Copies) /\ made \in Seq(Copies) /\ Len(made) \in Nat
      /\ Ready(made, open) /\ n \in Nat /\ DOMAIN open = 1 .. n
  BY <1>1, <1>2, StacksKept DEF CopiesOK
<1>4. CASE catching = {}
  <2>1. /\ stack' = [ stack EXCEPT ![t] = <<>> ] /\ threw' = [ threw EXCEPT ![t] = TRUE ]
        /\ copies' = made /\ checks' = checks
    BY <1>4 DEF Throw
  <2>2. <<>> \in Seq(Frames) /\ Len(<<>>) = 0
    OBVIOUS
  <2>3. GoodStack(copies', <<>>)
    BY <2>2 DEF GoodStack
  <2>4. Moved(t)
    BY <2>1, <2>3 DEF Moved
  <2> QED
    BY <1>1, <2>1, <2>4 DEF Filled
<1>5. CASE catching # {}
  <2>1. /\ stack' = [ stack EXCEPT ![t] = Append(SubSeq(open, 1, last - 1), Advance(frame, FALSE)) ]
        /\ AddCheck(Append(made, copy), 0, Id(frame), "error")
        /\ threw' = threw
    BY <1>5 DEF Throw
  <2>2. last \in catching
    <3>1. \E i \in catching : \A j \in catching : j <= i
      <4> HIDE DEF open
      <4>1. catching \subseteq 1 .. n
        BY <1>3
      <4> HIDE DEF catching, n
      <4> QED
        BY <1>3, <1>5, <4>1, Greatest
    <3> QED
      BY <3>1
  <2> HIDE DEF last, open
  <2>3. last \in 1 .. n /\ frame.fn = "workflow" /\ SubSeq(open, 1, last - 1) = Upto(open, last - 1)
    BY <1>3, <2>2 DEF Upto
  <2>4. last \in 1 .. Len(open) /\ last - 1 \in 0 .. Len(open) - 1
    BY <1>3, <2>3
  <2>5. GoodStack(made, open) /\ GoodFrame(made, frame) /\ Within(Upto(open, last - 1), frame) /\ Open(frame)
    BY <1>3, <2>4 DEF Ready, GoodStack
  <2> HIDE DEF frame, n, catching
  <2>6. frame \in Frames /\ frame.w \in Workflows /\ frame.pos \in Nat \ {0} /\ frame.list \in Nat
    BY <2>5 DEF GoodFrame, Frames
  <2>7. frame.pos <= Len(Steps(frame.w))
    BY <2>3, <2>5 DEF Open
  <2>8. frame.pos \in DOMAIN Steps(frame.w)
    BY <1>1, <2>6, <2>7, PlanTypes
  <2>9. /\ Id(frame) \in StepIds /\ Id(frame)[1] = frame.w /\ Id(frame)[2] = frame.pos
    BY <1>1, <2>6, <2>8, PlanTypes DEF Id
  <2>10. Limits(StepOf(Id(frame)).failure) \in Nat
    <3> DEFINE k == frame.pos
               s == [ j \in DOMAIN Steps(frame.w)[k].failure |-> Steps(frame.w)[k].failure[j].limit ]
    <3>1. Sum(s) = Limits(Steps(frame.w)[k].failure) /\ Sum(s) \in Nat
      BY <1>1, <2>6, <2>8, TriesAre
    <3> QED
      BY <2>9, <3>1 DEF StepOf
  <2>11. copy \in Copies /\ copy.of = 0 /\ copy.step = Id(frame)
    BY <2>6, <2>9 DEF Copies
  <2> HIDE DEF copy
  <2>12. CopiesOK(Append(made, copy)) /\ Kept(made, Append(made, copy))
    <3>1. 0 \in 0 .. Len(made)
      BY <1>3
    <3>2. 1 + AttemptsIn(made, copy.of) <= 1 + Limits(StepOf(copy.step).failure)
      BY <2>10, <2>11, AttemptsOfNone
    <3> QED
      BY <2>8, <2>9, <2>11, <3>1, <3>2, AddCopy
  <2>13. /\ CopiesOK(copies') /\ Kept(Append(made, copy), copies')
         /\ checks' \in [StepIds -> SUBSET Kinds]
    <3>1. "error" \in Kinds
      BY DEF Kinds
    <3> QED
      BY <1>1, <2>1, <2>9, <2>12, <3>1, CheckAdded
  <2>14. Kept(made, copies')
    <3>1. Append(made, copy) \in Seq(Copies) /\ copies' \in Seq(Copies)
      BY <2>12, <2>13 DEF CopiesOK
    <3>2. Len(copies') \in Nat
      BY <3>1, LenProperties
    <3> QED
      BY <1>3, <2>12, <2>13, <3>1, <3>2, KeptTwice
  <2>15. Kept(copies, copies')
    BY <1>3, <2>13, <2>14, KeptTwice DEF CopiesOK
  <2>16. Ready(copies', Upto(open, last - 1)) /\ Upto(open, last - 1) \in Seq(Frames)
    <3>1. Ready(made, Upto(open, last - 1)) /\ Upto(open, last - 1) \in Seq(Frames)
      BY <2>4, <2>5, PrefixGood
    <3> QED
      BY <2>13, <2>14, <3>1, StacksKept
  <2>17. GoodFrame(copies', frame)
    BY <2>5, <2>13, <2>14, StacksKept
  <2>18. /\ GoodFrame(copies', Advance(frame, FALSE)) /\ Advance(frame, FALSE).fn = "workflow"
         /\ Advance(frame, FALSE).retrying = frame.retrying
    BY <1>1, <2>3, <2>17, AdvanceGood
  <2>19. Within(Upto(open, last - 1), Advance(frame, FALSE))
    BY <2>5, <2>18 DEF Within
  <2>20. GoodStack(copies', Append(Upto(open, last - 1), Advance(frame, FALSE)))
    BY <2>16, <2>18, <2>19, PushGood
  <2>21. Moved(t)
    BY <2>1, <2>3, <2>20 DEF Moved
  <2> QED
    BY <1>1, <2>1, <2>13, <2>15, <2>21 DEF Filled
<1> QED
  BY <1>4, <1>5

------------------------------------------------------------------------------
(* Every step of a thread leaves the copies and its calls good. *)

Typed ==
  /\ lists' \in Seq(Nat) /\ ret' \in [Threads -> Returned] /\ threw' \in [Threads -> BOOLEAN]
  /\ count' \in Nat /\ requests' \in Nat /\ late' \in BOOLEAN
  /\ UNCHANGED <<plan, at, pending, phase, results>>
ThreadStep(t) == Filled /\ Moved(t) /\ Typed

LEMMA NoCopies == ASSUME RunInv, UNCHANGED <<copies, checks>> PROVE Filled
<1>1. copies \in Seq(Copies)
  BY DEF RunInv, TypeOK
<1> QED
  BY <1>1, KeptSame DEF RunInv, TypeOK, Filled

LEMMA NewListIs == ASSUME RunInv PROVE Append(lists, 0) \in Seq(Nat) /\ NewList \in Nat
<1>1. lists \in Seq(Nat)
  BY DEF RunInv, TypeOK
<1> QED
  BY <1>1 DEF NewList

LEMMA ListSet == ASSUME RunInv, NEW i, NEW v \in Nat PROVE [lists EXCEPT ![i] = v] \in Seq(Nat)
<1>1. lists \in Seq(Nat)
  BY DEF RunInv, TypeOK
<1>2. CASE i \in 1 .. Len(lists)
  BY <1>1, <1>2, ExceptSeq
<1>3. CASE i \notin 1 .. Len(lists)
  <2>1. [lists EXCEPT ![i] = v] = lists
    BY <1>1, <1>3
  <2> QED
    BY <1>1, <2>1
<1> QED
  BY <1>2, <1>3

LEMMA NextStepGood == ASSUME RunInv, NEW t \in Threads, NextStep(t) PROVE ThreadStep(t)
<1> DEFINE f == Top(t)
           g == RunStep(f.w, f.pos, f.list, f.left, f.retrying)
<1>1. /\ stack[t] # <<>> /\ GoodFrame(copies, f) /\ f.stage = "steps" /\ f.fn = "workflow" /\ plan \in Plans
      /\ f.pos <= Len(Steps(f.w)) /\ Call(t, f, g)
  BY AtTop DEF NextStep
<1>2. Filled
  BY NoCopies DEF NextStep
<1>3. CopiesOK(copies') /\ GoodFrame(copies', f)
  BY <1>1, <1>2, StacksKept DEF Filled, RunInv
<1>4. /\ f.w \in Workflows /\ f.pos \in Nat \ {0} /\ f.list \in Nat /\ f.left \in Nat
      /\ f.retrying \in SUBSET StepIds /\ Open(f)
  BY <1>1 DEF GoodFrame, Frames, Open
<1>5. f.pos \in DOMAIN Steps(f.w)
  BY <1>1, <1>4, PlanTypes
<1>6. GoodFrame(copies', g) /\ g.retrying = f.retrying
  BY <1>1, <1>3, <1>4, <1>5, RunStepGood
<1>7. f.fn = Top(t).fn /\ f.retrying = Top(t).retrying
  OBVIOUS
<1> HIDE DEF f, g
<1>8. Moved(t)
  BY <1>1, <1>2, <1>3, <1>4, <1>6, <1>7, CallGood
<1> QED
  BY <1>2, <1>8 DEF ThreadStep, Typed, NextStep, RunInv, TypeOK

LEMMA FinishGood == ASSUME RunInv, NEW t \in Threads, FinishWorkflow(t) PROVE ThreadStep(t)
<1>1. stack[t] # <<>> /\ GoodFrame(copies, Top(t))
  BY AtTop DEF FinishWorkflow
<1>2. Filled
  BY NoCopies DEF FinishWorkflow
<1>3. Ready(copies, Under(t))
  BY <1>1, TopGood
<1>4. Ready(copies', Under(t))
  BY <1>2, <1>3, StacksKept DEF RunInv, Filled
<1>5. Moved(t)
  BY <1>4 DEF Ready, Moved, FinishWorkflow
<1>6. ret' \in [Threads -> Returned]
  <2>1. TimedOut(Top(t).w) \in BOOLEAN
    BY DEF TimedOut
  <2>2. Top(t).list \in Nat
    BY <1>1 DEF GoodFrame, Frames
  <2>3. [end |-> FALSE, list |-> Top(t).list, timeout |-> TimedOut(Top(t).w)] \in Returned
    BY <2>1, <2>2 DEF Returned
  <2> QED
    BY <2>3 DEF FinishWorkflow, RunInv, TypeOK
<1> QED
  BY <1>2, <1>5, <1>6 DEF ThreadStep, Typed, FinishWorkflow, RunInv, TypeOK

\* A step that throws.
LEMMA ThrowStep ==
  ASSUME RunInv, NEW t \in Threads, stack[t] # <<>>, NEW made, CopiesOK(made), Kept(copies, made),
         Throw(t, Under(t), made), count' \in Nat,
         UNCHANGED <<plan, requests, late, lists, ret, at, pending, phase, results>>
  PROVE  ThreadStep(t)
<1>1. Filled /\ Moved(t) /\ threw' \in [Threads -> BOOLEAN]
  BY ThrowGood
<1> QED
  BY <1>1 DEF ThreadStep, Typed, RunInv, TypeOK

LEMMA ThrowAsIs ==
  ASSUME RunInv, NEW t \in Threads, stack[t] # <<>>, Throw(t, Under(t), copies),
         UNCHANGED <<plan, count, requests, late, lists, ret, at, pending, phase, results>>
  PROVE  ThreadStep(t)
<1>1. CopiesOK(copies) /\ copies \in Seq(Copies) /\ count' \in Nat
  BY DEF RunInv, TypeOK
<1>2. Kept(copies, copies)
  BY <1>1, KeptSame
<1> QED
  BY <1>1, <1>2, ThrowStep

LEMMA OutputsThrowGood == ASSUME RunInv, NEW t \in Threads, OutputsThrow(t) PROVE ThreadStep(t)
<1>1. stack[t] # <<>>
  BY DEF OutputsThrow, InStage
<1> QED
  BY <1>1, ThrowAsIs DEF OutputsThrow

LEMMA StartBrokenGood == ASSUME RunInv, NEW t \in Threads, StartBroken(t) PROVE ThreadStep(t)
<1>1. stack[t] # <<>>
  BY DEF StartBroken, InStage
<1> QED
  BY <1>1, ThrowAsIs DEF StartBroken

\* What a step that starts is, and the copy that it registers.
LEMMA AtStart ==
  ASSUME RunInv, NEW t \in Threads, Starting(t), NEW list \in Nat
  PROVE  /\ stack[t] # <<>> /\ Top(t).fn = "step" /\ Top(t).stage = "start" /\ GoodFrame(copies, Top(t))
         /\ CopiesOK(Append(copies, CopyOf(Top(t), list)))
         /\ Kept(copies, Append(copies, CopyOf(Top(t), list)))
         /\ NewCopy \in Nat /\ NewCopy \in 1 .. Len(Append(copies, CopyOf(Top(t), list)))
         /\ Append(copies, CopyOf(Top(t), list))[NewCopy].of = Top(t).of
         /\ Id(Top(t)) \in StepIds /\ Top(t).list \in Nat /\ Top(t).w \in Workflows
<1>1. /\ stack[t] # <<>> /\ Top(t).fn = "step" /\ Top(t).stage = "start" /\ GoodFrame(copies, Top(t))
      /\ plan \in Plans /\ CopiesOK(copies)
  BY AtTop DEF Starting
<1>2. /\ CopiesOK(Append(copies, CopyOf(Top(t), list)))
      /\ Kept(copies, Append(copies, CopyOf(Top(t), list)))
      /\ NewCopy \in Nat /\ NewCopy \in 1 .. Len(Append(copies, CopyOf(Top(t), list)))
      /\ Append(copies, CopyOf(Top(t), list))[NewCopy].of = Top(t).of
  BY <1>1, RegisterGood
<1>3. Id(Top(t)) \in StepIds /\ Top(t).list \in Nat /\ Top(t).w \in Workflows
  BY <1>1, StepFacts
<1> QED
  BY <1>1, <1>2, <1>3

\* The call of a step that was registered.
Running(f, stage, c) == [ f EXCEPT !.stage = stage, !.copy = c ]
LEMMA Started ==
  ASSUME NEW made, NEW f, GoodFrame(made, f), f.fn = "step",
         NEW c \in Nat, c \in 1 .. Len(made), made[c].of = f.of, NEW stage \in {"child", "calling"}
  PROVE  /\ GoodFrame(made, Running(f, stage, c)) /\ Running(f, stage, c).fn = "step"
         /\ Running(f, stage, c).retrying = f.retrying /\ Running(f, stage, c).stage = stage
<1> DEFINE g == Running(f, stage, c)
<1>1. f \in Frames
  BY DEF GoodFrame
<1>2. /\ g \in Frames /\ g.fn = "step" /\ g.retrying = f.retrying /\ g.stage = stage
      /\ g.w = f.w /\ g.pos = f.pos /\ g.of = f.of /\ g.tries = f.tries /\ g.act = f.act /\ g.copy = c
  BY <1>1 DEF Frames, Running
<1>3. g.act >= 1
  BY <1>2 DEF GoodFrame, GoodStep
<1> HIDE DEF g
<1>4. GoodFrame(made, g)
  BY <1>2, <1>3, GoesOn
<1> QED
  BY <1>2, <1>4 DEF g

LEMMA StartChildGood == ASSUME RunInv, NEW t \in Threads, StartChild(t) PROVE ThreadStep(t)
<1> DEFINE f == Top(t)
           g == Running(f, "child", NewCopy)
           h == RunWorkflow(Def(f).calls, 1, NewList, 0, {})
           made == Append(copies, CopyOf(f, 0))
<1>1. /\ Starting(t) /\ copies' = Append(copies, CopyOf(f, 0)) /\ Call(t, g, h)
      /\ Def(f).calls \in Workflows /\ lists' = Append(lists, 0)
      /\ UNCHANGED <<plan, count, requests, late, checks, ret, threw, at, pending, phase, results>>
  BY DEF StartChild, Running
<1>2. /\ stack[t] # <<>> /\ f.fn = "step" /\ GoodFrame(copies, f)
      /\ CopiesOK(copies') /\ Kept(copies, copies')
      /\ NewCopy \in Nat /\ NewCopy \in 1 .. Len(copies') /\ copies'[NewCopy].of = f.of
  <2>1. 0 \in Nat
    OBVIOUS
  <2>2. /\ stack[t] # <<>> /\ f.fn = "step" /\ GoodFrame(copies, f)
        /\ CopiesOK(made) /\ Kept(copies, made)
        /\ NewCopy \in Nat /\ NewCopy \in 1 .. Len(made) /\ made[NewCopy].of = f.of
    BY <1>1, <2>1, AtStart
  <2>3. copies' = made
    BY <1>1
  <2> HIDE DEF f, made
  <2> QED
    BY <2>2, <2>3
<1>3. Filled
  BY <1>1, <1>2 DEF Filled, RunInv, TypeOK
<1>4. GoodFrame(copies', f)
  BY <1>2, StacksKept DEF RunInv
<1>5. GoodFrame(copies', g) /\ g.fn = "step" /\ g.retrying = f.retrying /\ g.stage = "child"
  <2> HIDE DEF f
  <2> QED
    BY <1>2, <1>4, Started
<1>6. Append(lists, 0) \in Seq(Nat) /\ NewList \in Nat
  BY NewListIs
<1>7. GoodFrame(copies', h)
  BY <1>1, <1>6, RunWorkflowGood
<1>8. f.fn = Top(t).fn /\ f.retrying = Top(t).retrying
  OBVIOUS
<1> HIDE DEF f, g, h
<1>9. Open(g)
  BY <1>5 DEF Open
<1>10. Moved(t)
  BY <1>1, <1>2, <1>3, <1>5, <1>7, <1>8, <1>9, CallGood
<1> QED
  BY <1>1, <1>3, <1>6, <1>10 DEF ThreadStep, Typed, RunInv, TypeOK

\* A step that is registered with a failed check and ends the workflow.
LEMMA CheckedReturn ==
  ASSUME RunInv, NEW t \in Threads, Starting(t), NEW kind \in Kinds,
         AddCheck(Append(copies, CopyOf(Top(t), Top(t).list)), Top(t).arr, Id(Top(t)), kind),
         Return(t, TRUE), count' \in Nat,
         UNCHANGED <<plan, requests, late, lists, threw, at, pending, phase, results>>
  PROVE  ThreadStep(t)
<1> DEFINE f == Top(t)
           made == Append(copies, CopyOf(f, f.list))
<1>1. stack[t] # <<>> /\ f.fn = "step" /\ Id(f) \in StepIds /\ f.list \in Nat
  <2>1. 0 \in Nat
    OBVIOUS
  <2> QED
    BY <2>1, AtStart
<1>2. CopiesOK(made) /\ Kept(copies, made)
  BY <1>1, AtStart
<1>3. AddCheck(made, f.arr, Id(f), kind)
  OBVIOUS
<1>4. checks \in [StepIds -> SUBSET Kinds] /\ copies \in Seq(Copies)
  BY DEF RunInv, TypeOK
<1> HIDE DEF made, f
<1>5. CopiesOK(copies') /\ Kept(made, copies') /\ checks' \in [StepIds -> SUBSET Kinds]
  BY <1>1, <1>2, <1>3, <1>4, CheckAdded
<1>6. made \in Seq(Copies) /\ Len(copies') \in Nat
  BY <1>2, <1>5 DEF CopiesOK
<1>7. Kept(copies, copies')
  BY <1>2, <1>4, <1>5, <1>6, KeptTwice
<1>8. Filled
  BY <1>5, <1>7 DEF Filled
<1>9. Moved(t) /\ ret' \in [Threads -> Returned]
  BY <1>1, <1>8, ReturnGood DEF f
<1> QED
  BY <1>8, <1>9 DEF ThreadStep, Typed, RunInv, TypeOK

LEMMA StartMissingGood == ASSUME RunInv, NEW t \in Threads, StartMissing(t) PROVE ThreadStep(t)
<1>1. "error" \in Kinds /\ count' \in Nat
  BY DEF Kinds, StartMissing, RunInv, TypeOK
<1> QED
  BY <1>1, CheckedReturn DEF StartMissing

LEMMA OverLimitGood == ASSUME RunInv, NEW t \in Threads, StartOverLimit(t) PROVE ThreadStep(t)
<1>1. "max steps" \in Kinds
  BY DEF Kinds
<1>2. count' \in Nat
  <2>1. count \in Nat
    BY DEF RunInv, TypeOK
  <2>2. count' = count + 1
    BY DEF StartOverLimit
  <2> QED
    BY <2>1, <2>2
<1> QED
  BY <1>1, <1>2, CheckedReturn DEF StartOverLimit, AtApi, Registered

LEMMA TimedOutGood == ASSUME RunInv, NEW t \in Threads, StartTimedOut(t) PROVE ThreadStep(t)
<1>1. "timeout" \in Kinds
  BY DEF Kinds
<1>2. count' \in Nat
  <2>1. count \in Nat
    BY DEF RunInv, TypeOK
  <2>2. count' = count + 1
    BY DEF StartTimedOut
  <2> QED
    BY <2>1, <2>2
<1> QED
  BY <1>1, <1>2, CheckedReturn DEF StartTimedOut, AtApi, Registered

LEMMA StartThrowsGood == ASSUME RunInv, NEW t \in Threads, StartThrows(t) PROVE ThreadStep(t)
<1> DEFINE f == Top(t)
           made == Append(copies, CopyOf(f, f.list))
<1>1. Starting(t) /\ Throw(t, Under(t), made) /\ count' \in Nat
      /\ UNCHANGED <<plan, requests, late, lists, ret, at, pending, phase, results>>
  BY DEF StartThrows, AtApi, Registered, RunInv, TypeOK
<1>2. stack[t] # <<>> /\ f.list \in Nat
  <2>1. 0 \in Nat
    OBVIOUS
  <2> QED
    BY <1>1, <2>1, AtStart
<1>3. CopiesOK(made) /\ Kept(copies, made)
  BY <1>1, <1>2, AtStart
<1> QED
  BY <1>1, <1>2, <1>3, ThrowStep

LEMMA RequestGood == ASSUME RunInv, NEW t \in Threads, StartRequest(t) PROVE ThreadStep(t)
<1> DEFINE f == Top(t)
           g == Running(f, "calling", NewCopy)
           made == Append(copies, CopyOf(f, f.list))
<1>1. /\ Starting(t) /\ copies' = Append(copies, CopyOf(f, f.list)) /\ Stay(t, g)
      /\ count' \in Nat /\ requests' \in Nat
      /\ UNCHANGED <<plan, late, checks, lists, ret, threw, at, pending, phase, results>>
  BY DEF StartRequest, AtApi, Registered, Running, RunInv, TypeOK
<1>2. stack[t] # <<>> /\ f.fn = "step" /\ f.list \in Nat /\ GoodFrame(copies, f)
  <2>1. 0 \in Nat
    OBVIOUS
  <2> QED
    BY <1>1, <2>1, AtStart
<1>3. /\ CopiesOK(copies') /\ Kept(copies, copies')
      /\ NewCopy \in Nat /\ NewCopy \in 1 .. Len(copies') /\ copies'[NewCopy].of = f.of
  <2>1. /\ CopiesOK(made) /\ Kept(copies, made)
        /\ NewCopy \in Nat /\ NewCopy \in 1 .. Len(made) /\ made[NewCopy].of = f.of
    BY <1>1, <1>2, AtStart
  <2>2. copies' = made
    BY <1>1
  <2> HIDE DEF f, made
  <2> QED
    BY <2>1, <2>2
<1>4. Filled
  BY <1>1, <1>3 DEF Filled, RunInv, TypeOK
<1>5. GoodFrame(copies', f)
  BY <1>2, <1>3, StacksKept DEF RunInv
<1>6. GoodFrame(copies', g) /\ g.fn = "step" /\ g.retrying = f.retrying
  <2> HIDE DEF f
  <2> QED
    BY <1>2, <1>3, <1>5, Started
<1>7. f.fn = Top(t).fn /\ f.retrying = Top(t).retrying
  OBVIOUS
<1> HIDE DEF f, g
<1>8. Moved(t)
  BY <1>1, <1>2, <1>4, <1>6, <1>7, StayGood
<1> QED
  BY <1>1, <1>4, <1>8 DEF ThreadStep, Typed, RunInv, TypeOK

------------------------------------------------------------------------------
(* A step that runs its request or its actions. *)

\* What a step that is being run is.
LEMMA InStep ==
  ASSUME RunInv, NEW t \in Threads, NEW stage, InStage(t, stage), stage # "steps", stage # "start"
  PROVE  /\ stack[t] # <<>> /\ Top(t).fn = "step" /\ Top(t).stage = stage /\ GoodFrame(copies, Top(t))
         /\ Top(t).copy \in 1 .. Len(copies) /\ copies[Top(t).copy] \in Copies
         /\ copies[Top(t).copy].of = Top(t).of
         /\ Top(t) \in Frames /\ Id(Top(t)) \in StepIds /\ Top(t).list \in Nat
         /\ Top(t).act \in Nat \ {0} /\ Top(t).copy \in Nat \ {0}
         /\ plan \in Plans /\ CopiesOK(copies)
<1>1. /\ stack[t] # <<>> /\ Top(t).fn = "step" /\ Top(t).stage = stage /\ GoodFrame(copies, Top(t))
      /\ plan \in Plans /\ CopiesOK(copies)
  BY AtTop
<1>2. Top(t).copy \in 1 .. Len(copies) /\ copies[Top(t).copy].of = Top(t).of
  BY <1>1 DEF GoodFrame, GoodStep
<1>3. copies \in Seq(Copies)
  BY <1>1 DEF CopiesOK
<1>4. copies[Top(t).copy] \in Copies /\ Top(t).copy \in Nat \ {0}
  BY <1>2, <1>3
<1>5. /\ Top(t) \in Frames /\ Id(Top(t)) \in StepIds /\ Top(t).list \in Nat
      /\ Top(t).act \in Nat \ {0}
  BY <1>1, StepFacts
<1> QED
  BY <1>1, <1>2, <1>4, <1>5

\* A call that goes on: to its actions, to the next of them, or to a retry.
Acts(f, stage, kind, act) == [ f EXCEPT !.stage = stage, !.kind = kind, !.act = act ]
LEMMA ActsGood ==
  ASSUME NEW made, NEW f, GoodFrame(made, f), f.fn = "step", f.stage # "start",
         NEW stage \in {"acting", "gone", "retried"}, NEW kind \in {"failure", "success"},
         NEW act \in Nat \ {0}, stage = "retried" => MayRetry(Acts(f, stage, kind, act))
  PROVE  /\ GoodFrame(made, Acts(f, stage, kind, act)) /\ Acts(f, stage, kind, act).fn = "step"
         /\ Acts(f, stage, kind, act).retrying = f.retrying /\ Acts(f, stage, kind, act).stage = stage
         /\ Id(Acts(f, stage, kind, act)) = Id(f)
<1> DEFINE g == Acts(f, stage, kind, act)
<1>1. f \in Frames
  BY DEF GoodFrame
<1>2. /\ g \in Frames /\ g.fn = "step" /\ g.retrying = f.retrying /\ g.stage = stage
      /\ g.w = f.w /\ g.pos = f.pos /\ g.of = f.of /\ g.tries = f.tries /\ g.act = act /\ g.copy = f.copy
  BY <1>1 DEF Frames, Acts
<1>3. g.act >= 1
  BY <1>2
<1>4. g.copy \in 1 .. Len(made) /\ made[g.copy].of = g.of
  BY <1>2 DEF GoodFrame, GoodStep
<1>5. g.stage = "retried" => MayRetry(g)
  BY <1>2
<1> HIDE DEF g
<1>6. GoodFrame(made, g)
  BY <1>2, <1>3, <1>4, <1>5, GoesOn
<1>7. Id(g) = Id(f)
  BY <1>2 DEF Id
<1> QED
  BY <1>2, <1>6, <1>7 DEF g

LEMMA StayActs ==
  ASSUME RunInv, NEW t \in Threads, stack[t] # <<>>, Top(t).fn = "step", Top(t).stage # "start", Filled,
         NEW kind \in {"failure", "success"}, NEW act \in Nat \ {0},
         Stay(t, Acts(Top(t), "acting", kind, act))
  PROVE  Moved(t)
<1> DEFINE f == Top(t)
           g == Acts(f, "acting", kind, act)
<1>1. GoodFrame(copies, f)
  BY TopGood
<1>2. GoodFrame(copies', f)
  BY <1>1, StacksKept DEF Filled, RunInv
<1>3. GoodFrame(copies', g) /\ g.fn = "step" /\ g.retrying = f.retrying
  <2> HIDE DEF f
  <2>1. f.fn = "step" /\ f.stage # "start"
    BY DEF f
  <2> QED
    BY <1>2, <2>1, ActsGood
<1>4. f.fn = Top(t).fn /\ f.retrying = Top(t).retrying /\ Stay(t, g) /\ f.fn = "step"
  OBVIOUS
<1> HIDE DEF f, g
<1> QED
  BY <1>3, <1>4, StayGood

\* The copy of a step that is filled in.
LEMMA FillTop ==
  ASSUME RunInv, NEW t \in Threads, stack[t] # <<>>, NEW c \in 1 .. Len(copies), NEW k \in Copies,
         k.of = copies[c].of, k.step = copies[c].step, copies' = [copies EXCEPT ![c] = k],
         UNCHANGED checks
  PROVE  Filled
<1>1. CopiesOK(copies)
  BY DEF RunInv
<1>2. CopiesOK([copies EXCEPT ![c] = k]) /\ Kept(copies, [copies EXCEPT ![c] = k])
  BY <1>1, FillOne
<1> QED
  BY <1>2 DEF Filled, RunInv, TypeOK

LEMMA ChildDoneGood == ASSUME RunInv, NEW t \in Threads, ChildDone(t) PROVE ThreadStep(t)
<1> DEFINE f == Top(t)
           c == f.copy
           k == [ copies[c] EXCEPT !.list = f.list ]
           kind == IF Failed(ret[t].list) THEN "failure" ELSE "success"
<1>1. /\ InStage(t, "child") /\ lists' = [ lists EXCEPT ![ret[t].list] = f.list ]
      /\ Stay(t, [ f EXCEPT !.stage = "acting", !.kind = kind ])
      /\ \/ UNCHANGED <<copies, checks>>
         \/ AddCheck([ copies EXCEPT ![c].list = f.list ], copies[c].arr, Id(f), "error")
      /\ UNCHANGED <<plan, count, requests, late, ret, threw, at, pending, phase, results>>
  BY DEF ChildDone
<1>2. /\ stack[t] # <<>> /\ f.fn = "step" /\ f.stage = "child" /\ f \in Frames
      /\ c \in 1 .. Len(copies) /\ copies[c] \in Copies
      /\ Id(f) \in StepIds /\ f.list \in Nat /\ f.act \in Nat \ {0} /\ CopiesOK(copies)
  BY <1>1, InStep
<1>3. kind \in {"failure", "success"}
  OBVIOUS
<1>4. Stay(t, Acts(f, "acting", kind, f.act))
  <2> HIDE DEF f, kind
  <2>1. [ f EXCEPT !.stage = "acting", !.kind = kind ] = Acts(f, "acting", kind, f.act)
    BY <1>2 DEF Acts, Frames
  <2> QED
    BY <1>1, <2>1
<1>5. /\ copies \in Seq(Copies) /\ checks \in [StepIds -> SUBSET Kinds] /\ "error" \in Kinds
  BY DEF RunInv, TypeOK, Kinds
<1>6. Filled
  <2>1. CASE UNCHANGED <<copies, checks>>
    BY <2>1, NoCopies
  <2>2. CASE AddCheck([ copies EXCEPT ![c].list = f.list ], copies[c].arr, Id(f), "error")
    <3> HIDE DEF f, c
    <3>1. k \in Copies /\ k.of = copies[c].of /\ k.step = copies[c].step
      BY <1>2 DEF Copies
    <3>2. [ copies EXCEPT ![c].list = f.list ] = [copies EXCEPT ![c] = k]
      BY <1>2, <1>5
    <3> HIDE DEF k
    <3>3. PICK made : made = [copies EXCEPT ![c] = k]
      OBVIOUS
    <3>4. CopiesOK(made) /\ Kept(copies, made)
      BY <1>2, <3>1, <3>3, FillOne
    <3>5. AddCheck(made, copies[c].arr, Id(f), "error")
      BY <2>2, <3>2, <3>3
    <3>6. CopiesOK(copies') /\ Kept(made, copies') /\ checks' \in [StepIds -> SUBSET Kinds]
      BY <1>2, <1>5, <3>4, <3>5, CheckAdded
    <3>7. made \in Seq(Copies) /\ Len(copies') \in Nat
      BY <3>4, <3>6 DEF CopiesOK
    <3>8. Kept(copies, copies')
      BY <1>5, <3>4, <3>6, <3>7, KeptTwice
    <3> QED
      BY <3>6, <3>8 DEF Filled
  <2> QED
    BY <1>1, <2>1, <2>2
<1>7. lists' \in Seq(Nat)
  BY <1>1, <1>2, ListSet
<1>8. Moved(t)
  <2> HIDE DEF kind
  <2>1. f.stage # "start"
    BY <1>2
  <2> QED
    BY <1>2, <1>3, <1>4, <1>6, <2>1, StayActs
<1> QED
  BY <1>1, <1>6, <1>7, <1>8 DEF ThreadStep, Typed, RunInv, TypeOK

LEMMA RequestDoneGood == ASSUME RunInv, NEW t \in Threads, RequestDone(t) PROVE ThreadStep(t)
<1> DEFINE f == Top(t)
           c == f.copy
           done(kind) == Stay(t, [ f EXCEPT !.stage = "acting", !.kind = kind ])
<1>1. /\ InStage(t, "calling")
      /\ UNCHANGED <<plan, count, requests, late, lists, ret, threw, at, pending, phase, results>>
      /\ \/ /\ copies' = [ copies EXCEPT ![c].arr = c ] /\ UNCHANGED checks /\ done("success")
         \/ /\ copies' = [ copies EXCEPT ![c].arr = c, ![c].own = {"failed"} ]
            /\ UNCHANGED checks /\ done("failure")
         \/ AddCheck(copies, copies[c].arr, Id(f), "error") /\ done("failure")
  BY DEF RequestDone
<1>2. /\ stack[t] # <<>> /\ f.fn = "step" /\ f.stage = "calling" /\ f \in Frames
      /\ c \in 1 .. Len(copies) /\ copies[c] \in Copies /\ c \in Nat \ {0}
      /\ Id(f) \in StepIds /\ f.act \in Nat \ {0} /\ CopiesOK(copies)
  BY <1>1, InStep
<1>3. /\ copies \in Seq(Copies) /\ checks \in [StepIds -> SUBSET Kinds]
      /\ "error" \in Kinds /\ "failed" \in Kinds
  BY DEF RunInv, TypeOK, Kinds
<1>4. Filled /\ \E kind \in {"failure", "success"} : done(kind)
  <2>1. CASE copies' = [ copies EXCEPT ![c].arr = c ] /\ UNCHANGED checks /\ done("success")
    <3> DEFINE k == [ copies[c] EXCEPT !.arr = c ]
    <3> HIDE DEF f, c, done
    <3>1. k \in Copies /\ k.of = copies[c].of /\ k.step = copies[c].step
      BY <1>2 DEF Copies
    <3>2. copies' = [copies EXCEPT ![c] = k]
      BY <1>2, <1>3, <2>1
    <3> HIDE DEF k
    <3>3. Filled
      BY <1>2, <2>1, <3>1, <3>2, FillTop
    <3> QED
      BY <2>1, <3>3
  <2>2. CASE copies' = [ copies EXCEPT ![c].arr = c, ![c].own = {"failed"} ] /\ UNCHANGED checks /\ done("failure")
    <3> DEFINE k == [ copies[c] EXCEPT !.arr = c, !.own = {"failed"} ]
    <3> HIDE DEF f, c, done
    <3>1. k \in Copies /\ k.of = copies[c].of /\ k.step = copies[c].step
      BY <1>2, <1>3 DEF Copies
    <3>2. copies' = [copies EXCEPT ![c] = k]
      BY <1>2, <1>3, <2>2
    <3> HIDE DEF k
    <3>3. Filled
      BY <1>2, <2>2, <3>1, <3>2, FillTop
    <3> QED
      BY <2>2, <3>3
  <2>3. CASE AddCheck(copies, copies[c].arr, Id(f), "error") /\ done("failure")
    <3> HIDE DEF f, c, done
    <3>1. CopiesOK(copies') /\ Kept(copies, copies') /\ checks' \in [StepIds -> SUBSET Kinds]
      BY <1>2, <1>3, <2>3, CheckAdded
    <3> QED
      BY <2>3, <3>1 DEF Filled
  <2> HIDE DEF f, c, done
  <2> QED
    BY <1>1, <2>1, <2>2, <2>3
<1>5. PICK kind \in {"failure", "success"} : done(kind)
  BY <1>4
<1>6. Stay(t, Acts(f, "acting", kind, f.act))
  <2>1. Stay(t, [ f EXCEPT !.stage = "acting", !.kind = kind ])
    BY <1>5
  <2> HIDE DEF f
  <2>2. [ f EXCEPT !.stage = "acting", !.kind = kind ] = Acts(f, "acting", kind, f.act)
    BY <1>2 DEF Acts, Frames
  <2> QED
    BY <2>1, <2>2
<1>7. Moved(t)
  <2>1. f.stage # "start"
    BY <1>2
  <2> QED
    BY <1>2, <1>4, <1>6, <2>1, StayActs
<1> QED
  BY <1>1, <1>4, <1>7 DEF ThreadStep, Typed, RunInv, TypeOK

\* A step that returns.
LEMMA ReturnStep ==
  ASSUME RunInv, NEW t \in Threads, stack[t] # <<>>, Top(t).fn = "step", Filled,
         NEW end \in BOOLEAN, Return(t, end), lists' \in Seq(Nat),
         UNCHANGED <<plan, count, requests, late, threw, at, pending, phase, results>>
  PROVE  ThreadStep(t)
<1>1. Moved(t) /\ ret' \in [Threads -> Returned]
  BY ReturnGood
<1> QED
  BY <1>1 DEF ThreadStep, Typed, RunInv, TypeOK

LEMMA NoMoreActionsGood == ASSUME RunInv, NEW t \in Threads, NoMoreActions(t) PROVE ThreadStep(t)
<1>1. stack[t] # <<>> /\ Top(t).fn = "step"
  BY InStep DEF NoMoreActions
<1>2. Filled
  BY NoCopies DEF NoMoreActions
<1>3. (Top(t).kind = "failure") \in BOOLEAN
  OBVIOUS
<1> QED
  BY <1>1, <1>2, <1>3, ReturnStep DEF NoMoreActions, RunInv, TypeOK

LEMMA EndActionGood == ASSUME RunInv, NEW t \in Threads, EndAction(t) PROVE ThreadStep(t)
<1>1. stack[t] # <<>> /\ Top(t).fn = "step"
  BY InStep DEF EndAction, Matched, Acting
<1>2. Filled
  BY NoCopies DEF EndAction
<1> QED
  BY <1>1, <1>2, ReturnStep DEF EndAction, RunInv, TypeOK

LEMMA GoneGood == ASSUME RunInv, NEW t \in Threads, Gone(t) PROVE ThreadStep(t)
<1>1. stack[t] # <<>> /\ Top(t).fn = "step" /\ Top(t).list \in Nat
  BY InStep DEF Gone
<1>2. Filled
  BY NoCopies DEF Gone
<1>3. lists' \in Seq(Nat)
  BY <1>1, ListSet DEF Gone
<1> QED
  BY <1>1, <1>2, <1>3, ReturnStep DEF Gone

LEMMA UnmatchedGood == ASSUME RunInv, NEW t \in Threads, Unmatched(t) PROVE ThreadStep(t)
<1> DEFINE f == Top(t)
<1>1. InStage(t, "acting")
  BY DEF Unmatched, Acting
<1>2. stack[t] # <<>> /\ f.fn = "step" /\ f.stage = "acting" /\ f \in Frames /\ f.act \in Nat \ {0}
  BY <1>1, InStep
<1>3. Filled
  BY NoCopies DEF Unmatched
<1>4. Stay(t, [ f EXCEPT !.act = @ + 1 ])
  BY DEF Unmatched
<1>5. Moved(t)
  <2>1. f.kind \in {"failure", "success"} /\ f.act + 1 \in Nat \ {0} /\ f.stage # "start"
    BY <1>2 DEF Frames
  <2>2. [ f EXCEPT !.act = @ + 1 ] = Acts(f, "acting", f.kind, f.act + 1)
    <3> HIDE DEF f
    <3> QED
      BY <1>2 DEF Acts, Frames
  <2>3. Stay(t, Acts(f, "acting", f.kind, f.act + 1))
    BY <1>4, <2>2
  <2> QED
    BY <1>2, <1>3, <2>1, <2>3, StayActs
<1> QED
  BY <1>3, <1>5 DEF ThreadStep, Typed, Unmatched, RunInv, TypeOK

------------------------------------------------------------------------------
(* The retry and goto actions. *)

\* A step that fails with an action error is registered and ends the workflow.
LEMMA FailStepGood ==
  ASSUME RunInv, NEW t \in Threads, InStage(t, "acting"), NEW made, CopiesOK(made), Kept(copies, made),
         Len(made) = Len(copies), FailStep(t, made)
  PROVE  ThreadStep(t)
<1> DEFINE f == Top(t)
           c == f.copy
           k == [ made[c] EXCEPT !.list = f.list ]
<1>1. /\ stack[t] # <<>> /\ f.fn = "step" /\ f \in Frames
      /\ c \in 1 .. Len(copies) /\ Id(f) \in StepIds /\ f.list \in Nat
  BY InStep
<1>2. /\ AddCheck([ made EXCEPT ![c].list = f.list ], copies[c].arr, Id(f), "action")
      /\ Return(t, TRUE)
      /\ UNCHANGED <<plan, count, requests, late, lists, threw, at, pending, phase, results>>
  BY DEF FailStep
<1>3. /\ copies \in Seq(Copies) /\ made \in Seq(Copies) /\ checks \in [StepIds -> SUBSET Kinds] /\ "action" \in Kinds
      /\ lists \in Seq(Nat)
  BY DEF RunInv, TypeOK, Kinds, CopiesOK
<1> HIDE DEF f, c
<1>4. c \in 1 .. Len(made) /\ made[c] \in Copies
  BY <1>1, <1>3
<1>5. k \in Copies /\ k.of = made[c].of /\ k.step = made[c].step
  BY <1>1, <1>4 DEF Copies
<1>6. [ made EXCEPT ![c].list = f.list ] = [made EXCEPT ![c] = k]
  BY <1>3, <1>4
<1> HIDE DEF k
<1>7. PICK filled : filled = [made EXCEPT ![c] = k]
  OBVIOUS
<1>8. CopiesOK(filled) /\ Kept(made, filled)
  BY <1>4, <1>5, <1>7, FillOne
<1>9. AddCheck(filled, copies[c].arr, Id(f), "action")
  BY <1>2, <1>6, <1>7
<1>10. CopiesOK(copies') /\ Kept(filled, copies') /\ checks' \in [StepIds -> SUBSET Kinds]
  BY <1>1, <1>3, <1>8, <1>9, CheckAdded
<1>11. filled \in Seq(Copies) /\ copies' \in Seq(Copies)
  BY <1>8, <1>10 DEF CopiesOK
<1>12. Len(filled) \in Nat /\ Len(copies') \in Nat
  BY <1>11, LenProperties
<1>13. Kept(made, copies')
  BY <1>3, <1>8, <1>10, <1>11, <1>12, KeptTwice
<1>14. Kept(copies, copies')
  BY <1>3, <1>12, <1>13, KeptTwice
<1>15. Filled
  BY <1>10, <1>14 DEF Filled
<1> QED
  BY <1>1, <1>2, <1>3, <1>15, ReturnStep DEF f

LEMMA FailAsIs ==
  ASSUME RunInv, NEW t \in Threads, InStage(t, "acting"), FailStep(t, copies)
  PROVE  ThreadStep(t)
<1>1. CopiesOK(copies) /\ copies \in Seq(Copies)
  BY DEF RunInv, TypeOK
<1>2. Kept(copies, copies)
  BY <1>1, KeptSame
<1> QED
  BY <1>1, <1>2, FailStepGood

LEMMA BrokenActionGood == ASSUME RunInv, NEW t \in Threads, BrokenAction(t) PROVE ThreadStep(t)
<1>1. InStage(t, "acting") /\ FailStep(t, copies)
  BY DEF BrokenAction, Acting
<1> QED
  BY <1>1, FailAsIs

LEMMA GotoFailsGood == ASSUME RunInv, NEW t \in Threads, GotoFails(t) PROVE ThreadStep(t)
<1>1. InStage(t, "acting") /\ FailStep(t, copies)
  BY DEF GotoFails, Matched, Acting
<1> QED
  BY <1>1, FailAsIs

\* The retries left, recorded in the copy of the step.
LEMMA AtRetry ==
  ASSUME RunInv, NEW t \in Threads, Matched(t, "retry")
  PROVE  /\ InStage(t, "acting")
         /\ Top(t).kind = "failure" /\ Top(t).act \in DOMAIN Def(Top(t)).failure
         /\ Action(t) = Def(Top(t)).failure[Top(t).act] /\ Action(t) \in Actions
         /\ Left(t) \in Nat
         /\ Left(t) > 0 => /\ Left(t) = Top(t).tries[Top(t).act]
                           /\ HasTarget(Action(t)) => Id(Top(t)) \notin Top(t).retrying
         /\ CopiesOK(WithLeft(t)) /\ Kept(copies, WithLeft(t)) /\ Len(WithLeft(t)) = Len(copies)
         /\ copies' = WithLeft(t) /\ UNCHANGED checks => Filled
<1> DEFINE f == Top(t)
           c == f.copy
           k == [ copies[c] EXCEPT !.left = Left(t) ]
<1>1. InStage(t, "acting")
  BY DEF Matched, Acting
<1>2. /\ f.kind = "failure" /\ f.act \in DOMAIN Def(f).failure /\ Action(t) = Def(f).failure[f.act]
  BY RetryIsFailure
<1>3. /\ stack[t] # <<>> /\ f.fn = "step" /\ GoodFrame(copies, f) /\ f \in Frames
      /\ c \in 1 .. Len(copies) /\ copies[c] \in Copies
      /\ plan \in Plans /\ CopiesOK(copies)
  BY <1>1, InStep
<1>4. /\ Def(f).failure \in Seq(Actions) /\ f.tries \in Seq(Nat) /\ Len(f.tries) = Len(Def(f).failure)
  BY <1>3, StepFacts
<1>5. Left(t) = IF HasTarget(Action(t)) /\ Id(f) \in f.retrying THEN 0 ELSE f.tries[f.act]
  BY DEF Left
<1>6. copies \in Seq(Copies) /\ checks \in [StepIds -> SUBSET Kinds]
  BY DEF RunInv, TypeOK
<1>7. WithLeft(t) = [ copies EXCEPT ![c].left = Left(t) ]
  BY DEF WithLeft
<1> HIDE DEF f, c
<1>8. Action(t) \in Actions /\ f.tries[f.act] \in Nat
  BY <1>2, <1>4
<1>9. /\ Left(t) \in Nat
      /\ Left(t) > 0 => Left(t) = f.tries[f.act] /\ (HasTarget(Action(t)) => Id(f) \notin f.retrying)
  BY <1>5, <1>8
<1>10. k \in Copies /\ k.of = copies[c].of /\ k.step = copies[c].step
  BY <1>3, <1>9 DEF Copies
<1>11. WithLeft(t) = [copies EXCEPT ![c] = k]
  BY <1>3, <1>6, <1>7
<1> HIDE DEF k
<1>12. CopiesOK(WithLeft(t)) /\ Kept(copies, WithLeft(t)) /\ Len(WithLeft(t)) = Len(copies)
  <2>1. /\ CopiesOK([copies EXCEPT ![c] = k]) /\ Kept(copies, [copies EXCEPT ![c] = k])
        /\ Len([copies EXCEPT ![c] = k]) = Len(copies)
    BY <1>3, <1>10, FillOne
  <2> QED
    BY <1>11, <2>1
<1>13. copies' = WithLeft(t) /\ UNCHANGED checks => Filled
  BY <1>6, <1>12 DEF Filled
<1> QED
  BY <1>1, <1>2, <1>8, <1>9, <1>12, <1>13 DEF f

LEMMA OutOfRetriesGood == ASSUME RunInv, NEW t \in Threads, OutOfRetries(t) PROVE ThreadStep(t)
<1> DEFINE f == Top(t)
<1>1. Matched(t, "retry") /\ copies' = WithLeft(t) /\ UNCHANGED checks /\ Stay(t, [ f EXCEPT !.act = @ + 1 ])
  BY DEF OutOfRetries
<1>2. InStage(t, "acting") /\ Filled
  BY <1>1, AtRetry
<1>3. stack[t] # <<>> /\ f.fn = "step" /\ f.stage = "acting" /\ f \in Frames /\ f.act \in Nat \ {0}
  BY <1>2, InStep
<1>4. Moved(t)
  <2>1. f.kind \in {"failure", "success"} /\ f.act + 1 \in Nat \ {0} /\ f.stage # "start"
    BY <1>3 DEF Frames
  <2>2. [ f EXCEPT !.act = @ + 1 ] = Acts(f, "acting", f.kind, f.act + 1)
    <3> HIDE DEF f
    <3> QED
      BY <1>3 DEF Acts, Frames
  <2>3. Stay(t, Acts(f, "acting", f.kind, f.act + 1))
    BY <1>1, <2>2
  <2> QED
    BY <1>2, <1>3, <2>1, <2>3, StayActs
<1> QED
  BY <1>2, <1>4 DEF ThreadStep, Typed, OutOfRetries, RunInv, TypeOK

\* A step that is run again.
LEMMA StayAgain ==
  ASSUME RunInv, NEW t \in Threads, stack[t] # <<>>, Top(t).fn = "step", Top(t).stage # "start",
         Top(t).kind = "failure", Top(t).act \in DOMAIN Def(Top(t)).failure,
         Left(t) = Top(t).tries[Top(t).act], Left(t) > 0, Filled, Stay(t, Again(t, copies))
  PROVE  Moved(t)
<1>1. /\ GoodFrame(copies, Again(t, copies))
      /\ Again(t, copies).fn = "step" /\ Again(t, copies).retrying = Top(t).retrying
  BY AgainGood
<1>2. GoodFrame(copies', Again(t, copies))
  BY <1>1, StacksKept DEF Filled, RunInv
<1> QED
  BY <1>1, <1>2, StayGood

LEMMA RetryStepGood == ASSUME RunInv, NEW t \in Threads, RetryStep(t) PROVE ThreadStep(t)
<1>1. /\ Matched(t, "retry") /\ Left(t) > 0 /\ copies' = WithLeft(t) /\ UNCHANGED checks
      /\ Stay(t, Again(t, copies))
  BY DEF RetryStep
<1>2. /\ InStage(t, "acting") /\ Filled /\ Top(t).kind = "failure"
      /\ Top(t).act \in DOMAIN Def(Top(t)).failure /\ Left(t) = Top(t).tries[Top(t).act]
  BY <1>1, AtRetry
<1>3. stack[t] # <<>> /\ Top(t).fn = "step" /\ Top(t).stage = "acting"
  BY <1>2, InStep
<1>4. Moved(t)
  BY <1>1, <1>2, <1>3, StayAgain
<1> QED
  BY <1>2, <1>4 DEF ThreadStep, Typed, RetryStep, RunInv, TypeOK

LEMMA RetryFailsGood == ASSUME RunInv, NEW t \in Threads, RetryFails(t) PROVE ThreadStep(t)
<1>1. Matched(t, "retry") /\ FailStep(t, WithLeft(t))
  BY DEF RetryFails
<1>2. InStage(t, "acting") /\ CopiesOK(WithLeft(t)) /\ Kept(copies, WithLeft(t)) /\ Len(WithLeft(t)) = Len(copies)
  BY <1>1, AtRetry
<1> QED
  BY <1>1, <1>2, FailStepGood

\* The target of a retry is run inside of it.
LEMMA RetryTargetGood == ASSUME RunInv, NEW t \in Threads, RetryTarget(t) PROVE ThreadStep(t)
<1> DEFINE f  == Top(t)
           a  == Action(t)
           by == f.retrying \cup {Id(f)}
           g  == Acts(f, "retried", f.kind, f.act)
           h  == IF a.workflow # None
                 THEN RunWorkflow(a.workflow, 1, NewList, Left(t) - 1, by)
                 ELSE RunStep(f.w, a.step, NewList, 0, by)
<1>1. /\ Matched(t, "retry") /\ Left(t) > 0 /\ HasTarget(a) /\ (a.step # 0 => StepKnown(t, a))
      /\ copies' = WithLeft(t) /\ lists' = Append(lists, 0) /\ Call(t, [ f EXCEPT !.stage = "retried" ], h)
      /\ UNCHANGED <<plan, count, requests, late, checks, ret, threw, at, pending, phase, results>>
  BY DEF RetryTarget
<1>2. /\ InStage(t, "acting") /\ Filled /\ f.kind = "failure" /\ f.act \in DOMAIN Def(f).failure
      /\ a = Def(f).failure[f.act] /\ a \in Actions /\ Left(t) \in Nat
      /\ Left(t) = f.tries[f.act] /\ Id(f) \notin f.retrying
  BY <1>1, AtRetry
<1>3. /\ stack[t] # <<>> /\ f.fn = "step" /\ f.stage = "acting" /\ f \in Frames /\ f.act \in Nat \ {0}
      /\ Id(f) \in StepIds /\ plan \in Plans
  BY <1>2, InStep
<1>4. f.w \in Workflows /\ f.retrying \subseteq StepIds /\ f.kind \in {"failure", "success"}
  BY <1>3 DEF Frames
<1>5. GoodFrame(copies', f) /\ CopiesOK(copies')
  <2>1. GoodFrame(copies, f)
    BY <1>3, TopGood
  <2> QED
    BY <1>2, <2>1, StacksKept DEF Filled, RunInv
<1>6. [ f EXCEPT !.stage = "retried" ] = g
  <2> HIDE DEF f
  <2> QED
    BY <1>3 DEF Acts, Frames
<1>7. MayRetry(g)
  <2>1. g.kind = f.kind /\ g.act = f.act /\ g.tries = f.tries /\ g.retrying = f.retrying /\ g.w = f.w /\ g.pos = f.pos
    <3> HIDE DEF f
    <3> QED
      BY <1>3 DEF Acts, Frames
  <2> HIDE DEF f, g
  <2>2. Def(g) = Def(f) /\ Id(g) = Id(f)
    BY <2>1 DEF Def, Id
  <2> QED
    BY <1>1, <1>2, <2>1, <2>2 DEF MayRetry
<1>8. GoodFrame(copies', g) /\ g.fn = "step" /\ g.retrying = f.retrying /\ g.stage = "retried" /\ Id(g) = Id(f)
  <2> HIDE DEF f
  <2>1. f.stage # "start"
    BY <1>3
  <2> QED
    BY <1>3, <1>4, <1>5, <1>7, <2>1, ActsGood
<1>9. Append(lists, 0) \in Seq(Nat) /\ NewList \in Nat
  BY NewListIs
<1>10. by \in SUBSET StepIds
  BY <1>3, <1>4
<1>11. GoodFrame(copies', h) /\ h.retrying = by
  <2>1. CASE a.workflow # None
    <3>1. a.workflow \in Workflows
      <4>1. a.workflow # Missing
        BY <1>1 DEF Matched
      <4> QED
        BY <1>2, <2>1, <4>1 DEF Actions
    <3>2. Left(t) - 1 \in Nat
      BY <1>1, <1>2
    <3> HIDE DEF by, a
    <3>4. PICK left \in Nat : left = Left(t) - 1
      BY <3>2
    <3>5. 1 \in Nat \ {0}
      OBVIOUS
    <3>3. /\ GoodFrame(copies', RunWorkflow(a.workflow, 1, NewList, Left(t) - 1, by))
          /\ RunWorkflow(a.workflow, 1, NewList, Left(t) - 1, by).retrying = by
      <4>1. /\ GoodFrame(copies', RunWorkflow(a.workflow, 1, NewList, left, by))
            /\ RunWorkflow(a.workflow, 1, NewList, left, by).retrying = by
        BY <1>9, <1>10, <3>1, <3>5, RunWorkflowGood
      <4> QED
        BY <3>4, <4>1
    <3> QED
      BY <2>1, <3>3
  <2>2. CASE a.workflow = None
    <3>1. a.step \in DOMAIN Steps(f.w)
      BY <1>1, <2>2 DEF HasTarget, StepKnown
    <3> HIDE DEF by
    <3>2. /\ GoodFrame(copies', RunStep(f.w, a.step, NewList, 0, by))
          /\ RunStep(f.w, a.step, NewList, 0, by).retrying = by
      BY <1>3, <1>4, <1>5, <1>9, <1>10, <3>1, RunStepGood
    <3> QED
      BY <2>2, <3>2
  <2> QED
    BY <2>1, <2>2
<1>12. f.fn = Top(t).fn /\ f.retrying = Top(t).retrying
  OBVIOUS
<1>13. g.retrying \cup {Id(g)} \subseteq h.retrying
  BY <1>8, <1>11
<1> HIDE DEF f, g, h
<1>14. Open(g)
  BY <1>8 DEF Open
<1>15. Moved(t)
  BY <1>1, <1>2, <1>3, <1>6, <1>8, <1>11, <1>12, <1>13, <1>14, CallGood
<1> QED
  BY <1>1, <1>2, <1>9, <1>15 DEF ThreadStep, Typed, RunInv, TypeOK

LEMMA RetriedGood == ASSUME RunInv, NEW t \in Threads, Retried(t) PROVE ThreadStep(t)
<1> DEFINE f == Top(t)
<1>1. InStage(t, "retried") /\ Stay(t, Again(t, copies))
  BY DEF Retried
<1>2. stack[t] # <<>> /\ f.fn = "step" /\ f.stage = "retried" /\ GoodFrame(copies, f) /\ f.list \in Nat
  BY <1>1, InStep
<1>3. MayRetry(f)
  BY <1>2 DEF GoodFrame, GoodStep
<1>4. Action(t) = Def(f).failure[f.act]
  BY <1>3 DEF Action, ActionsOf, MayRetry
<1>5. Left(t) = f.tries[f.act] /\ Left(t) > 0
  BY <1>3, <1>4 DEF Left, MayRetry
<1>6. Filled
  BY NoCopies DEF Retried
<1>7. Moved(t)
  <2>1. f.stage # "start" /\ f.kind = "failure" /\ f.act \in DOMAIN Def(f).failure
    BY <1>2, <1>3 DEF MayRetry
  <2> QED
    BY <1>1, <1>2, <1>5, <1>6, <2>1, StayAgain
<1>8. lists' \in Seq(Nat)
  <2>1. [ lists EXCEPT ![ret[t].list] = f.list ] \in Seq(Nat) /\ lists \in Seq(Nat)
    BY <1>2, ListSet DEF RunInv, TypeOK
  <2> QED
    BY <2>1 DEF Retried
<1> QED
  BY <1>6, <1>7, <1>8 DEF ThreadStep, Typed, Retried, RunInv, TypeOK

LEMMA GotoGood == ASSUME RunInv, NEW t \in Threads, Goto(t) PROVE ThreadStep(t)
<1> DEFINE f == Top(t)
           a == Action(t)
           g == Acts(f, "gone", f.kind, f.act)
           w == IF a.workflow # None THEN a.workflow ELSE f.w
           h == RunWorkflow(w, From(t, a), NewList, 0, {})
<1>1. /\ Matched(t, "goto") /\ lists' = Append(lists, 0) /\ Call(t, [ f EXCEPT !.stage = "gone" ], h)
      /\ UNCHANGED <<plan, count, requests, late, copies, checks, ret, threw, at, pending, phase, results>>
  BY DEF Goto
<1>2. InStage(t, "acting") /\ Acting(t)
  BY <1>1 DEF Matched, Acting
<1>3. /\ stack[t] # <<>> /\ f.fn = "step" /\ f.stage = "acting" /\ f \in Frames /\ f.act \in Nat \ {0}
      /\ plan \in Plans /\ GoodFrame(copies, f) /\ CopiesOK(copies)
  BY <1>2, InStep
<1>4. f.w \in Workflows /\ f.kind \in {"failure", "success"} /\ f.retrying \subseteq StepIds
  BY <1>3 DEF Frames
<1>5. Filled
  BY NoCopies DEF Goto
<1>6. GoodFrame(copies', f) /\ CopiesOK(copies')
  BY <1>3, <1>5, StacksKept DEF Filled
<1>7. [ f EXCEPT !.stage = "gone" ] = g
  <2> HIDE DEF f
  <2> QED
    BY <1>3 DEF Acts, Frames
<1>8. GoodFrame(copies', g) /\ g.fn = "step" /\ g.retrying = f.retrying /\ g.stage = "gone"
  <2> HIDE DEF f
  <2>1. f.stage # "start"
    BY <1>3
  <2> QED
    BY <1>3, <1>4, <1>6, <2>1, ActsGood
<1>9. Append(lists, 0) \in Seq(Nat) /\ NewList \in Nat
  BY NewListIs
<1>10. a \in Actions
  <2>1. /\ Def(f).failure \in Seq(Actions) /\ Def(f).success \in Seq({ b \in Actions : b.type # "retry" })
    BY <1>3, StepFacts
  <2>2. ActionsOf(f) \in Seq(Actions)
    <3>1. Def(f).success \in Seq(Actions)
      <4>1. \A s \in Seq({ b \in Actions : b.type # "retry" }) : s \in Seq(Actions)
        OBVIOUS
      <4> QED
        BY <2>1, <4>1
    <3> QED
      BY <2>1, <3>1 DEF ActionsOf
  <2>3. f.act <= Len(ActionsOf(f)) /\ a = ActionsOf(f)[f.act]
    BY <1>2 DEF Acting, Action
  <2> HIDE DEF f, a
  <2>4. f.act \in 1 .. Len(ActionsOf(f))
    BY <1>3, <2>2, <2>3
  <2> QED
    BY <2>2, <2>3, <2>4
<1>11. w \in Workflows /\ From(t, a) \in Nat \ {0}
  <2>1. a.workflow # Missing
    BY <1>1 DEF Matched
  <2>2. a.workflow \in Workflows \cup {None, Missing}
    BY <1>10 DEF Actions
  <2>3. w \in Workflows
    BY <1>4, <2>1, <2>2
  <2>4. Len(Steps(f.w)) \in Nat \ {0} /\ \A k \in DOMAIN Steps(f.w) : k \in Nat \ {0}
    BY <1>3, <1>4, PlanTypes, Constants
  <2>5. From(t, a) \in Nat \ {0}
    BY <2>4 DEF From, StepKnown
  <2> QED
    BY <2>3, <2>5
<1>12. GoodFrame(copies', h)
  <2> HIDE DEF w, a
  <2>1. {} \in SUBSET StepIds /\ 0 \in Nat
    OBVIOUS
  <2> QED
    BY <1>9, <1>11, <2>1, RunWorkflowGood
<1>13. f.fn = Top(t).fn /\ f.retrying = Top(t).retrying
  OBVIOUS
<1> HIDE DEF f, g, h
<1>14. Open(g)
  BY <1>8 DEF Open
<1>15. Moved(t)
  BY <1>1, <1>3, <1>5, <1>7, <1>8, <1>12, <1>13, <1>14, CallGood
<1> QED
  BY <1>1, <1>5, <1>9, <1>15 DEF ThreadStep, Typed, RunInv, TypeOK

LEMMA ThreadSteps ==
  ASSUME RunInv, NEW t \in Threads, Workflow(t) \/ Step(t) \/ Act(t)
  PROVE  ThreadStep(t)
<1>1. CASE Workflow(t)
  BY <1>1, NextStepGood, FinishGood, OutputsThrowGood DEF Workflow
<1>2. CASE Step(t)
  BY <1>2, StartBrokenGood, StartChildGood, StartMissingGood, ChildDoneGood, OverLimitGood, TimedOutGood,
     StartThrowsGood, RequestGood, RequestDoneGood DEF Step
<1>3. CASE Act(t)
  BY <1>3, NoMoreActionsGood, UnmatchedGood, BrokenActionGood, OutOfRetriesGood, RetryStepGood,
     RetryFailsGood, RetryTargetGood, RetriedGood, EndActionGood, GotoFailsGood, GotoGood, GoneGood DEF Act
<1> QED
  BY <1>1, <1>2, <1>3

------------------------------------------------------------------------------
(* What the runner promises of types and retries. *)

LEMMA CopiesKept == ASSUME plan' = plan, CopiesOK(copies') PROVE CopiesOK(copies)'
BY DEF CopiesOK, Ordered, StepOf, Steps, AttemptsIn, Limits

\* What is said of calls does not depend on anything but the description.
LEMMA GoodStackKept ==
  ASSUME plan' = plan, NEW u, GoodStack(copies', stack'[u])
  PROVE  GoodStack(copies, stack[u])'
<1>1. \A f : Open(f)' <=> Open(f)
  BY DEF Open, Steps
<1>2. \A f : MayRetry(f)' <=> MayRetry(f)
  BY DEF MayRetry, Def, Steps, Id, HasTarget
<1>3. \A f : Budget(copies, f)' <=> Budget(copies', f)
  BY DEF Budget, Def, Steps, AttemptsIn, Sum, Limits
<1>4. \A f : GoodStep(copies, f)' <=> GoodStep(copies', f)
  BY <1>2, <1>3 DEF GoodStep, Def, Steps
<1>5. \A f : GoodFrame(copies, f)' <=> GoodFrame(copies', f)
  BY <1>4 DEF GoodFrame
<1> QED
  BY <1>1, <1>5 DEF GoodStack, Within, Upto, Id

\* A step of one thread leaves the calls of the others as they are.
LEMMA ThreadKeeps == ASSUME RunInv, NEW t \in Threads, ThreadStep(t) PROVE RunInv'
<1>1. /\ CopiesOK(copies) /\ CopiesOK(copies') /\ Kept(copies, copies')
      /\ checks' \in [StepIds -> SUBSET Kinds] /\ plan' = plan
  BY DEF RunInv, ThreadStep, Filled, Typed
<1>2. PICK s : GoodStack(copies', s) /\ stack' = [ stack EXCEPT ![t] = s ]
  BY DEF ThreadStep, Moved
<1>3. stack \in [Threads -> Seq(Frames)] /\ s \in Seq(Frames)
  BY <1>2 DEF RunInv, TypeOK, GoodStack
<1>4. stack' \in [Threads -> Seq(Frames)]
  BY <1>2, <1>3
<1>5. ASSUME NEW u \in Threads PROVE GoodStack(copies', stack'[u])
  <2>1. CASE u = t
    BY <1>2, <1>3, <2>1
  <2>2. CASE u # t
    <3>1. GoodStack(copies', stack[u])
      BY <1>1, StacksKept DEF RunInv
    <3> QED
      BY <1>2, <1>3, <2>2, <3>1
  <2> QED
    BY <2>1, <2>2
<1>6. TypeOK'
  <2>1. copies' \in Seq(Copies)
    BY <1>1 DEF CopiesOK
  <2> QED
    BY <1>1, <1>4, <2>1 DEF ThreadStep, Typed, RunInv, TypeOK
<1>7. PhaseOK'
  BY DEF ThreadStep, Typed, RunInv, PhaseOK
<1>8. CopiesOK(copies)'
  BY <1>1, CopiesKept
<1>9. ASSUME NEW u \in Threads PROVE GoodStack(copies, stack[u])'
  BY <1>1, <1>5, GoodStackKept
<1> QED
  BY <1>6, <1>7, <1>8, <1>9 DEF RunInv

\* Only a workflow is run when a thread begins.
LEMMA RunGood ==
  ASSUME RunInv, NEW t \in Threads, NEW w \in Workflows, Run(t, w), UNCHANGED <<copies, checks>>
  PROVE  Filled /\ Moved(t) /\ lists' \in Seq(Nat)
<1> DEFINE h == RunWorkflow(w, 1, NewList, 0, {})
<1>1. Append(lists, 0) \in Seq(Nat) /\ NewList \in Nat
  BY NewListIs
<1>2. lists' = Append(lists, 0) /\ stack' = [ stack EXCEPT ![t] = <<h>> ]
  BY DEF Run
<1>3. Filled
  BY NoCopies
<1>4. GoodFrame(copies', h) /\ h.fn = "workflow"
  <2>1. {} \in SUBSET StepIds /\ 1 \in Nat \ {0} /\ 0 \in Nat
    OBVIOUS
  <2> QED
    BY <1>1, <2>1, RunWorkflowGood
<1> HIDE DEF h
<1>5. <<h>> \in Seq(Frames) /\ Len(<<h>>) = 1 /\ <<h>>[1] = h
  BY <1>4 DEF GoodFrame
<1>6. Within(Upto(<<h>>, 0), h)
  <2>1. 0 \in 0 .. Len(<<h>>)
    BY <1>5
  <2>2. Len(Upto(<<h>>, 0)) = 0
    BY <1>5, <2>1, UptoIs
  <2> QED
    BY <2>2 DEF Within
<1>7. GoodStack(copies', <<h>>)
  BY <1>4, <1>5, <1>6 DEF GoodStack
<1> QED
  BY <1>1, <1>2, <1>3, <1>7 DEF Moved

\* What runWorkflows does while the threads stay as they are.
LEMMA FlowKeeps ==
  ASSUME RunInv, UNCHANGED <<plan, copies, checks>>,
         stack' = stack \/ \E t \in Threads : \E s : GoodStack(copies', s) /\ stack' = [ stack EXCEPT ![t] = s ],
         TypeOK', PhaseOK'
  PROVE  RunInv'
<1>1. CopiesOK(copies)'
  <2>1. CopiesOK(copies')
    BY DEF RunInv
  <2> QED
    BY <2>1, CopiesKept
<1>2. ASSUME NEW u \in Threads PROVE GoodStack(copies', stack'[u])
  <2>1. GoodStack(copies', stack[u])
    BY DEF RunInv
  <2>2. stack \in [Threads -> Seq(Frames)]
    BY DEF RunInv, TypeOK
  <2>3. CASE stack' = stack
    BY <2>1, <2>3
  <2>4. CASE stack' # stack
    <3>1. PICK t \in Threads : \E s : GoodStack(copies', s) /\ stack' = [ stack EXCEPT ![t] = s ]
      BY <2>4
    <3>2. PICK s : GoodStack(copies', s) /\ stack' = [ stack EXCEPT ![t] = s ]
      BY <3>1
    <3>3. stack'[u] = IF u = t THEN s ELSE stack[u]
      BY <2>2, <3>2
    <3> QED
      BY <2>1, <3>2, <3>3
  <2> QED
    BY <2>3, <2>4
<1>3. ASSUME NEW u \in Threads PROVE GoodStack(copies, stack[u])'
  BY <1>2, GoodStackKept
<1> QED
  BY <1>1, <1>3 DEF RunInv

\* A workflow that begins, in the thread it begins in.
LEMMA BeginKeeps ==
  ASSUME RunInv, NEW t \in Threads, NEW w \in Workflows, Run(t, w),
         UNCHANGED <<plan, copies, checks, count, requests, late, ret, threw>>,
         at' \in Nat \ {0}, pending' \subseteq Workflows, results' \in Seq(Results),
         phase' \in {"next", "depending", "running", "done", "aborted"}, PhaseOK'
  PROVE  RunInv'
<1>1. Moved(t) /\ lists' \in Seq(Nat)
  BY RunGood
<1>2. PICK s : GoodStack(copies', s) /\ stack' = [ stack EXCEPT ![t] = s ]
  BY <1>1 DEF Moved
<1>3. stack \in [Threads -> Seq(Frames)] /\ s \in Seq(Frames)
  BY <1>2 DEF RunInv, TypeOK, GoodStack
<1>4. stack' \in [Threads -> Seq(Frames)]
  BY <1>2, <1>3
<1>5. TypeOK'
  BY <1>1, <1>4 DEF RunInv, TypeOK
<1> QED
  BY <1>2, <1>5, FlowKeeps

\* A step of runWorkflows that begins no workflow.
LEMMA RestKeeps ==
  ASSUME RunInv,
         UNCHANGED <<plan, copies, checks, count, requests, lists, stack, ret, threw>>, late' \in BOOLEAN,
         at' \in Nat \ {0}, pending' \subseteq Workflows, results' \in Seq(Results),
         phase' \in {"next", "depending", "running", "done", "aborted"}, PhaseOK'
  PROVE  RunInv'
<1>1. TypeOK'
  BY DEF RunInv, TypeOK
<1> QED
  BY <1>1, FlowKeeps

\* The workflow that runWorkflows is at, and what it depends on.
LEMMA CurrentIs ==
  ASSUME RunInv, at <= Len(plan.order)
  PROVE  /\ Current \in Workflows /\ Needs \subseteq Workflows \cup {Missing}
         /\ at + 1 \in Nat \ {0} /\ Append(results, Result(Current, 0, TRUE, FALSE)) \in Seq(Results)
<1>1. plan \in Plans /\ at \in Nat \ {0} /\ results \in Seq(Results)
  BY DEF RunInv, TypeOK
<1>2. plan.order \in Seq(Workflows)
  BY <1>1, PlanTypes
<1>3. Current \in Workflows
  BY <1>1, <1>2 DEF Current
<1>4. Needs \subseteq Workflows \cup {Missing}
  BY <1>1, <1>3, PlanTypes DEF Needs
<1>5. Result(Current, 0, TRUE, FALSE) \in Results
  BY <1>3 DEF Result, Results
<1>6. Append(results, Result(Current, 0, TRUE, FALSE)) \in Seq(Results)
  BY <1>1, <1>5, AppendProperties
<1>7. at + 1 \in Nat \ {0}
  BY <1>1
<1> QED
  BY <1>3, <1>4, <1>6, <1>7

LEMMA FlowStep == ASSUME RunInv, Flow PROVE RunInv'
<1>1. /\ at \in Nat \ {0} /\ pending \subseteq Workflows /\ results \in Seq(Results) /\ late \in BOOLEAN
      /\ phase \in {"next", "depending", "running", "done", "aborted"} /\ PhaseOK
      /\ Main \in Threads
  BY DEF RunInv, TypeOK, Threads
<1>2. CASE RunNext
  <2>1. /\ Run(Main, Current) /\ at <= Len(plan.order) /\ phase' = "running"
        /\ UNCHANGED <<plan, count, requests, late, copies, checks, ret, threw, at, pending, results>>
    BY <1>2 DEF RunNext
  <2>2. Current \in Workflows
    BY <2>1, CurrentIs
  <2>3. PhaseOK'
    BY <2>1 DEF PhaseOK
  <2> QED
    BY <1>1, <2>1, <2>2, <2>3, BeginKeeps
<1>3. CASE DependencyMissing
  <2>1. /\ at <= Len(plan.order) /\ phase = "next" /\ at' = at + 1
        /\ results' = Append(results, Result(Current, 0, TRUE, FALSE))
        /\ UNCHANGED <<plan, count, requests, late, copies, checks, lists, stack, ret, threw, pending, phase>>
    BY <1>3 DEF DependencyMissing
  <2>2. at' \in Nat \ {0} /\ results' \in Seq(Results)
    BY <2>1, CurrentIs
  <2>3. PhaseOK'
    BY <2>1 DEF PhaseOK
  <2> QED
    BY <1>1, <2>1, <2>2, <2>3, RestKeeps
<1>4. CASE StartDependencies
  <2>1. /\ at <= Len(plan.order) /\ Missing \notin Needs /\ pending' = Needs /\ phase' = "depending"
        /\ UNCHANGED <<plan, count, requests, late, copies, checks, lists, stack, ret, threw, at, results>>
    BY <1>4 DEF StartDependencies
  <2>2. pending' \subseteq Workflows
    BY <2>1, CurrentIs
  <2>3. PhaseOK'
    BY <2>1 DEF PhaseOK
  <2> QED
    BY <1>1, <2>1, <2>2, <2>3, RestKeeps
<1>5. CASE DependenciesDone
  <2>1. phase = "depending" /\ at <= Len(plan.order)
    BY <1>1, <1>5 DEF DependenciesDone, PhaseOK
  <2>2. Current \in Workflows /\ at + 1 \in Nat \ {0} /\ Append(results, Result(Current, 0, TRUE, FALSE)) \in Seq(Results)
    BY <2>1, CurrentIs
  <2>3. UNCHANGED <<plan, count, requests, late, copies, checks, ret, threw, pending>>
    BY <1>5 DEF DependenciesDone
  <2>4. CASE \E d \in Needs : Failed(ret[d].list)
    <3>1. /\ results' = Append(results, Result(Current, 0, TRUE, FALSE)) /\ at' = at + 1
          /\ phase' = "next" /\ UNCHANGED <<lists, stack>>
      BY <1>5, <2>4 DEF DependenciesDone
    <3>2. PhaseOK'
      BY <3>1 DEF PhaseOK
    <3> QED
      BY <1>1, <2>2, <2>3, <3>1, <3>2, RestKeeps
  <2>5. CASE ~ \E d \in Needs : Failed(ret[d].list)
    <3>1. Run(Main, Current) /\ phase' = "running" /\ UNCHANGED <<at, results>>
      BY <1>5, <2>5 DEF DependenciesDone
    <3>2. PhaseOK'
      BY <2>1, <2>3, <3>1 DEF PhaseOK
    <3> QED
      BY <1>1, <2>2, <2>3, <3>1, <3>2, BeginKeeps
  <2> QED
    BY <2>4, <2>5
<1>6. CASE DependencyThrew
  <2>1. /\ phase' = "aborted"
        /\ UNCHANGED <<plan, count, requests, late, copies, checks, lists, stack, ret, threw, at, pending, results>>
    BY <1>6 DEF DependencyThrew
  <2>2. PhaseOK'
    BY <2>1 DEF PhaseOK
  <2> QED
    BY <1>1, <2>1, <2>2, RestKeeps
<1>7. CASE WorkflowDone
  <2>1. phase = "running" /\ at <= Len(plan.order)
        /\ UNCHANGED <<plan, count, requests, late, copies, checks, lists, stack, ret, threw, pending>>
    BY <1>1, <1>7 DEF WorkflowDone, PhaseOK
  <2>2. CASE threw[Main]
    <3>1. phase' = "aborted" /\ UNCHANGED <<at, results>>
      BY <1>7, <2>2 DEF WorkflowDone
    <3>2. PhaseOK'
      BY <3>1 DEF PhaseOK
    <3> QED
      BY <1>1, <2>1, <3>1, <3>2, RestKeeps
  <2>3. CASE ~ threw[Main]
    <3>1. /\ results' = Append(results, Result(Current, ret[Main].list, FALSE, ret[Main].timeout))
          /\ at' = at + 1 /\ phase' = "next"
      BY <1>7, <2>3 DEF WorkflowDone
    <3>2. Current \in Workflows /\ at + 1 \in Nat \ {0}
      BY <2>1, CurrentIs
    <3>3. ret[Main] \in Returned
      BY <1>1 DEF RunInv, TypeOK
    <3>4. Result(Current, ret[Main].list, FALSE, ret[Main].timeout) \in Results
      BY <3>2, <3>3 DEF Result, Results, Returned
    <3>5. results' \in Seq(Results)
      BY <1>1, <3>1, <3>4, AppendProperties
    <3>6. PhaseOK'
      BY <3>1 DEF PhaseOK
    <3> QED
      BY <1>1, <2>1, <3>1, <3>2, <3>5, <3>6, RestKeeps
  <2> QED
    BY <2>2, <2>3
<1>8. CASE AllDone
  <2>1. /\ phase' = "done"
        /\ UNCHANGED <<plan, count, requests, late, copies, checks, lists, stack, ret, threw, at, pending, results>>
    BY <1>8 DEF AllDone
  <2>2. PhaseOK'
    BY <2>1 DEF PhaseOK
  <2> QED
    BY <1>1, <2>1, <2>2, RestKeeps
<1> QED
  BY <1>2, <1>3, <1>4, <1>5, <1>6, <1>7, <1>8 DEF Flow

LEMMA RunInit == ASSUME Init PROVE RunInv
<1>1. /\ plan \in Plans /\ count = 0 /\ requests = 0 /\ late = FALSE
      /\ copies = <<>> /\ lists = <<>> /\ results = <<>> /\ checks = [ s \in StepIds |-> {} ]
      /\ stack = [ t \in Threads |-> <<>> ]
      /\ ret = [ t \in Threads |-> [end |-> FALSE, list |-> 0, timeout |-> FALSE] ]
      /\ threw = [ t \in Threads |-> FALSE ]
      /\ at = 1 /\ pending = {} /\ phase = "next"
  BY DEF Init
<1>2. /\ <<>> \in Seq(Copies) /\ <<>> \in Seq(Nat) /\ <<>> \in Seq(Results) /\ <<>> \in Seq(Frames)
      /\ Len(<<>>) = 0
  BY EmptySeq
<1>3. [end |-> FALSE, list |-> 0, timeout |-> FALSE] \in Returned
  BY DEF Returned
<1>4. TypeOK
  <2>1. late \in BOOLEAN /\ pending \subseteq Workflows
        /\ phase \in {"next", "depending", "running", "done", "aborted"}
    BY <1>1, Zenon
  <2>5. count \in Nat /\ requests \in Nat /\ at \in Nat \ {0}
    BY <1>1
  <2>2. checks \in [StepIds -> SUBSET Kinds] /\ threw \in [Threads -> BOOLEAN]
    BY <1>1
  <2>3. stack \in [Threads -> Seq(Frames)] /\ ret \in [Threads -> Returned]
    BY <1>1, <1>2, <1>3
  <2>4. copies \in Seq(Copies) /\ lists \in Seq(Nat) /\ results \in Seq(Results)
    BY <1>1, <1>2
  <2> QED
    BY <1>1, <2>1, <2>2, <2>3, <2>4, <2>5 DEF TypeOK
<1>5. PhaseOK
  BY <1>1 DEF PhaseOK
<1>6. CopiesOK(copies)
  BY <1>1, <1>2 DEF CopiesOK, Ordered
<1>7. ASSUME NEW t \in Threads PROVE GoodStack(copies, stack[t])
  <2>1. stack[t] = <<>>
    BY <1>1
  <2> QED
    BY <1>2, <2>1 DEF GoodStack
<1> QED
  BY <1>4, <1>5, <1>6, <1>7 DEF RunInv

LEMMA RunNextKeeps == ASSUME RunInv, [Next]_vars PROVE RunInv'
<1>1. CASE Runs
  <2>1. PICK t \in Threads : Workflow(t) \/ Step(t) \/ Act(t)
    BY <1>1 DEF Runs
  <2>2. ThreadStep(t)
    BY <2>1, ThreadSteps
  <2> QED
    BY <2>2, ThreadKeeps
<1>2. CASE Starts
  <2>1. PICK d \in Workflows : StartDependency(d)
    BY <1>2 DEF Starts
  <2>2. /\ Run(d, d) /\ pending' = pending \ {d} /\ d \in Threads
        /\ UNCHANGED <<plan, count, requests, late, copies, checks, ret, threw, at, phase, results>>
    BY <2>1 DEF StartDependency, Threads
  <2>3. /\ at' \in Nat \ {0} /\ pending' \subseteq Workflows /\ results' \in Seq(Results)
        /\ phase' \in {"next", "depending", "running", "done", "aborted"}
    BY <2>2 DEF RunInv, TypeOK
  <2>4. PhaseOK'
    BY <2>2 DEF PhaseOK, RunInv
  <2> QED
    BY <2>2, <2>3, <2>4, BeginKeeps
<1>3. CASE Flow
  BY <1>3, FlowStep
<1>4. CASE TimeUp \/ Over \/ UNCHANGED vars
  <2>1. /\ UNCHANGED <<plan, copies, checks, count, requests, lists, stack, ret, threw, at, pending, phase, results>>
        /\ late' = late \/ late' = TRUE
    BY <1>4 DEF TimeUp, Over, vars
  <2>2. /\ at' \in Nat \ {0} /\ pending' \subseteq Workflows /\ results' \in Seq(Results)
        /\ phase' \in {"next", "depending", "running", "done", "aborted"} /\ late' \in BOOLEAN
    BY <2>1 DEF RunInv, TypeOK
  <2>3. PhaseOK'
    BY <2>1 DEF PhaseOK, RunInv
  <2> QED
    BY <2>1, <2>2, <2>3, RestKeeps
<1> QED
  BY <1>1, <1>2, <1>3, <1>4 DEF Next

LEMMA RunAlways == Spec => []RunInv
<1>1. Init => RunInv
  BY RunInit
<1>2. RunInv /\ [Next]_vars => RunInv'
  BY RunNextKeeps
<1> QED
  BY <1>1, <1>2, PTL DEF Spec

\* Whatever steps, actions and dependencies do, every variable keeps its type:
\* a call is of a step or workflow that there is, and every index of a copy, of
\* an action and of an array is one that there is.
THEOREM RunnerTyped == Spec => []TypeOK
<1>1. RunInv => TypeOK
  BY DEF RunInv
<1> QED
  BY <1>1, RunAlways, PTL

\* In every description, however retries are nested, a step is tried no more than
\* once and as often as its retry actions allow together, and does not run the
\* target of its own retry inside of that target (run-step.ts, runActions).
THEOREM RetriesEnd == Spec => []RetryingIsBounded
<1>1. RunInv => RetriesBounded
  <2> SUFFICES ASSUME RunInv, NEW c \in DOMAIN copies
               PROVE  Attempts(c) <= 1 + Limits(Steps(copies[c].step[1])[copies[c].step[2]].failure)
    BY DEF RetriesBounded
  <2>1. c \in 1 .. Len(copies)
    BY DEF RunInv, TypeOK
  <2>2. AttemptsIn(copies, c) <= 1 + Limits(StepOf(copies[c].step).failure)
    BY <2>1 DEF RunInv, CopiesOK
  <2>3. Attempts(c) = AttemptsIn(copies, c)
    BY DEF Attempts, AttemptsIn
  <2> QED
    BY <2>2, <2>3 DEF StepOf
<1>2. RunInv => NoNestedRetry
  <2> SUFFICES ASSUME RunInv, NEW t \in Threads, NEW i \in DOMAIN stack[t], NEW j \in DOMAIN stack[t], i < j,
                      stack[t][i].stage = "retried", stack[t][j].stage = "retried",
                      Id(stack[t][i]) = Id(stack[t][j]),
                      \A k \in i .. j : stack[t][k].stage \notin {"child", "gone"}
               PROVE  FALSE
    BY DEF NoNestedRetry
  <2>1. PICK s : s = stack[t]
    OBVIOUS
  <2>2. GoodStack(copies, s) /\ s \in Seq(Frames)
    BY <2>1 DEF RunInv, GoodStack
  <2>3. i \in 1 .. Len(s) /\ j \in 1 .. Len(s) /\ j - 1 \in 0 .. Len(s) /\ i \in 1 .. j - 1
    BY <2>1, <2>2
  <2>4. Len(Upto(s, j - 1)) = j - 1 /\ \A k \in 1 .. j - 1 : Upto(s, j - 1)[k] = s[k]
    BY <2>2, <2>3, UptoIs
  <2>5. \A k \in i + 1 .. j - 1 : k \in i .. j /\ k \in 1 .. j - 1
    BY <2>3
  <2>6. GoodFrame(copies, s[j]) /\ Within(Upto(s, j - 1), s[j])
    BY <2>2, <2>3 DEF GoodStack
  <2>7. Id(s[i]) \in s[j].retrying
    BY <2>1, <2>3, <2>4, <2>5, <2>6 DEF Within
  <2>8. s[j].fn = "step"
    BY <2>1, <2>6 DEF GoodFrame, Frames
  <2>9. Id(s[j]) \notin s[j].retrying
    BY <2>1, <2>6, <2>8 DEF GoodFrame, GoodStep, MayRetry
  <2> QED
    BY <2>1, <2>7, <2>9
<1>3. RunInv => RetryingIsBounded
  BY <1>1, <1>2 DEF RetryingIsBounded
<1> QED
  BY <1>3, RunAlways, PTL

------------------------------------------------------------------------------
(* What runs after the dependencies leaves what they did as it is. *)

\* An array that no workflow has and that is part of no other stays so.
Dead(l) ==
  /\ l \in 1 .. Len(lists) /\ lists[l] = 0
  /\ \A t \in Threads :
       /\ ret[t].list # l
       /\ \A i \in 1 .. Len(stack[t]) : stack[t][i].fn = "workflow" => stack[t][i].list # l

\* A call that registers what the workflow it runs has done.
Waits(f) == f.stage \in {"child", "gone"} \/ (f.stage = "retried" /\ ActionsOf(f)[f.act].workflow # None)

\* What makes a call, and the call.
Below(a, b) ==
  \/ b.fn = "workflow" /\ Waits(a) /\ a.list < b.list
  \/ b.fn = "step" /\ a.fn = "workflow" /\ Id(a) = Id(b) /\ a.list = b.list
  \/ b.fn = "step" /\ a.stage = "retried" /\ ~Waits(a) /\ Dead(b.list)

\* What has begun since there were r - 1 arrays and n copies knows only arrays
\* and copies that were made since.
FrameIn(f, r, n) ==
  /\ f.list \in r .. Len(lists) /\ f.arr \in {0} \cup (n + 1 .. Len(copies))
  /\ f.fn = "step" /\ f.stage # "start" => f.copy > n /\ copies[f.copy].step = Id(f)
CallsIn(s, r, n) ==
  /\ \A i \in 1 .. Len(s) : FrameIn(s[i], r, n)
  /\ \A i \in 2 .. Len(s) : Below(s[i - 1], s[i])
ListsIn(r) == \A l \in r .. Len(lists) : lists[l] = 0 \/ lists[l] \in r .. l - 1
CopiesIn(r, n) ==
  \A c \in n + 1 .. Len(copies) :
    copies[c].list \in {0} \cup (r .. Len(lists)) /\ copies[c].arr \in {0} \cup (n + 1 .. c)
Region(t, r, n) == ListsIn(r) /\ CopiesIn(r, n) /\ CallsIn(stack[t], r, n)

Answered(t) == ret[t].list <= Len(lists) /\ (stack[t] # <<>> /\ Waits(Top(t)) => ret[t].list > Top(t).list)
Calling(t, c) == InStage(t, "calling") /\ Top(t).copy = c
\* A registered copy that passes because nothing was checked.
Unsettled(c) == copies[c].list # 0 /\ copies[c].arr = 0 /\ checks[copies[c].step] = {}
Settled(c) == Unsettled(c) => Dead(copies[c].list) \/ \E t \in Threads : Calling(t, c)

\* What the dependencies did, before there were r arrays and n + 1 copies.
Past(r, n) ==
  /\ \A c \in 1 .. n : copies[c].list < r /\ (Unsettled(c) => Dead(copies[c].list))
  /\ \A d \in Needs : ret[d].list < r /\ ~threw[d] /\ ~Failed(ret[d].list)

PhasesOK ==
  /\ phase # "running" => stack[Main] = <<>>
  /\ phase \in {"next", "running", "done"} => pending = {} /\ \A d \in Workflows : stack[d] = <<>>
  /\ phase \in {"depending", "running"} => Missing \notin Needs
  /\ phase = "depending" => pending \subseteq Needs /\ \A d \in Workflows : stack[d] # <<>> => d \in Needs
  /\ \A d \in pending : stack[d] = <<>>
GateInv ==
  /\ RunInv /\ PhasesOK
  /\ \A t \in Threads : Region(t, 1, 0) /\ Answered(t)
  /\ \A c \in 1 .. Len(copies) : Settled(c)
  /\ phase = "running" => \E r \in 1 .. Len(lists), n \in 0 .. Len(copies) : Region(Main, r, n) /\ Past(r, n)

\* What a step of a thread does around its calls.
Around(t) ==
  /\ plan' = plan /\ Kept(copies, copies') /\ Len(lists) <= Len(lists')
  /\ \A l \in 1 .. Len(lists) : lists'[l] = lists[l] \/ l = ret[t].list
  /\ \A u \in Threads : u # t => ret'[u] = ret[u]
  /\ \/ ret'[t].list = ret[t].list
     \/ stack[t] # <<>> /\ Top(t).fn = "workflow" /\ ret'[t].list = Top(t).list
\* The workflows among the calls of a thread were there, or have a new array.
NoneNew(t, s) ==
  \A i \in 1 .. Len(s) :
    s[i].fn = "workflow" =>
      \/ s[i].list > Len(lists)
      \/ \E j \in 1 .. Len(stack[t]) : stack[t][j].fn = "workflow" /\ stack[t][j].list = s[i].list
DeadStay == \A l : Dead(l) => Dead(l)'

LEMMA DeadStays ==
  ASSUME RunInv, NEW t \in Threads, Around(t), NEW s, stack' = [ stack EXCEPT ![t] = s ], NoneNew(t, s)
  PROVE  DeadStay
<1> SUFFICES ASSUME NEW l, Dead(l) PROVE Dead(l)'
  BY DEF DeadStay
<1>1. /\ lists \in Seq(Nat) /\ stack \in [Threads -> Seq(Frames)] /\ Len(lists) \in Nat
      /\ stack[t] \in Seq(Frames)
  BY DEF RunInv, TypeOK
<1>2. /\ l \in 1 .. Len(lists) /\ lists[l] = 0 /\ ret[t].list # l
      /\ \A u \in Threads : ret[u].list # l
      /\ \A u \in Threads : \A i \in 1 .. Len(stack[u]) : stack[u][i].fn = "workflow" => stack[u][i].list # l
  BY DEF Dead
<1>3. l \in 1 .. Len(lists') /\ lists'[l] = 0
  <2>1. RunInv => Len(lists) \in Nat
    BY <1>1
  <2>2. lists'[l] = 0
    BY <1>2 DEF Around
  <2>3. Len(lists) <= Len(lists')
    BY DEF Around
  <2>4. Len(lists') \in Nat \/ Len(lists') \notin Nat
    OBVIOUS
  <2> QED
    BY <1>1, <1>2, <2>2, <2>3
<1>4. stack[t] # <<>> => Len(stack[t]) \in 1 .. Len(stack[t])
  BY <1>1
<1>5. ret'[t].list # l
  BY <1>2, <1>4 DEF Around, Top
<1>6. ASSUME NEW u \in Threads PROVE ret'[u].list # l
  BY <1>2, <1>5 DEF Around
<1>7. ASSUME NEW u \in Threads, NEW i \in 1 .. Len(stack'[u]), stack'[u][i].fn = "workflow"
      PROVE  stack'[u][i].list # l
  <2>1. CASE u = t
    <3>1. stack'[u] = s
      BY <1>1, <2>1
    <3>2. s[i].list > Len(lists) \/ \E j \in 1 .. Len(stack[t]) : stack[t][j].fn = "workflow" /\ stack[t][j].list = s[i].list
      BY <1>7, <3>1 DEF NoneNew
    <3> QED
      BY <1>1, <1>2, <3>1, <3>2
  <2>2. CASE u # t
    BY <1>1, <1>2, <1>7, <2>2
  <2> QED
    BY <2>1, <2>2
<1> QED
  BY <1>3, <1>6, <1>7 DEF Dead

LEMMA WaitsSame == ASSUME plan' = plan PROVE \A f : Waits(f)' <=> Waits(f)
BY DEF Waits, ActionsOf, Def, Steps

\* Calls that a step leaves as they are.
LEMMA CallsStay ==
  ASSUME RunInv, RunInv', plan' = plan, Kept(copies, copies'), Len(lists) <= Len(lists'), DeadStay,
         NEW s, GoodStack(copies, s), NEW r \in Nat, NEW n \in Nat, CallsIn(s, r, n)
  PROVE  CallsIn(s, r, n)'
<1>1. /\ Len(lists) \in Nat /\ Len(lists') \in Nat /\ Len(copies) \in Nat /\ Len(copies') \in Nat
      /\ Len(copies) <= Len(copies')
  BY DEF RunInv, TypeOK, Kept
<1>2. ASSUME NEW i \in 1 .. Len(s) PROVE FrameIn(s[i], r, n)'
  <2>1. FrameIn(s[i], r, n) /\ GoodFrame(copies, s[i])
    BY DEF CallsIn, GoodStack
  <2>2. s[i].list \in r .. Len(lists') /\ s[i].arr \in {0} \cup (n + 1 .. Len(copies'))
    BY <1>1, <2>1 DEF FrameIn
  <2>3. ASSUME s[i].fn = "step", s[i].stage # "start"
        PROVE  s[i].copy > n /\ copies'[s[i].copy].step = Id(s[i])
    <3>1. s[i].copy \in 1 .. Len(copies)
      BY <2>1, <2>3 DEF GoodFrame, GoodStep
    <3> QED
      BY <2>1, <2>3, <3>1 DEF FrameIn, Kept
  <2> QED
    BY <2>2, <2>3 DEF FrameIn, Id
<1>3. ASSUME NEW i \in 2 .. Len(s) PROVE Below(s[i - 1], s[i])'
  <2>1. Below(s[i - 1], s[i])
    BY DEF CallsIn
  <2>2. Waits(s[i - 1])' <=> Waits(s[i - 1])
    BY WaitsSame
  <2>3. Dead(s[i].list) => Dead(s[i].list)'
    BY DEF DeadStay
  <2> QED
    BY <2>1, <2>2, <2>3 DEF Below, Id
<1> QED
  BY <1>2, <1>3 DEF CallsIn

\* The calls below one are in the same place.
LEMMA CallsBelow ==
  ASSUME NEW s \in Seq(Frames), NEW k \in 0 .. Len(s), NEW r, NEW n, CallsIn(s, r, n)
  PROVE  CallsIn(Upto(s, k), r, n)
<1> DEFINE u == Upto(s, k)
<1>1. Len(u) = k /\ (\A i \in 1 .. k : u[i] = s[i]) /\ k \in Nat /\ Len(s) \in Nat
  BY UptoIs
<1> HIDE DEF u
<1>2. ASSUME NEW i \in 1 .. k PROVE FrameIn(u[i], r, n)
  BY <1>1 DEF CallsIn
<1>3. ASSUME NEW i \in 2 .. k PROVE Below(u[i - 1], u[i])
  <2>1. i \in 1 .. k /\ i - 1 \in 1 .. k /\ i \in 2 .. Len(s)
    BY <1>1
  <2> QED
    BY <1>1, <2>1 DEF CallsIn
<1>4. CallsIn(u, r, n)
  BY <1>1, <1>2, <1>3 DEF CallsIn
<1> QED
  BY <1>4 DEF u

\* One more call.
LEMMA CallsPush ==
  ASSUME NEW s \in Seq(Frames), NEW f \in Frames, NEW r, NEW n, CallsIn(s, r, n)', FrameIn(f, r, n)',
         s # <<>> => Below(s[Len(s)], f)'
  PROVE  CallsIn(Append(s, f), r, n)'
<1> DEFINE u == Append(s, f)
           m == Len(s)
<1>1. m \in Nat /\ Len(u) = m + 1 /\ (\A i \in 1 .. m : u[i] = s[i]) /\ u[m + 1] = f
  OBVIOUS
<1>2. m # 0 => s # <<>>
  OBVIOUS
<1>3. s # <<>> => Below(s[m], f)'
  OBVIOUS
<1>4. (\A i \in 1 .. m : FrameIn(s[i], r, n)') /\ (\A i \in 2 .. m : Below(s[i - 1], s[i])')
  BY DEF CallsIn
<1> HIDE DEF u, m
<1>5. ASSUME NEW i \in 1 .. m + 1 PROVE FrameIn(u[i], r, n)'
  <2>1. i = m + 1 \/ i \in 1 .. m
    BY <1>1
  <2> QED
    BY <1>1, <1>4, <2>1
<1>6. ASSUME NEW i \in 2 .. m + 1 PROVE Below(u[i - 1], u[i])'
  <2>1. CASE i = m + 1
    <3>1. m # 0 /\ i - 1 = m /\ m \in 1 .. m
      BY <1>1, <2>1
    <3> QED
      BY <1>1, <1>2, <1>3, <2>1, <3>1
  <2>2. CASE i # m + 1
    <3>1. i \in 1 .. m /\ i - 1 \in 1 .. m /\ i \in 2 .. m
      BY <1>1, <2>2
    <3> QED
      BY <1>1, <1>4, <3>1
  <2> QED
    BY <2>1, <2>2
<1>7. CallsIn(u, r, n)'
  <2>1. \A i \in 1 .. Len(u) : FrameIn(u[i], r, n)'
    BY <1>1, <1>5
  <2>2. \A i \in 2 .. Len(u) : Below(u[i - 1], u[i])'
    BY <1>1, <1>6
  <2> QED
    BY <2>1, <2>2 DEF CallsIn
<1> QED
  BY <1>7 DEF u

LEMMA NoneNewBelow ==
  ASSUME NEW t, stack[t] \in Seq(Frames), NEW k \in 0 .. Len(stack[t])
  PROVE  NoneNew(t, Upto(stack[t], k))
<1> DEFINE u == Upto(stack[t], k)
<1>1. Len(u) = k /\ (\A i \in 1 .. k : u[i] = stack[t][i]) /\ k \in Nat /\ Len(stack[t]) \in Nat
  BY UptoIs
<1> HIDE DEF u
<1>2. \A i \in 1 .. k : i \in 1 .. Len(stack[t])
  BY <1>1
<1>3. NoneNew(t, u)
  BY <1>1, <1>2 DEF NoneNew
<1> QED
  BY <1>3 DEF u

LEMMA NoneNewPush ==
  ASSUME NEW t, NEW s \in Seq(Frames), NEW f \in Frames, NoneNew(t, s),
         f.fn = "workflow" =>
           \/ f.list > Len(lists)
           \/ \E j \in 1 .. Len(stack[t]) : stack[t][j].fn = "workflow" /\ stack[t][j].list = f.list
  PROVE  NoneNew(t, Append(s, f))
<1> DEFINE u == Append(s, f)
           m == Len(s)
<1>1. m \in Nat /\ Len(u) = m + 1 /\ (\A i \in 1 .. m : u[i] = s[i]) /\ u[m + 1] = f
  OBVIOUS
<1>2. \A i \in 1 .. m + 1 : i \in 1 .. m \/ i = m + 1
  BY <1>1
<1> HIDE DEF u
<1>3. ASSUME NEW i \in 1 .. m + 1, u[i].fn = "workflow"
      PROVE  \/ u[i].list > Len(lists)
             \/ \E j \in 1 .. Len(stack[t]) : stack[t][j].fn = "workflow" /\ stack[t][j].list = u[i].list
  <2>1. CASE i \in 1 .. m
    BY <1>1, <1>3, <2>1 DEF NoneNew
  <2>2. CASE i = m + 1
    BY <1>1, <1>3, <2>2
  <2> QED
    BY <1>2, <2>1, <2>2
<1>4. NoneNew(t, u)
  BY <1>1, <1>3 DEF NoneNew
<1> QED
  BY <1>4 DEF u

LEMMA CallsNext ==
  ASSUME NEW t, NEW s, stack'[t] = s, NEW r, NEW n, CallsIn(s, r, n)'
  PROVE  CallsIn(stack[t], r, n)'
<1>1. ASSUME NEW i \in 1 .. Len(s) PROVE FrameIn(stack[t][i], r, n)'
  <2>1. PICK f : f = s[i]
    OBVIOUS
  <2>2. FrameIn(f, r, n)'
    <3>1. FrameIn(s[i], r, n)'
      BY DEF CallsIn
    <3> QED
      BY <2>1, <3>1
  <2> QED
    BY <2>1, <2>2 DEF FrameIn, Id
<1>2. ASSUME NEW i \in 2 .. Len(s) PROVE Below(stack[t][i - 1], stack[t][i])'
  <2>1. PICK a, b : a = s[i - 1] /\ b = s[i]
    OBVIOUS
  <2>2. Below(a, b)'
    <3>1. Below(s[i - 1], s[i])'
      BY DEF CallsIn
    <3> QED
      BY <2>1, <3>1
  <2>3. (Waits(stack[t][i - 1]) <=> Waits(a))'
    BY <2>1 DEF Waits, ActionsOf, Def, Steps
  <2>4. (Dead(b.list) => Dead(stack[t][i].list))'
    BY <2>1
  <2>5. stack'[t][i - 1] = a /\ stack'[t][i] = b
    BY <2>1
  <2> HIDE DEF Waits, Dead
  <2> QED
    BY <2>2, <2>3, <2>4, <2>5 DEF Below, Id
<1>3. (\A i \in 1 .. Len(stack[t]) : FrameIn(stack[t][i], r, n))'
  BY <1>1
<1>4. (\A i \in 2 .. Len(stack[t]) : Below(stack[t][i - 1], stack[t][i]))'
  BY <1>2
<1> QED
  BY <1>3, <1>4 DEF CallsIn

\* Where a step of a thread leaves its calls.
Lands(t, r, n) == DeadStay /\ CallsIn(stack[t], r, n)' /\ Answered(t)'

LEMMA TopIn ==
  ASSUME RunInv, NEW t \in Threads, stack[t] # <<>>, NEW r, NEW n, CallsIn(stack[t], r, n)
  PROVE  /\ FrameIn(Top(t), r, n) /\ CallsIn(Under(t), r, n) /\ NoneNew(t, Under(t))
         /\ Under(t) # <<>> => Below(Under(t)[Len(Under(t))], Top(t))
         /\ GoodStack(copies, Under(t)) /\ Under(t) \in Seq(Frames) /\ Top(t) \in Frames
         /\ Top(t).fn = "workflow" =>
              \E j \in 1 .. Len(stack[t]) : stack[t][j].fn = "workflow" /\ stack[t][j].list = Top(t).list
<1> DEFINE s == stack[t]
           m == Len(s)
<1>1. /\ Ready(copies, Under(t)) /\ GoodFrame(copies, Top(t)) /\ Under(t) = Upto(s, m - 1)
      /\ Under(t) \in Seq(Frames) /\ Len(Under(t)) = m - 1 /\ m \in Nat \ {0}
  BY TopGood
<1>2. s \in Seq(Frames) /\ Top(t) = s[m]
  BY DEF RunInv, TypeOK, Top
<1> HIDE DEF s, m
<1>3. m - 1 \in 0 .. m /\ m \in 1 .. m /\ m = Len(s) /\ s = stack[t] /\ m - 1 \in 0 .. Len(s)
  BY <1>1 DEF s, m
<1>4. CallsIn(Upto(s, m - 1), r, n)
  BY <1>2, <1>3, CallsBelow
<1>5. NoneNew(t, Upto(s, m - 1))
  BY <1>2, <1>3, NoneNewBelow
<1>6. FrameIn(s[m], r, n)
  BY <1>3 DEF CallsIn
<1>7. ASSUME Under(t) # <<>> PROVE Below(Under(t)[m - 1], s[m])
  <2>1. m - 1 # 0
    BY <1>1, <1>7
  <2>2. m - 1 \in 1 .. m - 1 /\ m \in 2 .. m
    BY <1>1, <2>1
  <2>3. Under(t)[m - 1] = s[m - 1]
    <3>1. PICK k : k = m - 1
      OBVIOUS
    <3>2. \A i \in 1 .. k : Upto(s, k)[i] = s[i]
      BY <1>2, <1>3, <3>1, UptoIs
    <3> QED
      BY <1>1, <1>3, <2>2, <3>1, <3>2
  <2> QED
    BY <1>3, <2>2, <2>3 DEF CallsIn
<1> QED
  BY <1>1, <1>2, <1>3, <1>4, <1>5, <1>6, <1>7 DEF Ready, GoodFrame

LEMMA LandsOn ==
  ASSUME RunInv, RunInv', NEW t \in Threads, NEW r \in Nat \ {0}, NEW n \in Nat, Around(t),
         CallsIn(stack[t], r, n), Answered(t),
         NEW s \in Seq(Frames), stack' = [ stack EXCEPT ![t] = s ], NoneNew(t, s), CallsIn(s, r, n)',
         s # <<>> /\ Waits(s[Len(s)]) => ret'[t].list > s[Len(s)].list
  PROVE  Lands(t, r, n)
<1>1. stack'[t] = s
  BY DEF RunInv, TypeOK
<1>2. DeadStay
  BY DeadStays
<1>3. CallsIn(stack[t], r, n)'
  BY <1>1, CallsNext
<1>4. /\ Len(lists) \in Nat /\ Len(lists') \in Nat /\ ret[t].list \in Nat /\ ret'[t].list \in Nat
      /\ Len(lists) <= Len(lists')
  BY DEF RunInv, TypeOK, Returned, Around
<1>5. ret'[t].list <= Len(lists)
  <2>1. CASE ret'[t].list = ret[t].list
    BY <2>1 DEF Answered
  <2>2. CASE ret'[t].list # ret[t].list
    <3>1. stack[t] # <<>> /\ ret'[t].list = Top(t).list
      BY <2>2 DEF Around
    <3>2. FrameIn(Top(t), r, n)
      BY <3>1, TopIn
    <3> QED
      BY <1>4, <3>1, <3>2 DEF FrameIn
  <2> QED
    BY <2>1, <2>2
<1>6. Answered(t)'
  <2>1. Top(t)' = s[Len(s)]
    BY <1>1 DEF Top
  <2>2. PICK f : f = s[Len(s)]
    OBVIOUS
  <2>3. Waits(f)' <=> Waits(f)
    BY WaitsSame DEF Around
  <2>4. Waits(Top(t))' <=> Waits(f)'
    BY <2>1, <2>2 DEF Waits, ActionsOf, Def, Steps
  <2>5. ret'[t].list <= Len(lists')
    BY <1>4, <1>5
  <2> QED
    BY <1>1, <2>1, <2>2, <2>3, <2>4, <2>5 DEF Answered
<1> QED
  BY <1>2, <1>3, <1>6 DEF Lands

LEMMA BelowStays ==
  ASSUME plan' = plan, DeadStay, NEW a, NEW b, Below(a, b), NEW c, c.fn = b.fn, c.list = b.list,
         b.fn = "step" => Id(c) = Id(b)
  PROVE  Below(a, c)'
<1>1. Waits(a)' <=> Waits(a)
  BY WaitsSame
<1>2. Dead(b.list) => Dead(c.list)'
  BY DEF DeadStay
<1> QED
  BY <1>1, <1>2 DEF Below, Id

\* The innermost call goes on.
LEMMA StayLands ==
  ASSUME RunInv, RunInv', NEW t \in Threads, stack[t] # <<>>, NEW r \in Nat \ {0}, NEW n \in Nat, Around(t),
         CallsIn(stack[t], r, n), Answered(t), NEW f \in Frames, Stay(t, f), f.fn = Top(t).fn, f.fn = "step",
         f.list = Top(t).list, Id(f) = Id(Top(t)), FrameIn(f, r, n)', ~Waits(f)
  PROVE  Lands(t, r, n)
<1>1. PICK u : u = Under(t)
  OBVIOUS
<1>2. PICK b : b = Top(t)
  OBVIOUS
<1>3. /\ CallsIn(u, r, n) /\ NoneNew(t, u) /\ GoodStack(copies, u) /\ u \in Seq(Frames)
      /\ u # <<>> => Below(u[Len(u)], b)
  BY <1>1, <1>2, TopIn
<1> DEFINE s == Append(u, f)
<1>4. s \in Seq(Frames) /\ stack' = [ stack EXCEPT ![t] = s ] /\ Len(s) = Len(u) + 1 /\ s[Len(s)] = f
  BY <1>1, <1>3 DEF Stay
<1>5. NoneNew(t, s)
  BY <1>3, NoneNewPush
<1> HIDE DEF s
<1>6. DeadStay
  BY <1>4, <1>5, DeadStays
<1>7. CallsIn(u, r, n)'
  BY <1>3, <1>6, CallsStay DEF Around
<1>8. u # <<>> => Below(u[Len(u)], f)'
  <2>1. ASSUME u # <<>> PROVE Below(u[Len(u)], f)'
    <3>1. PICK a : a = u[Len(u)]
      OBVIOUS
    <3>2. Below(a, b) /\ f.fn = b.fn /\ f.list = b.list /\ Id(f) = Id(b)
      BY <1>2, <1>3, <2>1, <3>1
    <3>3. Below(a, f)'
      BY <1>6, <3>2, BelowStays DEF Around
    <3> QED
      BY <3>1, <3>3
  <2> QED
    BY <2>1
<1>9. CallsIn(s, r, n)'
  BY <1>3, <1>7, <1>8, CallsPush DEF s
<1> QED
  BY <1>4, <1>5, <1>9, LandsOn

\* The innermost call makes another one.
LEMMA CallLands ==
  ASSUME RunInv, RunInv', NEW t \in Threads, stack[t] # <<>>, NEW r \in Nat \ {0}, NEW n \in Nat, Around(t),
         CallsIn(stack[t], r, n), Answered(t), \A u \in Threads : CallsIn(stack[u], 1, 0) /\ Answered(u),
         NEW f \in Frames, NEW g \in Frames, Call(t, f, g), f.fn = Top(t).fn,
         f.list = Top(t).list, Id(f) = Id(Top(t)), FrameIn(f, r, n)', FrameIn(g, r, n)', ~Waits(g),
         \/ g.fn = "workflow" /\ g.list > Len(lists) /\ Waits(f) /\ f.list < g.list
         \/ g.fn = "step" /\ f.fn = "workflow" /\ Id(f) = Id(g) /\ f.list = g.list
         \/ /\ g.fn = "step" /\ f.fn = "step" /\ f.stage = "retried" /\ ~Waits(f)
            /\ g.list = NewList /\ lists' = Append(lists, 0) /\ ret' = ret
  PROVE  Lands(t, r, n)
<1>1. PICK u : u = Under(t)
  OBVIOUS
<1>2. PICK b : b = Top(t)
  OBVIOUS
<1>3. /\ CallsIn(u, r, n) /\ NoneNew(t, u) /\ GoodStack(copies, u) /\ u \in Seq(Frames)
      /\ u # <<>> => Below(u[Len(u)], b)
      /\ b.fn = "workflow" =>
           \E j \in 1 .. Len(stack[t]) : stack[t][j].fn = "workflow" /\ stack[t][j].list = b.list
  BY <1>1, <1>2, TopIn
<1> DEFINE v == Append(u, f)
           s == Append(v, g)
<1>4. /\ v \in Seq(Frames) /\ v # <<>> /\ v[Len(v)] = f
      /\ s \in Seq(Frames) /\ stack' = [ stack EXCEPT ![t] = s ] /\ s[Len(s)] = g
  <2>1. v \in Seq(Frames) /\ Len(v) = Len(u) + 1 /\ v[Len(v)] = f /\ v # <<>>
    <3>1. u \in Seq(Frames)
      BY <1>3
    <3>2. v \in Seq(Frames) /\ Len(v) = Len(u) + 1 /\ v[Len(u) + 1] = f /\ v # <<>>
      BY <3>1, AppendProperties
    <3> QED
      BY <3>2
  <2>2. stack' = [ stack EXCEPT ![t] = s ]
    BY <1>1 DEF Call
  <2> HIDE DEF v
  <2>3. s \in Seq(Frames) /\ Len(s) = Len(v) + 1 /\ s[Len(s)] = g
    BY <2>1
  <2> QED
    BY <2>1, <2>2, <2>3
<1>5. NoneNew(t, v)
  BY <1>2, <1>3, NoneNewPush
<1> HIDE DEF v
<1>6. NoneNew(t, s)
  BY <1>4, <1>5, NoneNewPush
<1> HIDE DEF s
<1>7. DeadStay
  BY <1>4, <1>6, DeadStays
<1>8. CallsIn(u, r, n)'
  BY <1>3, <1>7, CallsStay DEF Around
<1>9. u # <<>> => Below(u[Len(u)], f)'
  <2>1. ASSUME u # <<>> PROVE Below(u[Len(u)], f)'
    <3>1. PICK a : a = u[Len(u)]
      OBVIOUS
    <3>2. Below(a, b) /\ f.fn = b.fn /\ f.list = b.list /\ Id(f) = Id(b)
      BY <1>2, <1>3, <2>1, <3>1
    <3>3. Below(a, f)'
      BY <1>7, <3>2, BelowStays DEF Around
    <3> QED
      BY <3>1, <3>3
  <2> QED
    BY <2>1
<1>10. CallsIn(v, r, n)'
  BY <1>3, <1>8, <1>9, CallsPush DEF v
<1>11. Below(f, g)'
  <2>1. Waits(f)' <=> Waits(f)
    BY WaitsSame DEF Around
  <2>2. CASE g.fn = "workflow" /\ Waits(f) /\ f.list < g.list
    BY <2>1, <2>2 DEF Below
  <2>3. CASE g.fn = "step" /\ f.fn = "workflow" /\ Id(f) = Id(g) /\ f.list = g.list
    BY <2>3 DEF Below, Id
  <2>4. CASE /\ g.fn = "step" /\ f.fn = "step" /\ f.stage = "retried" /\ ~Waits(f)
             /\ g.list = NewList /\ lists' = Append(lists, 0) /\ ret' = ret
    <3>1. PICK l : l = NewList
      OBVIOUS
    <3>2. /\ lists \in Seq(Nat) /\ Len(lists) \in Nat /\ stack \in [Threads -> Seq(Frames)]
          /\ ret \in [Threads -> Returned]
      BY DEF RunInv, TypeOK
    <3>3. l = Len(lists) + 1 /\ l \in 1 .. Len(lists') /\ lists'[l] = 0 /\ ret' = ret
      BY <2>4, <3>1, <3>2 DEF NewList
    <3>4. ASSUME NEW w \in Threads PROVE ret[w].list # l
      <4>1. ret[w].list <= Len(lists) /\ ret[w].list \in Nat
        BY <3>2 DEF Answered, Returned
      <4> QED
        BY <3>2, <3>3, <4>1
    <3>5. ASSUME NEW w \in Threads, NEW i \in 1 .. Len(stack[w]) PROVE stack[w][i].list # l
      <4>1. PICK h : h = stack[w][i]
        OBVIOUS
      <4>2. FrameIn(h, 1, 0)
        BY <4>1 DEF CallsIn
      <4>3. h.list \in 1 .. Len(lists)
        BY <4>2 DEF FrameIn
      <4> QED
        BY <3>2, <3>3, <4>1, <4>3
    <3>6. ASSUME NEW w \in Threads, NEW i \in 1 .. Len(stack'[w]), stack'[w][i].fn = "workflow"
          PROVE  stack'[w][i].list # l
      <4>1. CASE w = t
        <5>1. stack'[w] = s
          BY <1>4, <3>2, <4>1
        <5>2. /\ Len(v) \in Nat /\ Len(s) = Len(v) + 1 /\ s[Len(v) + 1] = g
              /\ \A j \in 1 .. Len(v) : s[j] = v[j]
          BY <1>4 DEF s
        <5>3. i \in 1 .. Len(v) /\ s[i] = v[i] /\ v[i].fn = "workflow"
          <6>1. i # Len(v) + 1
            BY <2>4, <3>6, <5>1, <5>2
          <6> QED
            BY <3>6, <5>1, <5>2, <6>1
        <5>4. /\ Len(u) \in Nat /\ Len(v) = Len(u) + 1 /\ v[Len(u) + 1] = f
              /\ \A j \in 1 .. Len(u) : v[j] = u[j]
          BY <1>3 DEF v
        <5>5. i \in 1 .. Len(u) /\ v[i] = u[i]
          <6>1. i # Len(u) + 1
            BY <2>4, <5>3, <5>4
          <6> QED
            BY <5>3, <5>4, <6>1
        <5>6. FrameIn(u[i], r, n)
          BY <1>3, <5>5 DEF CallsIn
        <5>7. u[i].list \in r .. Len(lists)
          BY <5>6 DEF FrameIn
        <5>8. stack'[w][i].list = u[i].list
          BY <5>1, <5>3, <5>5
        <5> QED
          BY <3>2, <3>3, <5>7, <5>8
      <4>2. CASE w # t
        <5>1. stack'[w] = stack[w]
          BY <1>4, <3>2, <4>2
        <5> QED
          BY <3>5, <3>6, <5>1
      <4> QED
        BY <4>1, <4>2
    <3>7. Dead(l)'
      BY <3>3, <3>4, <3>6 DEF Dead
    <3>8. g.list = l
      BY <2>4, <3>1
    <3>9. Dead(g.list)'
      BY <3>7, <3>8
    <3> QED
      BY <2>1, <2>4, <3>9 DEF Below
  <2> QED
    BY <2>2, <2>3, <2>4
<1>12. v # <<>> => Below(v[Len(v)], g)'
  BY <1>4, <1>11
<1>13. CallsIn(s, r, n)'
  BY <1>4, <1>10, <1>12, CallsPush DEF s
<1> QED
  BY <1>4, <1>6, <1>13, LandsOn

\* A workflow that goes on is in the same place.
LEMMA AdvanceIn ==
  ASSUME RunInv, NEW b \in Frames, GoodFrame(copies, b), b.fn = "workflow", NEW end, NEW g, g = Advance(b, end)
  PROVE  /\ g \in Frames /\ g.fn = "workflow" /\ g.list = b.list /\ g.arr = b.arr /\ ~Waits(g)
<1>1. GoodFrame(copies, g) /\ g.fn = "workflow"
  BY AdvanceGood DEF RunInv, TypeOK
<1>2. g \in Frames /\ g.stage = "steps"
  BY <1>1 DEF GoodFrame
<1>3. g.list = b.list /\ g.arr = b.arr
  BY DEF Advance, Frames
<1> QED
  BY <1>1, <1>2, <1>3 DEF Waits

\* The innermost of some calls, a workflow, goes on and what is above it is gone.
LEMMA BackTo ==
  ASSUME RunInv, RunInv', NEW t \in Threads, stack[t] # <<>>, NEW r \in Nat \ {0}, NEW n \in Nat, Around(t),
         CallsIn(stack[t], r, n), Answered(t), NEW k \in 1 .. Len(Under(t)), Under(t)[k].fn = "workflow", NEW end,
         stack' = [ stack EXCEPT ![t] = Append(Upto(Under(t), k - 1), Advance(Under(t)[k], end)) ]
  PROVE  Lands(t, r, n)
<1>1. PICK u : u = Under(t)
  OBVIOUS
<1>2. PICK v : v = Upto(u, k - 1)
  OBVIOUS
<1>3. PICK b : b = u[k]
  OBVIOUS
<1>4. PICK g : g = Advance(b, end)
  OBVIOUS
<1>5. /\ CallsIn(u, r, n) /\ GoodStack(copies, u) /\ u \in Seq(Frames) /\ u = Upto(stack[t], Len(stack[t]) - 1)
      /\ Len(u) = Len(stack[t]) - 1 /\ Len(stack[t]) \in Nat \ {0} /\ k \in 1 .. Len(u)
      /\ stack[t] \in Seq(Frames)
  BY <1>1, TopIn, TopGood DEF RunInv, TypeOK
<1>6. k - 1 \in 0 .. Len(u) /\ k - 1 \in 0 .. Len(u) - 1 /\ Len(u) \in Nat /\ k \in Nat \ {0}
  BY <1>5
<1>7. v \in Seq(Frames) /\ Len(v) = k - 1 /\ \A i \in 1 .. k - 1 : v[i] = u[i]
  <2>1. PICK m : m = k - 1
    OBVIOUS
  <2>2. Upto(u, m) \in Seq(Frames) /\ Len(Upto(u, m)) = m /\ \A i \in 1 .. m : Upto(u, m)[i] = u[i]
    <3>1. m \in 0 .. Len(u) /\ u \in Seq(Frames)
      BY <1>5, <1>6, <2>1
    <3> QED
      BY <3>1, UptoIs
  <2> QED
    BY <1>2, <2>1, <2>2
<1>8. GoodStack(copies, v)
  BY <1>2, <1>5, <1>6, PrefixGood DEF Ready
<1>9. GoodFrame(copies, b) /\ b \in Frames /\ b.fn = "workflow" /\ FrameIn(b, r, n)
  BY <1>1, <1>3, <1>5 DEF GoodStack, GoodFrame, CallsIn
<1>10. g \in Frames /\ g.fn = "workflow" /\ g.list = b.list /\ g.arr = b.arr /\ ~Waits(g)
  BY <1>4, <1>9, AdvanceIn
<1> DEFINE s == Append(v, g)
<1>11. s \in Seq(Frames) /\ stack' = [ stack EXCEPT ![t] = s ] /\ s[Len(s)] = g
  <2>1. s \in Seq(Frames) /\ Len(s) = Len(v) + 1 /\ s[Len(v) + 1] = g
    BY <1>7, <1>10, AppendProperties
  <2>2. stack' = [ stack EXCEPT ![t] = s ]
    BY <1>1, <1>2, <1>3, <1>4
  <2> QED
    BY <2>1, <2>2
<1>12. \E j \in 1 .. Len(stack[t]) : stack[t][j].fn = "workflow" /\ stack[t][j].list = g.list
  <2>1. PICK w : w = stack[t]
    OBVIOUS
  <2>2. PICK m : m = Len(w) - 1
    OBVIOUS
  <2>3. m \in 0 .. Len(w) /\ k \in 1 .. m /\ k \in 1 .. Len(w)
    BY <1>5, <2>1, <2>2
  <2>4. u[k] = w[k]
    BY <1>5, <2>1, <2>2, <2>3, UptoIs
  <2> QED
    BY <1>3, <1>9, <1>10, <2>1, <2>3, <2>4
<1>13. NoneNew(t, v)
  <2>1. PICK w : w = stack[t]
    OBVIOUS
  <2>2. PICK m : m = Len(w) - 1
    OBVIOUS
  <2>3. m \in 0 .. Len(w) /\ w \in Seq(Frames) /\ k - 1 \in 0 .. m /\ k - 1 \in 0 .. Len(w)
    BY <1>5, <2>1, <2>2
  <2>4. v = Upto(w, k - 1)
    BY <1>2, <1>5, <2>1, <2>2, <2>3, UptoIs
  <2>5. NoneNew(t, Upto(stack[t], k - 1))
    BY <2>1, <2>3, NoneNewBelow
  <2> QED
    BY <2>1, <2>4, <2>5
<1>14. NoneNew(t, s)
  BY <1>7, <1>10, <1>12, <1>13, NoneNewPush
<1> HIDE DEF s
<1>15. DeadStay
  BY <1>11, <1>14, DeadStays
<1>16. CallsIn(v, r, n)'
  <2>1. CallsIn(v, r, n)
    BY <1>2, <1>5, <1>6, CallsBelow
  <2> QED
    BY <1>8, <1>15, <2>1, CallsStay DEF Around
<1>17. v # <<>> => Below(v[Len(v)], g)'
  <2>1. ASSUME v # <<>> PROVE Below(v[Len(v)], g)'
    <3>1. PICK a : a = v[Len(v)]
      OBVIOUS
    <3>2. k - 1 \in 1 .. k - 1 /\ k \in 2 .. Len(u)
      <4>1. Len(v) # 0
        BY <1>7, <2>1
      <4> QED
        BY <1>5, <1>6, <1>7, <4>1
    <3>3. a = u[k - 1]
      BY <1>7, <3>1, <3>2
    <3>4. Below(a, b)
      BY <1>3, <1>5, <3>2, <3>3 DEF CallsIn
    <3>5. Below(a, g)'
      BY <1>9, <1>10, <1>15, <3>4, BelowStays DEF Around
    <3> QED
      BY <3>1, <3>5
  <2> QED
    BY <2>1
<1>18. FrameIn(g, r, n)'
  <2>1. Len(lists) \in Nat /\ Len(lists') \in Nat /\ Len(copies) \in Nat /\ Len(copies') \in Nat
    BY DEF RunInv, TypeOK
  <2>2. Len(lists) <= Len(lists') /\ Len(copies) <= Len(copies')
    BY DEF Around, Kept
  <2> QED
    BY <1>9, <1>10, <2>1, <2>2 DEF FrameIn
<1>19. CallsIn(s, r, n)'
  BY <1>7, <1>10, <1>16, <1>17, <1>18, CallsPush DEF s
<1> QED
  BY <1>10, <1>11, <1>14, <1>19, LandsOn

\* Nothing but the innermost call is gone.
LEMMA PopLands ==
  ASSUME RunInv, RunInv', NEW t \in Threads, stack[t] # <<>>, NEW r \in Nat \ {0}, NEW n \in Nat, Around(t),
         CallsIn(stack[t], r, n), Answered(t), stack' = [ stack EXCEPT ![t] = Under(t) ],
         Top(t).fn = "workflow" => ret'[t].list = Top(t).list,
         Top(t).fn = "step" /\ Under(t) # <<>> => Under(t)[Len(Under(t))].fn # "workflow"
  PROVE  Lands(t, r, n)
<1>1. PICK u : u = Under(t)
  OBVIOUS
<1>2. PICK b : b = Top(t)
  OBVIOUS
<1>3. /\ CallsIn(u, r, n) /\ NoneNew(t, u) /\ GoodStack(copies, u) /\ u \in Seq(Frames) /\ b \in Frames
      /\ u # <<>> => Below(u[Len(u)], b)
  BY <1>1, <1>2, TopIn
<1>4. stack' = [ stack EXCEPT ![t] = u ]
  BY <1>1
<1>5. DeadStay
  BY <1>3, <1>4, DeadStays
<1>6. CallsIn(u, r, n)'
  BY <1>3, <1>5, CallsStay DEF Around
<1>7. ASSUME u # <<>>, Waits(u[Len(u)]) PROVE ret'[t].list > u[Len(u)].list
  <2>1. Below(u[Len(u)], b)
    BY <1>3, <1>7
  <2>2. b.fn # "step"
    <3>1. ASSUME b.fn = "step" PROVE FALSE
      <4>1. u[Len(u)].fn # "workflow"
        BY <1>1, <1>2, <1>7, <3>1
      <4> QED
        BY <1>7, <2>1, <3>1, <4>1 DEF Below
    <3> QED
      BY <3>1
  <2>3. b.fn = "workflow" /\ u[Len(u)].list < b.list
    BY <2>1, <2>2 DEF Below
  <2>4. u[Len(u)].list \in Nat /\ b.list \in Nat
    <3>1. Len(u) \in 1 .. Len(u)
      BY <1>3, <1>7
    <3>2. u[Len(u)] \in Frames
      BY <1>3, <3>1
    <3> QED
      BY <1>3, <3>2 DEF Frames
  <2> QED
    BY <1>2, <2>3, <2>4
<1> QED
  BY <1>3, <1>4, <1>6, <1>7, LandsOn

LEMMA ReturnLands ==
  ASSUME RunInv, RunInv', NEW t \in Threads, stack[t] # <<>>, NEW r \in Nat \ {0}, NEW n \in Nat, Around(t),
         CallsIn(stack[t], r, n), Answered(t), Top(t).fn = "step", NEW end, Return(t, end)
  PROVE  Lands(t, r, n)
<1>1. /\ Under(t) # <<>> /\ Under(t) \in Seq(Frames)
  BY TopGood
<1>2. Len(Under(t)) \in 1 .. Len(Under(t))
  BY <1>1
<1>3. CASE Under(t)[Len(Under(t))].fn = "workflow"
  <2>1. stack' = [ stack EXCEPT ![t] = Append(Upto(Under(t), Len(Under(t)) - 1), Advance(Under(t)[Len(Under(t))], end)) ]
    BY <1>3 DEF Return, FrontOf, Upto
  <2> QED
    BY <1>2, <1>3, <2>1, BackTo
<1>4. CASE Under(t)[Len(Under(t))].fn # "workflow"
  <2>1. stack' = [ stack EXCEPT ![t] = Under(t) ]
    BY <1>4 DEF Return
  <2> QED
    BY <1>4, <2>1, PopLands
<1> QED
  BY <1>3, <1>4

\* Where a throw is caught, and what it registers.
Thrown(frame) ==
  [ step |-> Id(frame), list |-> frame.list, left |-> 0, given |-> 0, arr |-> 0, own |-> {}, of |-> 0 ]
LEMMA ThrowIs ==
  ASSUME RunInv, NEW t \in Threads, stack[t] # <<>>, NEW made, Throw(t, Under(t), made)
  PROVE  \/ Under(t) = <<>> /\ stack' = [ stack EXCEPT ![t] = <<>> ] /\ copies' = made /\ checks' = checks
         \/ \E k \in 1 .. Len(Under(t)) :
              /\ Under(t)[k].fn = "workflow"
              /\ \A j \in 1 .. Len(Under(t)) : Under(t)[j].fn = "workflow" => j <= k
              /\ stack' = [ stack EXCEPT ![t] = Append(Upto(Under(t), k - 1), Advance(Under(t)[k], FALSE)) ]
              /\ AddCheck(Append(made, Thrown(Under(t)[k])), 0, Id(Under(t)[k]), "error")
<1> DEFINE open     == Under(t)
           catching == { i \in DOMAIN open : open[i].fn = "workflow" }
           last     == CHOOSE i \in catching : \A j \in catching : j <= i
<1>1. open \in Seq(Frames) /\ Ready(copies, open)
  BY TopGood
<1>2. DOMAIN open = 1 .. Len(open) /\ Len(open) \in Nat
  BY <1>1
<1>3. CASE catching = {}
  <2>1. stack' = [ stack EXCEPT ![t] = <<>> ] /\ copies' = made /\ checks' = checks
    BY <1>3 DEF Throw
  <2>2. open = <<>>
    <3>1. ASSUME open # <<>> PROVE FALSE
      <4>1. open[1].fn = "workflow" /\ 1 \in 1 .. Len(open)
        BY <1>1, <3>1 DEF Ready, GoodStack
      <4> QED
        BY <1>2, <1>3, <4>1
    <3> QED
      BY <3>1
  <2> QED
    BY <2>1, <2>2
<1>4. CASE catching # {}
  <2>1. /\ stack' = [ stack EXCEPT ![t] = Append(SubSeq(open, 1, last - 1), Advance(open[last], FALSE)) ]
        /\ AddCheck(Append(made, Thrown(open[last])), 0, Id(open[last]), "error")
    BY <1>4 DEF Throw, Thrown
  <2>2. last \in catching /\ \A j \in catching : j <= last
    <3>1. \E i \in catching : \A j \in catching : j <= i
      <4>1. catching \subseteq 1 .. Len(open)
        BY <1>2
      <4> HIDE DEF catching, open
      <4> QED
        BY <1>2, <1>4, <4>1, Greatest
    <3> HIDE DEF catching
    <3> QED
      BY <3>1
  <2> HIDE DEF last
  <2>3. last \in 1 .. Len(open) /\ open[last].fn = "workflow"
    BY <1>2, <2>2
  <2>4. \A j \in 1 .. Len(open) : open[j].fn = "workflow" => j <= last
    BY <1>2, <2>2
  <2>5. SubSeq(open, 1, last - 1) = Upto(open, last - 1)
    BY DEF Upto
  <2> HIDE DEF open
  <2> QED
    BY <2>1, <2>3, <2>4, <2>5 DEF open
<1> QED
  BY <1>3, <1>4

LEMMA ThrowLands ==
  ASSUME RunInv, RunInv', NEW t \in Threads, stack[t] # <<>>, NEW r \in Nat \ {0}, NEW n \in Nat, Around(t),
         CallsIn(stack[t], r, n), Answered(t), NEW made, Throw(t, Under(t), made)
  PROVE  Lands(t, r, n)
<1>1. CASE Under(t) = <<>> /\ stack' = [ stack EXCEPT ![t] = <<>> ]
  <2>1. <<>> \in Seq(Frames) /\ Len(<<>>) = 0
    OBVIOUS
  <2>2. NoneNew(t, <<>>)
    BY <2>1 DEF NoneNew
  <2>3. CallsIn(<<>>, r, n)'
    BY <2>1 DEF CallsIn
  <2> QED
    BY <1>1, <2>1, <2>2, <2>3, LandsOn
<1>2. CASE \E k \in 1 .. Len(Under(t)) :
              /\ Under(t)[k].fn = "workflow"
              /\ stack' = [ stack EXCEPT ![t] = Append(Upto(Under(t), k - 1), Advance(Under(t)[k], FALSE)) ]
  BY <1>2, BackTo
<1> QED
  BY <1>1, <1>2, ThrowIs

------------------------------------------------------------------------------
(* What a step does to the arrays and the copies. *)

ListsMove(t, r) ==
  /\ ListsIn(r)' /\ Len(lists) <= Len(lists')
  /\ \A l \in 1 .. Len(lists) : lists'[l] = lists[l] \/ (l = ret[t].list /\ l >= r)

LEMMA ListsSame ==
  ASSUME RunInv, NEW t, NEW r, ListsIn(r), lists' = lists
  PROVE  ListsMove(t, r)
<1>1. Len(lists) \in Nat
  BY DEF RunInv, TypeOK
<1>2. ListsIn(r)'
  BY DEF ListsIn
<1> QED
  BY <1>1, <1>2 DEF ListsMove

LEMMA ListsMore ==
  ASSUME RunInv, NEW t, NEW r \in Nat \ {0}, ListsIn(r), lists' = Append(lists, 0)
  PROVE  ListsMove(t, r) /\ Len(lists') = NewList
<1>1. lists \in Seq(Nat) /\ Len(lists) \in Nat
  BY DEF RunInv, TypeOK
<1>2. /\ Len(lists') = Len(lists) + 1 /\ lists'[Len(lists) + 1] = 0
      /\ \A l \in 1 .. Len(lists) : lists'[l] = lists[l]
  BY <1>1
<1>3. ASSUME NEW l \in r .. Len(lists') PROVE lists'[l] = 0 \/ lists'[l] \in r .. l - 1
  <2>1. CASE l = Len(lists) + 1
    BY <1>2, <2>1
  <2>2. CASE l # Len(lists) + 1
    <3>1. l \in 1 .. Len(lists) /\ l \in r .. Len(lists)
      BY <1>1, <1>2, <1>3, <2>2
    <3> QED
      BY <1>2, <3>1 DEF ListsIn
  <2> QED
    BY <2>1, <2>2
<1>4. ListsIn(r)'
  BY <1>3 DEF ListsIn
<1> QED
  BY <1>1, <1>2, <1>4 DEF ListsMove, NewList

\* What a workflow ran is registered where the call that ran it registers.
LEMMA ListsJoin ==
  ASSUME RunInv, NEW t \in Threads, stack[t] # <<>>, NEW r \in Nat \ {0}, NEW n, ListsIn(r), CallsIn(stack[t], r, n),
         Answered(t), Waits(Top(t)), lists' = [ lists EXCEPT ![ret[t].list] = Top(t).list ]
  PROVE  ListsMove(t, r)
<1>1. lists \in Seq(Nat) /\ Len(lists) \in Nat /\ ret[t].list \in Nat
  BY DEF RunInv, TypeOK, Returned
<1>2. PICK m : m = ret[t].list
  OBVIOUS
<1>3. PICK v : v = Top(t).list
  OBVIOUS
<1>4. v \in r .. Len(lists)
  BY <1>3, TopIn DEF FrameIn
<1>5. m > v /\ m <= Len(lists) /\ m \in Nat
  BY <1>1, <1>2, <1>3 DEF Answered
<1>6. lists' = [ lists EXCEPT ![m] = v ] /\ m \in 1 .. Len(lists) /\ v \in Nat
  BY <1>1, <1>2, <1>3, <1>4, <1>5
<1>7. Len(lists') = Len(lists) /\ \A l \in 1 .. Len(lists) : lists'[l] = IF l = m THEN v ELSE lists[l]
  BY <1>1, <1>6, ExceptSeq
<1>8. ASSUME NEW l \in r .. Len(lists') PROVE lists'[l] = 0 \/ lists'[l] \in r .. l - 1
  <2>1. l \in 1 .. Len(lists) /\ l \in r .. Len(lists)
    BY <1>1, <1>7, <1>8
  <2>2. CASE l = m
    BY <1>1, <1>4, <1>5, <1>7, <2>1, <2>2
  <2>3. CASE l # m
    BY <1>7, <2>1, <2>3 DEF ListsIn
  <2> QED
    BY <2>2, <2>3
<1>9. ListsIn(r)'
  BY <1>8 DEF ListsIn
<1> QED
  BY <1>1, <1>2, <1>4, <1>5, <1>7, <1>9 DEF ListsMove

CopiesMove(t, r, n) ==
  /\ CopiesIn(r, n)'
  /\ \A c \in 1 .. n : copies'[c] = copies[c]
  /\ \A id \in StepIds : checks[id] \subseteq checks'[id]
  /\ \A c \in 1 .. Len(copies') :
       Unsettled(c)' =>
         \/ \E l : copies'[c].list = l /\ Dead(l)
         \/ Calling(t, c)'
         \/ c \in 1 .. Len(copies) /\ Unsettled(c) /\ ~Calling(t, c) /\ copies'[c].list = copies[c].list

MadeIn(made, r, n) ==
  /\ made \in Seq(Copies) /\ Len(copies) <= Len(made)
  /\ \A c \in 1 .. n : made[c] = copies[c]
  /\ \A c \in n + 1 .. Len(made) :
       made[c].list \in {0} \cup (r .. Len(lists)) /\ made[c].arr \in {0} \cup (n + 1 .. c)
\* A registered copy that holds the array of its definition was there before.
WasThere(t, made, c) ==
  /\ c \in 1 .. Len(copies) /\ copies[c].list = made[c].list /\ copies[c].arr = 0
  /\ copies[c].step = made[c].step /\ ~Calling(t, c)
Bare(made, c) == made[c].list # 0 /\ made[c].arr = 0

LEMMA MadeSame ==
  ASSUME RunInv, NEW r, NEW n \in 0 .. Len(copies), CopiesIn(r, n)
  PROVE  MadeIn(copies, r, n)
<1>1. copies \in Seq(Copies) /\ Len(copies) \in Nat
  BY DEF RunInv, TypeOK
<1> QED
  BY <1>1 DEF MadeIn, CopiesIn

LEMMA MadeSet ==
  ASSUME NEW made, NEW r, NEW n \in Nat, MadeIn(made, r, n), NEW c \in 1 .. Len(made), c > n,
         NEW k \in Copies, k.list \in {0} \cup (r .. Len(lists)), k.arr \in {0} \cup (n + 1 .. c)
  PROVE  /\ MadeIn([ made EXCEPT ![c] = k ], r, n) /\ Len([ made EXCEPT ![c] = k ]) = Len(made)
         /\ \A d \in 1 .. Len(made) : [ made EXCEPT ![c] = k ][d] = IF d = c THEN k ELSE made[d]
<1> DEFINE b == [ made EXCEPT ![c] = k ]
<1>1. made \in Seq(Copies) /\ Len(made) \in Nat
  BY DEF MadeIn
<1>2. b \in Seq(Copies) /\ Len(b) = Len(made) /\ \A d \in 1 .. Len(made) : b[d] = IF d = c THEN k ELSE made[d]
  BY <1>1, ExceptSeq
<1>3. \A d \in 1 .. n : b[d] = made[d]
  <2>1. \A d \in 1 .. n : d # c
    OBVIOUS
  <2> QED
    BY <2>1
<1> HIDE DEF b
<1>4. ASSUME NEW d \in n + 1 .. Len(b)
      PROVE  b[d].list \in {0} \cup (r .. Len(lists)) /\ b[d].arr \in {0} \cup (n + 1 .. d)
  <2>1. d \in 1 .. Len(made) /\ d \in n + 1 .. Len(made)
    BY <1>1, <1>2
  <2> QED
    BY <1>2, <2>1 DEF MadeIn
<1>5. MadeIn(b, r, n)
  BY <1>2, <1>3, <1>4 DEF MadeIn
<1> QED
  BY <1>2, <1>5 DEF b

LEMMA MadeMore ==
  ASSUME NEW made, NEW r, NEW n \in Nat, MadeIn(made, r, n), n <= Len(made), NEW k \in Copies,
         k.list \in {0} \cup (r .. Len(lists)), k.arr \in {0} \cup (n + 1 .. Len(made))
  PROVE  /\ MadeIn(Append(made, k), r, n) /\ Len(Append(made, k)) = Len(made) + 1
         /\ Append(made, k)[Len(made) + 1] = k
         /\ \A d \in 1 .. Len(made) : Append(made, k)[d] = made[d]
<1> DEFINE b == Append(made, k)
           m == Len(made)
<1>1. made \in Seq(Copies) /\ m \in Nat
  BY DEF MadeIn
<1>2. b \in Seq(Copies) /\ Len(b) = m + 1 /\ b[m + 1] = k /\ \A d \in 1 .. m : b[d] = made[d]
  BY <1>1
<1>3. (\A d \in 1 .. n : b[d] = made[d]) /\ n <= m
  BY <1>1, <1>2
<1> HIDE DEF b
<1>4. ASSUME NEW d \in n + 1 .. m + 1
      PROVE  b[d].list \in {0} \cup (r .. Len(lists)) /\ b[d].arr \in {0} \cup (n + 1 .. d)
  <2>1. CASE d = m + 1
    BY <1>1, <1>2, <2>1
  <2>2. CASE d # m + 1
    <3>1. d \in 1 .. m /\ d \in n + 1 .. m
      BY <1>1, <2>2
    <3> QED
      BY <1>2, <3>1 DEF MadeIn
  <2> QED
    BY <2>1, <2>2
<1>5. MadeIn(b, r, n)
  <2>1. Len(copies) <= m
    BY DEF MadeIn
  <2>2. Len(copies) <= m + 1
    <3>1. ASSUME Len(copies) \in Nat PROVE Len(copies) <= m + 1
      BY <1>1, <2>1, <3>1
    <3> QED
      BY <1>1, <2>1
  <2> QED
    BY <1>2, <1>3, <1>4, <2>2 DEF MadeIn
<1> QED
  BY <1>2, <1>5 DEF b

LEMMA MadeIs ==
  ASSUME RunInv, RunInv', NEW t \in Threads, NEW r, NEW n \in 0 .. Len(copies), Len(lists) <= Len(lists'),
         NEW made, MadeIn(made, r, n), copies' = made, UNCHANGED checks,
         \A c \in 1 .. Len(made) :
           Bare(made, c) => WasThere(t, made, c) \/ Dead(made[c].list) \/ Calling(t, c)'
  PROVE  CopiesMove(t, r, n)
<1>1. Len(lists) \in Nat /\ Len(lists') \in Nat
  BY DEF RunInv, TypeOK
<1>2. CopiesIn(r, n)'
  BY <1>1 DEF MadeIn, CopiesIn
<1>3. ASSUME NEW c \in 1 .. Len(copies'), Unsettled(c)'
      PROVE  \/ \E l : copies'[c].list = l /\ Dead(l)
             \/ Calling(t, c)'
             \/ c \in 1 .. Len(copies) /\ Unsettled(c) /\ ~Calling(t, c) /\ copies'[c].list = copies[c].list
  BY <1>3 DEF Unsettled, Bare, WasThere
<1> QED
  BY <1>2, <1>3 DEF CopiesMove, MadeIn

LEMMA MadeChecked ==
  ASSUME RunInv, RunInv', NEW t \in Threads, NEW r, NEW n \in 0 .. Len(copies), Len(lists) <= Len(lists'),
         NEW made, MadeIn(made, r, n), NEW id \in StepIds, NEW arr \in {0} \cup (n + 1 .. Len(made)), NEW kind,
         AddCheck(made, arr, id, kind),
         \A c \in 1 .. Len(made) :
           Bare(made, c) => WasThere(t, made, c) \/ Dead(made[c].list) \/ (arr = 0 /\ made[c].step = id)
  PROVE  CopiesMove(t, r, n)
<1>1. /\ Len(lists) \in Nat /\ Len(lists') \in Nat /\ checks \in [StepIds -> SUBSET Kinds]
      /\ made \in Seq(Copies) /\ Len(made) \in Nat /\ Len(copies) \in Nat /\ n \in Nat
  BY DEF RunInv, TypeOK, MadeIn
<1>2. /\ Len(copies') = Len(made) /\ \A c \in 1 .. n : copies'[c] = made[c]
      /\ \A c \in 1 .. Len(made) :
           copies'[c].list = made[c].list /\ copies'[c].arr = made[c].arr /\ copies'[c].step = made[c].step
      /\ \A i \in StepIds : checks[i] \subseteq checks'[i]
      /\ arr = 0 => kind \in checks'[id]
  <2>1. CASE arr = 0
    BY <1>1, <2>1 DEF AddCheck
  <2>2. CASE arr # 0
    <3>1. arr \in 1 .. Len(made) /\ arr \in Nat /\ arr > n
      BY <1>1, <2>2
    <3>2. PICK own : own = made[arr].own \cup {kind}
      OBVIOUS
    <3>3. copies' = [ made EXCEPT ![arr].own = own ] /\ checks' = checks
      BY <2>2, <3>2 DEF AddCheck
    <3>4. made[arr] \in Copies
      BY <1>1, <3>1
    <3>5. PICK k : k = [ made[arr] EXCEPT !.own = own ]
      OBVIOUS
    <3>6. k.list = made[arr].list /\ k.arr = made[arr].arr /\ k.step = made[arr].step
      BY <3>4, <3>5 DEF Copies
    <3>7. DOMAIN made = 1 .. Len(made) /\ copies' = [ made EXCEPT ![arr] = k ]
      BY <1>1, <3>1, <3>3, <3>5
    <3>8. copies' = [ c \in 1 .. Len(made) |-> IF c = arr THEN k ELSE made[c] ]
      BY <1>1, <3>1, <3>7
    <3>9. Len(copies') = Len(made)
      <4>1. DOMAIN copies' = 1 .. Len(made) /\ copies' \in Seq(Copies)
        BY <3>8 DEF RunInv, TypeOK
      <4> QED
        BY <1>1, <4>1
    <3>10. \A c \in 1 .. n : c \in 1 .. Len(made) /\ c # arr
      <4>1. n <= Len(made)
        BY <1>1 DEF MadeIn
      <4> QED
        BY <1>1, <3>1, <4>1
    <3> QED
      BY <2>2, <3>3, <3>6, <3>8, <3>9, <3>10
  <2> QED
    BY <2>1, <2>2
<1>3. CopiesIn(r, n)'
  <2>1. ASSUME NEW c \in n + 1 .. Len(copies')
        PROVE  copies'[c].list \in {0} \cup (r .. Len(lists')) /\ copies'[c].arr \in {0} \cup (n + 1 .. c)
    <3>1. c \in 1 .. Len(made) /\ c \in n + 1 .. Len(made)
      BY <1>1, <1>2
    <3> QED
      BY <1>1, <1>2, <3>1 DEF MadeIn
  <2> QED
    BY <2>1 DEF CopiesIn
<1>4. ASSUME NEW c \in 1 .. Len(copies'), Unsettled(c)'
      PROVE  \/ \E l : copies'[c].list = l /\ Dead(l)
             \/ c \in 1 .. Len(copies) /\ Unsettled(c) /\ ~Calling(t, c) /\ copies'[c].list = copies[c].list
  <2>1. c \in 1 .. Len(made) /\ copies'[c].list # 0 /\ copies'[c].arr = 0 /\ checks'[copies'[c].step] = {}
    BY <1>2, <1>4 DEF Unsettled
  <2>2. Bare(made, c) /\ checks'[made[c].step] = {} /\ copies'[c].list = made[c].list
    BY <1>2, <2>1 DEF Bare
  <2>3. CASE WasThere(t, made, c)
    <3>1. copies[c].step \in StepIds
      <4>1. copies \in Seq(Copies) /\ c \in 1 .. Len(copies)
        BY <2>3 DEF WasThere, RunInv, TypeOK
      <4>2. copies[c] \in Copies
        BY <4>1
      <4> QED
        BY <4>2 DEF Copies
    <3>2. checks[copies[c].step] = {}
      BY <1>2, <2>2, <2>3, <3>1 DEF WasThere
    <3>3. c \in 1 .. Len(copies) /\ copies[c].list # 0 /\ copies[c].arr = 0 /\ ~Calling(t, c)
          /\ copies'[c].list = copies[c].list
      BY <2>2, <2>3 DEF WasThere, Bare
    <3> QED
      BY <3>2, <3>3 DEF Unsettled
  <2>4. CASE Dead(made[c].list)
    BY <2>2, <2>4
  <2>5. CASE arr = 0 /\ made[c].step = id
    BY <1>2, <2>2, <2>5
  <2>6. WasThere(t, made, c) \/ Dead(made[c].list) \/ (arr = 0 /\ made[c].step = id)
    BY <2>1, <2>2
  <2> QED
    BY <2>3, <2>4, <2>5, <2>6
<1> QED
  BY <1>2, <1>3, <1>4 DEF CopiesMove, MadeIn

------------------------------------------------------------------------------
(* What each step of a thread does. *)

Held(t, r, n) ==
  /\ RunInv /\ RunInv' /\ Kept(copies, copies') /\ plan' = plan
  /\ t \in Threads /\ r \in Nat \ {0} /\ n \in 0 .. Len(copies)
  /\ ListsIn(r) /\ CopiesIn(r, n) /\ CallsIn(stack[t], r, n)
  /\ \A u \in Threads : CallsIn(stack[u], 1, 0) /\ Answered(u)
Moves(t, r, n) == Around(t) /\ ListsMove(t, r) /\ CopiesMove(t, r, n) /\ Lands(t, r, n)

LEMMA HeldIs ==
  ASSUME NEW t, NEW r, NEW n, Held(t, r, n)
  PROVE  /\ t \in Threads /\ r \in Nat \ {0} /\ n \in Nat /\ n \in 0 .. Len(copies)
         /\ RunInv /\ RunInv' /\ Kept(copies, copies') /\ plan' = plan
         /\ ListsIn(r) /\ CopiesIn(r, n) /\ CallsIn(stack[t], r, n) /\ Answered(t)
         /\ \A u \in Threads : CallsIn(stack[u], 1, 0) /\ Answered(u)
         /\ Len(lists) \in Nat /\ Len(lists') \in Nat /\ Len(copies) \in Nat /\ Len(copies') \in Nat
         /\ Len(copies) <= Len(copies')
         /\ copies \in Seq(Copies) /\ lists \in Seq(Nat)
<1>1. RunInv /\ RunInv' /\ Kept(copies, copies') /\ n \in 0 .. Len(copies)
  BY DEF Held
<1>2. /\ Len(lists) \in Nat /\ Len(lists') \in Nat /\ Len(copies) \in Nat /\ Len(copies') \in Nat
      /\ copies \in Seq(Copies) /\ lists \in Seq(Nat)
  BY <1>1 DEF RunInv, TypeOK
<1> QED
  BY <1>1, <1>2 DEF Held, Kept

LEMMA TopHeld ==
  ASSUME NEW t, NEW r, NEW n, Held(t, r, n), stack[t] # <<>>
  PROVE  /\ Top(t) \in Frames /\ FrameIn(Top(t), r, n) /\ GoodFrame(copies, Top(t))
         /\ Top(t).list \in r .. Len(lists) /\ Top(t).list \in Nat
         /\ Top(t).arr \in {0} \cup (n + 1 .. Len(copies))
         /\ Top(t).fn = "step" /\ Top(t).stage # "start" =>
              /\ Top(t).copy \in n + 1 .. Len(copies) /\ Top(t).copy \in 1 .. Len(copies) /\ Top(t).copy > n
              /\ copies[Top(t).copy] \in Copies /\ copies[Top(t).copy].step = Id(Top(t))
              /\ copies[Top(t).copy].list \in {0} \cup (r .. Len(lists))
              /\ copies[Top(t).copy].arr \in {0} \cup (n + 1 .. Top(t).copy)
<1>1. /\ RunInv /\ t \in Threads /\ r \in Nat \ {0} /\ n \in Nat /\ CallsIn(stack[t], r, n) /\ CopiesIn(r, n)
      /\ Len(lists) \in Nat /\ Len(copies) \in Nat /\ copies \in Seq(Copies)
  BY HeldIs
<1>2. Top(t) \in Frames /\ FrameIn(Top(t), r, n) /\ GoodFrame(copies, Top(t))
  BY <1>1, TopIn, TopGood
<1>3. /\ Top(t).list \in r .. Len(lists) /\ Top(t).list \in Nat
      /\ Top(t).arr \in {0} \cup (n + 1 .. Len(copies))
  BY <1>1, <1>2 DEF FrameIn
<1>4. ASSUME Top(t).fn = "step", Top(t).stage # "start"
      PROVE  /\ Top(t).copy \in n + 1 .. Len(copies) /\ Top(t).copy \in 1 .. Len(copies) /\ Top(t).copy > n
             /\ copies[Top(t).copy] \in Copies /\ copies[Top(t).copy].step = Id(Top(t))
             /\ copies[Top(t).copy].list \in {0} \cup (r .. Len(lists))
             /\ copies[Top(t).copy].arr \in {0} \cup (n + 1 .. Top(t).copy)
  <2>1. Top(t).copy \in 1 .. Len(copies) /\ Top(t).copy > n /\ copies[Top(t).copy].step = Id(Top(t))
    BY <1>2, <1>4 DEF GoodFrame, GoodStep, FrameIn
  <2>2. Top(t).copy \in n + 1 .. Len(copies) /\ copies[Top(t).copy] \in Copies
    BY <1>1, <2>1
  <2> QED
    BY <1>1, <2>1, <2>2 DEF CopiesIn
<1> QED
  BY <1>2, <1>3, <1>4

LEMMA FrameNext ==
  ASSUME NEW t, NEW r, NEW n, Held(t, r, n), NEW f, f.list \in r .. Len(lists'),
         f.arr \in {0} \cup (n + 1 .. Len(copies')),
         f.fn = "step" /\ f.stage # "start" => f.copy > n /\ copies'[f.copy].step = Id(f)
  PROVE  FrameIn(f, r, n)'
BY DEF FrameIn, Id

\* The calls, when the innermost one goes on, makes another one, returns or throws.
LEMMA AroundSame ==
  ASSUME NEW t, NEW r, NEW n, Held(t, r, n), ListsMove(t, r), UNCHANGED ret
  PROVE  Around(t)
BY HeldIs DEF Around, ListsMove

LEMMA AroundReturn ==
  ASSUME NEW t, NEW r, NEW n, Held(t, r, n), ListsMove(t, r), NEW end, Return(t, end)
  PROVE  Around(t)
<1>1. ret \in [Threads -> Returned] /\ ret' = [ ret EXCEPT ![t].end = end ] /\ t \in Threads
  BY HeldIs DEF Return, RunInv, TypeOK
<1>2. ret'[t].list = ret[t].list /\ \A u \in Threads : u # t => ret'[u] = ret[u]
  BY <1>1 DEF Returned
<1> QED
  BY <1>2, HeldIs DEF Around, ListsMove

LEMMA MoveStay ==
  ASSUME NEW t, NEW r, NEW n, Held(t, r, n), stack[t] # <<>>, ListsMove(t, r), CopiesMove(t, r, n), UNCHANGED ret,
         NEW f \in Frames, Stay(t, f), Top(t).fn = "step", f.fn = "step",
         f.list = Top(t).list, Id(f) = Id(Top(t)), ~Waits(f),
         f.arr \in {0} \cup (n + 1 .. Len(copies')),
         f.stage # "start" => f.copy > n /\ copies'[f.copy].step = Id(f)
  PROVE  Moves(t, r, n)
<1>1. Around(t)
  BY AroundSame
<1>2. f.list \in r .. Len(lists')
  BY HeldIs, TopHeld DEF ListsMove
<1>3. FrameIn(f, r, n)'
  BY <1>2, FrameNext
<1>4. Lands(t, r, n)
  BY <1>1, <1>3, HeldIs, StayLands
<1> QED
  BY <1>1, <1>4 DEF Moves

LEMMA MoveReturn ==
  ASSUME NEW t, NEW r, NEW n, Held(t, r, n), stack[t] # <<>>, ListsMove(t, r), CopiesMove(t, r, n),
         NEW end, Return(t, end), Top(t).fn = "step"
  PROVE  Moves(t, r, n)
<1>1. Around(t)
  BY AroundReturn
<1>2. Lands(t, r, n)
  BY <1>1, HeldIs, ReturnLands
<1> QED
  BY <1>1, <1>2 DEF Moves

\* The copies that a step leaves, registers or fills in.
LEMMA CopiesSame ==
  ASSUME NEW t, NEW r, NEW n, Held(t, r, n), ListsMove(t, r), UNCHANGED <<copies, checks>>, ~InStage(t, "calling")
  PROVE  CopiesMove(t, r, n)
<1>1. MadeIn(copies, r, n)
  BY HeldIs, MadeSame
<1>2. ASSUME NEW c \in 1 .. Len(copies), Bare(copies, c) PROVE WasThere(t, copies, c)
  BY <1>2 DEF Bare, WasThere, Calling
<1> QED
  BY <1>1, <1>2, HeldIs, MadeIs DEF ListsMove

LEMMA Registers ==
  ASSUME NEW t, NEW r, NEW n, Held(t, r, n), Starting(t), NEW list \in {0, Top(t).list},
         NEW made, made = Append(copies, CopyOf(Top(t), list))
  PROVE  /\ MadeIn(made, r, n) /\ Len(made) = NewCopy /\ NewCopy \in Nat /\ NewCopy > n
         /\ made[NewCopy].step = Id(Top(t))
         /\ \A c \in 1 .. Len(made) :
              Bare(made, c) =>
                WasThere(t, made, c) \/ (c = NewCopy /\ list # 0 /\ Top(t).arr = 0)
<1>1. /\ stack[t] # <<>> /\ Top(t).fn = "step" /\ Top(t).stage = "start"
      /\ Top(t).list \in r .. Len(lists) /\ Top(t).list \in Nat /\ Top(t).arr \in {0} \cup (n + 1 .. Len(copies))
  BY TopHeld, AtTop, HeldIs DEF Starting, InStage
<1>2. RunInv /\ t \in Threads /\ n \in 0 .. Len(copies) /\ r \in Nat \ {0} /\ n \in Nat /\ Len(copies) \in Nat
      /\ copies \in Seq(Copies)
  BY HeldIs
<1>3. PICK k : k = CopyOf(Top(t), list)
  OBVIOUS
<1>4. k.list = list /\ k.arr = Top(t).arr /\ k.step = Id(Top(t))
  BY <1>3 DEF CopyOf
<1>5. k \in Copies
  <2>1. list \in Nat
    BY <1>1
  <2>2. CopiesOK(made)
    BY <1>2, <2>1, AtStart
  <2>3. made \in Seq(Copies)
    BY <2>2 DEF CopiesOK
  <2>4. Len(made) = Len(copies) + 1 /\ made[Len(copies) + 1] = k
    BY <1>2, <1>3
  <2>5. Len(made) \in 1 .. Len(made)
    BY <1>2, <2>4
  <2> QED
    BY <2>3, <2>4, <2>5
<1>6. MadeIn(copies, r, n)
  BY <1>2, HeldIs, MadeSame
<1>7. k.list \in {0} \cup (r .. Len(lists)) /\ k.arr \in {0} \cup (n + 1 .. Len(copies))
  BY <1>1, <1>4
<1>8. /\ MadeIn(made, r, n) /\ Len(made) = Len(copies) + 1
      /\ made[Len(copies) + 1] = k /\ \A d \in 1 .. Len(copies) : made[d] = copies[d]
  <2>1. made = Append(copies, k) /\ n <= Len(copies)
    BY <1>2, <1>3
  <2> QED
    BY <1>2, <1>5, <1>6, <1>7, <2>1, MadeMore
<1>9. ~InStage(t, "calling")
  BY <1>1 DEF InStage
<1>10. ASSUME NEW c \in 1 .. Len(made), Bare(made, c)
       PROVE  WasThere(t, made, c) \/ (c = NewCopy /\ list # 0 /\ Top(t).arr = 0)
  <2>1. CASE c = Len(copies) + 1
    BY <1>4, <1>8, <1>10, <2>1 DEF Bare, NewCopy
  <2>2. CASE c # Len(copies) + 1
    <3>1. c \in 1 .. Len(copies)
      BY <1>2, <1>8, <2>2
    <3> QED
      BY <1>8, <1>9, <1>10, <3>1 DEF Bare, WasThere, Calling
  <2> QED
    BY <2>1, <2>2
<1> QED
  BY <1>2, <1>4, <1>8, <1>10 DEF NewCopy

\* The copy of the innermost call, changed where it is.
LEMMA Fills ==
  ASSUME NEW t, NEW r, NEW n, Held(t, r, n), stack[t] # <<>>, Top(t).fn = "step", Top(t).stage # "start",
         NEW made, MadeIn(made, r, n), Len(made) = Len(copies),
         NEW k \in Copies, k.list \in {0} \cup (r .. Len(lists)), k.arr \in {0} \cup (n + 1 .. Top(t).copy)
  PROVE  /\ MadeIn([ made EXCEPT ![Top(t).copy] = k ], r, n)
         /\ Len([ made EXCEPT ![Top(t).copy] = k ]) = Len(copies)
         /\ \A d \in 1 .. Len(copies) :
              [ made EXCEPT ![Top(t).copy] = k ][d] = IF d = Top(t).copy THEN k ELSE made[d]
<1>1. Top(t).copy \in 1 .. Len(made) /\ Top(t).copy > n
  BY TopHeld
<1>2. n \in Nat
  BY HeldIs
<1> QED
  BY <1>1, <1>2, MadeSet

LEMMA MoveCall ==
  ASSUME NEW t, NEW r, NEW n, Held(t, r, n), stack[t] # <<>>, ListsMove(t, r), CopiesMove(t, r, n), UNCHANGED ret,
         NEW f \in Frames, NEW g \in Frames, Call(t, f, g), f.fn = Top(t).fn,
         f.list = Top(t).list, Id(f) = Id(Top(t)), ~Waits(g),
         f.arr \in {0} \cup (n + 1 .. Len(copies')),
         f.fn = "step" /\ f.stage # "start" => f.copy > n /\ copies'[f.copy].step = Id(f),
         g.list \in r .. Len(lists'), g.arr = 0, g.fn = "workflow" \/ g.stage = "start",
         \/ g.fn = "workflow" /\ g.list > Len(lists) /\ Waits(f)
         \/ g.fn = "step" /\ f.fn = "workflow" /\ Id(f) = Id(g) /\ f.list = g.list
         \/ /\ g.fn = "step" /\ f.fn = "step" /\ f.stage = "retried" /\ ~Waits(f)
            /\ g.list = NewList /\ lists' = Append(lists, 0)
  PROVE  Moves(t, r, n)
<1>1. Around(t)
  BY AroundSame
<1>2. f.list \in r .. Len(lists')
  BY HeldIs, TopHeld DEF ListsMove
<1>3. FrameIn(f, r, n)'
  BY <1>2, FrameNext
<1>4. FrameIn(g, r, n)'
  <2>1. g.fn = "step" /\ g.stage # "start" => FALSE
    <3>1. "workflow" # "step"
      OBVIOUS
    <3> QED
      BY <3>1
  <2> QED
    BY <2>1, FrameNext
<1>5. g.list > Len(lists) => f.list < g.list
  <2>1. g.list \in Nat /\ f.list \in Nat /\ f.list <= Len(lists) /\ Len(lists) \in Nat
    <3>1. g.list \in Nat
      BY DEF Frames
    <3>2. r \in Nat /\ Len(lists) \in Nat
      BY HeldIs
    <3>3. f.list \in r .. Len(lists)
      BY TopHeld
    <3> QED
      BY <3>1, <3>2, <3>3
  <2> QED
    BY <2>1
<1>6. Lands(t, r, n)
  <2>1. /\ RunInv /\ RunInv' /\ t \in Threads /\ r \in Nat \ {0} /\ n \in Nat
        /\ CallsIn(stack[t], r, n) /\ Answered(t)
        /\ \A u \in Threads : CallsIn(stack[u], 1, 0) /\ Answered(u)
    BY HeldIs
  <2> QED
    BY <1>1, <1>3, <1>4, <1>5, <2>1, CallLands
<1> QED
  BY <1>1, <1>6 DEF Moves

LEMMA NextStepMoves == ASSUME NEW t, NEW r, NEW n, Held(t, r, n), NextStep(t) PROVE Moves(t, r, n)
<1>1. PICK f : f = Top(t)
  OBVIOUS
<1>2. PICK g : g = RunStep(f.w, f.pos, f.list, f.left, f.retrying)
  OBVIOUS
<1>3. RunInv /\ t \in Threads
  BY HeldIs
<1>4. /\ stack[t] # <<>> /\ f.stage = "steps" /\ f.fn = "workflow" /\ Call(t, f, g)
      /\ UNCHANGED <<copies, checks, lists, ret>> /\ InStage(t, "steps")
  BY <1>1, <1>2, <1>3, AtTop DEF NextStep
<1>5. f \in Frames /\ f.list \in r .. Len(lists) /\ f.arr \in {0} \cup (n + 1 .. Len(copies)) /\ Id(f) = Id(Top(t))
  BY <1>1, <1>4, TopHeld
<1>6. ListsMove(t, r)
  BY <1>4, HeldIs, ListsSame
<1>7. CopiesMove(t, r, n)
  BY <1>4, <1>6, CopiesSame DEF InStage
<1>8. g.list = f.list /\ g.arr = 0 /\ g.fn = "step" /\ g.stage = "start" /\ Id(g) = Id(f)
  BY <1>2 DEF RunStep, Id
<1>9. g \in Frames
  <2>1. stack' = [ stack EXCEPT ![t] = Append(Append(Under(t), f), g) ]
    BY <1>4 DEF Call
  <2>2. Append(Append(Under(t), f), g) \in Seq(Frames)
    <3>1. stack \in [Threads -> Seq(Frames)] /\ stack' \in [Threads -> Seq(Frames)]
      BY HeldIs DEF RunInv, TypeOK
    <3> QED
      BY <1>3, <2>1, <3>1
  <2>3. PICK v : v = Append(Under(t), f)
    OBVIOUS
  <2>4. v \in Seq(Frames)
    BY <1>3, <1>4, <1>5, <2>3, TopGood
  <2>5. Append(v, g)[Len(v) + 1] = g /\ Len(Append(v, g)) = Len(v) + 1 /\ Len(v) \in Nat
    BY <2>4
  <2>6. Append(v, g)[Len(v) + 1] \in Frames
    BY <2>2, <2>3, <2>5
  <2> QED
    BY <2>5, <2>6
<1>10. ~Waits(g)
  BY <1>8 DEF Waits
<1> QED
  BY <1>1, <1>4, <1>5, <1>6, <1>7, <1>8, <1>9, <1>10, MoveCall

LEMMA FinishMoves == ASSUME NEW t, NEW r, NEW n, Held(t, r, n), FinishWorkflow(t) PROVE Moves(t, r, n)
<1>1. RunInv /\ t \in Threads /\ ret \in [Threads -> Returned]
  BY HeldIs DEF RunInv, TypeOK
<1>2. /\ stack[t] # <<>> /\ Top(t).stage = "steps" /\ Top(t).fn = "workflow" /\ InStage(t, "steps")
      /\ UNCHANGED <<copies, checks, lists>>
      /\ stack' = [ stack EXCEPT ![t] = Under(t) ]
      /\ ret' = [ ret EXCEPT ![t] = [end |-> FALSE, list |-> Top(t).list, timeout |-> TimedOut(Top(t).w)] ]
  BY <1>1, AtTop DEF FinishWorkflow
<1>3. ret'[t].list = Top(t).list /\ \A u \in Threads : u # t => ret'[u] = ret[u]
  BY <1>1, <1>2
<1>4. ListsMove(t, r)
  BY <1>2, HeldIs, ListsSame
<1>5. CopiesMove(t, r, n)
  BY <1>2, <1>4, CopiesSame DEF InStage
<1>6. Around(t)
  BY <1>2, <1>3, <1>4, HeldIs DEF Around, ListsMove
<1>7. Lands(t, r, n)
  <2>1. Top(t).fn # "step"
    BY <1>2
  <2> QED
    BY <1>2, <1>3, <1>6, <2>1, HeldIs, PopLands
<1> QED
  BY <1>4, <1>5, <1>6, <1>7 DEF Moves

\* A throw: the step that threw may have been registered.
LEMMA ThrowMoves ==
  ASSUME NEW t, NEW r, NEW n, Held(t, r, n), stack[t] # <<>>, ~InStage(t, "calling"), UNCHANGED <<lists, ret>>,
         NEW made, Throw(t, Under(t), made), MadeIn(made, r, n),
         \A c \in 1 .. Len(made) :
           Bare(made, c) =>
             \/ WasThere(t, made, c)
             \/ /\ Top(t).fn = "step" /\ made[c].step = Id(Top(t)) /\ made[c].list = Top(t).list
  PROVE  Moves(t, r, n)
<1>1. ListsMove(t, r)
  BY HeldIs, ListsSame
<1>2. Around(t)
  BY <1>1, AroundSame
<1>3. Lands(t, r, n)
  BY <1>2, HeldIs, ThrowLands
<1>4. /\ RunInv /\ RunInv' /\ t \in Threads /\ n \in 0 .. Len(copies) /\ n \in Nat /\ Len(copies) \in Nat
      /\ r \in Nat \ {0} /\ CallsIn(stack[t], r, n) /\ plan \in Plans
  BY HeldIs DEF RunInv, TypeOK
<1>5. made \in Seq(Copies) /\ Len(made) \in Nat /\ Len(copies) <= Len(made)
  BY DEF MadeIn
<1>6. CASE Under(t) = <<>> /\ copies' = made /\ checks' = checks
  <2>1. Top(t).fn = "workflow"
    BY <1>4, <1>6, TopGood
  <2>2. \A c \in 1 .. Len(made) : Bare(made, c) => WasThere(t, made, c)
    <3>1. Top(t).fn # "step"
      BY <2>1
    <3> QED
      BY <3>1
  <2>3. CopiesMove(t, r, n)
    BY <1>1, <1>4, <1>6, <2>2, MadeIs DEF ListsMove
  <2> QED
    BY <1>1, <1>2, <1>3, <2>3 DEF Moves
<1>7. CASE \E k \in 1 .. Len(Under(t)) :
              /\ Under(t)[k].fn = "workflow"
              /\ \A j \in 1 .. Len(Under(t)) : Under(t)[j].fn = "workflow" => j <= k
              /\ AddCheck(Append(made, Thrown(Under(t)[k])), 0, Id(Under(t)[k]), "error")
  <2>1. PICK u : u = Under(t)
    OBVIOUS
  <2>2. PICK k \in 1 .. Len(u) :
              /\ u[k].fn = "workflow"
              /\ \A j \in 1 .. Len(u) : u[j].fn = "workflow" => j <= k
              /\ AddCheck(Append(made, Thrown(u[k])), 0, Id(u[k]), "error")
    BY <1>7, <2>1
  <2>3. PICK b : b = u[k]
    OBVIOUS
  <2>4. PICK x : x = Thrown(b)
    OBVIOUS
  <2>5. CallsIn(u, r, n) /\ GoodStack(copies, u) /\ u \in Seq(Frames) /\ Ready(copies, u)
    BY <1>4, <2>1, TopIn, TopGood
  <2>6. FrameIn(b, r, n) /\ GoodFrame(copies, b) /\ Open(b) /\ b \in Frames
    BY <2>2, <2>3, <2>5 DEF CallsIn, Ready, GoodStack
  <2>7. Id(b) \in StepIds
    <3>1. b.w \in Workflows /\ b.pos \in Nat /\ b.pos >= 1 /\ b.pos <= Len(Steps(b.w))
      BY <2>2, <2>3, <2>6 DEF GoodFrame, Open, Frames
    <3>2. b.pos \in DOMAIN Steps(b.w)
      <4>1. Steps(b.w) \in Seq(StepDefs)
        BY <1>4, <3>1, PlanTypes
      <4> QED
        BY <3>1, <4>1
    <3>3. <<b.w, b.pos>> \in StepIds
      BY <1>4, <3>1, <3>2, PlanTypes
    <3> QED
      BY <3>3 DEF Id
  <2>8. x.step = Id(b) /\ x.list = b.list /\ x.arr = 0 /\ x \in Copies
    <3>1. b.list \in Nat
      BY <2>6 DEF Frames
    <3> QED
      BY <2>4, <2>7, <3>1 DEF Thrown, Copies
  <2>9. x.list \in {0} \cup (r .. Len(lists)) /\ x.arr \in {0} \cup (n + 1 .. Len(made))
    BY <2>6, <2>8 DEF FrameIn
  <2>10. PICK y : y = Append(made, x)
    OBVIOUS
  <2>11. /\ MadeIn(y, r, n) /\ Len(y) = Len(made) + 1 /\ y[Len(made) + 1] = x
         /\ \A d \in 1 .. Len(made) : y[d] = made[d]
    <3>1. n <= Len(made)
      BY <1>4, <1>5
    <3> QED
      BY <1>4, <2>8, <2>9, <2>10, <3>1, MadeMore
  <2>12. ASSUME NEW c \in 1 .. Len(y), Bare(y, c)
         PROVE  WasThere(t, y, c) \/ Dead(y[c].list) \/ y[c].step = Id(b)
    <3>1. CASE c = Len(made) + 1
      BY <2>8, <2>11, <3>1
    <3>2. CASE c # Len(made) + 1
      <4>1. c \in 1 .. Len(made) /\ y[c] = made[c] /\ Bare(made, c)
        BY <1>5, <2>11, <2>12, <3>2 DEF Bare
      <4>2. CASE WasThere(t, made, c)
        BY <4>1, <4>2 DEF WasThere
      <4>3. CASE Top(t).fn = "step" /\ made[c].step = Id(Top(t)) /\ made[c].list = Top(t).list
        <5>1. PICK m : m = Len(u)
          OBVIOUS
        <5>2. m \in 1 .. Len(u) /\ u # <<>> /\ m \in Nat
          BY <2>2, <2>5, <5>1
        <5>3. Below(u[m], Top(t))
          BY <1>4, <2>1, <5>1, <5>2, TopIn
        <5>4. CASE u[m].fn = "workflow"
          <6>1. m = k
            BY <2>2, <2>5, <5>1, <5>2, <5>4
          <6>2. b.fn = "workflow" /\ b.stage = "steps" /\ Below(b, Top(t))
            BY <2>3, <2>6, <5>3, <5>4, <6>1 DEF GoodFrame
          <6>3. Top(t).fn = "step"
            BY <4>3
          <6>4. Id(b) = Id(Top(t))
            BY <6>2, <6>3 DEF Below
          <6> QED
            BY <4>1, <4>3, <6>4
        <5>5. CASE u[m].fn # "workflow"
          BY <4>1, <4>3, <5>3, <5>5 DEF Below
        <5> QED
          BY <5>4, <5>5
      <4> QED
        BY <4>1, <4>2, <4>3
    <3> QED
      BY <3>1, <3>2
  <2>13. CopiesMove(t, r, n)
    <3>1. AddCheck(y, 0, Id(b), "error")
      BY <2>2, <2>3, <2>4, <2>10
    <3>2. 0 \in {0} \cup (n + 1 .. Len(y))
      OBVIOUS
    <3> QED
      BY <1>1, <1>4, <2>7, <2>11, <2>12, <3>1, <3>2, MadeChecked DEF ListsMove
  <2> QED
    BY <1>1, <1>2, <1>3, <2>13 DEF Moves
<1> QED
  BY <1>4, <1>6, <1>7, ThrowIs

LEMMA ThrowSameMoves ==
  ASSUME NEW t, NEW r, NEW n, Held(t, r, n), NEW stage, stage # "calling", InStage(t, stage),
         UNCHANGED <<lists, ret>>, Throw(t, Under(t), copies)
  PROVE  Moves(t, r, n)
<1>1. stack[t] # <<>> /\ ~InStage(t, "calling")
  BY DEF InStage
<1>2. MadeIn(copies, r, n)
  BY HeldIs, MadeSame
<1>3. \A c \in 1 .. Len(copies) : Bare(copies, c) => WasThere(t, copies, c)
  BY <1>1 DEF Bare, WasThere, Calling
<1> QED
  BY <1>1, <1>2, <1>3, ThrowMoves

LEMMA OutputsThrowMoves == ASSUME NEW t, NEW r, NEW n, Held(t, r, n), OutputsThrow(t) PROVE Moves(t, r, n)
BY ThrowSameMoves DEF OutputsThrow

LEMMA StartBrokenMoves == ASSUME NEW t, NEW r, NEW n, Held(t, r, n), StartBroken(t) PROVE Moves(t, r, n)
BY ThrowSameMoves DEF StartBroken

LEMMA StayTyped ==
  ASSUME NEW t, NEW r, NEW n, Held(t, r, n), stack[t] # <<>>, NEW f, Stay(t, f)
  PROVE  f \in Frames
<1>1. PICK u : u = Under(t)
  OBVIOUS
<1>2. t \in Threads /\ stack \in [Threads -> Seq(Frames)] /\ stack' \in [Threads -> Seq(Frames)] /\ u \in Seq(Frames)
  BY <1>1, HeldIs, TopGood DEF RunInv, TypeOK
<1>3. stack'[t] = Append(u, f)
  BY <1>1, <1>2 DEF Stay
<1>4. u \in Seq(Frames \cup {f})
  BY <1>2
<1>5. Append(u, f)[Len(u) + 1] = f /\ Len(Append(u, f)) = Len(u) + 1 /\ Len(u) \in Nat
  BY <1>4
<1>6. Append(u, f) \in Seq(Frames)
  BY <1>2, <1>3
<1>7. Append(u, f)[Len(u) + 1] \in Frames
  BY <1>5, <1>6
<1> QED
  BY <1>5, <1>7

LEMMA CallTyped ==
  ASSUME NEW t, NEW r, NEW n, Held(t, r, n), stack[t] # <<>>, NEW f, NEW g, Call(t, f, g)
  PROVE  f \in Frames /\ g \in Frames
<1>1. PICK u : u = Under(t)
  OBVIOUS
<1>2. t \in Threads /\ stack \in [Threads -> Seq(Frames)] /\ stack' \in [Threads -> Seq(Frames)] /\ u \in Seq(Frames)
  BY <1>1, HeldIs, TopGood DEF RunInv, TypeOK
<1>3. PICK v : v = Append(u, f)
  OBVIOUS
<1>4. stack'[t] = Append(v, g)
  BY <1>1, <1>2, <1>3 DEF Call
<1>5. u \in Seq(Frames \cup {f, g}) /\ Len(u) \in Nat
  BY <1>2
<1>6. v \in Seq(Frames \cup {f, g}) /\ Len(v) = Len(u) + 1 /\ v[Len(u) + 1] = f
  BY <1>3, <1>5
<1>7. PICK w : w = Append(v, g)
  OBVIOUS
<1>8. Len(w) = Len(u) + 2 /\ w[Len(u) + 1] = f /\ w[Len(u) + 2] = g
  BY <1>5, <1>6, <1>7
<1>9. w \in Seq(Frames)
  BY <1>2, <1>4, <1>7
<1>10. w[Len(u) + 1] \in Frames /\ w[Len(u) + 2] \in Frames
  BY <1>5, <1>8, <1>9
<1> QED
  BY <1>8, <1>10

\* A step that starts.
LEMMA StartChildMoves == ASSUME NEW t, NEW r, NEW n, Held(t, r, n), StartChild(t) PROVE Moves(t, r, n)
<1>1. PICK b : b = Top(t)
  OBVIOUS
<1>2. PICK f : f = [ b EXCEPT !.stage = "child", !.copy = NewCopy ]
  OBVIOUS
<1>3. PICK g : g = RunWorkflow(Def(b).calls, 1, NewList, 0, {})
  OBVIOUS
<1>4. PICK made : made = Append(copies, CopyOf(Top(t), 0))
  OBVIOUS
<1>5. /\ Starting(t) /\ stack[t] # <<>> /\ b.fn = "step" /\ b.stage = "start" /\ Call(t, f, g)
      /\ copies' = made /\ lists' = Append(lists, 0) /\ UNCHANGED <<checks, ret>>
  BY <1>1, <1>2, <1>3, <1>4, HeldIs, AtTop DEF StartChild, Starting, InStage
<1>6. b \in Frames /\ b.list \in r .. Len(lists) /\ b.arr \in {0} \cup (n + 1 .. Len(copies))
  BY <1>1, <1>5, TopHeld
<1>7. f \in Frames /\ g \in Frames
  BY <1>5, CallTyped
<1>8. f.fn = "step" /\ f.stage = "child" /\ f.list = b.list /\ f.arr = b.arr /\ f.copy = NewCopy /\ Id(f) = Id(b)
  BY <1>2, <1>5, <1>6 DEF Frames, Id
<1>9. g.fn = "workflow" /\ g.list = NewList /\ g.arr = 0 /\ g.stage = "steps"
  BY <1>3 DEF RunWorkflow
<1>10. ListsMove(t, r) /\ Len(lists') = NewList
  BY <1>5, HeldIs, ListsMore
<1>11. 0 \in {0, Top(t).list}
  OBVIOUS
<1>12. /\ MadeIn(made, r, n) /\ Len(made) = NewCopy /\ NewCopy > n /\ made[NewCopy].step = Id(b)
       /\ \A c \in 1 .. Len(made) : Bare(made, c) => WasThere(t, made, c)
  BY <1>1, <1>4, <1>5, <1>11, Registers
<1>13. CopiesMove(t, r, n)
  BY <1>5, <1>10, <1>12, HeldIs, MadeIs DEF ListsMove
<1>14. Waits(f) /\ ~Waits(g)
  BY <1>8, <1>9 DEF Waits
<1>15. f.arr \in {0} \cup (n + 1 .. Len(copies'))
  BY <1>6, <1>8, HeldIs
<1>16. f.copy > n /\ copies'[f.copy].step = Id(f)
  BY <1>5, <1>8, <1>12
<1>17. g.list \in r .. Len(lists') /\ g.list > Len(lists)
  <2>1. r \in Nat /\ Len(lists) \in Nat /\ r <= Len(lists)
    BY <1>6, HeldIs
  <2>2. NewList = Len(lists) + 1
    BY DEF NewList
  <2> QED
    BY <1>9, <1>10, <2>1, <2>2
<1>18. f.fn = Top(t).fn /\ f.list = Top(t).list /\ Id(f) = Id(Top(t))
  BY <1>1, <1>5, <1>8
<1> QED
  BY <1>5, <1>7, <1>9, <1>10, <1>13, <1>14, <1>15, <1>16, <1>17, <1>18, MoveCall

\* A step that is registered with a failed check, and returns.
LEMMA CheckedMoves ==
  ASSUME NEW t, NEW r, NEW n, Held(t, r, n), Starting(t), NEW kind, lists' = lists,
         AddCheck(Append(copies, CopyOf(Top(t), Top(t).list)), Top(t).arr, Id(Top(t)), kind), NEW end, Return(t, end)
  PROVE  Moves(t, r, n)
<1>1. PICK b : b = Top(t)
  OBVIOUS
<1>2. PICK made : made = Append(copies, CopyOf(Top(t), Top(t).list))
  OBVIOUS
<1>3. /\ stack[t] # <<>> /\ b.fn = "step" /\ b.stage = "start" /\ Id(b) \in StepIds
      /\ b.arr \in {0} \cup (n + 1 .. Len(copies))
  <2>1. Id(b) \in StepIds
    BY <1>1, HeldIs, AtStart
  <2>2. stack[t] # <<>> /\ b.fn = "step" /\ b.stage = "start"
    BY <1>1, HeldIs, AtTop DEF Starting, InStage
  <2> QED
    BY <1>1, <2>1, <2>2, TopHeld
<1>4. AddCheck(made, b.arr, Id(b), kind) /\ Top(t).list \in {0, Top(t).list}
  BY <1>1, <1>2
<1>5. /\ MadeIn(made, r, n) /\ Len(made) = NewCopy /\ NewCopy \in Nat /\ made[NewCopy].step = Id(b)
      /\ \A c \in 1 .. Len(made) :
           Bare(made, c) => WasThere(t, made, c) \/ (c = NewCopy /\ b.arr = 0)
  BY <1>1, <1>2, <1>4, Registers
<1>6. ListsMove(t, r)
  BY HeldIs, ListsSame
<1>7. b.arr \in {0} \cup (n + 1 .. Len(made))
  BY <1>3, <1>5, HeldIs DEF NewCopy
<1>8. \A c \in 1 .. Len(made) :
        Bare(made, c) => WasThere(t, made, c) \/ Dead(made[c].list) \/ (b.arr = 0 /\ made[c].step = Id(b))
  BY <1>5
<1>9. CopiesMove(t, r, n)
  BY <1>3, <1>4, <1>5, <1>6, <1>7, <1>8, HeldIs, MadeChecked DEF ListsMove
<1> QED
  BY <1>1, <1>3, <1>6, <1>9, MoveReturn

LEMMA StartMissingMoves == ASSUME NEW t, NEW r, NEW n, Held(t, r, n), StartMissing(t) PROVE Moves(t, r, n)
BY CheckedMoves DEF StartMissing

LEMMA OverLimitMoves == ASSUME NEW t, NEW r, NEW n, Held(t, r, n), StartOverLimit(t) PROVE Moves(t, r, n)
BY CheckedMoves DEF StartOverLimit, AtApi, Registered

LEMMA TimedOutMoves == ASSUME NEW t, NEW r, NEW n, Held(t, r, n), StartTimedOut(t) PROVE Moves(t, r, n)
BY CheckedMoves DEF StartTimedOut, AtApi, Registered

LEMMA StartThrowsMoves == ASSUME NEW t, NEW r, NEW n, Held(t, r, n), StartThrows(t) PROVE Moves(t, r, n)
<1>1. PICK made : made = Append(copies, CopyOf(Top(t), Top(t).list))
  OBVIOUS
<1>2. Starting(t) /\ Throw(t, Under(t), made) /\ UNCHANGED <<lists, ret>> /\ Top(t).list \in {0, Top(t).list}
  BY <1>1 DEF StartThrows, AtApi, Registered
<1>3. stack[t] # <<>> /\ Top(t).fn = "step" /\ ~InStage(t, "calling")
  BY <1>2, HeldIs, AtTop DEF Starting, InStage
<1>4. /\ MadeIn(made, r, n) /\ made[NewCopy].step = Id(Top(t))
      /\ \A c \in 1 .. Len(made) : Bare(made, c) => WasThere(t, made, c) \/ c = NewCopy
  BY <1>1, <1>2, Registers
<1>5. made[NewCopy].list = Top(t).list
  <2>1. Append(copies, CopyOf(Top(t), Top(t).list))[Len(copies) + 1] = CopyOf(Top(t), Top(t).list)
    BY HeldIs
  <2> QED
    BY <1>1, <2>1 DEF NewCopy, CopyOf
<1> QED
  BY <1>2, <1>3, <1>4, <1>5, ThrowMoves

LEMMA RequestMoves == ASSUME NEW t, NEW r, NEW n, Held(t, r, n), StartRequest(t) PROVE Moves(t, r, n)
<1>1. PICK b : b = Top(t)
  OBVIOUS
<1>2. PICK f : f = [ b EXCEPT !.stage = "calling", !.copy = NewCopy ]
  OBVIOUS
<1>3. PICK made : made = Append(copies, CopyOf(Top(t), Top(t).list))
  OBVIOUS
<1>4. /\ Starting(t) /\ stack[t] # <<>> /\ b.fn = "step" /\ b.stage = "start" /\ Stay(t, f)
      /\ copies' = made /\ UNCHANGED <<checks, lists, ret>> /\ Top(t).list \in {0, Top(t).list}
  BY <1>1, <1>2, <1>3, HeldIs, AtTop DEF StartRequest, AtApi, Registered, Starting, InStage
<1>5. b \in Frames /\ b.arr \in {0} \cup (n + 1 .. Len(copies))
  BY <1>1, <1>4, TopHeld
<1>6. f \in Frames
  BY <1>4, StayTyped
<1>7. f.fn = "step" /\ f.stage = "calling" /\ f.list = b.list /\ f.arr = b.arr /\ f.copy = NewCopy /\ Id(f) = Id(b)
  BY <1>2, <1>4, <1>5 DEF Frames, Id
<1>8. ListsMove(t, r)
  BY <1>4, HeldIs, ListsSame
<1>9. /\ MadeIn(made, r, n) /\ Len(made) = NewCopy /\ NewCopy > n /\ made[NewCopy].step = Id(b)
      /\ \A c \in 1 .. Len(made) : Bare(made, c) => WasThere(t, made, c) \/ c = NewCopy
  BY <1>1, <1>3, <1>4, Registers
<1>10. PICK c : c = NewCopy
  OBVIOUS
<1>11. Calling(t, c)'
  <2>1. PICK u : u = Under(t)
    OBVIOUS
  <2>2. t \in Threads /\ stack \in [Threads -> Seq(Frames)] /\ u \in Seq(Frames)
    BY <1>4, <2>1, HeldIs, TopGood DEF RunInv, TypeOK
  <2>3. stack'[t] = Append(u, f)
    BY <1>4, <2>1, <2>2 DEF Stay
  <2>4. PICK v : v = Append(u, f)
    OBVIOUS
  <2>5. v \in Seq(Frames) /\ Len(v) = Len(u) + 1 /\ v[Len(u) + 1] = f /\ Len(u) \in Nat
    BY <1>6, <2>2, <2>4
  <2>6. v # <<>> /\ v[Len(v)] = f
    BY <2>5
  <2> QED
    BY <1>7, <1>10, <2>3, <2>4, <2>6 DEF Calling, InStage, Top
<1>12. \A d \in 1 .. Len(made) : Bare(made, d) => WasThere(t, made, d) \/ Dead(made[d].list) \/ Calling(t, d)'
  BY <1>9, <1>10, <1>11
<1>13. CopiesMove(t, r, n)
  BY <1>4, <1>8, <1>9, <1>12, HeldIs, MadeIs DEF ListsMove
<1>14. ~Waits(f)
  BY <1>7 DEF Waits
<1>15. f.arr \in {0} \cup (n + 1 .. Len(copies'))
  BY <1>5, <1>7, HeldIs
<1>16. f.copy > n /\ copies'[f.copy].step = Id(f)
  BY <1>4, <1>7, <1>9
<1> QED
  BY <1>1, <1>4, <1>6, <1>7, <1>8, <1>13, <1>14, <1>15, <1>16, MoveStay

\* A step whose request is answered, or that could not be prepared.
LEMMA RequestDoneMoves == ASSUME NEW t, NEW r, NEW n, Held(t, r, n), RequestDone(t) PROVE Moves(t, r, n)
<1>1. PICK b : b = Top(t)
  OBVIOUS
<1>2. PICK c : c = b.copy
  OBVIOUS
<1>3. /\ InStage(t, "calling") /\ stack[t] # <<>> /\ b.fn = "step" /\ b.stage = "calling"
      /\ UNCHANGED <<lists, ret>> /\ Id(b) \in StepIds
  BY <1>1, HeldIs, InStep DEF RequestDone
<1>4. /\ b \in Frames /\ b.list \in r .. Len(lists) /\ b.arr \in {0} \cup (n + 1 .. Len(copies))
      /\ c \in n + 1 .. Len(copies) /\ c \in 1 .. Len(copies) /\ c > n /\ copies[c] \in Copies
      /\ copies[c].step = Id(b) /\ copies[c].list \in {0} \cup (r .. Len(lists))
      /\ copies[c].arr \in {0} \cup (n + 1 .. c)
  BY <1>1, <1>2, <1>3, TopHeld
<1>5. ListsMove(t, r)
  BY <1>3, HeldIs, ListsSame
<1>6. MadeIn(copies, r, n) /\ n \in Nat /\ Len(copies) \in Nat
  BY HeldIs, MadeSame
<1>7. ASSUME NEW d \in 1 .. Len(copies), d # c, NEW made, made[d] = copies[d], Bare(made, d)
      PROVE  WasThere(t, made, d)
  BY <1>1, <1>2, <1>7 DEF Bare, WasThere, Calling
<1>8. ASSUME NEW own \in SUBSET Kinds, NEW k, k = [ copies[c] EXCEPT !.arr = c, !.own = own ],
             copies' = [ copies EXCEPT ![c] = k ], UNCHANGED checks
      PROVE  CopiesMove(t, r, n)
  <2>1. k \in Copies /\ k.list = copies[c].list /\ k.arr = c
    <3>1. c \in Nat
      BY <1>4, <1>6
    <3> QED
      BY <1>4, <1>8, <3>1 DEF Copies
  <2>2. k.list \in {0} \cup (r .. Len(lists)) /\ k.arr \in {0} \cup (n + 1 .. c)
    BY <1>4, <1>6, <2>1
  <2>3. PICK made : made = [ copies EXCEPT ![c] = k ]
    OBVIOUS
  <2>4. /\ MadeIn(made, r, n) /\ Len(made) = Len(copies)
        /\ \A d \in 1 .. Len(copies) : made[d] = IF d = c THEN k ELSE copies[d]
    <3>1. MadeIn(copies, r, n) /\ n \in Nat /\ c \in 1 .. Len(copies) /\ c > n /\ k \in Copies
      BY <1>4, <1>6, <2>1
    <3>2. /\ MadeIn([ copies EXCEPT ![c] = k ], r, n) /\ Len([ copies EXCEPT ![c] = k ]) = Len(copies)
          /\ \A d \in 1 .. Len(copies) : [ copies EXCEPT ![c] = k ][d] = IF d = c THEN k ELSE copies[d]
      BY <2>2, <3>1, MadeSet
    <3> QED
      BY <2>3, <3>2
  <2>5. ASSUME NEW d \in 1 .. Len(made), Bare(made, d) PROVE WasThere(t, made, d)
    <3>1. CASE d = c
      <4>1. made[d].arr = c /\ c # 0
        BY <1>4, <2>1, <2>4, <3>1
      <4> QED
        BY <2>5, <4>1 DEF Bare
    <3>2. CASE d # c
      <4>1. d \in 1 .. Len(copies) /\ made[d] = copies[d]
        BY <2>4, <3>2
      <4> QED
        BY <1>7, <2>5, <3>2, <4>1
    <3> QED
      BY <3>1, <3>2
  <2>6. copies' = made
    BY <1>8, <2>3
  <2> QED
    BY <1>5, <1>8, <2>4, <2>5, <2>6, HeldIs, MadeIs DEF ListsMove
<1>9. ASSUME NEW kind, NEW f, f = [ b EXCEPT !.stage = "acting", !.kind = kind ], Stay(t, f), CopiesMove(t, r, n)
      PROVE  Moves(t, r, n)
  <2>1. f \in Frames
    BY <1>3, <1>9, StayTyped
  <2>2. f.fn = "step" /\ f.stage = "acting" /\ f.list = b.list /\ f.arr = b.arr /\ f.copy = c /\ Id(f) = Id(b)
    BY <1>2, <1>3, <1>4, <1>9 DEF Frames, Id
  <2>3. ~Waits(f)
    BY <2>2 DEF Waits
  <2>4. f.arr \in {0} \cup (n + 1 .. Len(copies'))
    BY <1>4, <2>2, HeldIs
  <2>5. f.copy > n /\ copies'[f.copy].step = Id(f)
    <3>1. Kept(copies, copies')
      BY HeldIs
    <3>2. copies'[c].step = copies[c].step
      BY <1>4, <3>1 DEF Kept
    <3> QED
      BY <1>4, <2>2, <3>2
  <2> QED
    BY <1>1, <1>3, <1>5, <1>9, <2>1, <2>2, <2>3, <2>4, <2>5, MoveStay
<1>10. CASE /\ copies' = [ copies EXCEPT ![c].arr = c ] /\ UNCHANGED checks
            /\ Stay(t, [ b EXCEPT !.stage = "acting", !.kind = "success" ])
  <2>1. PICK own : own = copies[c].own
    OBVIOUS
  <2>2. PICK k : k = [ copies[c] EXCEPT !.arr = c, !.own = own ]
    OBVIOUS
  <2>3. k = [ copies[c] EXCEPT !.arr = c ] /\ own \in SUBSET Kinds
    BY <1>4, <2>1, <2>2 DEF Copies
  <2>4. copies' = [ copies EXCEPT ![c] = k ]
    BY <1>10, <2>3
  <2>5. CopiesMove(t, r, n)
    BY <1>8, <1>10, <2>2, <2>3, <2>4
  <2> QED
    BY <1>9, <1>10, <2>5
<1>11. CASE /\ copies' = [ copies EXCEPT ![c].arr = c, ![c].own = {"failed"} ] /\ UNCHANGED checks
            /\ Stay(t, [ b EXCEPT !.stage = "acting", !.kind = "failure" ])
  <2>1. PICK own : own = {"failed"}
    OBVIOUS
  <2>2. PICK k : k = [ copies[c] EXCEPT !.arr = c, !.own = own ]
    OBVIOUS
  <2>3. own \in SUBSET Kinds
    BY <2>1 DEF Kinds
  <2>4. copies' = [ copies EXCEPT ![c] = k ]
    <3>1. copies \in Seq(Copies)
      BY HeldIs
    <3> QED
      BY <1>4, <1>11, <2>1, <2>2, <3>1
  <2>5. CopiesMove(t, r, n)
    BY <1>8, <1>11, <2>2, <2>3, <2>4
  <2> QED
    BY <1>9, <1>11, <2>5
<1>12. CASE /\ AddCheck(copies, copies[c].arr, Id(b), "error")
            /\ Stay(t, [ b EXCEPT !.stage = "acting", !.kind = "failure" ])
  <2>1. PICK a : a = copies[c].arr
    OBVIOUS
  <2>2. a \in {0} \cup (n + 1 .. Len(copies))
    BY <1>4, <1>6, <2>1
  <2>3. ASSUME NEW d \in 1 .. Len(copies), Bare(copies, d)
        PROVE  WasThere(t, copies, d) \/ Dead(copies[d].list) \/ (a = 0 /\ copies[d].step = Id(b))
    <3>1. CASE d = c
      BY <1>4, <2>1, <2>3, <3>1 DEF Bare
    <3>2. CASE d # c
      BY <1>7, <2>3, <3>2
    <3> QED
      BY <3>1, <3>2
  <2>4. AddCheck(copies, a, Id(b), "error")
    BY <1>12, <2>1
  <2>5. CopiesMove(t, r, n)
    BY <1>3, <1>5, <1>6, <2>2, <2>3, <2>4, HeldIs, MadeChecked DEF ListsMove
  <2> QED
    BY <1>9, <1>12, <2>5
<1>13. \/ /\ copies' = [ copies EXCEPT ![Top(t).copy].arr = Top(t).copy ] /\ UNCHANGED checks
          /\ Stay(t, [ Top(t) EXCEPT !.stage = "acting", !.kind = "success" ])
       \/ /\ copies' = [ copies EXCEPT ![Top(t).copy].arr = Top(t).copy, ![Top(t).copy].own = {"failed"} ]
          /\ UNCHANGED checks
          /\ Stay(t, [ Top(t) EXCEPT !.stage = "acting", !.kind = "failure" ])
       \/ /\ AddCheck(copies, copies[Top(t).copy].arr, Id(Top(t)), "error")
          /\ Stay(t, [ Top(t) EXCEPT !.stage = "acting", !.kind = "failure" ])
  BY DEF RequestDone
<1>14. CASE /\ copies' = [ copies EXCEPT ![Top(t).copy].arr = Top(t).copy ] /\ UNCHANGED checks
            /\ Stay(t, [ Top(t) EXCEPT !.stage = "acting", !.kind = "success" ])
  <2>1. copies' = [ copies EXCEPT ![c].arr = c ]
    BY <1>1, <1>2, <1>14
  <2>2. Stay(t, [ b EXCEPT !.stage = "acting", !.kind = "success" ])
    BY <1>1, <1>14
  <2> QED
    BY <1>10, <1>14, <2>1, <2>2
<1>15. CASE /\ copies' = [ copies EXCEPT ![Top(t).copy].arr = Top(t).copy, ![Top(t).copy].own = {"failed"} ]
            /\ UNCHANGED checks
            /\ Stay(t, [ Top(t) EXCEPT !.stage = "acting", !.kind = "failure" ])
  <2>1. copies' = [ copies EXCEPT ![c].arr = c, ![c].own = {"failed"} ]
    BY <1>1, <1>2, <1>15
  <2>2. Stay(t, [ b EXCEPT !.stage = "acting", !.kind = "failure" ])
    BY <1>1, <1>15
  <2> QED
    BY <1>11, <1>15, <2>1, <2>2
<1>16. CASE /\ AddCheck(copies, copies[Top(t).copy].arr, Id(Top(t)), "error")
            /\ Stay(t, [ Top(t) EXCEPT !.stage = "acting", !.kind = "failure" ])
  <2>1. AddCheck(copies, copies[c].arr, Id(b), "error")
    BY <1>1, <1>2, <1>16
  <2>2. Stay(t, [ b EXCEPT !.stage = "acting", !.kind = "failure" ])
    BY <1>1, <1>16
  <2> QED
    BY <1>12, <2>1, <2>2
<1> QED
  BY <1>13, <1>14, <1>15, <1>16

\* A child workflow that is done: the step is registered if its outputs fail.
LEMMA ChildDoneMoves == ASSUME NEW t, NEW r, NEW n, Held(t, r, n), ChildDone(t) PROVE Moves(t, r, n)
<1>1. PICK b : b = Top(t)
  OBVIOUS
<1>2. PICK c : c = b.copy
  OBVIOUS
<1>3. PICK kind : kind = IF Failed(ret[t].list) THEN "failure" ELSE "success"
  OBVIOUS
<1>4. PICK f : f = [ b EXCEPT !.stage = "acting", !.kind = kind ]
  OBVIOUS
<1>5. /\ InStage(t, "child") /\ stack[t] # <<>> /\ b.fn = "step" /\ b.stage = "child" /\ Id(b) \in StepIds
      /\ UNCHANGED ret /\ lists' = [ lists EXCEPT ![ret[t].list] = Top(t).list ] /\ Stay(t, f)
      /\ ~InStage(t, "calling")
  BY <1>1, <1>3, <1>4, HeldIs, InStep DEF ChildDone, InStage
<1>6. /\ b \in Frames /\ b.list \in r .. Len(lists) /\ b.arr \in {0} \cup (n + 1 .. Len(copies))
      /\ c \in n + 1 .. Len(copies) /\ c \in 1 .. Len(copies) /\ c > n /\ copies[c] \in Copies
      /\ copies[c].step = Id(b) /\ copies[c].arr \in {0} \cup (n + 1 .. c) /\ b.list \in Nat
  BY <1>1, <1>2, <1>5, TopHeld
<1>7. ListsMove(t, r)
  <2>1. Waits(Top(t))
    BY <1>1, <1>5 DEF Waits
  <2> QED
    BY <1>5, <2>1, HeldIs, ListsJoin
<1>8. ASSUME UNCHANGED <<copies, checks>> PROVE CopiesMove(t, r, n)
  BY <1>5, <1>7, <1>8, CopiesSame
<1>9. ASSUME AddCheck([ copies EXCEPT ![c].list = b.list ], copies[c].arr, Id(b), "error") PROVE CopiesMove(t, r, n)
  <2>1. PICK k : k = [ copies[c] EXCEPT !.list = b.list ]
    OBVIOUS
  <2>2. k \in Copies /\ k.list = b.list /\ k.arr = copies[c].arr /\ k.step = Id(b)
    BY <1>6, <2>1 DEF Copies
  <2>3. k.list \in {0} \cup (r .. Len(lists)) /\ k.arr \in {0} \cup (n + 1 .. c)
    BY <1>6, <2>2
  <2>4. PICK made : made = [ copies EXCEPT ![c] = k ]
    OBVIOUS
  <2>5. /\ MadeIn(made, r, n) /\ Len(made) = Len(copies)
        /\ \A d \in 1 .. Len(copies) : made[d] = IF d = c THEN k ELSE copies[d]
    <3>1. MadeIn(copies, r, n) /\ n \in Nat
      BY HeldIs, MadeSame
    <3>2. c \in 1 .. Len(copies) /\ c > n
      BY <1>6
    <3>3. /\ MadeIn([ copies EXCEPT ![c] = k ], r, n) /\ Len([ copies EXCEPT ![c] = k ]) = Len(copies)
          /\ \A d \in 1 .. Len(copies) : [ copies EXCEPT ![c] = k ][d] = IF d = c THEN k ELSE copies[d]
      BY <2>2, <2>3, <3>1, <3>2, MadeSet
    <3> QED
      BY <2>4, <3>3
  <2>6. PICK a : a = copies[c].arr
    OBVIOUS
  <2>7. a \in {0} \cup (n + 1 .. Len(made)) /\ AddCheck(made, a, Id(b), "error")
    <3>1. a \in {0} \cup (n + 1 .. Len(made))
      BY <1>6, <2>5, <2>6, HeldIs
    <3>2. made = [ copies EXCEPT ![c].list = b.list ]
      BY <2>1, <2>4
    <3> QED
      BY <1>9, <2>6, <3>1, <3>2
  <2>8. ASSUME NEW d \in 1 .. Len(made), Bare(made, d)
        PROVE  WasThere(t, made, d) \/ Dead(made[d].list) \/ (a = 0 /\ made[d].step = Id(b))
    <3>1. CASE d = c
      BY <1>6, <2>2, <2>5, <2>6, <2>8, <3>1 DEF Bare
    <3>2. CASE d # c
      <4>1. d \in 1 .. Len(copies) /\ made[d] = copies[d]
        BY <2>5, <3>2
      <4> QED
        BY <1>5, <2>8, <4>1 DEF Bare, WasThere, Calling
    <3> QED
      BY <3>1, <3>2
  <2> QED
    <3>1. /\ RunInv /\ RunInv' /\ t \in Threads /\ n \in 0 .. Len(copies) /\ Len(lists) <= Len(lists')
          /\ MadeIn(made, r, n) /\ Id(b) \in StepIds
      BY <1>5, <1>7, <2>5, HeldIs DEF ListsMove
    <3> QED
      BY <2>7, <2>8, <3>1, MadeChecked
<1>10. CopiesMove(t, r, n)
  <2>1. \/ UNCHANGED <<copies, checks>>
        \/ AddCheck([ copies EXCEPT ![Top(t).copy].list = Top(t).list ], copies[Top(t).copy].arr, Id(Top(t)), "error")
    BY DEF ChildDone
  <2>2. CASE AddCheck([ copies EXCEPT ![Top(t).copy].list = Top(t).list ], copies[Top(t).copy].arr, Id(Top(t)), "error")
    <3>1. AddCheck([ copies EXCEPT ![c].list = b.list ], copies[c].arr, Id(b), "error")
      BY <1>1, <1>2, <2>2
    <3> QED
      BY <1>9, <3>1
  <2> QED
    BY <1>8, <2>1, <2>2
<1>11. f \in Frames
  BY <1>5, StayTyped
<1>12. f.fn = "step" /\ f.stage = "acting" /\ f.list = b.list /\ f.arr = b.arr /\ f.copy = c /\ Id(f) = Id(b)
  BY <1>2, <1>4, <1>5, <1>6 DEF Frames, Id
<1>13. ~Waits(f)
  BY <1>12 DEF Waits
<1>14. f.arr \in {0} \cup (n + 1 .. Len(copies'))
  BY <1>6, <1>12, HeldIs
<1>15. f.copy > n /\ copies'[f.copy].step = Id(f)
  <2>1. Kept(copies, copies')
    BY HeldIs
  <2>2. copies'[c].step = copies[c].step
    BY <1>6, <2>1 DEF Kept
  <2> QED
    BY <1>6, <1>12, <2>2
<1> QED
  BY <1>1, <1>5, <1>7, <1>10, <1>11, <1>12, <1>13, <1>14, <1>15, MoveStay

LEMMA NoMoreActionsMoves == ASSUME NEW t, NEW r, NEW n, Held(t, r, n), NoMoreActions(t) PROVE Moves(t, r, n)
<1>1. InStage(t, "acting") /\ UNCHANGED <<copies, checks, lists>> /\ Return(t, Top(t).kind = "failure")
  BY DEF NoMoreActions
<1>2. stack[t] # <<>> /\ Top(t).fn = "step" /\ ~InStage(t, "calling")
  BY <1>1, HeldIs, InStep DEF InStage
<1>3. ListsMove(t, r)
  BY <1>1, HeldIs, ListsSame
<1>4. CopiesMove(t, r, n)
  BY <1>1, <1>2, <1>3, CopiesSame
<1> QED
  BY <1>1, <1>2, <1>3, <1>4, MoveReturn

LEMMA EndActionMoves == ASSUME NEW t, NEW r, NEW n, Held(t, r, n), EndAction(t) PROVE Moves(t, r, n)
<1>1. InStage(t, "acting") /\ UNCHANGED <<copies, checks, lists>> /\ Return(t, TRUE)
  BY DEF EndAction, Matched, Acting
<1>2. stack[t] # <<>> /\ Top(t).fn = "step" /\ ~InStage(t, "calling")
  BY <1>1, HeldIs, InStep DEF InStage
<1>3. ListsMove(t, r)
  BY <1>1, HeldIs, ListsSame
<1>4. CopiesMove(t, r, n)
  BY <1>1, <1>2, <1>3, CopiesSame
<1> QED
  BY <1>1, <1>2, <1>3, <1>4, MoveReturn

LEMMA GoneMoves == ASSUME NEW t, NEW r, NEW n, Held(t, r, n), Gone(t) PROVE Moves(t, r, n)
<1>1. /\ InStage(t, "gone") /\ UNCHANGED <<copies, checks>> /\ Return(t, TRUE)
      /\ lists' = [ lists EXCEPT ![ret[t].list] = Top(t).list ]
  BY DEF Gone
<1>2. stack[t] # <<>> /\ Top(t).fn = "step" /\ ~InStage(t, "calling") /\ Waits(Top(t))
  BY <1>1, HeldIs, InStep DEF InStage, Waits
<1>3. ListsMove(t, r)
  BY <1>1, <1>2, HeldIs, ListsJoin
<1>4. CopiesMove(t, r, n)
  BY <1>1, <1>2, <1>3, CopiesSame
<1> QED
  BY <1>1, <1>2, <1>3, <1>4, MoveReturn

\* A call at its actions.
LEMMA ActingHeld ==
  ASSUME NEW t, NEW r, NEW n, Held(t, r, n), NEW stage \in {"acting", "retried"}, InStage(t, stage)
  PROVE  /\ stack[t] # <<>> /\ Top(t).fn = "step" /\ Top(t).stage = stage /\ Top(t) \in Frames
         /\ ~InStage(t, "calling") /\ Id(Top(t)) \in StepIds
         /\ Top(t).list \in r .. Len(lists) /\ Top(t).list \in Nat
         /\ Top(t).arr \in {0} \cup (n + 1 .. Len(copies')) /\ Top(t).arr \in {0} \cup (n + 1 .. Len(copies))
         /\ Top(t).copy \in n + 1 .. Len(copies) /\ Top(t).copy \in 1 .. Len(copies) /\ Top(t).copy > n
         /\ copies[Top(t).copy] \in Copies
         /\ copies[Top(t).copy].step = Id(Top(t)) /\ copies'[Top(t).copy].step = Id(Top(t))
         /\ copies[Top(t).copy].list \in {0} \cup (r .. Len(lists))
         /\ copies[Top(t).copy].arr \in {0} \cup (n + 1 .. Top(t).copy)
         /\ copies[Top(t).copy].arr \in {0} \cup (n + 1 .. Len(copies))
         /\ copies[Top(t).copy].arr \in {0} \cup (n + 1 .. Len(copies'))
<1>1. /\ stack[t] # <<>> /\ Top(t).fn = "step" /\ Top(t).stage = stage /\ Id(Top(t)) \in StepIds
      /\ Top(t).stage # "start" /\ ~InStage(t, "calling")
  BY HeldIs, InStep DEF InStage
<1>2. /\ Top(t) \in Frames /\ Top(t).list \in r .. Len(lists) /\ Top(t).list \in Nat
      /\ Top(t).arr \in {0} \cup (n + 1 .. Len(copies))
      /\ Top(t).copy \in n + 1 .. Len(copies) /\ Top(t).copy \in 1 .. Len(copies) /\ Top(t).copy > n
      /\ copies[Top(t).copy] \in Copies /\ copies[Top(t).copy].step = Id(Top(t))
      /\ copies[Top(t).copy].list \in {0} \cup (r .. Len(lists))
      /\ copies[Top(t).copy].arr \in {0} \cup (n + 1 .. Top(t).copy)
  BY <1>1, TopHeld
<1>3. n \in Nat /\ Len(copies) \in Nat /\ Len(copies') \in Nat /\ Len(copies) <= Len(copies') /\ Kept(copies, copies')
  BY HeldIs
<1>4. Top(t).arr \in {0} \cup (n + 1 .. Len(copies'))
  BY <1>2, <1>3
<1>5. copies'[Top(t).copy].step = Id(Top(t))
  BY <1>2, <1>3 DEF Kept
<1>6. PICK a : a = copies[Top(t).copy].arr
  OBVIOUS
<1>7. PICK c : c = Top(t).copy
  OBVIOUS
<1>8. a \in {0} \cup (n + 1 .. c) /\ c \in 1 .. Len(copies)
  BY <1>2, <1>6, <1>7
<1>9. a \in {0} \cup (n + 1 .. Len(copies)) /\ a \in {0} \cup (n + 1 .. Len(copies'))
  BY <1>3, <1>8
<1> QED
  BY <1>1, <1>2, <1>4, <1>5, <1>6, <1>9

LEMMA UnmatchedMoves == ASSUME NEW t, NEW r, NEW n, Held(t, r, n), Unmatched(t) PROVE Moves(t, r, n)
<1>1. PICK b : b = Top(t)
  OBVIOUS
<1>2. PICK f : f = [ b EXCEPT !.act = @ + 1 ]
  OBVIOUS
<1>3. InStage(t, "acting") /\ Stay(t, f) /\ UNCHANGED <<copies, checks, lists, ret>>
  BY <1>1, <1>2 DEF Unmatched, Acting
<1>4. /\ stack[t] # <<>> /\ b.fn = "step" /\ b.stage = "acting" /\ b \in Frames /\ ~InStage(t, "calling")
      /\ b.arr \in {0} \cup (n + 1 .. Len(copies')) /\ b.copy > n /\ copies'[b.copy].step = Id(b)
  BY <1>1, <1>3, ActingHeld
<1>5. f \in Frames
  BY <1>3, <1>4, StayTyped
<1>6. f.fn = "step" /\ f.stage = "acting" /\ f.list = b.list /\ f.arr = b.arr /\ f.copy = b.copy /\ Id(f) = Id(b)
  BY <1>2, <1>4 DEF Frames, Id
<1>7. ListsMove(t, r)
  BY <1>3, HeldIs, ListsSame
<1>8. CopiesMove(t, r, n)
  BY <1>3, <1>4, <1>7, CopiesSame
<1>9. ~Waits(f)
  BY <1>6 DEF Waits
<1>10. f.arr \in {0} \cup (n + 1 .. Len(copies')) /\ f.copy > n /\ copies'[f.copy].step = Id(f)
  BY <1>4, <1>6
<1> QED
  BY <1>1, <1>3, <1>4, <1>5, <1>6, <1>7, <1>8, <1>9, <1>10, MoveStay

\* Copies that have the same registration and array as before.
AsBefore(made) ==
  /\ Len(made) = Len(copies)
  /\ \A d \in 1 .. Len(copies) :
       made[d].list = copies[d].list /\ made[d].arr = copies[d].arr /\ made[d].step = copies[d].step

LEMMA FailMoves ==
  ASSUME NEW t, NEW r, NEW n, Held(t, r, n), InStage(t, "acting"),
         NEW made, MadeIn(made, r, n), AsBefore(made), FailStep(t, made)
  PROVE  Moves(t, r, n)
<1>1. PICK b : b = Top(t)
  OBVIOUS
<1>2. PICK c : c = b.copy
  OBVIOUS
<1>3. /\ stack[t] # <<>> /\ b.fn = "step" /\ b.stage = "acting" /\ b \in Frames /\ ~InStage(t, "calling")
      /\ Id(b) \in StepIds /\ b.list \in r .. Len(lists) /\ b.list \in Nat
      /\ c \in n + 1 .. Len(copies) /\ c \in 1 .. Len(copies) /\ c > n
      /\ copies[c].step = Id(b) /\ copies[c].arr \in {0} \cup (n + 1 .. c)
      /\ copies[c].arr \in {0} \cup (n + 1 .. Len(copies))
  BY <1>1, <1>2, ActingHeld
<1>4. PICK made2 : made2 = [ made EXCEPT ![c].list = b.list ]
  OBVIOUS
<1>5. PICK a : a = copies[c].arr
  OBVIOUS
<1>6. /\ AddCheck(made2, a, Id(b), "action") /\ Return(t, TRUE) /\ lists' = lists
  <2>1. /\ AddCheck([ made EXCEPT ![Top(t).copy].list = Top(t).list ], copies[Top(t).copy].arr, Id(Top(t)), "action")
        /\ Return(t, TRUE) /\ lists' = lists
    BY DEF FailStep
  <2> QED
    BY <1>1, <1>2, <1>4, <1>5, <2>1
<1>7. made \in Seq(Copies) /\ Len(made) = Len(copies) /\ n \in Nat /\ Len(copies) \in Nat
  BY HeldIs DEF MadeIn, AsBefore
<1>8. made[c] \in Copies /\ made[c].arr = a /\ made[c].step = Id(b)
  BY <1>3, <1>5, <1>7 DEF AsBefore
<1>9. PICK k : k = [ made[c] EXCEPT !.list = b.list ]
  OBVIOUS
<1>10. k \in Copies /\ k.list = b.list /\ k.arr = a /\ k.step = Id(b)
  BY <1>3, <1>8, <1>9 DEF Copies
<1>11. k.list \in {0} \cup (r .. Len(lists)) /\ k.arr \in {0} \cup (n + 1 .. c)
  BY <1>3, <1>5, <1>10
<1>12. /\ MadeIn(made2, r, n) /\ Len(made2) = Len(copies)
       /\ \A d \in 1 .. Len(copies) : made2[d] = IF d = c THEN k ELSE made[d]
  <2>1. c \in 1 .. Len(made) /\ c > n
    BY <1>3, <1>7
  <2>2. /\ MadeIn([ made EXCEPT ![c] = k ], r, n) /\ Len([ made EXCEPT ![c] = k ]) = Len(made)
        /\ \A d \in 1 .. Len(made) : [ made EXCEPT ![c] = k ][d] = IF d = c THEN k ELSE made[d]
    BY <1>7, <1>10, <1>11, <2>1, MadeSet
  <2>3. made2 = [ made EXCEPT ![c] = k ]
    BY <1>4, <1>9
  <2> QED
    BY <1>7, <2>2, <2>3
<1>13. ListsMove(t, r)
  BY <1>6, HeldIs, ListsSame
<1>14. ASSUME NEW d \in 1 .. Len(made2), Bare(made2, d)
       PROVE  WasThere(t, made2, d) \/ Dead(made2[d].list) \/ (a = 0 /\ made2[d].step = Id(b))
  <2>1. CASE d = c
    BY <1>3, <1>10, <1>12, <1>14, <2>1 DEF Bare
  <2>2. CASE d # c
    <3>1. d \in 1 .. Len(copies) /\ made2[d] = made[d]
      BY <1>12, <2>2
    <3> QED
      BY <1>3, <1>14, <3>1 DEF Bare, WasThere, Calling, AsBefore
  <2> QED
    BY <2>1, <2>2
<1>15. CopiesMove(t, r, n)
  <2>1. /\ RunInv /\ RunInv' /\ t \in Threads /\ n \in 0 .. Len(copies) /\ Len(lists) <= Len(lists')
        /\ MadeIn(made2, r, n) /\ Id(b) \in StepIds /\ a \in {0} \cup (n + 1 .. Len(made2))
    BY <1>3, <1>5, <1>12, <1>13, HeldIs DEF ListsMove
  <2> QED
    BY <1>6, <1>14, <2>1, MadeChecked
<1> QED
  BY <1>1, <1>3, <1>6, <1>13, <1>15, MoveReturn

LEMMA FailSameMoves ==
  ASSUME NEW t, NEW r, NEW n, Held(t, r, n), InStage(t, "acting"), FailStep(t, copies)
  PROVE  Moves(t, r, n)
<1>1. MadeIn(copies, r, n)
  BY HeldIs, MadeSame
<1>2. AsBefore(copies)
  BY DEF AsBefore
<1> QED
  BY <1>1, <1>2, FailMoves

LEMMA BrokenActionMoves == ASSUME NEW t, NEW r, NEW n, Held(t, r, n), BrokenAction(t) PROVE Moves(t, r, n)
BY FailSameMoves DEF BrokenAction, Acting

LEMMA GotoFailsMoves == ASSUME NEW t, NEW r, NEW n, Held(t, r, n), GotoFails(t) PROVE Moves(t, r, n)
BY FailSameMoves DEF GotoFails, Matched, Acting

\* The copy of a step that records the retries left.
LEMMA LeftIn ==
  ASSUME NEW t, NEW r, NEW n, Held(t, r, n), Matched(t, "retry")
  PROVE  MadeIn(WithLeft(t), r, n) /\ AsBefore(WithLeft(t)) /\ InStage(t, "acting")
<1>1. PICK c : c = Top(t).copy
  OBVIOUS
<1>2. PICK left : left = Left(t)
  OBVIOUS
<1>3. InStage(t, "acting") /\ left \in Nat
  BY <1>2, HeldIs, AtRetry
<1>4. /\ c \in 1 .. Len(copies) /\ c > n /\ copies[c] \in Copies
      /\ copies[c].list \in {0} \cup (r .. Len(lists)) /\ copies[c].arr \in {0} \cup (n + 1 .. c)
  BY <1>1, <1>3, ActingHeld
<1>5. PICK k : k = [ copies[c] EXCEPT !.left = left ]
  OBVIOUS
<1>6. k \in Copies /\ k.list = copies[c].list /\ k.arr = copies[c].arr /\ k.step = copies[c].step
  BY <1>3, <1>4, <1>5 DEF Copies
<1>7. k.list \in {0} \cup (r .. Len(lists)) /\ k.arr \in {0} \cup (n + 1 .. c)
  BY <1>4, <1>6
<1>8. MadeIn(copies, r, n) /\ n \in Nat
  BY HeldIs, MadeSame
<1>9. /\ MadeIn([ copies EXCEPT ![c] = k ], r, n) /\ Len([ copies EXCEPT ![c] = k ]) = Len(copies)
      /\ \A d \in 1 .. Len(copies) : [ copies EXCEPT ![c] = k ][d] = IF d = c THEN k ELSE copies[d]
  BY <1>4, <1>6, <1>7, <1>8, MadeSet
<1>10. WithLeft(t) = [ copies EXCEPT ![c] = k ]
  BY <1>1, <1>2, <1>5 DEF WithLeft
<1>11. PICK made : made = WithLeft(t)
  OBVIOUS
<1>12. /\ MadeIn(made, r, n) /\ Len(made) = Len(copies)
       /\ \A d \in 1 .. Len(copies) : made[d] = IF d = c THEN k ELSE copies[d]
  BY <1>9, <1>10, <1>11
<1>13. AsBefore(made)
  BY <1>6, <1>12 DEF AsBefore
<1> QED
  BY <1>3, <1>11, <1>12, <1>13

LEMMA RetryFailsMoves == ASSUME NEW t, NEW r, NEW n, Held(t, r, n), RetryFails(t) PROVE Moves(t, r, n)
<1>1. Matched(t, "retry") /\ FailStep(t, WithLeft(t))
  BY DEF RetryFails
<1>2. PICK made : made = WithLeft(t)
  OBVIOUS
<1>3. FailStep(t, made) /\ MadeIn(made, r, n) /\ AsBefore(made) /\ InStage(t, "acting")
  BY <1>1, <1>2, LeftIn
<1> QED
  BY <1>3, FailMoves

\* ... and leaves the other copies as they are.
LEMMA LeftMoves ==
  ASSUME NEW t, NEW r, NEW n, Held(t, r, n), Matched(t, "retry"), ListsMove(t, r),
         copies' = WithLeft(t), UNCHANGED checks
  PROVE  CopiesMove(t, r, n)
<1>1. PICK made : made = WithLeft(t)
  OBVIOUS
<1>2. MadeIn(made, r, n) /\ AsBefore(made) /\ InStage(t, "acting") /\ copies' = made
  BY <1>1, LeftIn
<1>3. ~InStage(t, "calling")
  BY <1>2 DEF InStage
<1>4. \A c \in 1 .. Len(made) : Bare(made, c) => WasThere(t, made, c)
  BY <1>2, <1>3 DEF Bare, WasThere, Calling, AsBefore
<1> QED
  BY <1>2, <1>4, HeldIs, MadeIs DEF ListsMove

LEMMA OutOfRetriesMoves == ASSUME NEW t, NEW r, NEW n, Held(t, r, n), OutOfRetries(t) PROVE Moves(t, r, n)
<1>1. PICK b : b = Top(t)
  OBVIOUS
<1>2. PICK f : f = [ b EXCEPT !.act = @ + 1 ]
  OBVIOUS
<1>3. /\ Matched(t, "retry") /\ InStage(t, "acting") /\ Stay(t, f)
      /\ copies' = WithLeft(t) /\ UNCHANGED <<checks, lists, ret>>
  BY <1>1, <1>2 DEF OutOfRetries, Matched, Acting
<1>4. /\ stack[t] # <<>> /\ b.fn = "step" /\ b.stage = "acting" /\ b \in Frames
      /\ b.arr \in {0} \cup (n + 1 .. Len(copies')) /\ b.copy > n /\ copies'[b.copy].step = Id(b)
  BY <1>1, <1>3, ActingHeld
<1>5. f \in Frames
  BY <1>3, <1>4, StayTyped
<1>6. f.fn = "step" /\ f.stage = "acting" /\ f.list = b.list /\ f.arr = b.arr /\ f.copy = b.copy /\ Id(f) = Id(b)
  BY <1>2, <1>4 DEF Frames, Id
<1>7. ListsMove(t, r)
  BY <1>3, HeldIs, ListsSame
<1>8. CopiesMove(t, r, n)
  BY <1>3, <1>7, LeftMoves
<1>9. ~Waits(f)
  BY <1>6 DEF Waits
<1>10. f.arr \in {0} \cup (n + 1 .. Len(copies')) /\ f.copy > n /\ copies'[f.copy].step = Id(f)
  BY <1>4, <1>6
<1> QED
  BY <1>1, <1>3, <1>4, <1>5, <1>6, <1>7, <1>8, <1>9, <1>10, MoveStay

\* A step that is run again holds the array of the attempt before.
LEMMA AgainMoves ==
  ASSUME NEW t, NEW r, NEW n, Held(t, r, n), NEW stage \in {"acting", "retried"}, InStage(t, stage),
         ListsMove(t, r), CopiesMove(t, r, n), UNCHANGED ret, Stay(t, Again(t, copies))
  PROVE  Moves(t, r, n)
<1>1. PICK b : b = Top(t)
  OBVIOUS
<1>2. PICK f : f = Again(t, copies)
  OBVIOUS
<1>3. /\ stack[t] # <<>> /\ b.fn = "step" /\ b \in Frames
      /\ copies[b.copy].arr \in {0} \cup (n + 1 .. Len(copies'))
  BY <1>1, ActingHeld
<1>4. Stay(t, f)
  BY <1>2
<1>5. f \in Frames
  BY <1>3, <1>4, StayTyped
<1>6. f.fn = "step" /\ f.stage = "start" /\ f.list = b.list /\ f.arr = copies[b.copy].arr /\ Id(f) = Id(b)
  BY <1>1, <1>2 DEF Again, RunStep, Id
<1>7. ~Waits(f)
  BY <1>6 DEF Waits
<1> QED
  BY <1>1, <1>3, <1>4, <1>5, <1>6, <1>7, MoveStay

LEMMA RetryStepMoves == ASSUME NEW t, NEW r, NEW n, Held(t, r, n), RetryStep(t) PROVE Moves(t, r, n)
<1>1. /\ Matched(t, "retry") /\ InStage(t, "acting") /\ Stay(t, Again(t, copies))
      /\ copies' = WithLeft(t) /\ UNCHANGED <<checks, lists, ret>>
  BY DEF RetryStep, Matched, Acting
<1>2. ListsMove(t, r)
  BY <1>1, HeldIs, ListsSame
<1>3. CopiesMove(t, r, n)
  BY <1>1, <1>2, LeftMoves
<1> QED
  BY <1>1, <1>2, <1>3, AgainMoves

LEMMA RetriedMoves == ASSUME NEW t, NEW r, NEW n, Held(t, r, n), Retried(t) PROVE Moves(t, r, n)
<1>1. /\ InStage(t, "retried") /\ Stay(t, Again(t, copies)) /\ UNCHANGED <<copies, checks, ret>>
      /\ lists' = IF Action(t).workflow # None THEN [ lists EXCEPT ![ret[t].list] = Top(t).list ] ELSE lists
  BY DEF Retried
<1>2. stack[t] # <<>> /\ Top(t).stage = "retried" /\ ~InStage(t, "calling")
  BY <1>1, ActingHeld
<1>3. ListsMove(t, r)
  <2>1. CASE Action(t).workflow # None
    <3>1. Waits(Top(t))
      BY <1>2, <2>1 DEF Waits, Action
    <3> QED
      BY <1>1, <1>2, <2>1, <3>1, HeldIs, ListsJoin
  <2>2. CASE Action(t).workflow = None
    BY <1>1, <2>2, HeldIs, ListsSame
  <2> QED
    BY <2>1, <2>2
<1>4. CopiesMove(t, r, n)
  BY <1>1, <1>2, <1>3, CopiesSame
<1> QED
  BY <1>1, <1>3, <1>4, AgainMoves

LEMMA RetryTargetMoves == ASSUME NEW t, NEW r, NEW n, Held(t, r, n), RetryTarget(t) PROVE Moves(t, r, n)
<1>1. PICK b : b = Top(t)
  OBVIOUS
<1>2. PICK a : a = Action(t)
  OBVIOUS
<1>3. PICK by : by = b.retrying \cup {Id(b)}
  OBVIOUS
<1>4. PICK f : f = [ b EXCEPT !.stage = "retried" ]
  OBVIOUS
<1>5. PICK g : g = IF a.workflow # None
                   THEN RunWorkflow(a.workflow, 1, NewList, Left(t) - 1, by)
                   ELSE RunStep(b.w, a.step, NewList, 0, by)
  OBVIOUS
<1>6. /\ Matched(t, "retry") /\ InStage(t, "acting") /\ Call(t, f, g)
      /\ copies' = WithLeft(t) /\ lists' = Append(lists, 0) /\ UNCHANGED <<checks, ret>>
  BY <1>1, <1>2, <1>3, <1>4, <1>5 DEF RetryTarget, Matched, Acting
<1>7. /\ stack[t] # <<>> /\ b.fn = "step" /\ b.stage = "acting" /\ b \in Frames /\ b.list \in r .. Len(lists)
      /\ b.arr \in {0} \cup (n + 1 .. Len(copies')) /\ b.copy > n /\ copies'[b.copy].step = Id(b)
  BY <1>1, <1>6, ActingHeld
<1>8. f \in Frames /\ g \in Frames
  BY <1>6, <1>7, CallTyped
<1>9. /\ f.fn = "step" /\ f.stage = "retried" /\ f.list = b.list /\ f.arr = b.arr /\ f.copy = b.copy
      /\ Id(f) = Id(b) /\ f.w = b.w /\ f.pos = b.pos /\ f.kind = b.kind /\ f.act = b.act
  BY <1>4, <1>7 DEF Frames, Id
<1>10. ListsMove(t, r) /\ Len(lists') = NewList
  BY <1>6, HeldIs, ListsMore
<1>11. CopiesMove(t, r, n)
  BY <1>6, <1>10, LeftMoves
<1>12. ActionsOf(f)[f.act] = a
  <2>1. ActionsOf(f) = ActionsOf(b)
    BY <1>9 DEF ActionsOf, Def
  <2> QED
    BY <1>1, <1>2, <1>9, <2>1 DEF Action
<1>13. Waits(f) <=> a.workflow # None
  BY <1>9, <1>12 DEF Waits
<1>14. g.list = NewList /\ g.arr = 0
  BY <1>5 DEF RunWorkflow, RunStep
<1>15. a.workflow # None => g.fn = "workflow" /\ g.stage = "steps"
  BY <1>5 DEF RunWorkflow
<1>16. a.workflow = None => g.fn = "step" /\ g.stage = "start"
  BY <1>5 DEF RunStep
<1>17. ~Waits(g) /\ (g.fn = "workflow" \/ g.stage = "start")
  BY <1>15, <1>16 DEF Waits
<1>18. g.list \in r .. Len(lists') /\ g.list > Len(lists)
  <2>1. r \in Nat /\ Len(lists) \in Nat /\ r <= Len(lists)
    BY <1>7, HeldIs
  <2>2. NewList = Len(lists) + 1
    BY DEF NewList
  <2> QED
    BY <1>10, <1>14, <2>1, <2>2
<1>19. \/ g.fn = "workflow" /\ g.list > Len(lists) /\ Waits(f)
       \/ /\ g.fn = "step" /\ f.fn = "step" /\ f.stage = "retried" /\ ~Waits(f)
          /\ g.list = NewList /\ lists' = Append(lists, 0)
  BY <1>6, <1>9, <1>13, <1>14, <1>15, <1>16, <1>18
<1>20. f.arr \in {0} \cup (n + 1 .. Len(copies')) /\ f.copy > n /\ copies'[f.copy].step = Id(f)
  BY <1>7, <1>9
<1>21. f.fn = Top(t).fn /\ f.list = Top(t).list /\ Id(f) = Id(Top(t))
  BY <1>1, <1>7, <1>9
<1> QED
  BY <1>6, <1>7, <1>8, <1>10, <1>11, <1>14, <1>17, <1>18, <1>19, <1>20, <1>21, MoveCall

LEMMA GotoMoves == ASSUME NEW t, NEW r, NEW n, Held(t, r, n), Goto(t) PROVE Moves(t, r, n)
<1>1. PICK b : b = Top(t)
  OBVIOUS
<1>2. PICK a : a = Action(t)
  OBVIOUS
<1>3. PICK f : f = [ b EXCEPT !.stage = "gone" ]
  OBVIOUS
<1>4. PICK g : g = RunWorkflow(IF a.workflow # None THEN a.workflow ELSE b.w, From(t, a), NewList, 0, {})
  OBVIOUS
<1>5. /\ InStage(t, "acting") /\ Call(t, f, g)
      /\ lists' = Append(lists, 0) /\ UNCHANGED <<copies, checks, ret>>
  BY <1>1, <1>2, <1>3, <1>4 DEF Goto, Matched, Acting
<1>6. /\ stack[t] # <<>> /\ b.fn = "step" /\ b.stage = "acting" /\ b \in Frames /\ b.list \in r .. Len(lists)
      /\ b.arr \in {0} \cup (n + 1 .. Len(copies')) /\ b.copy > n /\ copies'[b.copy].step = Id(b)
      /\ ~InStage(t, "calling")
  BY <1>1, <1>5, ActingHeld
<1>7. f \in Frames /\ g \in Frames
  BY <1>5, <1>6, CallTyped
<1>8. f.fn = "step" /\ f.stage = "gone" /\ f.list = b.list /\ f.arr = b.arr /\ f.copy = b.copy /\ Id(f) = Id(b)
  BY <1>3, <1>6 DEF Frames, Id
<1>9. ListsMove(t, r) /\ Len(lists') = NewList
  BY <1>5, HeldIs, ListsMore
<1>10. CopiesMove(t, r, n)
  BY <1>5, <1>6, <1>9, CopiesSame
<1>11. g.list = NewList /\ g.arr = 0 /\ g.fn = "workflow" /\ g.stage = "steps"
  BY <1>4 DEF RunWorkflow
<1>12. Waits(f) /\ ~Waits(g)
  BY <1>8, <1>11 DEF Waits
<1>13. g.list \in r .. Len(lists') /\ g.list > Len(lists)
  <2>1. r \in Nat /\ Len(lists) \in Nat /\ r <= Len(lists)
    BY <1>6, HeldIs
  <2>2. NewList = Len(lists) + 1
    BY DEF NewList
  <2> QED
    BY <1>9, <1>11, <2>1, <2>2
<1>14. f.arr \in {0} \cup (n + 1 .. Len(copies')) /\ f.copy > n /\ copies'[f.copy].step = Id(f)
  BY <1>6, <1>8
<1>15. f.fn = Top(t).fn /\ f.list = Top(t).list /\ Id(f) = Id(Top(t))
  BY <1>1, <1>6, <1>8
<1> QED
  BY <1>5, <1>6, <1>7, <1>9, <1>10, <1>11, <1>12, <1>13, <1>14, <1>15, MoveCall

LEMMA ThreadMoves ==
  ASSUME NEW t, NEW r, NEW n, Held(t, r, n), Workflow(t) \/ Step(t) \/ Act(t)
  PROVE  Moves(t, r, n)
<1>1. CASE Workflow(t)
  BY <1>1, NextStepMoves, FinishMoves, OutputsThrowMoves DEF Workflow
<1>2. CASE Step(t)
  BY <1>2, StartBrokenMoves, StartChildMoves, StartMissingMoves, ChildDoneMoves, OverLimitMoves, TimedOutMoves,
     StartThrowsMoves, RequestMoves, RequestDoneMoves DEF Step
<1>3. CASE Act(t)
  BY <1>3, NoMoreActionsMoves, UnmatchedMoves, BrokenActionMoves, OutOfRetriesMoves, RetryStepMoves,
     RetryFailsMoves, RetryTargetMoves, RetriedMoves, EndActionMoves, GotoFailsMoves, GotoMoves, GoneMoves DEF Act
<1> QED
  BY <1>1, <1>2, <1>3

------------------------------------------------------------------------------
(* The outermost array of an array, which is a recursive function. *)

Homes(ls, n, g) == g = [l \in 0 .. n |-> IF l = 0 THEN 0 ELSE IF ls[l] = 0 THEN l ELSE g[ls[l]]]
HomeIn(ls) ==
  LET home[l \in 0 .. Len(ls)] == IF l = 0 THEN 0 ELSE IF ls[l] = 0 THEN l ELSE home[ls[l]] IN home
\* Every array was added to an older one, or to none.
Inside(ls, n) == \A l \in 1 .. n : ls[l] = 0 \/ ls[l] \in 1 .. l - 1

LEMMA HomesExist ==
  ASSUME NEW ls, NEW n \in Nat, Inside(ls, n)
  PROVE  \E g : Homes(ls, n, g)
<1> DEFINE S == { m \in Nat : m <= n => \E g : Homes(ls, m, g) }
<1>1. 0 \in S
  <2> DEFINE g == [k \in 0 .. 0 |-> 0]
  <2>1. Homes(ls, 0, g)
    BY DEF Homes
  <2> HIDE DEF g
  <2> QED
    BY <2>1
<1>2. ASSUME NEW m \in Nat, m \in S PROVE m + 1 \in S
  <2> SUFFICES ASSUME m + 1 <= n PROVE \E g : Homes(ls, m + 1, g)
    OBVIOUS
  <2>1. PICK g : Homes(ls, m, g)
    BY <1>2
  <2> DEFINE h == [l \in 0 .. m + 1 |-> IF l = 0 THEN 0 ELSE IF ls[l] = 0 THEN l ELSE g[ls[l]]]
  <2>2. ASSUME NEW l \in 0 .. m PROVE h[l] = g[l]
    BY <2>1 DEF Homes
  <2>3. ASSUME NEW l \in 0 .. m + 1
        PROVE  (IF l = 0 THEN 0 ELSE IF ls[l] = 0 THEN l ELSE g[ls[l]])
                 = (IF l = 0 THEN 0 ELSE IF ls[l] = 0 THEN l ELSE h[ls[l]])
    <3>1. CASE l = 0 \/ ls[l] = 0
      BY <3>1
    <3>2. CASE l # 0 /\ ls[l] # 0
      <4>1. ls[l] \in 0 .. m
        BY <3>2 DEF Inside
      <4> QED
        BY <2>2, <3>2, <4>1
    <3> QED
      BY <3>1, <3>2
  <2>4. Homes(ls, m + 1, h)
    BY <2>3 DEF Homes
  <2> HIDE DEF h
  <2> QED
    BY <2>4
<1> HIDE DEF S
<1>3. n \in S
  BY <1>1, <1>2, SetInduction
<1> QED
  BY <1>3 DEF S

\* The home of an array is that of the array it is in, or the array itself.
LEMMA HomeIs ==
  ASSUME NEW ls, Len(ls) \in Nat, Inside(ls, Len(ls))
  PROVE  /\ HomeIn(ls)[0] = 0
         /\ \A l \in 1 .. Len(ls) : HomeIn(ls)[l] = IF ls[l] = 0 THEN l ELSE HomeIn(ls)[ls[l]]
<1> DEFINE h == CHOOSE g : Homes(ls, Len(ls), g)
<1>1. Homes(ls, Len(ls), h)
  BY HomesExist
<1>2. HomeIn(ls) = h
  BY DEF HomeIn, Homes
<1>3. Homes(ls, Len(ls), HomeIn(ls))
  BY <1>1, <1>2
<1>4. PICK g : g = HomeIn(ls)
  OBVIOUS
<1>5. \A l \in 0 .. Len(ls) : g[l] = IF l = 0 THEN 0 ELSE IF ls[l] = 0 THEN l ELSE g[ls[l]]
  BY <1>3, <1>4 DEF Homes
<1> QED
  BY <1>4, <1>5

\* The arrays before one keep their home whatever is done to the others, ...
LEMMA HomeKept ==
  ASSUME NEW a, Len(a) \in Nat, Inside(a, Len(a)), NEW b, Len(b) \in Nat, Inside(b, Len(b)),
         NEW r \in Nat, r <= Len(a), r <= Len(b), \A l \in 1 .. r : a[l] = b[l]
  PROVE  \A l \in 0 .. r : HomeIn(a)[l] = HomeIn(b)[l]
<1>1. PICK g : g = HomeIn(a)
  OBVIOUS
<1>2. PICK h : h = HomeIn(b)
  OBVIOUS
<1>3. /\ g[0] = 0 /\ \A l \in 1 .. Len(a) : g[l] = IF a[l] = 0 THEN l ELSE g[a[l]]
      /\ h[0] = 0 /\ \A l \in 1 .. Len(b) : h[l] = IF b[l] = 0 THEN l ELSE h[b[l]]
  BY <1>1, <1>2, HomeIs
<1> DEFINE S == { k \in Nat : \A l \in 0 .. k : l <= r => g[l] = h[l] }
<1>4. 0 \in S
  BY <1>3
<1>5. ASSUME NEW k \in Nat, k \in S PROVE k + 1 \in S
  <2> SUFFICES ASSUME k + 1 <= r PROVE g[k + 1] = h[k + 1]
    BY <1>5
  <2>1. PICK l : l = k + 1
    OBVIOUS
  <2>2. l \in 1 .. Len(a) /\ l \in 1 .. Len(b) /\ l \in 1 .. r
    BY <2>1
  <2>3. a[l] = b[l] /\ (a[l] = 0 \/ a[l] \in 1 .. l - 1)
    BY <2>2 DEF Inside
  <2>4. CASE a[l] = 0
    BY <1>3, <2>1, <2>2, <2>3, <2>4
  <2>5. CASE a[l] # 0
    <3>1. PICK m : m = a[l]
      OBVIOUS
    <3>2. m \in 0 .. k /\ m <= r
      BY <2>1, <2>2, <2>3, <2>5, <3>1
    <3>3. g[m] = h[m]
      BY <1>5, <3>2
    <3> QED
      BY <1>3, <2>1, <2>2, <2>3, <2>5, <3>1, <3>3
  <2> QED
    BY <2>4, <2>5
<1> HIDE DEF S
<1>6. r \in S
  BY <1>4, <1>5, SetInduction
<1> QED
  BY <1>1, <1>2, <1>6 DEF S

\* ... and the home of what is only in arrays since then is one of these.
LEMMA HomeAbove ==
  ASSUME NEW ls, Len(ls) \in Nat, Inside(ls, Len(ls)), NEW r \in Nat \ {0},
         \A l \in r .. Len(ls) : ls[l] = 0 \/ ls[l] \in r .. l - 1
  PROVE  \A l \in r .. Len(ls) : HomeIn(ls)[l] \in r .. Len(ls)
<1>1. PICK g : g = HomeIn(ls)
  OBVIOUS
<1>2. \A l \in 1 .. Len(ls) : g[l] = IF ls[l] = 0 THEN l ELSE g[ls[l]]
  BY <1>1, HomeIs
<1> DEFINE S == { k \in Nat : \A l \in r .. k : l <= Len(ls) => g[l] \in r .. Len(ls) }
<1>3. 0 \in S
  OBVIOUS
<1>4. ASSUME NEW k \in Nat, k \in S PROVE k + 1 \in S
  <2> SUFFICES ASSUME k + 1 >= r, k + 1 <= Len(ls) PROVE g[k + 1] \in r .. Len(ls)
    BY <1>4
  <2>1. PICK l : l = k + 1
    OBVIOUS
  <2>2. l \in 1 .. Len(ls) /\ l \in r .. Len(ls)
    BY <2>1
  <2>3. CASE ls[l] = 0
    BY <1>2, <2>1, <2>2, <2>3
  <2>4. CASE ls[l] # 0
    <3>1. PICK m : m = ls[l]
      OBVIOUS
    <3>2. m \in r .. k /\ m <= Len(ls)
      BY <2>1, <2>2, <2>4, <3>1
    <3>3. g[m] \in r .. Len(ls)
      BY <1>4, <3>2
    <3> QED
      BY <1>2, <2>1, <2>2, <2>4, <3>1, <3>3
  <2> QED
    BY <2>3, <2>4
<1> HIDE DEF S
<1>5. Len(ls) \in S
  BY <1>3, <1>4, SetInduction
<1> QED
  BY <1>1, <1>5 DEF S

\* What these say of the arrays there are.
LEMMA HomeHere ==
  ASSUME RunInv, ListsIn(1)
  PROVE  Home = HomeIn(lists) /\ Len(lists) \in Nat /\ Inside(lists, Len(lists))
BY DEF RunInv, TypeOK, ListsIn, Inside, Home, HomeIn

LEMMA HomeNext ==
  ASSUME RunInv', ListsIn(1)'
  PROVE  Home' = HomeIn(lists') /\ Len(lists') \in Nat /\ Inside(lists', Len(lists'))
BY DEF RunInv, TypeOK, ListsIn, Inside, Home, HomeIn

\* What was done before r arrays and n + 1 copies stays as it was, and passes as
\* before, when others go on with arrays and copies of their own.
LEMMA FailedStays ==
  ASSUME RunInv, RunInv', ListsIn(1), ListsIn(1)', CopiesIn(1, 0),
         NEW r \in Nat \ {0}, NEW n \in Nat, n <= Len(copies), n <= Len(copies'), r <= Len(lists) + 1, r <= Len(lists') + 1,
         ListsIn(r)', CopiesIn(r, n)', \A l \in 1 .. r - 1 : lists'[l] = lists[l],
         \A c \in 1 .. n : copies'[c] = copies[c] /\ copies[c].list < r,
         NEW list \in Nat, list < r, \A l : Dead(l) => l # list,
         \A c \in 1 .. n : ChecksOf(c)' # {} => ChecksOf(c) # {} \/ (copies[c].list # 0 => Dead(copies[c].list)),
         ~Failed(list)
  PROVE  ~Failed(list)'
<1>1. PICK g : g = Home
  OBVIOUS
<1>2. PICK h : h = Home'
  OBVIOUS
<1>3. /\ g = HomeIn(lists) /\ Len(lists) \in Nat /\ Inside(lists, Len(lists))
      /\ h = HomeIn(lists') /\ Len(lists') \in Nat /\ Inside(lists', Len(lists'))
  BY <1>1, <1>2, HomeHere, HomeNext
<1>4. \A l \in 0 .. r - 1 : g[l] = h[l]
  <2>1. r - 1 \in Nat /\ r - 1 <= Len(lists) /\ r - 1 <= Len(lists')
    BY <1>3
  <2>2. \A l \in 1 .. r - 1 : lists[l] = lists'[l]
    OBVIOUS
  <2> QED
    BY <1>3, <2>1, <2>2, HomeKept
<1>5. \A l \in r .. Len(lists') : h[l] \in r .. Len(lists')
  <2>1. \A l \in r .. Len(lists') : lists'[l] = 0 \/ lists'[l] \in r .. l - 1
    BY DEF ListsIn
  <2> QED
    BY <1>3, <2>1, HomeAbove
<1>6. copies \in Seq(Copies) /\ copies' \in Seq(Copies) /\ Len(copies) \in Nat /\ Len(copies') \in Nat
  BY DEF RunInv, TypeOK
<1> SUFFICES ASSUME Failed(list)' PROVE FALSE
  OBVIOUS
<1>7. PICK c \in DOMAIN copies' : copies'[c].list # 0 /\ copies'[c].left = 0 /\ h[copies'[c].list] = list /\ ChecksOf(c)' # {}
  BY <1>2 DEF Failed, Counted
<1>8. c \in 1 .. Len(copies')
  BY <1>6, <1>7
<1>9. CASE c <= n
  <2>1. c \in 1 .. n /\ c \in 1 .. Len(copies) /\ copies'[c] = copies[c] /\ copies[c].list < r
    BY <1>6, <1>8, <1>9
  <2>2. PICK m : m = copies[c].list
    OBVIOUS
  <2>3. m \in Nat /\ m # 0 /\ m < r
    <3>1. copies[c] \in Copies
      BY <1>6, <2>1
    <3> QED
      BY <1>7, <2>1, <2>2, <3>1 DEF Copies
  <2>4. g[m] = list
    BY <1>4, <1>7, <2>1, <2>2, <2>3
  <2>5. CASE ChecksOf(c) # {}
    <3>1. Counted(c) /\ Home[copies[c].list] = list /\ c \in DOMAIN copies
      BY <1>1, <1>6, <1>7, <2>1, <2>2, <2>4 DEF Counted
    <3> QED
      BY <2>5, <3>1 DEF Failed
  <2>6. CASE Dead(m)
    <3>1. m \in 1 .. Len(lists) /\ lists[m] = 0
      BY <2>6 DEF Dead
    <3>2. g[m] = m
      BY <1>3, <3>1, HomeIs
    <3> QED
      BY <2>4, <2>6, <3>2
  <2> QED
    BY <1>7, <2>1, <2>2, <2>3, <2>5, <2>6
<1>10. CASE c > n
  <2>1. c \in n + 1 .. Len(copies')
    BY <1>8, <1>10
  <2>2. PICK m : m = copies'[c].list
    OBVIOUS
  <2>3. m \in r .. Len(lists')
    BY <1>7, <2>1, <2>2 DEF CopiesIn
  <2>4. h[m] \in r .. Len(lists') /\ h[m] = list
    BY <1>5, <1>7, <2>2, <2>3
  <2> QED
    BY <1>3, <2>4
<1> QED
  BY <1>8, <1>9, <1>10

------------------------------------------------------------------------------
(* What a step of a thread, and a workflow that begins, leave of the rest. *)

LEMMA OthersIn ==
  ASSUME RunInv, RunInv', plan' = plan, Kept(copies, copies'), Len(lists) <= Len(lists'), DeadStay,
         NEW u \in Threads, stack'[u] = stack[u], NEW r \in Nat, NEW n \in Nat, CallsIn(stack[u], r, n)
  PROVE  CallsIn(stack[u], r, n)'
<1>1. PICK s : s = stack[u]
  OBVIOUS
<1>2. GoodStack(copies, s) /\ CallsIn(s, r, n) /\ stack'[u] = s
  BY <1>1 DEF RunInv
<1>3. CallsIn(s, r, n)'
  BY <1>2, CallsStay
<1> QED
  BY <1>2, <1>3, CallsNext

LEMMA OthersAnswered ==
  ASSUME RunInv, RunInv', plan' = plan, Len(lists) <= Len(lists'),
         NEW u \in Threads, stack'[u] = stack[u], ret'[u] = ret[u], Answered(u)
  PROVE  Answered(u)'
<1>1. Len(lists) \in Nat /\ Len(lists') \in Nat /\ ret[u].list \in Nat
  BY DEF RunInv, TypeOK, Returned
<1>2. PICK f : f = Top(u)
  OBVIOUS
<1>3. Top(u)' = f
  BY <1>2 DEF Top
<1>4. Waits(Top(u))' <=> Waits(f)
  BY <1>3 DEF Waits, ActionsOf, Def, Steps
<1>5. ret[u].list <= Len(lists) /\ (stack[u] # <<>> /\ Waits(f) => ret[u].list > f.list)
  BY <1>2 DEF Answered
<1>6. ret'[u].list <= Len(lists')
  BY <1>1, <1>5
<1>7. stack'[u] # <<>> /\ Waits(Top(u))' => ret'[u].list > Top(u)'.list
  BY <1>3, <1>4, <1>5
<1> QED
  BY <1>6, <1>7 DEF Answered

LEMMA CallingStays ==
  ASSUME NEW u, NEW c, stack'[u] = stack[u], Calling(u, c)
  PROVE  Calling(u, c)'
BY DEF Calling, InStage, Top

\* A thread that takes a step has a call in progress, and throws for itself.
LEMMA ThreadActs ==
  ASSUME RunInv, NEW t \in Threads, Workflow(t) \/ Step(t) \/ Act(t)
  PROVE  /\ stack[t] # <<>>
         /\ \A u \in Threads : u # t => threw'[u] = threw[u]
<1>1. threw \in [Threads -> BOOLEAN]
  BY DEF RunInv, TypeOK
<1>2. ASSUME NEW open, NEW made, Throw(t, open, made)
      PROVE  \A u \in Threads : u # t => threw'[u] = threw[u]
  BY <1>1, <1>2 DEF Throw
<1>3. CASE Workflow(t)
  BY <1>2, <1>3 DEF Workflow, NextStep, FinishWorkflow, OutputsThrow, InStage
<1>4. CASE Step(t)
  <2>1. CASE StartBroken(t)
    BY <1>2, <2>1 DEF StartBroken, InStage
  <2>2. CASE StartThrows(t)
    BY <1>2, <2>2 DEF StartThrows, AtApi, Starting, InStage
  <2>3. CASE StartChild(t) \/ StartMissing(t) \/ ChildDone(t)
    BY <2>3 DEF StartChild, StartMissing, ChildDone, Starting, InStage
  <2>4. CASE StartOverLimit(t) \/ StartTimedOut(t) \/ StartRequest(t) \/ RequestDone(t)
    BY <2>4 DEF StartOverLimit, StartTimedOut, StartRequest, RequestDone, AtApi, Starting, InStage
  <2> QED
    BY <1>4, <2>1, <2>2, <2>3, <2>4 DEF Step
<1>5. CASE Act(t)
  <2>1. CASE NoMoreActions(t) \/ Unmatched(t) \/ BrokenAction(t) \/ OutOfRetries(t) \/ RetryStep(t)
    BY <2>1 DEF NoMoreActions, Unmatched, BrokenAction, OutOfRetries, RetryStep, FailStep, Matched, Acting, InStage
  <2>2. CASE RetryFails(t) \/ RetryTarget(t) \/ Retried(t) \/ EndAction(t) \/ GotoFails(t) \/ Goto(t) \/ Gone(t)
    BY <2>2 DEF RetryFails, RetryTarget, Retried, EndAction, GotoFails, Goto, Gone, FailStep, Matched, Acting, InStage
  <2> QED
    BY <1>5, <2>1, <2>2 DEF Act
<1> QED
  BY <1>3, <1>4, <1>5

LEMMA ThreadPhases ==
  ASSUME GateInv, NEW t \in Threads, stack[t] # <<>>,
         \A u \in Threads : u # t => stack'[u] = stack[u], UNCHANGED <<plan, at, pending, phase>>
  PROVE  PhasesOK'
<1>1. PhasesOK /\ Needs' = Needs /\ pending \subseteq Workflows /\ Main \in Threads /\ Workflows \subseteq Threads
      /\ Main \notin Workflows
  BY Constants DEF GateInv, RunInv, TypeOK, Needs, Current, Threads
<1>2. phase # "running" => stack'[Main] = <<>>
  BY <1>1 DEF PhasesOK
<1>3. phase \in {"next", "running", "done"} => pending = {} /\ \A d \in Workflows : stack'[d] = <<>>
  BY <1>1 DEF PhasesOK
<1>4. phase = "depending" => pending \subseteq Needs /\ \A d \in Workflows : stack'[d] # <<>> => d \in Needs
  BY <1>1 DEF PhasesOK, Threads
<1>5. \A d \in pending : stack'[d] = <<>>
  BY <1>1 DEF PhasesOK
<1> QED
  BY <1>1, <1>2, <1>3, <1>4, <1>5 DEF PhasesOK

LEMMA HeldBy ==
  ASSUME GateInv, NEW t \in Threads, ThreadStep(t), NEW r \in Nat \ {0}, NEW n \in 0 .. Len(copies), Region(t, r, n)
  PROVE  Held(t, r, n)
<1>1. RunInv' /\ Kept(copies, copies') /\ plan' = plan
  BY ThreadKeeps DEF GateInv, ThreadStep, Filled, Typed
<1> QED
  BY <1>1 DEF GateInv, Held, Region

\* What the dependencies did stays, when the workflow that waited for them goes on.
LEMMA PastStays ==
  ASSUME GateInv, RunInv', phase = "running", UNCHANGED <<plan, at>>, DeadStay,
         NEW r \in 1 .. Len(lists), NEW n \in 0 .. Len(copies), Past(r, n),
         ListsIn(1)', ListsMove(Main, r), CopiesMove(Main, r, n), Kept(copies, copies'),
         \A u \in Threads : u # Main => ret'[u] = ret[u] /\ threw'[u] = threw[u]
  PROVE  Past(r, n)'
<1>1. /\ RunInv /\ ListsIn(1) /\ CopiesIn(1, 0) /\ Main \in Threads /\ r \in Nat \ {0} /\ n \in Nat
      /\ copies \in Seq(Copies) /\ Len(copies) \in Nat /\ Len(lists) \in Nat /\ Len(lists') \in Nat /\ Len(copies') \in Nat
      /\ n <= Len(copies) /\ n <= Len(copies') /\ r <= Len(lists) + 1 /\ r <= Len(lists') + 1
  <2>1. RunInv /\ Main \in Threads /\ ListsIn(1) /\ CopiesIn(1, 0)
    BY DEF GateInv, Region, Threads
  <2>2. /\ copies \in Seq(Copies) /\ Len(copies) \in Nat /\ Len(lists) \in Nat /\ Len(lists') \in Nat
        /\ Len(copies') \in Nat
    BY <2>1 DEF RunInv, TypeOK
  <2>3. Len(lists) <= Len(lists') /\ Len(copies) <= Len(copies')
    BY DEF Kept, ListsMove
  <2> QED
    BY <2>1, <2>2, <2>3
<1>2. Needs' = Needs /\ Needs \subseteq Workflows
  <2>1. at <= Len(plan.order) /\ Missing \notin Needs
    BY DEF GateInv, RunInv, PhaseOK, PhasesOK
  <2>2. Needs \subseteq Workflows \cup {Missing}
    BY <1>1, <2>1, CurrentIs
  <2> QED
    BY <2>1, <2>2 DEF Needs, Current
<1>3. \A l \in 1 .. r - 1 : lists'[l] = lists[l]
  BY <1>1 DEF ListsMove
<1>4. ASSUME NEW c \in 1 .. n
      PROVE  /\ copies'[c] = copies[c] /\ copies[c].list < r /\ copies[c].step \in StepIds
             /\ checks[copies[c].step] \subseteq checks'[copies[c].step]
             /\ Unsettled(c) => Dead(copies[c].list)
             /\ copies[c].arr \in 0 .. n /\ c \in 1 .. Len(copies)
  <2>1. c \in 1 .. Len(copies) /\ copies'[c] = copies[c] /\ copies[c].list < r /\ (Unsettled(c) => Dead(copies[c].list))
    BY <1>1 DEF CopiesMove, Past
  <2>2. copies[c] \in Copies
    BY <1>1, <2>1
  <2>3. copies[c].step \in StepIds
    BY <2>2 DEF Copies
  <2>4. copies[c].arr \in {0} \cup (0 + 1 .. c)
    BY <1>1, <2>1 DEF CopiesIn
  <2>5. copies[c].arr \in 0 .. n
    BY <1>1, <2>4
  <2> QED
    BY <2>1, <2>3, <2>5 DEF CopiesMove
<1>5. ASSUME NEW c \in 1 .. n PROVE copies'[c].list < r /\ (Unsettled(c)' => Dead(copies[c].list)')
  <2>1. Unsettled(c)' => Unsettled(c)
    BY <1>4 DEF Unsettled
  <2>2. PICK l : l = copies[c].list
    OBVIOUS
  <2>3. Unsettled(c)' => Dead(l)'
    BY <1>4, <2>1, <2>2 DEF DeadStay
  <2>4. copies'[c].list = l
    BY <1>4, <2>2
  <2> QED
    BY <1>4, <2>3, <2>4 DEF Dead
<1>6. ASSUME NEW c \in 1 .. n, ChecksOf(c)' # {}
      PROVE  ChecksOf(c) # {} \/ (copies[c].list # 0 => Dead(copies[c].list))
  <2>1. CASE copies[c].arr = 0
    BY <1>4, <2>1 DEF ChecksOf, Unsettled
  <2>2. CASE copies[c].arr # 0
    <3>1. PICK a : a = copies[c].arr
      OBVIOUS
    <3>2. a \in 1 .. n /\ copies'[c].arr = a
      BY <1>1, <1>4, <2>2, <3>1
    <3>3. copies'[a] = copies[a]
      BY <1>4, <3>2
    <3> QED
      BY <1>6, <2>2, <3>1, <3>2, <3>3 DEF ChecksOf
  <2> QED
    BY <2>1, <2>2
<1>7. ASSUME NEW d \in Needs PROVE (ret[d].list < r /\ ~threw[d] /\ ~Failed(ret[d].list))'
  <2>1. d \in Threads /\ d # Main
    BY <1>2, Constants DEF Threads
  <2>2. PICK list : list = ret[d].list
    OBVIOUS
  <2>3. list < r /\ ~threw[d] /\ ~Failed(list) /\ ret'[d].list = list /\ threw'[d] = threw[d]
    BY <2>1, <2>2 DEF Past
  <2>4. list \in Nat /\ \A l : Dead(l) => l # list
    BY <1>1, <2>1, <2>2 DEF RunInv, TypeOK, Returned, Dead
  <2>5. ListsIn(r)' /\ CopiesIn(r, n)'
    BY DEF ListsMove, CopiesMove
  <2>6. ~Failed(list)'
    BY <1>1, <1>3, <1>4, <1>6, <2>3, <2>4, <2>5, FailedStays
  <2> QED
    BY <2>3, <2>6 DEF Failed
<1> QED
  BY <1>2, <1>5, <1>7 DEF Past

LEMMA GateThread == ASSUME GateInv, NEW t \in Threads, Workflow(t) \/ Step(t) \/ Act(t) PROVE GateInv'
<1>1. RunInv /\ ThreadStep(t)
  BY ThreadSteps DEF GateInv
<1>2. RunInv' /\ UNCHANGED <<plan, at, pending, phase>> /\ Kept(copies, copies')
  BY <1>1, ThreadKeeps DEF ThreadStep, Filled, Typed
<1>3. stack[t] # <<>> /\ \A u \in Threads : u # t => threw'[u] = threw[u]
  BY <1>1, ThreadActs
<1>4. \A u \in Threads : u # t => stack'[u] = stack[u]
  <2>1. stack \in [Threads -> Seq(Frames)]
    BY <1>1 DEF RunInv, TypeOK
  <2>2. \E s : stack' = [ stack EXCEPT ![t] = s ]
    BY <1>1 DEF ThreadStep, Moved
  <2> QED
    BY <2>1, <2>2
<1>5. PhasesOK'
  BY <1>2, <1>3, <1>4, ThreadPhases
<1>6. Moves(t, 1, 0)
  <2>1. Region(t, 1, 0) /\ 0 \in 0 .. Len(copies) /\ 1 \in Nat \ {0}
    BY <1>1 DEF GateInv, RunInv, TypeOK
  <2> QED
    BY <1>1, <2>1, HeldBy, ThreadMoves
<1>7. /\ DeadStay /\ ListsIn(1)' /\ CopiesIn(1, 0)' /\ CallsIn(stack[t], 1, 0)' /\ Answered(t)'
      /\ Len(lists) <= Len(lists') /\ \A u \in Threads : u # t => ret'[u] = ret[u]
  BY <1>6 DEF Moves, Lands, ListsMove, CopiesMove, Around
<1>8. ASSUME NEW u \in Threads PROVE (Region(u, 1, 0) /\ Answered(u))'
  <2>1. CASE u = t
    BY <1>7, <2>1 DEF Region
  <2>2. CASE u # t
    <3>1. CallsIn(stack[u], 1, 0) /\ Answered(u)
      BY DEF GateInv, Region
    <3>2. stack'[u] = stack[u] /\ ret'[u] = ret[u]
      BY <1>4, <1>7, <2>2
    <3>3. CallsIn(stack[u], 1, 0)'
      BY <1>1, <1>2, <1>7, <3>1, <3>2, OthersIn
    <3>4. Answered(u)'
      BY <1>1, <1>2, <1>7, <3>1, <3>2, OthersAnswered
    <3> QED
      BY <1>7, <3>3, <3>4 DEF Region
  <2> QED
    BY <2>1, <2>2
<1>9. ASSUME NEW c \in 1 .. Len(copies') PROVE Settled(c)'
  <2> SUFFICES ASSUME Unsettled(c)' PROVE Dead(copies[c].list)' \/ \E u \in Threads : Calling(u, c)'
    BY DEF Settled
  <2>1. \/ \E l : copies'[c].list = l /\ Dead(l)
        \/ Calling(t, c)'
        \/ c \in 1 .. Len(copies) /\ Unsettled(c) /\ ~Calling(t, c) /\ copies'[c].list = copies[c].list
    BY <1>6 DEF Moves, CopiesMove
  <2>2. ASSUME NEW l, copies'[c].list = l, Dead(l) PROVE Dead(copies[c].list)'
    <3>1. Dead(l)'
      BY <1>7, <2>2 DEF DeadStay
    <3> QED
      BY <2>2, <3>1 DEF Dead
  <2>3. ASSUME c \in 1 .. Len(copies), Unsettled(c), ~Calling(t, c), copies'[c].list = copies[c].list
        PROVE  Dead(copies[c].list)' \/ \E u \in Threads : Calling(u, c)'
    <3>1. Dead(copies[c].list) \/ \E u \in Threads : Calling(u, c)
      BY <2>3 DEF GateInv, Settled
    <3>2. CASE Dead(copies[c].list)
      <4>1. PICK l : l = copies[c].list
        OBVIOUS
      <4> QED
        BY <2>2, <2>3, <3>2, <4>1
    <3>3. CASE \E u \in Threads : Calling(u, c)
      <4>1. PICK u \in Threads : Calling(u, c)
        BY <3>3
      <4>2. stack'[u] = stack[u]
        BY <1>4, <2>3, <4>1
      <4> QED
        BY <4>1, <4>2, CallingStays
    <3> QED
      BY <3>1, <3>2, <3>3
  <2> QED
    BY <2>1, <2>2, <2>3
<1>10. ASSUME phase' = "running"
       PROVE  (\E r \in 1 .. Len(lists), n \in 0 .. Len(copies) : Region(Main, r, n) /\ Past(r, n))'
  <2>1. phase = "running"
    BY <1>2, <1>10
  <2>2. t = Main
    BY <1>3, <2>1 DEF GateInv, PhasesOK, Threads
  <2>3. PICK r \in 1 .. Len(lists), n \in 0 .. Len(copies) : Region(Main, r, n) /\ Past(r, n)
    BY <2>1 DEF GateInv
  <2>4. r \in Nat \ {0} /\ Len(lists) \in Nat /\ Len(lists') \in Nat /\ Len(copies) \in Nat /\ Len(copies') \in Nat
    BY <1>1, <1>2 DEF RunInv, TypeOK
  <2>5. Moves(Main, r, n)
    BY <1>1, <2>2, <2>3, <2>4, HeldBy, ThreadMoves
  <2>6. ListsMove(Main, r) /\ CopiesMove(Main, r, n) /\ CallsIn(stack[Main], r, n)' /\ ListsIn(r)' /\ CopiesIn(r, n)'
    BY <2>5 DEF Moves, Lands, ListsMove, CopiesMove
  <2>7. Past(r, n)'
    BY <1>2, <1>3, <1>7, <2>1, <2>2, <2>3, <2>6, PastStays
  <2>8. r \in 1 .. Len(lists') /\ n \in 0 .. Len(copies')
    BY <1>2, <1>7, <2>4 DEF Kept
  <2> QED
    BY <2>6, <2>7, <2>8 DEF Region
<1> QED
  BY <1>2, <1>5, <1>8, <1>9, <1>10 DEF GateInv

\* A workflow that begins has an array of its own, and what was done before is
\* in the arrays before.
LEMMA GateBegin ==
  ASSUME GateInv, RunInv', NEW t \in Threads, NEW w \in Workflows, Run(t, w), stack[t] = <<>>,
         UNCHANGED <<plan, copies, checks, ret, threw>>, NEW r, r = NewList, NEW n, n = Len(copies)
  PROVE  /\ \A u \in Threads : (Region(u, 1, 0) /\ Answered(u))'
         /\ \A c \in 1 .. Len(copies') : Settled(c)'
         /\ \A u \in Threads : u # t => stack'[u] = stack[u]
         /\ DeadStay /\ Region(t, r, n)'
         /\ r \in 1 .. Len(lists') /\ n \in 0 .. Len(copies')
         /\ r \in Nat \ {0} /\ r = Len(lists) + 1 /\ Len(lists') = r /\ \A l \in 1 .. r - 1 : lists'[l] = lists[l]
<1>1. /\ RunInv /\ lists \in Seq(Nat) /\ Len(lists) \in Nat /\ Len(copies) \in Nat /\ copies \in Seq(Copies)
      /\ stack \in [Threads -> Seq(Frames)] /\ stack' \in [Threads -> Seq(Frames)]
  BY DEF GateInv, RunInv, TypeOK
<1>2. /\ r = Len(lists) + 1 /\ r \in Nat \ {0} /\ Len(lists') = r /\ lists'[r] = 0
      /\ \A l \in 1 .. Len(lists) : lists'[l] = lists[l]
  BY <1>1 DEF Run, NewList
<1>3. PICK f : f = RunWorkflow(w, 1, NewList, 0, {})
  OBVIOUS
<1>4. PICK s : s = <<f>>
  OBVIOUS
<1>5. stack' = [ stack EXCEPT ![t] = s ] /\ \A u \in Threads : u # t => stack'[u] = stack[u]
  BY <1>1, <1>3, <1>4 DEF Run
<1>6. f.fn = "workflow" /\ f.stage = "steps" /\ f.list = r /\ f.arr = 0 /\ Len(s) = 1 /\ s[1] = f /\ s # <<>>
  BY <1>3, <1>4 DEF RunWorkflow
<1>7. stack'[t] = s
  BY <1>1, <1>5
<1>8. Kept(copies, copies') /\ Len(lists) <= Len(lists')
  BY <1>1, <1>2 DEF Kept
<1>9. DeadStay
  <2>1. NoneNew(t, s)
    BY <1>1, <1>2, <1>6 DEF NoneNew
  <2>2. Around(t)
    BY <1>2, <1>8 DEF Around
  <2> QED
    BY <1>1, <1>5, <2>1, <2>2, DeadStays
<1>10. CallsIn(stack[t], 1, 0)' /\ CallsIn(stack[t], r, n)'
  <2>1. FrameIn(f, 1, 0)' /\ FrameIn(f, r, n)'
    BY <1>2, <1>6 DEF FrameIn
  <2>2. CallsIn(s, 1, 0)'
    BY <1>6, <2>1 DEF CallsIn, FrameIn, Id
  <2>3. CallsIn(s, r, n)'
    BY <1>6, <2>1 DEF CallsIn, FrameIn, Id
  <2> QED
    BY <1>7, <2>2, <2>3, CallsNext
<1>11. ListsIn(1)' /\ ListsIn(r)'
  <2>1. ListsIn(1)
    BY DEF GateInv, Region
  <2>2. ASSUME NEW l \in 1 .. Len(lists') PROVE lists'[l] = 0 \/ lists'[l] \in 1 .. l - 1
    <3>1. CASE l = r
      BY <1>2, <3>1
    <3>2. CASE l # r
      <4>1. l \in 1 .. Len(lists)
        BY <1>1, <1>2, <3>2
      <4> QED
        BY <1>2, <2>1, <4>1 DEF ListsIn
    <3> QED
      BY <3>1, <3>2
  <2>3. ASSUME NEW l \in r .. Len(lists') PROVE lists'[l] = 0
    <3>1. l = r
      BY <1>2
    <3> QED
      BY <1>2, <3>1
  <2> QED
    BY <2>2, <2>3 DEF ListsIn
<1>12. CopiesIn(1, 0)' /\ CopiesIn(r, n)'
  <2>1. CopiesIn(1, 0) /\ copies' = copies
    BY DEF GateInv, Region
  <2>2. CopiesIn(1, 0)'
    BY <1>1, <1>2, <2>1 DEF CopiesIn
  <2>3. \A c \in n + 1 .. Len(copies') : FALSE
    BY <1>1, <2>1
  <2> QED
    BY <2>2, <2>3 DEF CopiesIn
<1>13. ASSUME NEW u \in Threads PROVE (Region(u, 1, 0) /\ Answered(u))'
  <2>1. CASE u = t
    <3>1. PICK x : x = ret[u].list
      OBVIOUS
    <3>2. x <= Len(lists) /\ x \in Nat /\ ret'[u].list = x
      BY <1>1, <3>1 DEF GateInv, Answered, RunInv, TypeOK, Returned
    <3>3. Top(u)' = f
      BY <1>6, <1>7, <2>1 DEF Top
    <3>4. ~Waits(Top(u))'
      BY <1>6, <3>3 DEF Waits
    <3>5. ret'[u].list <= Len(lists')
      BY <1>1, <1>2, <3>2
    <3>6. Answered(u)'
      BY <3>4, <3>5 DEF Answered
    <3> QED
      BY <1>10, <1>11, <1>12, <2>1, <3>6 DEF Region
  <2>2. CASE u # t
    <3>1. CallsIn(stack[u], 1, 0) /\ Answered(u)
      BY DEF GateInv, Region
    <3>2. stack'[u] = stack[u] /\ ret'[u] = ret[u] /\ plan' = plan
      BY <1>5, <2>2
    <3>3. CallsIn(stack[u], 1, 0)'
      BY <1>1, <1>8, <1>9, <3>1, <3>2, OthersIn
    <3>4. Answered(u)'
      BY <1>1, <1>8, <3>1, <3>2, OthersAnswered
    <3> QED
      BY <1>11, <1>12, <3>3, <3>4 DEF Region
  <2> QED
    BY <2>1, <2>2
<1>14. ASSUME NEW c \in 1 .. Len(copies') PROVE Settled(c)'
  <2> SUFFICES ASSUME Unsettled(c)' PROVE Dead(copies[c].list)' \/ \E u \in Threads : Calling(u, c)'
    BY DEF Settled
  <2>1. Unsettled(c) /\ c \in 1 .. Len(copies)
    BY DEF Unsettled
  <2>2. Dead(copies[c].list) \/ \E u \in Threads : Calling(u, c)
    BY <2>1 DEF GateInv, Settled
  <2>3. CASE Dead(copies[c].list)
    <3>1. PICK l : l = copies[c].list
      OBVIOUS
    <3>2. Dead(l)'
      BY <1>9, <2>3, <3>1 DEF DeadStay
    <3> QED
      BY <3>1, <3>2 DEF Dead
  <2>4. CASE \E u \in Threads : Calling(u, c)
    <3>1. PICK u \in Threads : Calling(u, c)
      BY <2>4
    <3>2. stack'[u] = stack[u]
      BY <1>5, <3>1 DEF Calling, InStage
    <3> QED
      BY <3>1, <3>2, CallingStays
  <2> QED
    BY <2>2, <2>3, <2>4
<1>15. r \in 1 .. Len(lists') /\ n \in 0 .. Len(copies') /\ \A l \in 1 .. r - 1 : lists'[l] = lists[l]
  BY <1>1, <1>2
<1>16. Region(t, r, n)'
  BY <1>10, <1>11, <1>12 DEF Region
<1> QED
  BY <1>2, <1>5, <1>9, <1>13, <1>14, <1>15, <1>16

\* The workflow that runWorkflows is at begins: all calls are over, and what they
\* left has been checked or is part of nothing.
LEMMA GateMain ==
  ASSUME GateInv, RunInv', Run(Main, Current), Current \in Workflows, phase' = "running", pending' = {},
         UNCHANGED <<plan, copies, checks, ret, threw, at>>,
         \A u \in Threads : stack[u] = <<>>, Needs \subseteq Workflows,
         \A d \in Needs : ~threw[d] /\ ~Failed(ret[d].list)
  PROVE  GateInv'
<1>1. PICK r : r = NewList
  OBVIOUS
<1>2. PICK n : n = Len(copies)
  OBVIOUS
<1>3. Main \in Threads /\ Main \notin Workflows /\ Workflows \subseteq Threads /\ Missing \notin Threads
  BY Constants DEF Threads
<1>4. PICK w \in Workflows : w = Current
  OBVIOUS
<1>5. /\ \A u \in Threads : (Region(u, 1, 0) /\ Answered(u))'
      /\ \A c \in 1 .. Len(copies') : Settled(c)'
      /\ \A u \in Threads : u # Main => stack'[u] = stack[u]
      /\ DeadStay /\ Region(Main, r, n)'
      /\ r \in 1 .. Len(lists') /\ n \in 0 .. Len(copies')
      /\ r \in Nat \ {0} /\ r = Len(lists) + 1 /\ Len(lists') = r /\ \A l \in 1 .. r - 1 : lists'[l] = lists[l]
  <2>1. Run(Main, w) /\ stack[Main] = <<>>
    BY <1>3, <1>4
  <2> QED
    BY <1>1, <1>2, <1>3, <2>1, GateBegin
<1>6. /\ RunInv /\ Len(lists) \in Nat /\ Len(copies) \in Nat /\ n \in Nat /\ copies \in Seq(Copies) /\ copies' = copies
      /\ ListsIn(1) /\ CopiesIn(1, 0)
  BY <1>2, <1>3 DEF GateInv, RunInv, TypeOK, Region
<1>7. Needs' = Needs
  BY DEF Needs, Current
<1>8. PhasesOK'
  BY <1>3, <1>5, <1>7 DEF PhasesOK
<1>9. ASSUME NEW c \in 1 .. n PROVE copies[c].list < r /\ (Unsettled(c) => Dead(copies[c].list))
  <2>1. c \in 1 .. Len(copies)
    BY <1>2
  <2>2. copies[c].list \in {0} \cup (1 .. Len(lists))
    BY <1>6, <2>1 DEF CopiesIn
  <2>3. copies[c].list < r
    BY <1>5, <1>6, <2>2
  <2>4. Settled(c)
    BY <2>1 DEF GateInv
  <2> QED
    BY <2>3, <2>4 DEF Settled, Calling, InStage
<1>10. ASSUME NEW c \in 1 .. n PROVE (copies[c].list < r /\ (Unsettled(c) => Dead(copies[c].list)))'
  <2>1. PICK l : l = copies[c].list
    OBVIOUS
  <2>2. Unsettled(c)' => Unsettled(c)
    BY <1>6 DEF Unsettled
  <2>3. Unsettled(c)' => Dead(l)'
    BY <1>5, <1>9, <2>1, <2>2 DEF DeadStay
  <2>4. copies'[c].list = l
    BY <1>6, <2>1
  <2> QED
    BY <1>9, <2>1, <2>3, <2>4 DEF Dead
<1>11. ASSUME NEW d \in Needs PROVE (ret[d].list < r /\ ~threw[d] /\ ~Failed(ret[d].list))'
  <2>1. d \in Threads
    BY <1>3
  <2>2. PICK list : list = ret[d].list
    OBVIOUS
  <2>3. /\ list \in Nat /\ list < r /\ \A l : Dead(l) => l # list
        /\ ret'[d].list = list /\ threw'[d] = threw[d] /\ ~threw[d] /\ ~Failed(list)
    <3>1. list \in Nat /\ list <= Len(lists)
      BY <1>6, <2>1, <2>2 DEF GateInv, Answered, RunInv, TypeOK, Returned
    <3>2. list < r
      BY <1>5, <1>6, <3>1
    <3> QED
      BY <2>1, <2>2, <3>1, <3>2 DEF Dead
  <2>4. \A c \in 1 .. n : ChecksOf(c)' # {} => ChecksOf(c) # {} \/ (copies[c].list # 0 => Dead(copies[c].list))
    BY DEF ChecksOf
  <2>5. ListsIn(r)' /\ CopiesIn(r, n)' /\ ListsIn(1)'
    BY <1>3, <1>5 DEF Region
  <2>6. n <= Len(copies) /\ n <= Len(copies') /\ r <= Len(lists) + 1 /\ r <= Len(lists') + 1
    BY <1>2, <1>5, <1>6
  <2>7. \A c \in 1 .. n : copies'[c] = copies[c] /\ copies[c].list < r
    BY <1>6, <1>9
  <2>8. ~Failed(list)'
    BY <1>5, <1>6, <2>3, <2>4, <2>5, <2>6, <2>7, FailedStays
  <2> QED
    BY <2>3, <2>8 DEF Failed
<1>12. Past(r, n)'
  BY <1>7, <1>10, <1>11 DEF Past
<1> QED
  BY <1>5, <1>8, <1>12 DEF GateInv

\* A step of runWorkflows that begins no workflow.
LEMMA GateRest ==
  ASSUME GateInv, RunInv', PhasesOK', UNCHANGED <<plan, copies, checks, lists, stack, ret, threw>>,
         phase' = "running" => phase = "running" /\ at' = at
  PROVE  GateInv'
<1>1. RunInv
  BY DEF GateInv
<1>2. ASSUME NEW l PROVE Dead(l)' <=> Dead(l)
  BY DEF Dead
<1>3. DeadStay /\ Kept(copies, copies') /\ Len(lists) <= Len(lists')
  BY <1>1, <1>2 DEF DeadStay, Kept, RunInv, TypeOK
<1>4. ASSUME NEW u \in Threads, NEW r \in Nat, NEW n \in Nat, Region(u, r, n) PROVE Region(u, r, n)'
  <2>1. CallsIn(stack[u], r, n) /\ ListsIn(r) /\ CopiesIn(r, n)
    BY <1>4 DEF Region
  <2>2. stack'[u] = stack[u] /\ plan' = plan
    OBVIOUS
  <2>3. CallsIn(stack[u], r, n)'
    BY <1>1, <1>3, <2>1, <2>2, OthersIn
  <2>4. ListsIn(r)' /\ CopiesIn(r, n)'
    BY <2>1 DEF ListsIn, CopiesIn
  <2> QED
    BY <2>3, <2>4 DEF Region
<1>5. ASSUME NEW u \in Threads PROVE (Region(u, 1, 0) /\ Answered(u))'
  <2>1. Region(u, 1, 0) /\ Answered(u)
    BY DEF GateInv
  <2>2. Region(u, 1, 0)'
    BY <1>4, <2>1
  <2>3. Answered(u)'
    BY <1>1, <1>3, <2>1, OthersAnswered
  <2> QED
    BY <2>2, <2>3
<1>6. ASSUME NEW c \in 1 .. Len(copies') PROVE Settled(c)'
  <2>1. Settled(c)
    BY DEF GateInv
  <2>2. (\E u \in Threads : Calling(u, c)) => \E u \in Threads : Calling(u, c)'
    BY CallingStays
  <2>3. Dead(copies[c].list) => Dead(copies[c].list)'
    BY DEF Dead
  <2> QED
    BY <2>1, <2>2, <2>3 DEF Settled, Unsettled
<1>7. ASSUME phase' = "running"
      PROVE  (\E r \in 1 .. Len(lists), n \in 0 .. Len(copies) : Region(Main, r, n) /\ Past(r, n))'
  <2>1. PICK r \in 1 .. Len(lists), n \in 0 .. Len(copies) : Region(Main, r, n) /\ Past(r, n)
    BY <1>7 DEF GateInv
  <2>2. r \in Nat /\ n \in Nat /\ Main \in Threads
    BY <1>1 DEF RunInv, TypeOK, Threads
  <2>3. Region(Main, r, n)'
    BY <1>4, <2>1, <2>2
  <2>4. Needs' = Needs
    BY <1>7 DEF Needs, Current
  <2>5. \A c \in 1 .. n : (copies[c].list < r /\ (Unsettled(c) => Dead(copies[c].list)))'
    BY <2>1 DEF Past, Unsettled, Dead
  <2>6. \A d \in Needs : (ret[d].list < r /\ ~threw[d] /\ ~Failed(ret[d].list))'
    <3>1. Home' = Home
      BY DEF Home
    <3>2. ASSUME NEW d \in Needs PROVE (ret[d].list < r /\ ~threw[d] /\ ~Failed(ret[d].list))'
      <4>1. ret[d].list < r /\ ~threw[d] /\ ~Failed(ret[d].list)
        BY <2>1 DEF Past
      <4>2. Failed(ret[d].list)' => Failed(ret[d].list)
        BY <3>1 DEF Failed, Counted, ChecksOf
      <4> QED
        BY <4>1, <4>2
    <3> QED
      BY <3>2
  <2> QED
    BY <2>1, <2>3, <2>4, <2>5, <2>6 DEF Past
<1> QED
  BY <1>5, <1>6, <1>7 DEF GateInv

LEMMA GateDependency == ASSUME GateInv, RunInv', NEW d \in Workflows, StartDependency(d) PROVE GateInv'
<1>1. /\ d \in pending /\ pending' = pending \ {d} /\ Run(d, d)
      /\ UNCHANGED <<plan, copies, checks, ret, threw, at, phase>>
  BY DEF StartDependency
<1>2. PhasesOK /\ RunInv /\ d \in Threads /\ Main \in Threads /\ d # Main /\ pending \subseteq Workflows
      /\ Workflows \subseteq Threads
  BY Constants DEF GateInv, RunInv, TypeOK, Threads
<1>3. stack[d] = <<>> /\ phase # "running" /\ phase \notin {"next", "running", "done"}
  BY <1>1, <1>2 DEF PhasesOK
<1>4. PICK r, n : r = NewList /\ n = Len(copies)
  OBVIOUS
<1>5. /\ \A u \in Threads : (Region(u, 1, 0) /\ Answered(u))'
      /\ \A c \in 1 .. Len(copies') : Settled(c)'
      /\ \A u \in Threads : u # d => stack'[u] = stack[u]
  BY <1>1, <1>2, <1>3, <1>4, GateBegin
<1>6. PhasesOK'
  <2>1. Needs' = Needs
    BY <1>1 DEF Needs, Current
  <2>2. phase = "depending" => \A e \in Workflows : stack'[e] # <<>> => e \in Needs
    BY <1>1, <1>2, <1>5 DEF PhasesOK
  <2>3. \A e \in pending' : stack'[e] = <<>>
    BY <1>1, <1>2, <1>5 DEF PhasesOK
  <2> QED
    BY <1>1, <1>2, <1>3, <1>5, <2>1, <2>2, <2>3 DEF PhasesOK
<1> QED
  BY <1>1, <1>3, <1>5, <1>6 DEF GateInv

LEMMA GateFlow == ASSUME GateInv, RunInv', Flow PROVE GateInv'
<1>1. PhasesOK /\ RunInv /\ Main \in Threads /\ Workflows \subseteq Threads /\ Threads = Workflows \cup {Main}
      /\ pending \subseteq Workflows
  BY DEF GateInv, RunInv, TypeOK, Threads
<1>2. CASE RunNext
  <2>1. /\ phase = "next" /\ at <= Len(plan.order) /\ Needs = {} /\ Run(Main, Current) /\ phase' = "running"
        /\ UNCHANGED <<plan, copies, checks, ret, threw, at, pending>>
    BY <1>2 DEF RunNext
  <2>2. Current \in Workflows
    BY <1>1, <2>1, CurrentIs
  <2>3. pending' = {} /\ \A u \in Threads : stack[u] = <<>>
    BY <1>1, <2>1 DEF PhasesOK
  <2> QED
    BY <2>1, <2>2, <2>3, GateMain
<1>3. CASE DependencyMissing
  <2>1. phase = "next" /\ UNCHANGED <<plan, copies, checks, lists, stack, ret, threw, pending, phase>>
    BY <1>3 DEF DependencyMissing
  <2>2. PhasesOK'
    BY <1>1, <2>1 DEF PhasesOK
  <2> QED
    BY <2>1, <2>2, GateRest
<1>4. CASE StartDependencies
  <2>1. /\ phase = "next" /\ at <= Len(plan.order) /\ Missing \notin Needs /\ pending' = Needs /\ phase' = "depending"
        /\ UNCHANGED <<plan, copies, checks, lists, stack, ret, threw, at>>
    BY <1>4 DEF StartDependencies
  <2>2. Needs' = Needs /\ Needs \subseteq Workflows
    BY <1>1, <2>1, CurrentIs DEF Needs, Current
  <2>3. PhasesOK'
    BY <1>1, <2>1, <2>2 DEF PhasesOK
  <2> QED
    BY <2>1, <2>3, GateRest
<1>5. CASE DependenciesDone
  <2>1. /\ phase = "depending" /\ pending = {} /\ pending' = pending
        /\ \A d \in Needs : stack[d] = <<>> /\ ~threw[d]
        /\ UNCHANGED <<plan, copies, checks, ret, threw>>
    BY <1>5 DEF DependenciesDone
  <2>2. \A u \in Threads : stack[u] = <<>>
    BY <1>1, <2>1 DEF PhasesOK
  <2>3. at <= Len(plan.order) /\ Missing \notin Needs
    BY <1>1, <2>1 DEF RunInv, PhaseOK, PhasesOK
  <2>4. CASE \E d \in Needs : Failed(ret[d].list)
    <3>1. phase' = "next" /\ UNCHANGED <<lists, stack>>
      BY <1>5, <2>4 DEF DependenciesDone
    <3>2. PhasesOK'
      BY <1>1, <2>1, <2>2, <3>1 DEF PhasesOK
    <3> QED
      BY <2>1, <3>1, <3>2, GateRest
  <2>5. CASE ~ \E d \in Needs : Failed(ret[d].list)
    <3>1. Run(Main, Current) /\ phase' = "running" /\ at' = at
      BY <1>5, <2>5 DEF DependenciesDone
    <3>2. Current \in Workflows /\ Needs \subseteq Workflows
      BY <1>1, <2>3, CurrentIs
    <3> QED
      BY <2>1, <2>2, <2>5, <3>1, <3>2, GateMain
  <2> QED
    BY <2>4, <2>5
<1>6. CASE DependencyThrew
  <2>1. phase = "depending" /\ phase' = "aborted" /\ UNCHANGED <<plan, copies, checks, lists, stack, ret, threw, at, pending>>
    BY <1>6 DEF DependencyThrew
  <2>2. PhasesOK'
    BY <1>1, <2>1 DEF PhasesOK
  <2> QED
    BY <2>1, <2>2, GateRest
<1>7. CASE WorkflowDone
  <2>1. /\ phase = "running" /\ stack[Main] = <<>> /\ phase' \in {"next", "aborted"}
        /\ UNCHANGED <<plan, copies, checks, lists, stack, ret, threw, pending>>
    BY <1>7 DEF WorkflowDone
  <2>2. PhasesOK'
    BY <1>1, <2>1 DEF PhasesOK
  <2> QED
    BY <2>1, <2>2, GateRest
<1>8. CASE AllDone
  <2>1. phase = "next" /\ phase' = "done" /\ UNCHANGED <<plan, copies, checks, lists, stack, ret, threw, at, pending>>
    BY <1>8 DEF AllDone
  <2>2. PhasesOK'
    BY <1>1, <2>1 DEF PhasesOK
  <2> QED
    BY <2>1, <2>2, GateRest
<1> QED
  BY <1>2, <1>3, <1>4, <1>5, <1>6, <1>7, <1>8 DEF Flow

LEMMA GateNext == ASSUME GateInv, [Next]_vars PROVE GateInv'
<1>1. RunInv'
  BY RunNextKeeps DEF GateInv
<1>2. CASE Runs
  BY <1>2, GateThread DEF Runs
<1>3. CASE Starts
  BY <1>1, <1>3, GateDependency DEF Starts
<1>4. CASE Flow
  BY <1>1, <1>4, GateFlow
<1>5. CASE TimeUp \/ Over \/ UNCHANGED vars
  <2>1. UNCHANGED <<plan, copies, checks, lists, stack, ret, threw, at, pending, phase>>
    BY <1>5 DEF TimeUp, Over, vars
  <2>2. PhasesOK'
    BY <2>1 DEF GateInv, PhasesOK, Needs, Current
  <2> QED
    BY <1>1, <2>1, <2>2, GateRest
<1> QED
  BY <1>2, <1>3, <1>4, <1>5 DEF Next

LEMMA GateInit == ASSUME Init PROVE GateInv
<1>1. /\ copies = <<>> /\ lists = <<>> /\ phase = "next" /\ pending = {}
      /\ \A t \in Threads : stack[t] = <<>> /\ ret[t].list = 0
      /\ Len(copies) = 0 /\ Len(lists) = 0
  BY DEF Init
<1>2. PhasesOK
  BY <1>1 DEF PhasesOK, Threads
<1>3. ASSUME NEW t \in Threads PROVE Region(t, 1, 0) /\ Answered(t)
  <2>1. ListsIn(1) /\ CopiesIn(1, 0)
    BY <1>1 DEF ListsIn, CopiesIn
  <2>2. PICK s : s = stack[t]
    OBVIOUS
  <2>3. Len(s) = 0
    BY <1>1, <2>2
  <2>4. CallsIn(s, 1, 0)
    BY <2>3 DEF CallsIn
  <2> QED
    BY <1>1, <2>1, <2>2, <2>4 DEF Region, Answered
<1> QED
  BY <1>1, <1>2, <1>3, RunInit DEF GateInv

LEMMA GateAlways == Spec => []GateInv
<1>1. Init => GateInv
  BY GateInit
<1>2. GateInv /\ [Next]_vars => GateInv'
  BY GateNext
<1> QED
  BY <1>1, <1>2, PTL DEF Spec

\* In every description, whatever its workflows retry, jump to and share, a
\* workflow runs only while all it depends on has run to its end and passed, and
\* what passed then goes on to pass: nothing the workflow does makes a dependency
\* fail afterwards, nor is a dependency still running (handleDependsOn and
\* runWorkflows in respect-core/src/modules/flow-runner/runner.ts).
THEOREM DependenciesPass == Spec => []DependenciesGate
<1>1. GateInv => DependenciesGate
  BY DEF GateInv, PhasesOK, Past, DependenciesGate
<1> QED
  BY <1>1, GateAlways, PTL

------------------------------------------------------------------------------
(* The last attempt of a step decides.                                     *)

\* A call has a copy from its start on; what is not had is not changed any more.
Has(f, c) == f.fn = "step" /\ f.stage # "start" /\ f.copy = c
Free(c) == \A u \in Threads : \A i \in 1 .. Len(stack[u]) : ~Has(stack[u][i], c)
HasTop(t, c) == stack[t] # <<>> /\ Has(Top(t), c)

\* A copy is had by one call, and nobody retries it meanwhile.
Unique ==
  \A u, v \in Threads : \A i \in 1 .. Len(stack[u]), j \in 1 .. Len(stack[v]) : \A c :
    Has(stack[u][i], c) => /\ Has(stack[v][j], c) => u = v /\ i = j
                           /\ stack[v][j].fn = "step" => stack[v][j].of # c
\* What a call has is its last attempt, and has retries left once it is retried.
Holds(f) ==
  f.fn = "step" /\ f.stage # "start" =>
    /\ ~Superseded(f.copy) /\ copies[f.copy].list \in {0, f.list}
    /\ f.stage # "retried" => copies[f.copy].left \in {0, copies[f.copy].given}
    /\ f.stage = "retried" => copies[f.copy].left # 0
Retries(f) ==
  f.fn = "step" =>
    /\ f.of # 0 => copies[f.of].left # 0
    /\ f.stage = "start" => /\ f.of # 0 => copies[f.of].list \in {0, f.list}
                            /\ f.arr # 0 => Free(f.arr)
Owns(c) ==
  /\ Superseded(c) => copies[c].left # 0
  /\ copies[c].arr \notin {0, c} => Free(copies[c].arr)

\* Why a copy with retries left is not the last attempt, or does not matter: it is
\* retried or will be, an action of it was broken, its workflow caught an error
\* instead, or it is part of no result.
Awaits(f, c) ==
  /\ f.fn = "step"
  /\ (f.stage = "retried" /\ f.copy = c) \/ (f.stage = "start" /\ f.of = c)
Awaited(c) == \E u \in Threads : \E i \in 1 .. Len(stack[u]) : Awaits(stack[u][i], c)
Marked(c) == Free(c) /\ "action" \in ChecksOf(c)
Caught(d, l) ==
  Free(d) /\ copies[d].list = l /\ copies[d].left = 0 /\ copies[d].arr = 0 /\ checks[copies[d].step] # {}
Recorded(l) == \E d \in 1 .. Len(copies) : Caught(d, l)
Lost(l) == Dead(l) /\ \A i \in 1 .. Len(results) : results[i].list # l
Unlisted(c) == Free(c) /\ copies[c].list = 0
Decided(c) ==
  copies[c].given = 0 /\ copies[c].left # 0 =>
    \/ Superseded(c) \/ Awaited(c) \/ Marked(c)
    \/ Recorded(copies[c].list) \/ Lost(copies[c].list) \/ Unlisted(c)

\* Results have arrays that were there, and none that is a retry target's.
ListsOfResults == \A i \in 1 .. Len(results) : results[i].list <= Len(lists)
TargetsApart ==
  \A u \in Threads : \A i \in 2 .. Len(stack[u]) :
    stack[u][i].fn = "step" /\ stack[u][i - 1].fn = "step" =>
      \A j \in 1 .. Len(results) : results[j].list # stack[u][i].list

LastInv ==
  /\ GateInv /\ Unique /\ ListsOfResults /\ TargetsApart
  /\ \A u \in Threads : \A i \in 1 .. Len(stack[u]) : Holds(stack[u][i]) /\ Retries(stack[u][i])
  /\ \A c \in 1 .. Len(copies) : Owns(c) /\ Decided(c)

------------------------------------------------------------------------------
(* What a step does to the copies and the calls, told by the innermost one.  *)

Born(t, k) ==
  /\ k.left \in {0, k.given}
  /\ k.of # 0 => Top(t).fn = "step" /\ Top(t).stage = "start" /\ k.of = Top(t).of
  /\ k.arr # 0 => Top(t).fn = "step" /\ Top(t).stage = "start" /\ k.arr = Top(t).arr
Aged(t, k, c) ==
  LET o == copies[c]
  IN /\ k.given = o.given /\ k.step = o.step /\ k.of = o.of
     /\ ~HasTop(t, c) => k.list = o.list /\ k.left = o.left /\ k.arr = o.arr /\ o.own \subseteq k.own
     /\ HasTop(t, c) => k.list \in {o.list, Top(t).list} /\ k.arr \in {o.arr, c}
Makes(t, made) ==
  /\ made \in Seq(Copies) /\ Len(copies) <= Len(made)
  /\ \A c \in 1 .. Len(made) : IF c <= Len(copies) THEN Aged(t, made[c], c) ELSE Born(t, made[c])
Deals(t) == Makes(t, copies') /\ \A s \in StepIds : checks[s] \subseteq checks'[s]

\* The innermost call of a step goes on as g.
Follows(t, g) ==
  LET f == Top(t)
  IN /\ g.fn = "step" /\ g.list = f.list
     /\ \/ /\ f.stage = "start" /\ g.stage \notin {"start", "retried"} /\ g.of = f.of
           /\ g.copy = NewCopy /\ NewCopy <= Len(copies') /\ copies'[NewCopy].list \in {0, f.list}
        \/ /\ f.stage # "start" /\ g.stage # "start" /\ g.of = f.of /\ g.copy = f.copy
           /\ g.stage = "retried" => copies'[f.copy].left # 0
           /\ g.stage # "retried" => f.stage # "retried" /\ copies'[f.copy].left \in {0, copies[f.copy].left}
        \/ /\ f.stage # "start" /\ g.stage = "start" /\ g.of = f.copy /\ g.arr = copies[f.copy].arr
           /\ copies'[f.copy].left # 0 \/ (f.stage = "retried" /\ copies'[f.copy].left = copies[f.copy].left)
Turns(t) ==
  \A i \in 1 .. Len(stack'[t]) :
    stack'[t][i].fn = "step" =>
      \/ i < Len(stack[t]) /\ stack'[t][i] = stack[t][i]
      \/ i = Len(stack[t]) /\ Top(t).fn = "step" /\ Follows(t, stack'[t][i])
      \/ /\ i = Len(stack[t]) + 1 /\ stack'[t][i].stage = "start" /\ stack'[t][i].of = 0 /\ stack'[t][i].arr = 0
         /\ stack'[t][i - 1].fn = "step" => stack'[t][i].list > Len(lists)
\* What awaits an attempt gets it, or the workflow that it is in catches an error.
Serves(t) ==
  \A i \in 1 .. Len(stack[t]), c \in 1 .. Len(copies) :
    Awaits(stack[t][i], c) =>
      \/ i <= Len(stack'[t]) /\ Awaits(stack'[t][i], c)
      \/ Superseded(c)'
      \/ \E k \in 1 .. i - 1 :
           /\ Len(stack'[t]) <= k /\ stack[t][k].fn = "workflow" /\ \A j \in k + 1 .. i : stack[t][j].fn = "step"
           /\ \E l : l = stack[t][k].list /\ Recorded(l)'
Keeps(t) ==
  \A c : HasTop(t, c) =>
    \/ copies'[c].left = 0
    \/ copies'[c].left = copies[c].left /\ Top(t).stage # "retried"
    \/ \E i \in 1 .. Len(stack'[t]) : Awaits(stack'[t][i], c)
    \/ Len(stack'[t]) < Len(stack[t]) /\ "action" \in ChecksOf(c)'
Acted(t) ==
  /\ LastInv /\ GateInv' /\ t \in Threads /\ stack[t] # <<>> /\ plan' = plan /\ results' = results
  /\ \A u \in Threads : u # t => stack'[u] = stack[u]
  /\ DeadStay /\ Len(lists) <= Len(lists')
  /\ Deals(t) /\ Turns(t) /\ Serves(t) /\ Keeps(t)

LEMMA ActedIs ==
  ASSUME NEW t, Acted(t)
  PROVE  /\ RunInv /\ RunInv' /\ t \in Threads /\ stack \in [Threads -> Seq(Frames)] /\ stack' \in [Threads -> Seq(Frames)]
         /\ Len(copies) \in Nat /\ Len(copies') \in Nat /\ Len(copies) <= Len(copies')
         /\ copies \in Seq(Copies) /\ copies' \in Seq(Copies) /\ Len(stack[t]) \in Nat \ {0}
         /\ Top(t) = stack[t][Len(stack[t])] /\ Len(stack[t]) \in 1 .. Len(stack[t])
         /\ Len(lists) \in Nat
         /\ \A u \in Threads : Len(stack[u]) \in Nat /\ Len(stack'[u]) \in Nat
         /\ \A u \in Threads : u # t => stack'[u] = stack[u]
<1>1. LastInv /\ GateInv' /\ t \in Threads /\ stack[t] # <<>> /\ Deals(t) /\ \A u \in Threads : u # t => stack'[u] = stack[u]
  BY DEF Acted
<1>2. RunInv /\ RunInv'
  BY <1>1 DEF LastInv, GateInv
<1>3. /\ stack \in [Threads -> Seq(Frames)] /\ stack' \in [Threads -> Seq(Frames)]
      /\ copies \in Seq(Copies) /\ copies' \in Seq(Copies) /\ lists \in Seq(Nat)
  BY <1>2 DEF RunInv, TypeOK
<1>4. stack[t] \in Seq(Frames) /\ stack[t] # <<>>
  BY <1>1, <1>3
<1>5. Len(stack[t]) \in Nat \ {0}
  BY <1>4
<1>6. Len(copies) <= Len(copies')
  BY <1>1 DEF Deals, Makes
<1>7. \A u \in Threads : Len(stack[u]) \in Nat /\ Len(stack'[u]) \in Nat
  <2>1. \A u \in Threads : stack[u] \in Seq(Frames) /\ stack'[u] \in Seq(Frames)
    BY <1>3
  <2> QED
    BY <2>1
<1> QED
  BY <1>1, <1>2, <1>3, <1>5, <1>6, <1>7 DEF Top

\* A call of a step knows the copy it has and the one it retries.
LEMMA StepKnows ==
  ASSUME RunInv, NEW u \in Threads, NEW i \in 1 .. Len(stack[u]), stack[u][i].fn = "step"
  PROVE  /\ stack[u][i].of \in 0 .. Len(copies)
         /\ stack[u][i].stage # "start" =>
              stack[u][i].copy \in 1 .. Len(copies) /\ copies[stack[u][i].copy].of = stack[u][i].of
<1>1. copies \in Seq(Copies) /\ GoodStack(copies, stack[u])
  BY DEF RunInv, TypeOK
<1>2. GoodFrame(copies, stack[u][i]) /\ Len(copies) \in Nat
  BY <1>1 DEF GoodStack
<1>3. GoodStep(copies, stack[u][i]) /\ stack[u][i].of \in Nat
  BY <1>2 DEF GoodFrame, Frames
<1> QED
  BY <1>2, <1>3 DEF GoodStep

LEMMA TopIsHad ==
  ASSUME NEW t, Acted(t), NEW c
  PROVE  HasTop(t, c) <=> Has(stack[t][Len(stack[t])], c)
BY ActedIs DEF HasTop, Acted

\* Who has a copy had it before, or made it.
LEMMA HadBefore ==
  ASSUME NEW t, Acted(t), NEW u \in Threads, NEW i \in 1 .. Len(stack'[u]), NEW c, Has(stack'[u][i], c)
  PROVE  \/ i \in 1 .. Len(stack[u]) /\ Has(stack[u][i], c)
         \/ u = t /\ i = Len(stack[t]) /\ c = NewCopy /\ Top(t).fn = "step" /\ Top(t).stage = "start"
<1>1. CASE u # t
  BY <1>1, ActedIs
<1>2. CASE u = t
  <2>1. stack'[t][i].fn = "step" /\ stack'[t][i].stage # "start" /\ stack'[t][i].copy = c
    BY <1>2 DEF Has
  <2>2. CASE i < Len(stack[t]) /\ stack'[t][i] = stack[t][i]
    BY <1>2, <2>2, ActedIs
  <2>3. CASE i = Len(stack[t]) /\ Top(t).fn = "step" /\ Follows(t, stack'[t][i])
    <3>1. \/ Top(t).stage = "start" /\ c = NewCopy
          \/ Top(t).stage # "start" /\ Top(t).copy = c
      BY <2>1, <2>3 DEF Follows
    <3> QED
      BY <1>2, <2>3, <3>1, ActedIs DEF Has
  <2> QED
    BY <1>2, <2>1, <2>2, <2>3 DEF Acted, Turns
<1> QED
  BY <1>1, <1>2

\* Who retries a copy did before, or had it until now.
LEMMA RetriedBefore ==
  ASSUME NEW t, Acted(t), NEW u \in Threads, NEW i \in 1 .. Len(stack'[u]), stack'[u][i].fn = "step",
         NEW c, c # 0, stack'[u][i].of = c
  PROVE  \/ i \in 1 .. Len(stack[u]) /\ stack[u][i].fn = "step" /\ stack[u][i].of = c
         \/ u = t /\ i = Len(stack[t]) /\ HasTop(t, c) /\ stack'[u][i].stage = "start"
<1>1. CASE u # t
  BY <1>1, ActedIs
<1>2. CASE u = t
  <2>2. CASE i < Len(stack[t]) /\ stack'[t][i] = stack[t][i]
    BY <1>2, <2>2, ActedIs
  <2>3. CASE i = Len(stack[t]) /\ Top(t).fn = "step" /\ Follows(t, stack'[t][i])
    <3>1. \/ Top(t).of = c
          \/ Top(t).stage # "start" /\ stack'[t][i].stage = "start" /\ Top(t).copy = c
      BY <1>2, <2>3 DEF Follows
    <3> QED
      BY <1>2, <2>3, <3>1, ActedIs DEF Has, HasTop, Acted
  <2> QED
    BY <1>2, <2>2, <2>3 DEF Acted, Turns
<1> QED
  BY <1>1, <1>2

LEMMA OfKnown ==
  ASSUME RunInv, NEW c \in 1 .. Len(copies)
  PROVE  copies[c].of \in 0 .. Len(copies) /\ copies[c].of # c /\ copies[c].of < Len(copies) + 1
<1>1. Len(copies) \in Nat /\ copies[c].of \in 0 .. c - 1
  BY DEF RunInv, TypeOK, CopiesOK, Ordered
<1> QED
  BY <1>1

\* A copy is superseded by a call that was retrying it.
LEMMA SupersededBy ==
  ASSUME NEW t, Acted(t), NEW c, c # 0, Superseded(c)'
  PROVE  Superseded(c) \/ (Top(t).fn = "step" /\ Top(t).stage = "start" /\ c = Top(t).of)
<1>1. /\ copies \in Seq(Copies) /\ copies' \in Seq(Copies) /\ Len(copies) \in Nat /\ Makes(t, copies')
  BY ActedIs DEF Acted, Deals
<1>2. PICK d \in 1 .. Len(copies') : copies'[d].of = c
  BY <1>1 DEF Superseded
<1>3. CASE d <= Len(copies)
  <2>1. Aged(t, copies'[d], d) /\ d \in 1 .. Len(copies)
    BY <1>1, <1>2, <1>3 DEF Makes
  <2> QED
    BY <1>1, <1>2, <2>1 DEF Aged, Superseded
<1>4. CASE ~(d <= Len(copies))
  <2>1. Born(t, copies'[d])
    BY <1>1, <1>2, <1>4 DEF Makes
  <2> QED
    BY <1>2, <2>1 DEF Born
<1> QED
  BY <1>3, <1>4

LEMMA NewIsNew ==
  ASSUME RunInv
  PROVE  /\ NewCopy = Len(copies) + 1 /\ NewCopy \in Nat \ {0} /\ ~Superseded(NewCopy)
         /\ \A u \in Threads : \A i \in 1 .. Len(stack[u]) :
              ~Has(stack[u][i], NewCopy) /\ (stack[u][i].fn = "step" => stack[u][i].of # NewCopy)
<1>1. copies \in Seq(Copies) /\ Len(copies) \in Nat
  BY DEF RunInv, TypeOK
<1>2. NewCopy = Len(copies) + 1
  BY DEF NewCopy
<1>3. ~Superseded(NewCopy)
  <2>1. \A d \in 1 .. Len(copies) : copies[d].of # NewCopy
    BY <1>1, <1>2, OfKnown
  <2> QED
    BY <1>1, <2>1 DEF Superseded
<1>4. ASSUME NEW u \in Threads, NEW i \in 1 .. Len(stack[u]), stack[u][i].fn = "step"
      PROVE  ~Has(stack[u][i], NewCopy) /\ stack[u][i].of # NewCopy
  <2>1. /\ stack[u][i].of \in 0 .. Len(copies)
        /\ stack[u][i].stage # "start" => stack[u][i].copy \in 1 .. Len(copies)
    BY <1>4, StepKnows
  <2> QED
    BY <1>1, <1>2, <2>1 DEF Has
<1> QED
  BY <1>1, <1>2, <1>3, <1>4 DEF Has

LEMMA UniqueIs ==
  ASSUME Unique, NEW u \in Threads, NEW v \in Threads, NEW i \in 1 .. Len(stack[u]), NEW j \in 1 .. Len(stack[v]),
         NEW c, Has(stack[u][i], c)
  PROVE  /\ Has(stack[v][j], c) => u = v /\ i = j
         /\ stack[v][j].fn = "step" => stack[v][j].of # c
BY DEF Unique

\* Nobody gets a copy that was free or given up.
LEMMA FreeStays ==
  ASSUME NEW t, Acted(t), NEW c \in 1 .. Len(copies), Free(c)
  PROVE  Free(c)' /\ ~HasTop(t, c)
<1>1. /\ RunInv /\ t \in Threads /\ Len(copies) \in Nat
      /\ Len(stack[t]) \in 1 .. Len(stack[t])
  BY ActedIs
<1>2. c # NewCopy
  BY <1>1, NewIsNew
<1>3. ASSUME NEW u \in Threads, NEW i \in 1 .. Len(stack'[u]) PROVE ~Has(stack'[u][i], c)
  BY <1>2, HadBefore DEF Free
<1>4. ~HasTop(t, c)
  BY <1>1, TopIsHad DEF Free
<1> QED
  BY <1>3, <1>4 DEF Free

LEMMA TopOwns ==
  ASSUME NEW t, Acted(t), NEW c, HasTop(t, c)
  PROVE  /\ \A u \in Threads : \A j \in 1 .. Len(stack[u]) :
              /\ Has(stack[u][j], c) => u = t /\ j = Len(stack[t])
              /\ stack[u][j].fn = "step" => stack[u][j].of # c
         /\ c \in 1 .. Len(copies) /\ ~Superseded(c) /\ copies[c].list \in {0, Top(t).list}
         /\ Top(t).fn = "step" /\ Top(t).stage # "start" /\ Top(t).copy = c
         /\ Top(t).stage # "retried" => copies[c].left \in {0, copies[c].given}
         /\ Top(t).stage = "retried" => copies[c].left # 0
<1>1. PICK n : n = Len(stack[t])
  OBVIOUS
<1>2. n \in 1 .. Len(stack[t]) /\ t \in Threads /\ Top(t) = stack[t][n] /\ Has(stack[t][n], c) /\ LastInv /\ RunInv
  BY <1>1, ActedIs, TopIsHad DEF Acted
<1>3. \A u \in Threads : \A j \in 1 .. Len(stack[u]) :
        /\ Has(stack[u][j], c) => u = t /\ j = n
        /\ stack[u][j].fn = "step" => stack[u][j].of # c
  <2>1. Unique /\ t \in Threads /\ n \in 1 .. Len(stack[t]) /\ Has(stack[t][n], c)
    BY <1>2 DEF LastInv
  <2>2. ASSUME NEW u \in Threads, NEW j \in 1 .. Len(stack[u])
        PROVE  /\ Has(stack[u][j], c) => t = u /\ n = j
               /\ stack[u][j].fn = "step" => stack[u][j].of # c
    BY <2>1, UniqueIs, Zenon
  <2> QED
    BY <2>2
<1>4. Holds(stack[t][n]) /\ stack[t][n].fn = "step" /\ stack[t][n].stage # "start" /\ stack[t][n].copy = c
  BY <1>2 DEF LastInv, Has
<1>5. c \in 1 .. Len(copies)
  BY <1>2, <1>4, StepKnows
<1> QED
  BY <1>1, <1>2, <1>3, <1>4, <1>5 DEF Holds

\* When the innermost call retries what it had, nobody has that any more.
LEMMA GivenUp ==
  ASSUME NEW t, Acted(t), NEW c, HasTop(t, c),
         ~(\E i \in 1 .. Len(stack'[t]) : i = Len(stack[t]) /\ Has(stack'[t][i], c))
  PROVE  Free(c)'
<1>1. /\ \A u \in Threads : \A j \in 1 .. Len(stack[u]) : Has(stack[u][j], c) => u = t /\ j = Len(stack[t])
      /\ c \in 1 .. Len(copies)
  BY TopOwns
<1>2. c # NewCopy
  BY <1>1, ActedIs, NewIsNew
<1>3. ASSUME NEW u \in Threads, NEW i \in 1 .. Len(stack'[u]) PROVE ~Has(stack'[u][i], c)
  <2> SUFFICES ASSUME Has(stack'[u][i], c) PROVE FALSE
    OBVIOUS
  <2>1. i \in 1 .. Len(stack[u]) /\ Has(stack[u][i], c)
    BY <1>2, HadBefore
  <2>2. u = t /\ i = Len(stack[t])
    BY <1>1, <2>1
  <2> QED
    BY <2>2
<1> QED
  BY <1>3 DEF Free

LEMMA UniqueStays == ASSUME NEW t, Acted(t) PROVE Unique'
<1>1. RunInv /\ RunInv' /\ t \in Threads /\ Unique /\ Len(copies) \in Nat
  BY ActedIs DEF Acted, LastInv
<1> SUFFICES ASSUME NEW u \in Threads, NEW v \in Threads,
                    NEW i \in 1 .. Len(stack'[u]), NEW j \in 1 .. Len(stack'[v]), NEW c, Has(stack'[u][i], c)
             PROVE  /\ Has(stack'[v][j], c) => u = v /\ i = j
                    /\ stack'[v][j].fn = "step" => stack'[v][j].of # c
  BY DEF Unique
<1>2. \/ i \in 1 .. Len(stack[u]) /\ Has(stack[u][i], c)
      \/ u = t /\ i = Len(stack[t]) /\ c = NewCopy
  <2>1. \/ i \in 1 .. Len(stack[u]) /\ Has(stack[u][i], c)
        \/ u = t /\ i = Len(stack[t]) /\ c = NewCopy /\ Top(t).fn = "step" /\ Top(t).stage = "start"
    BY HadBefore, Zenon
  <2> QED
    BY <2>1
<1>3. c # 0
  <2>1. i \in 1 .. Len(stack[u]) /\ Has(stack[u][i], c) => c \in 1 .. Len(copies)
    BY <1>1, StepKnows DEF Has
  <2> QED
    BY <1>1, <1>2, <2>1, NewIsNew
<1>4. ASSUME Has(stack'[v][j], c) PROVE u = v /\ i = j
  <2>1. \/ j \in 1 .. Len(stack[v]) /\ Has(stack[v][j], c)
        \/ v = t /\ j = Len(stack[t]) /\ c = NewCopy
    BY <1>4, HadBefore
  <2>2. c = NewCopy => ~(i \in 1 .. Len(stack[u]) /\ Has(stack[u][i], c)) /\ ~(j \in 1 .. Len(stack[v]) /\ Has(stack[v][j], c))
    BY <1>1, NewIsNew
  <2> QED
    BY <1>1, <1>2, <2>1, <2>2, UniqueIs
<1>5. ASSUME stack'[v][j].fn = "step", stack'[v][j].of = c PROVE FALSE
  <2>1. \/ j \in 1 .. Len(stack[v]) /\ stack[v][j].fn = "step" /\ stack[v][j].of = c
        \/ v = t /\ j = Len(stack[t]) /\ HasTop(t, c) /\ stack'[v][j].stage = "start"
    BY <1>3, <1>5, RetriedBefore
  <2>2. CASE i \in 1 .. Len(stack[u]) /\ Has(stack[u][i], c)
    <3>1. CASE j \in 1 .. Len(stack[v]) /\ stack[v][j].fn = "step" /\ stack[v][j].of = c
      <4>1. Unique /\ u \in Threads /\ v \in Threads /\ i \in 1 .. Len(stack[u]) /\ j \in 1 .. Len(stack[v]) /\ Has(stack[u][i], c)
        BY <1>1, <2>2, <3>1
      <4>2. stack[v][j].fn = "step" => stack[v][j].of # c
        BY <4>1, UniqueIs, Zenon
      <4> QED
        BY <3>1, <4>2
    <3>2. CASE v = t /\ j = Len(stack[t]) /\ HasTop(t, c) /\ stack'[v][j].stage = "start"
      <4>1. u = t /\ i = Len(stack[t])
        BY <2>2, <3>2, TopOwns
      <4> QED
        BY <3>2, <4>1 DEF Has
    <3> QED
      BY <2>1, <3>1, <3>2
  <2>3. CASE c = NewCopy
    <3>1. ~HasTop(t, c)
      BY <1>1, <2>3, NewIsNew, TopIsHad, ActedIs
    <3> QED
      BY <1>1, <2>1, <2>3, <3>1, NewIsNew
  <2> QED
    BY <1>2, <2>2, <2>3
<1> QED
  BY <1>4, <1>5

\* What the innermost call does not have stays as it is.
LEMMA OthersStay ==
  ASSUME NEW t, Acted(t), NEW c \in 1 .. Len(copies), ~HasTop(t, c)
  PROVE  /\ c \in 1 .. Len(copies') /\ copies'[c].left = copies[c].left /\ copies'[c].list = copies[c].list
         /\ copies'[c].given = copies[c].given /\ copies'[c].arr = copies[c].arr /\ copies[c].own \subseteq copies'[c].own
         /\ copies'[c].of = copies[c].of /\ copies'[c].step = copies[c].step
<1>1. Len(copies) \in Nat /\ Len(copies') \in Nat /\ Len(copies) <= Len(copies')
  BY ActedIs
<1>2. c \in 1 .. Len(copies') /\ c <= Len(copies)
  BY <1>1
<1>3. Aged(t, copies'[c], c)
  BY <1>2 DEF Acted, Deals, Makes
<1> QED
  BY <1>2, <1>3 DEF Aged

\* A frame that stays is not the innermost one.
LEMMA OfInnermost ==
  ASSUME NEW t, Acted(t), NEW u \in Threads, NEW i \in 1 .. Len(stack'[u]), stack'[u][i].fn = "step"
  PROVE  \/ i \in 1 .. Len(stack[u]) /\ stack'[u][i] = stack[u][i] /\ (u = t => i < Len(stack[t]))
         \/ u = t /\ i = Len(stack[t]) /\ Top(t).fn = "step" /\ Follows(t, stack'[u][i])
         \/ /\ u = t /\ i = Len(stack[t]) + 1 /\ stack'[u][i].stage = "start" /\ stack'[u][i].of = 0 /\ stack'[u][i].arr = 0
            /\ stack'[u][i - 1].fn = "step" => stack'[u][i].list > Len(lists)
<1>1. CASE u # t
  BY <1>1, ActedIs
<1>2. CASE u = t
  <2>1. Turns(t) /\ i \in Nat /\ i >= 1
    BY <1>2, ActedIs DEF Acted
  <2> QED
    BY <1>2, <2>1, ActedIs DEF Turns
<1> QED
  BY <1>1, <1>2

\* What a call other than the innermost one has, or retries, the innermost one has not.
LEMMA NotTop ==
  ASSUME NEW t, Acted(t), NEW u \in Threads, NEW i \in 1 .. Len(stack[u]), NEW c,
         \/ Has(stack[u][i], c) /\ (u = t => i < Len(stack[t]))
         \/ stack[u][i].fn = "step" /\ stack[u][i].of = c
  PROVE  ~HasTop(t, c)
<1> SUFFICES ASSUME HasTop(t, c) PROVE FALSE
  OBVIOUS
<1>1. /\ Has(stack[u][i], c) => u = t /\ i = Len(stack[t])
      /\ stack[u][i].fn = "step" => stack[u][i].of # c
  BY TopOwns
<1>2. Len(stack[t]) \in Nat
  BY ActedIs
<1> QED
  BY <1>1, <1>2

\* Nothing that is had becomes superseded.
LEMMA HadIsLast ==
  ASSUME NEW t, Acted(t), NEW u \in Threads, NEW i \in 1 .. Len(stack[u]), NEW c, Has(stack[u][i], c), c # 0,
         ~Superseded(c)
  PROVE  ~Superseded(c)'
<1>1. PICK n : n = Len(stack[t])
  OBVIOUS
<1>2. Unique /\ t \in Threads /\ n \in 1 .. Len(stack[t]) /\ Top(t) = stack[t][n]
  BY <1>1, ActedIs DEF Acted, LastInv
<1>3. Unique /\ u \in Threads /\ t \in Threads /\ i \in 1 .. Len(stack[u]) /\ n \in 1 .. Len(stack[t]) /\ Has(stack[u][i], c)
  BY <1>2
<1>4. /\ Has(stack[t][n], c) => u = t /\ i = n
      /\ stack[t][n].fn = "step" => stack[t][n].of # c
  BY <1>3, UniqueIs, Zenon
<1> QED
  BY <1>2, <1>4, SupersededBy

LEMMA FramesKnow ==
  ASSUME LastInv, NEW u \in Threads, NEW i \in 1 .. Len(stack[u])
  PROVE  /\ Holds(stack[u][i]) /\ Retries(stack[u][i])
         /\ stack[u][i].arr \in {0} \cup (1 .. Len(copies)) /\ stack[u][i].list \in 1 .. Len(lists)
         /\ RunInv /\ CopiesIn(1, 0) /\ Len(copies) \in Nat /\ Len(lists) \in Nat
<1>1. RunInv /\ Region(u, 1, 0) /\ Holds(stack[u][i]) /\ Retries(stack[u][i])
  BY DEF LastInv, GateInv
<1>2. Len(copies) \in Nat /\ Len(lists) \in Nat
  BY <1>1 DEF RunInv, TypeOK
<1>3. FrameIn(stack[u][i], 1, 0) /\ CopiesIn(1, 0)
  BY <1>1 DEF Region, CallsIn
<1> QED
  BY <1>1, <1>2, <1>3 DEF FrameIn

LEMMA CopyKnows ==
  ASSUME LastInv, NEW c \in 1 .. Len(copies)
  PROVE  /\ copies[c].arr \in {0} \cup (1 .. Len(copies)) /\ Owns(c) /\ Decided(c)
         /\ copies[c].list \in {0} \cup (1 .. Len(lists))
<1>1. RunInv /\ Main \in Threads
  BY DEF LastInv, GateInv, Threads
<1>2. CopiesIn(1, 0) /\ Len(copies) \in Nat
  BY <1>1 DEF LastInv, GateInv, Region, RunInv, TypeOK
<1>3. Owns(c) /\ Decided(c)
  BY DEF LastInv
<1> QED
  BY <1>2, <1>3 DEF CopiesIn

LEMMA HoldsStays ==
  ASSUME NEW t, Acted(t), NEW u \in Threads, NEW i \in 1 .. Len(stack'[u])
  PROVE  Holds(stack[u][i])'
<1>1. LastInv /\ RunInv /\ t \in Threads /\ Top(t) = stack[t][Len(stack[t])] /\ Len(stack[t]) \in 1 .. Len(stack[t])
      /\ Len(copies) \in Nat
  BY ActedIs DEF Acted
<1>2. PICK g : g = stack'[u][i]
  OBVIOUS
<1>3. PICK c : c = g.copy
  OBVIOUS
<1>6. ASSUME g.fn = "step", g.stage # "start"
      PROVE  /\ ~Superseded(c)' /\ copies'[c].list \in {0, g.list}
             /\ g.stage # "retried" => copies'[c].left \in {0, copies'[c].given}
             /\ g.stage = "retried" => copies'[c].left # 0
  <2>1. CASE i \in 1 .. Len(stack[u]) /\ g = stack[u][i] /\ (u = t => i < Len(stack[t]))
    <3>1. Has(stack[u][i], c) /\ c \in 1 .. Len(copies) /\ Holds(g)
      BY <1>1, <1>2, <1>3, <1>6, <2>1, StepKnows, FramesKnow DEF Has
    <3>2. ~HasTop(t, c)
      BY <2>1, <3>1, NotTop
    <3>3. copies'[c].left = copies[c].left /\ copies'[c].list = copies[c].list /\ copies'[c].given = copies[c].given
      BY <3>1, <3>2, OthersStay
    <3>4. ~Superseded(c)
      BY <1>3, <1>6, <3>1 DEF Holds
    <3>5. ~Superseded(c)'
      BY <2>1, <3>1, <3>4, HadIsLast
    <3> QED
      BY <1>3, <1>6, <3>1, <3>3, <3>5 DEF Holds
  <2>2. CASE u = t /\ i = Len(stack[t]) /\ Top(t).fn = "step" /\ Follows(t, g)
    <3>1. CASE Top(t).stage = "start"
      <4>1. /\ g.stage # "retried" /\ g.list = Top(t).list /\ c = NewCopy /\ c <= Len(copies') /\ copies'[c].list \in {0, g.list}
        BY <1>3, <1>6, <2>2, <3>1 DEF Follows
      <4>2. c = Len(copies) + 1 /\ ~Superseded(c) /\ c # 0 /\ Top(t).of # c
        BY <1>1, <2>2, <4>1, NewIsNew
      <4>3. ~Superseded(c)'
        BY <4>2, SupersededBy
      <4>4. Born(t, copies'[c])
        <5>1. c \in 1 .. Len(copies') /\ ~(c <= Len(copies))
          BY <1>1, <4>1, <4>2, ActedIs
        <5> QED
          BY <5>1 DEF Acted, Deals, Makes
      <4> QED
        BY <1>2, <1>3, <4>1, <4>3, <4>4 DEF Born
    <3>2. CASE Top(t).stage # "start"
      <4>1. /\ g.list = Top(t).list /\ c = Top(t).copy
            /\ g.stage = "retried" => copies'[c].left # 0
            /\ g.stage # "retried" => Top(t).stage # "retried" /\ copies'[c].left \in {0, copies[c].left}
        BY <1>3, <1>6, <2>2, <3>2 DEF Follows
      <4>2. HasTop(t, c)
        BY <2>2, <3>2, <4>1 DEF HasTop, Has, Acted
      <4>3. /\ c \in 1 .. Len(copies) /\ ~Superseded(c) /\ copies[c].list \in {0, Top(t).list}
            /\ Top(t).stage # "retried" => copies[c].left \in {0, copies[c].given}
        BY <4>2, TopOwns
      <4>4. Aged(t, copies'[c], c)
        <5>1. c \in 1 .. Len(copies') /\ c <= Len(copies)
          BY <1>1, <4>3, ActedIs
        <5> QED
          BY <5>1 DEF Acted, Deals, Makes
      <4>5. copies'[c].list \in {0, g.list} /\ copies'[c].given = copies[c].given
        BY <4>1, <4>2, <4>3, <4>4 DEF Aged
      <4>6. Has(stack[t][Len(stack[t])], c) /\ c # 0
        BY <4>2, <4>3, TopIsHad
      <4>7. ~Superseded(c)'
        BY <1>1, <4>3, <4>6, HadIsLast
      <4> QED
        BY <1>2, <1>3, <4>1, <4>3, <4>5, <4>7
    <3> QED
      BY <3>1, <3>2
  <2> QED
    BY <1>2, <1>6, <2>1, <2>2, OfInnermost
<1> QED
  BY <1>2, <1>3, <1>6 DEF Holds, Superseded

LEMMA RetriesStay ==
  ASSUME NEW t, Acted(t), NEW u \in Threads, NEW i \in 1 .. Len(stack'[u])
  PROVE  Retries(stack[u][i])'
<1>1. LastInv /\ RunInv /\ t \in Threads /\ Top(t) = stack[t][Len(stack[t])] /\ Len(stack[t]) \in 1 .. Len(stack[t])
      /\ Len(copies) \in Nat
  BY ActedIs DEF Acted
<1>2. PICK g : g = stack'[u][i]
  OBVIOUS
<1>3. ASSUME NEW v \in Threads, NEW j \in 1 .. Len(stack[v]), stack[v][j].fn = "step", stack[v][j].of # 0
      PROVE  /\ copies'[stack[v][j].of].left # 0
             /\ stack[v][j].stage = "start" => copies'[stack[v][j].of].list \in {0, stack[v][j].list}
  <2>1. PICK c : c = stack[v][j].of
    OBVIOUS
  <2>2. c \in 1 .. Len(copies) /\ ~HasTop(t, c)
    BY <1>1, <1>3, <2>1, StepKnows, NotTop
  <2>3. copies'[c].left = copies[c].left /\ copies'[c].list = copies[c].list
    BY <2>2, OthersStay
  <2>4. Retries(stack[v][j])
    BY <1>1, FramesKnow
  <2> QED
    BY <1>3, <2>1, <2>3, <2>4 DEF Retries
<1>4. ASSUME NEW c \in 1 .. Len(copies), Free(c) PROVE Free(c)'
  BY <1>4, FreeStays
<1>5. ASSUME g.fn = "step"
      PROVE  /\ g.of # 0 => copies'[g.of].left # 0
             /\ g.stage = "start" => /\ g.of # 0 => copies'[g.of].list \in {0, g.list}
                                     /\ \A a : a = g.arr /\ a # 0 => Free(a)'
  <2>1. CASE i \in 1 .. Len(stack[u]) /\ g = stack[u][i] /\ (u = t => i < Len(stack[t]))
    <3>1. g.of # 0 => copies'[g.of].left # 0 /\ (g.stage = "start" => copies'[g.of].list \in {0, g.list})
      BY <1>3, <1>5, <2>1
    <3>2. ASSUME g.stage = "start", NEW a, a = g.arr, a # 0 PROVE Free(a)'
      <4>1. Retries(g) /\ a \in 1 .. Len(copies)
        BY <1>1, <2>1, <3>2, FramesKnow
      <4>2. Free(a)
        BY <1>5, <3>2, <4>1 DEF Retries
      <4> QED
        BY <1>4, <4>1, <4>2
    <3> QED
      BY <3>1, <3>2
  <2>2. CASE u = t /\ i = Len(stack[t]) /\ Top(t).fn = "step" /\ Follows(t, g)
    <3>1. CASE g.stage # "start"
      <4>1. g.of = Top(t).of
        BY <2>2, <3>1 DEF Follows
      <4> QED
        BY <1>1, <1>3, <2>2, <3>1, <4>1
    <3>2. CASE g.stage = "start"
      <4>1. PICK c : c = Top(t).copy
        OBVIOUS
      <4>2. /\ Top(t).stage # "start" /\ g.of = c /\ g.arr = copies[c].arr /\ g.list = Top(t).list
            /\ copies'[c].left # 0 \/ (Top(t).stage = "retried" /\ copies'[c].left = copies[c].left)
        BY <2>2, <3>2, <4>1 DEF Follows
      <4>3. HasTop(t, c)
        BY <2>2, <4>1, <4>2 DEF HasTop, Has, Acted
      <4>4. /\ c \in 1 .. Len(copies) /\ copies[c].list \in {0, Top(t).list}
            /\ Top(t).stage = "retried" => copies[c].left # 0
        BY <4>3, TopOwns
      <4>5. Aged(t, copies'[c], c)
        <5>1. c \in 1 .. Len(copies') /\ c <= Len(copies)
          BY <1>1, <4>4, ActedIs
        <5> QED
          BY <5>1 DEF Acted, Deals, Makes
      <4>6. copies'[c].list \in {0, g.list} /\ copies'[c].left # 0
        BY <4>2, <4>3, <4>4, <4>5 DEF Aged
      <4>7. ASSUME NEW a, a = g.arr, a # 0 PROVE Free(a)'
        <5>1. Owns(c) /\ a \in 1 .. Len(copies)
          BY <1>1, <4>2, <4>4, <4>7, CopyKnows
        <5>2. CASE a = c
          <6>1. ~(\E k \in 1 .. Len(stack'[t]) : k = Len(stack[t]) /\ Has(stack'[t][k], c))
            BY <1>2, <2>2, <3>2 DEF Has
          <6> QED
            BY <4>3, <5>2, <6>1, GivenUp
        <5>3. CASE a # c
          <6>1. Free(a)
            BY <4>2, <4>7, <5>1, <5>3 DEF Owns
          <6> QED
            BY <1>4, <5>1, <6>1
        <5> QED
          BY <5>2, <5>3
      <4> QED
        BY <3>2, <4>2, <4>6, <4>7
    <3> QED
      BY <3>1, <3>2
  <2>3. CASE g.of = 0 /\ g.arr = 0
    BY <2>3
  <2> QED
    BY <1>2, <1>5, <2>1, <2>2, <2>3, OfInnermost
<1> QED
  BY <1>2, <1>5 DEF Retries, Free

LEMMA BornIs ==
  ASSUME NEW t, Acted(t), NEW c \in 1 .. Len(copies'), ~(c <= Len(copies))
  PROVE  /\ Born(t, copies'[c]) /\ ~Superseded(c)' /\ c # 0
         /\ \A a : a = copies'[c].arr /\ a # 0 => a \in 1 .. Len(copies) /\ Free(a)
<1>1. LastInv /\ RunInv /\ t \in Threads /\ Top(t) = stack[t][Len(stack[t])] /\ Len(stack[t]) \in 1 .. Len(stack[t])
      /\ Len(copies) \in Nat /\ Len(copies') \in Nat /\ copies \in Seq(Copies)
  BY ActedIs DEF Acted
<1>2. Born(t, copies'[c])
  BY DEF Acted, Deals, Makes
<1>3. c # 0 /\ c \in Nat /\ c > Len(copies)
  BY <1>1
<1>4. ~Superseded(c)
  <2>1. \A d \in 1 .. Len(copies) : copies[d].of # c
    <3> TAKE d \in 1 .. Len(copies)
    <3>1. copies[d].of \in 0 .. Len(copies)
      BY <1>1, OfKnown
    <3> QED
      BY <1>1, <1>3, <3>1
  <2> QED
    BY <1>1, <2>1 DEF Superseded
<1>5. Top(t).fn = "step" => Top(t).of # c
  <2>1. Top(t).fn = "step" => Top(t).of \in 0 .. Len(copies)
    BY <1>1, StepKnows
  <2> QED
    BY <1>1, <1>3, <2>1
<1>6. ~Superseded(c)'
  BY <1>3, <1>4, <1>5, SupersededBy
<1>7. ASSUME NEW a, a = copies'[c].arr, a # 0 PROVE a \in 1 .. Len(copies) /\ Free(a)
  <2>1. Top(t).fn = "step" /\ Top(t).stage = "start" /\ a = Top(t).arr
    BY <1>2, <1>7 DEF Born
  <2>2. Retries(Top(t)) /\ Top(t).arr \in {0} \cup (1 .. Len(copies))
    BY <1>1, FramesKnow
  <2> QED
    BY <1>7, <2>1, <2>2 DEF Retries
<1> QED
  BY <1>2, <1>3, <1>6, <1>7

LEMMA AgedIs ==
  ASSUME NEW t, Acted(t), NEW c \in 1 .. Len(copies'), c <= Len(copies)
  PROVE  Aged(t, copies'[c], c) /\ c \in 1 .. Len(copies)
<1>1. Aged(t, copies'[c], c)
  BY DEF Acted, Deals, Makes
<1> QED
  BY <1>1, ActedIs

LEMMA OwnsStays ==
  ASSUME NEW t, Acted(t), NEW c \in 1 .. Len(copies')
  PROVE  Owns(c)'
<1>1. LastInv /\ RunInv /\ t \in Threads /\ Top(t) = stack[t][Len(stack[t])] /\ Len(stack[t]) \in 1 .. Len(stack[t])
      /\ Len(copies) \in Nat /\ c # 0
  BY ActedIs DEF Acted
<1>2. ASSUME Superseded(c)' PROVE copies'[c].left # 0
  <2>1. c <= Len(copies)
    BY <1>2, BornIs
  <2>2. c \in 1 .. Len(copies)
    BY <2>1, AgedIs
  <2>3. ~HasTop(t, c) /\ copies[c].left # 0
    <3>1. CASE Superseded(c)
      <4>1. Owns(c)
        BY <1>1, <2>2, CopyKnows
      <4>2. ~HasTop(t, c)
        BY <3>1, TopOwns
      <4> QED
        BY <3>1, <4>1, <4>2 DEF Owns
    <3>2. CASE Top(t).fn = "step" /\ Top(t).stage = "start" /\ c = Top(t).of
      <4>1. Retries(Top(t))
        BY <1>1, FramesKnow
      <4>2. ~HasTop(t, c)
        BY <3>2 DEF HasTop, Has
      <4> QED
        BY <1>1, <3>2, <4>1, <4>2 DEF Retries
    <3> QED
      BY <1>1, <1>2, <3>1, <3>2, SupersededBy
  <2> QED
    BY <2>2, <2>3, OthersStay
<1>3. ASSUME NEW a, a = copies'[c].arr, a \notin {0, c} PROVE Free(a)'
  <2>1. a \in 1 .. Len(copies) /\ Free(a)
    <3>1. CASE c <= Len(copies)
      <4>1. Aged(t, copies'[c], c) /\ c \in 1 .. Len(copies)
        BY <3>1, AgedIs
      <4>2. a = copies[c].arr
        BY <1>3, <4>1 DEF Aged
      <4>3. Owns(c) /\ copies[c].arr \in {0} \cup (1 .. Len(copies))
        BY <1>1, <4>1, CopyKnows
      <4> QED
        BY <1>3, <4>2, <4>3 DEF Owns
    <3>2. CASE ~(c <= Len(copies))
      BY <1>3, <3>2, BornIs
    <3> QED
      BY <3>1, <3>2
  <2> QED
    BY <2>1, FreeStays
<1> QED
  <2>1. \A a : a = copies'[c].arr /\ a \notin {0, c} => Free(a)'
    BY <1>3
  <2> QED
    BY <1>2, <2>1 DEF Owns, Free

LEMMA TargetsStay == ASSUME NEW t, Acted(t) PROVE TargetsApart'
<1>1. LastInv /\ TargetsApart /\ ListsOfResults /\ results' = results /\ Len(lists) \in Nat
  BY ActedIs DEF Acted, LastInv
<1>2. results \in Seq(Results)
  BY ActedIs DEF RunInv, TypeOK
<1> SUFFICES ASSUME NEW u \in Threads, NEW i \in 2 .. Len(stack'[u]),
                    stack'[u][i].fn = "step", stack'[u][i - 1].fn = "step", NEW j \in 1 .. Len(results)
             PROVE  results[j].list # stack'[u][i].list
  BY <1>1 DEF TargetsApart
<1>3. i \in Nat /\ i \in 1 .. Len(stack'[u]) /\ i - 1 \in 1 .. Len(stack'[u]) /\ Len(stack[t]) \in Nat
      /\ t \in Threads /\ Len(stack[u]) \in Nat
  BY ActedIs
<1>4. PICK k : k = i - 1
  OBVIOUS
<1>5. ASSUME i \in 1 .. Len(stack[u]), stack[u][i].fn = "step", stack'[u][i].list = stack[u][i].list
      PROVE  results[j].list # stack'[u][i].list
  <2>1. \/ k \in 1 .. Len(stack[u]) /\ stack'[u][k] = stack[u][k]
        \/ u = t /\ k = Len(stack[t])
        \/ u = t /\ k = Len(stack[t]) + 1
    BY <1>3, <1>4, OfInnermost
  <2>2. stack'[u][k] = stack[u][k]
    BY <1>3, <1>4, <1>5, <2>1
  <2>3. i \in 2 .. Len(stack[u]) /\ stack[u][i - 1].fn = "step"
    BY <1>3, <1>4, <1>5, <2>2
  <2> QED
    BY <1>1, <1>5, <2>3 DEF TargetsApart
<1>6. CASE i \in 1 .. Len(stack[u]) /\ stack'[u][i] = stack[u][i]
  BY <1>5, <1>6
<1>7. CASE u = t /\ i = Len(stack[t]) /\ Top(t).fn = "step" /\ Follows(t, stack'[u][i])
  <2>1. i \in 1 .. Len(stack[u]) /\ Top(t) = stack[u][i]
    BY <1>3, <1>7 DEF Top
  <2>2. stack'[u][i].list = Top(t).list
    BY <1>7 DEF Follows
  <2> QED
    BY <1>5, <1>7, <2>1, <2>2
<1>8. CASE stack'[u][i].list > Len(lists)
  <2>1. results[j].list <= Len(lists) /\ results[j].list \in Nat
    <3>1. results[j] \in Results
      BY <1>2
    <3>2. results[j].list \in Nat
      BY <3>1 DEF Results
    <3>3. results[j].list <= Len(lists)
      BY <1>1 DEF ListsOfResults
    <3> QED
      BY <3>2, <3>3
  <2>2. stack' \in [Threads -> Seq(Frames)]
    BY ActedIs
  <2>3. stack'[u][i].list \in Nat
    <3>1. stack'[u] \in Seq(Frames)
      BY <2>2
    <3>2. stack'[u][i] \in Frames
      BY <1>3, <3>1
    <3> QED
      BY <3>2 DEF Frames
  <2> QED
    BY <1>1, <1>8, <2>1, <2>3
<1> QED
  BY <1>3, <1>6, <1>7, <1>8, OfInnermost

\* An array that failed checks were recorded in, or that was lost, remains so.
LEMMA RecordedStays ==
  ASSUME NEW t, Acted(t), NEW l, Recorded(l)
  PROVE  Recorded(l)'
<1>1. PICK d \in 1 .. Len(copies) : Caught(d, l)
  BY DEF Recorded
<1>2. Free(d)' /\ ~HasTop(t, d)
  BY <1>1, FreeStays DEF Caught
<1>3. /\ d \in 1 .. Len(copies') /\ copies'[d].left = copies[d].left /\ copies'[d].list = copies[d].list
      /\ copies'[d].arr = copies[d].arr /\ copies'[d].step = copies[d].step
  BY <1>2, OthersStay
<1>4. checks[copies[d].step] \subseteq checks'[copies[d].step]
  <2>1. copies[d].step \in StepIds
    <3>1. copies \in Seq(Copies)
      BY ActedIs
    <3>2. copies[d] \in Copies
      BY <3>1
    <3> QED
      BY <3>2 DEF Copies
  <2> QED
    BY <2>1 DEF Acted, Deals
<1>5. Caught(d, l)'
  <2>1. /\ Free(d) /\ copies[d].list = l /\ copies[d].left = 0 /\ copies[d].arr = 0 /\ checks[copies[d].step] # {}
    BY <1>1 DEF Caught
  <2>2. /\ copies'[d].list = l /\ copies'[d].left = 0 /\ copies'[d].arr = 0 /\ checks'[copies'[d].step] # {}
    BY <1>3, <1>4, <2>1
  <2> QED
    BY <1>2, <2>2 DEF Caught, Free
<1> QED
  BY <1>3, <1>5 DEF Recorded

LEMMA LostStays ==
  ASSUME NEW t, Acted(t), NEW l, Lost(l)
  PROVE  Lost(l)'
<1>1. Dead(l)'
  BY DEF Acted, DeadStay, Lost
<1>2. results' = results
  BY DEF Acted
<1> QED
  BY <1>1, <1>2 DEF Lost

LEMMA MarkedStays ==
  ASSUME NEW t, Acted(t), NEW c \in 1 .. Len(copies), Marked(c)
  PROVE  Marked(c)'
<1>1. Free(c)' /\ ~HasTop(t, c) /\ Free(c) /\ "action" \in ChecksOf(c)
  BY FreeStays DEF Marked
<1>2. /\ copies'[c].arr = copies[c].arr /\ copies'[c].step = copies[c].step /\ copies[c].own \subseteq copies'[c].own
  BY <1>1, OthersStay
<1>3. LastInv /\ copies[c].step \in StepIds
  <2>1. copies \in Seq(Copies) /\ LastInv
    BY ActedIs DEF Acted
  <2>2. copies[c] \in Copies
    BY <2>1
  <2> QED
    BY <2>1, <2>2 DEF Copies
<1>4. copies[c].arr \in {0} \cup (1 .. Len(copies)) /\ Owns(c)
  BY <1>3, CopyKnows
<1>5. CASE copies[c].arr = 0
  <2>1. checks[copies[c].step] \subseteq checks'[copies[c].step]
    BY <1>3 DEF Acted, Deals
  <2> QED
    BY <1>1, <1>2, <1>5, <2>1 DEF Marked, ChecksOf, Free
<1>6. CASE copies[c].arr # 0
  <2>1. PICK a : a = copies[c].arr
    OBVIOUS
  <2>2. a \in 1 .. Len(copies) /\ ~HasTop(t, a)
    <3>1. a \in 1 .. Len(copies)
      BY <1>4, <1>6, <2>1
    <3>2. CASE a = c
      BY <1>1, <3>1, <3>2
    <3>3. CASE a # c
      <4>1. Free(a)
        BY <1>4, <1>6, <2>1, <3>3 DEF Owns
      <4> QED
        BY <3>1, <4>1, FreeStays
    <3> QED
      BY <3>2, <3>3
  <2>3. copies[a].own \subseteq copies'[a].own
    BY <2>2, OthersStay
  <2>4. "action" \in copies'[a].own /\ copies'[c].arr = a /\ a # 0
    BY <1>1, <1>2, <1>6, <2>1, <2>3 DEF ChecksOf
  <2> QED
    BY <1>1, <2>4 DEF Marked, ChecksOf, Free
<1> QED
  BY <1>5, <1>6

\* A call that awaits an attempt is dropped only when its workflow catches an error.
LEMMA AwaitedStays ==
  ASSUME NEW t, Acted(t), NEW c \in 1 .. Len(copies), ~HasTop(t, c),
         NEW u \in Threads, NEW i \in 1 .. Len(stack[u]), Awaits(stack[u][i], c)
  PROVE  \/ Awaited(c)' \/ Superseded(c)' \/ Unlisted(c)'
         \/ \E l : l = copies[c].list /\ (Recorded(l)' \/ Lost(l)')
<1>1. LastInv /\ RunInv /\ t \in Threads /\ c # 0 /\ Unique /\ TargetsApart /\ results' = results /\ Serves(t)
  BY ActedIs DEF Acted, LastInv
<1>2. CASE u # t
  <2>1. i \in 1 .. Len(stack'[u]) /\ Awaits(stack'[u][i], c)
    BY <1>2, ActedIs
  <2> QED
    BY <2>1 DEF Awaited, Awaits
<1>3. CASE u = t
  <2>1. CASE i <= Len(stack'[t]) /\ Awaits(stack'[t][i], c)
    <3>1. i \in 1 .. Len(stack'[t])
      BY <1>1, <1>3, <2>1, ActedIs
    <3> QED
      BY <1>1, <2>1, <3>1 DEF Awaited, Awaits
  <2>2. CASE Superseded(c)'
    BY <2>2
  <2>3. CASE \E k \in 1 .. i - 1 :
               /\ Len(stack'[t]) <= k /\ stack[t][k].fn = "workflow" /\ \A j \in k + 1 .. i : stack[t][j].fn = "step"
               /\ \E l : l = stack[t][k].list /\ Recorded(l)'
    <3>1. PICK k \in 1 .. i - 1 :
               /\ Len(stack'[t]) <= k /\ stack[t][k].fn = "workflow" /\ \A j \in k + 1 .. i : stack[t][j].fn = "step"
               /\ \E l : l = stack[t][k].list /\ Recorded(l)'
      BY <2>3
    <3>2. PICK f : f = stack[t][i]
      OBVIOUS
    <3>3. f.fn = "step" /\ Holds(f) /\ Retries(f) /\ Awaits(f, c)
      BY <1>1, <1>3, <3>2, FramesKnow DEF Awaits
    <3>4. copies[c].list \in {0, f.list}
      BY <1>1, <3>3 DEF Awaits, Holds, Retries
    <3>5. copies'[c].list = copies[c].list
      BY OthersStay
    <3>6. CASE copies[c].list = 0
      <4>1. ASSUME NEW v \in Threads, NEW j \in 1 .. Len(stack'[v]), Has(stack'[v][j], c) PROVE FALSE
        <5>1. c # NewCopy
          BY <1>1, ActedIs, NewIsNew
        <5>2. j \in 1 .. Len(stack[v]) /\ Has(stack[v][j], c)
          <6>1. \/ j \in 1 .. Len(stack[v]) /\ Has(stack[v][j], c)
                \/ v = t /\ j = Len(stack[t]) /\ c = NewCopy /\ Top(t).fn = "step" /\ Top(t).stage = "start"
            BY <4>1, HadBefore, Zenon
          <6> QED
            BY <5>1, <6>1
        <5>3. /\ Has(stack[u][i], c) => v = u /\ j = i
              /\ stack[u][i].fn = "step" => stack[u][i].of # c
          <6>1. Unique /\ v \in Threads /\ u \in Threads /\ j \in 1 .. Len(stack[v]) /\ i \in 1 .. Len(stack[u]) /\ Has(stack[v][j], c)
            BY <1>1, <5>2
          <6> QED
            BY <6>1, UniqueIs, Zenon
        <5>4. v = t /\ j = i
          BY <1>3, <3>2, <3>3, <5>3 DEF Awaits, Has
        <5> QED
          BY <1>3, <3>1, <4>1, <5>4, ActedIs
      <4>2. Free(c)'
        BY <4>1 DEF Free
      <4> QED
        BY <3>5, <3>6, <4>2 DEF Unlisted, Free
    <3>7. CASE copies[c].list = f.list
      <4>1. stack[t][k].stage = "steps" /\ i \in 2 .. Len(stack[t])
        <5>1. GoodStack(copies, stack[t]) /\ k \in 1 .. Len(stack[t]) /\ i \in 2 .. Len(stack[t])
          BY <1>1, <1>3, ActedIs DEF RunInv
        <5>2. GoodFrame(copies, stack[t][k])
          BY <5>1 DEF GoodStack
        <5> QED
          BY <3>1, <5>1, <5>2 DEF GoodFrame
      <4>2. Below(stack[t][i - 1], stack[t][i])
        <5>1. CallsIn(stack[t], 1, 0)
          BY <1>1 DEF LastInv, GateInv, Region
        <5> QED
          BY <4>1, <5>1 DEF CallsIn
      <4>3. CASE i = k + 1
        <5>1. i - 1 = k
          BY <4>1, <4>3, <3>1
        <5>2. stack[t][k].list = f.list
          BY <3>1, <3>2, <3>3, <4>1, <4>2, <5>1 DEF Below
        <5> QED
          BY <3>1, <3>7, <5>2
      <4>4. CASE i # k + 1
        <5>1. i - 1 \in k + 1 .. i
          BY <3>1, <4>1, <4>4
        <5>2. stack[t][i - 1].fn = "step"
          BY <3>1, <5>1
        <5>3. Dead(f.list)
          BY <3>2, <3>3, <4>2, <5>2 DEF Below
        <5>4. \A j \in 1 .. Len(results) : results[j].list # f.list
          BY <1>1, <3>2, <3>3, <4>1, <5>2 DEF TargetsApart
        <5>5. PICK l : l = f.list
          OBVIOUS
        <5>6. Lost(l)
          BY <5>3, <5>4, <5>5 DEF Lost
        <5>7. Lost(l)'
          BY <5>6, LostStays
        <5> QED
          BY <3>7, <5>5, <5>7
      <4> QED
        BY <4>3, <4>4
    <3> QED
      BY <3>4, <3>6, <3>7
  <2> QED
    BY <1>1, <1>3, <2>1, <2>2, <2>3 DEF Serves
<1> QED
  BY <1>2, <1>3

LEMMA DecidedStays ==
  ASSUME NEW t, Acted(t), NEW c \in 1 .. Len(copies')
  PROVE  Decided(c)'
<1> SUFFICES ASSUME copies'[c].given = 0, copies'[c].left # 0
             PROVE  \/ Superseded(c)' \/ Awaited(c)' \/ Marked(c)' \/ Unlisted(c)'
                    \/ \E l : l = copies'[c].list /\ (Recorded(l)' \/ Lost(l)')
  BY DEF Decided, Superseded, Awaited, Marked, Unlisted, Recorded, Lost
<1>1. LastInv /\ RunInv /\ t \in Threads
  BY ActedIs DEF Acted
<1>2. c <= Len(copies)
  <2>1. ASSUME ~(c <= Len(copies)) PROVE FALSE
    BY <2>1, BornIs DEF Born
  <2> QED
    BY <2>1
<1>3. Aged(t, copies'[c], c) /\ c \in 1 .. Len(copies)
  BY <1>2, AgedIs
<1>4. CASE HasTop(t, c)
  <2>1. \/ copies'[c].left = 0
        \/ copies'[c].left = copies[c].left /\ Top(t).stage # "retried"
        \/ \E i \in 1 .. Len(stack'[t]) : Awaits(stack'[t][i], c)
        \/ Len(stack'[t]) < Len(stack[t]) /\ "action" \in ChecksOf(c)'
    BY <1>4 DEF Acted, Keeps
  <2>2. ASSUME copies'[c].left = copies[c].left, Top(t).stage # "retried" PROVE FALSE
    BY <1>3, <1>4, <2>2, TopOwns DEF Aged
  <2>3. CASE \E i \in 1 .. Len(stack'[t]) : Awaits(stack'[t][i], c)
    BY <1>1, <2>3 DEF Awaited, Awaits
  <2>4. CASE Len(stack'[t]) < Len(stack[t]) /\ "action" \in ChecksOf(c)'
    <3>1. ~(\E i \in 1 .. Len(stack'[t]) : i = Len(stack[t]) /\ Has(stack'[t][i], c))
      BY <1>1, <2>4, ActedIs
    <3>2. Free(c)'
      BY <1>4, <3>1, GivenUp
    <3> QED
      BY <2>4, <3>2 DEF Marked, Free
  <2> QED
    BY <2>1, <2>2, <2>3, <2>4
<1>5. CASE ~HasTop(t, c)
  <2>1. copies'[c].left = copies[c].left /\ copies'[c].list = copies[c].list /\ copies'[c].given = copies[c].given
    BY <1>3, <1>5, OthersStay
  <2>2. PICK l : l = copies[c].list
    OBVIOUS
  <2>3. Superseded(c) \/ Awaited(c) \/ Marked(c) \/ Recorded(l) \/ Lost(l) \/ Unlisted(c)
    <3>1. Decided(c)
      BY <1>1, <1>3, CopyKnows
    <3> QED
      BY <2>1, <2>2, <3>1 DEF Decided
  <2>4. CASE Superseded(c)
    <3>1. PICK d \in 1 .. Len(copies) : copies[d].of = c
      <4>1. copies \in Seq(Copies)
        BY ActedIs
      <4> QED
        BY <2>4, <4>1 DEF Superseded
    <3>2. d \in 1 .. Len(copies') /\ d <= Len(copies)
      BY ActedIs
    <3>3. copies'[d].of = c
      BY <3>1, <3>2, AgedIs DEF Aged
    <3>4. Superseded(c)'
      BY <3>2, <3>3, ActedIs DEF Superseded
    <3> QED
      BY <3>4
  <2>5. CASE Awaited(c)
    <3>0. PICK u \in Threads : \E i \in 1 .. Len(stack[u]) : Awaits(stack[u][i], c)
      BY <2>5 DEF Awaited
    <3>1. PICK i \in 1 .. Len(stack[u]) : Awaits(stack[u][i], c)
      BY <3>0
    <3> QED
      BY <1>3, <1>5, <2>1, <3>1, AwaitedStays
  <2>6. CASE Marked(c)
    BY <1>3, <2>6, MarkedStays
  <2>7. CASE Recorded(l)
    BY <2>1, <2>2, <2>7, RecordedStays
  <2>8. CASE Lost(l)
    BY <2>1, <2>2, <2>8, LostStays
  <2>9. CASE Unlisted(c)
    <3>1. Free(c)' /\ copies'[c].list = 0
      BY <1>3, <2>1, <2>9, FreeStays DEF Unlisted
    <3> QED
      BY <3>1 DEF Unlisted, Free
  <2> QED
    BY <2>3, <2>4, <2>5, <2>6, <2>7, <2>8, <2>9
<1> QED
  BY <1>4, <1>5

\* What holds of a step told by its innermost call.
LEMMA ActedKeeps == ASSUME NEW t, Acted(t) PROVE LastInv'
<1>1. GateInv' /\ Unique' /\ TargetsApart'
  BY UniqueStays, TargetsStay DEF Acted
<1>2. ListsOfResults'
  <2>1. results' = results /\ ListsOfResults /\ Len(lists) <= Len(lists') /\ Len(lists) \in Nat
    BY ActedIs DEF Acted, LastInv
  <2>2. results \in Seq(Results) /\ Len(lists') \in Nat
    BY ActedIs, <1>1 DEF RunInv, TypeOK, GateInv
  <2>3. \A i \in 1 .. Len(results) : results[i].list <= Len(lists')
    <3> TAKE i \in 1 .. Len(results)
    <3>1. results[i] \in Results
      BY <2>2
    <3>2. results[i].list \in Nat /\ results[i].list <= Len(lists)
      BY <2>1, <3>1 DEF Results, ListsOfResults
    <3> QED
      BY <2>1, <2>2, <3>2
  <2> QED
    BY <2>1, <2>3 DEF ListsOfResults
<1>3. \A u \in Threads : \A i \in 1 .. Len(stack'[u]) : (Holds(stack[u][i]) /\ Retries(stack[u][i]))'
  BY HoldsStays, RetriesStay
<1>4. \A c \in 1 .. Len(copies') : (Owns(c) /\ Decided(c))'
  BY OwnsStays, DecidedStays
<1> QED
  BY <1>1, <1>2, <1>3, <1>4 DEF LastInv

\* ... and that a step is one.
LEMMA ActsKeep ==
  ASSUME LastInv, NEW t \in Threads, Workflow(t) \/ Step(t) \/ Act(t), Deals(t), Turns(t), Serves(t), Keeps(t)
  PROVE  LastInv'
<1>1. GateInv /\ RunInv
  BY DEF LastInv, GateInv
<1>2. GateInv' /\ stack[t] # <<>> /\ ThreadStep(t)
  BY <1>1, GateThread, ThreadActs, ThreadSteps
<1>3. plan' = plan /\ results' = results /\ \A u \in Threads : u # t => stack'[u] = stack[u]
  <2>1. Moved(t) /\ Typed
    BY <1>2 DEF ThreadStep
  <2>2. PICK s : stack' = [ stack EXCEPT ![t] = s ]
    BY <2>1 DEF Moved
  <2>3. \A u \in Threads : u # t => stack'[u] = stack[u]
    BY <1>1, <2>2 DEF RunInv, TypeOK
  <2> QED
    BY <2>1, <2>3 DEF Typed
<1>4. Moves(t, 1, 0)
  <2>1. Region(t, 1, 0) /\ 0 \in 0 .. Len(copies) /\ 1 \in Nat \ {0}
    <3>1. Region(t, 1, 0)
      BY <1>1 DEF GateInv
    <3>2. Len(copies) \in Nat
      BY <1>1 DEF RunInv, TypeOK
    <3> QED
      BY <3>1, <3>2
  <2>2. Held(t, 1, 0)
    BY <1>1, <1>2, <2>1, HeldBy
  <2> QED
    BY <2>2, ThreadMoves
<1>5. DeadStay /\ Len(lists) <= Len(lists')
  BY <1>4 DEF Moves, Lands, ListsMove
<1>6. Acted(t)
  BY <1>2, <1>3, <1>5 DEF Acted
<1> QED
  BY <1>6, ActedKeeps

LEMMA MakesSame == ASSUME RunInv, NEW t PROVE Makes(t, copies)
<1>1. copies \in Seq(Copies) /\ Len(copies) \in Nat
  BY DEF RunInv, TypeOK
<1> QED
  BY <1>1 DEF Makes, Aged

LEMMA MakesMore ==
  ASSUME RunInv, NEW t, NEW made, Makes(t, made), NEW k \in Copies, Born(t, k)
  PROVE  /\ Makes(t, Append(made, k)) /\ Len(Append(made, k)) = Len(made) + 1 /\ Len(made) \in Nat
         /\ Append(made, k)[Len(made) + 1] = k /\ \A c \in 1 .. Len(made) : Append(made, k)[c] = made[c]
<1>1. made \in Seq(Copies) /\ Len(made) \in Nat /\ Len(copies) \in Nat /\ Len(copies) <= Len(made)
  BY DEF Makes, RunInv, TypeOK
<1>2. /\ Append(made, k) \in Seq(Copies) /\ Len(Append(made, k)) = Len(made) + 1
      /\ Append(made, k)[Len(made) + 1] = k /\ \A c \in 1 .. Len(made) : Append(made, k)[c] = made[c]
  BY <1>1
<1>3. ASSUME NEW c \in 1 .. Len(made) + 1
      PROVE  IF c <= Len(copies) THEN Aged(t, Append(made, k)[c], c) ELSE Born(t, Append(made, k)[c])
  <2>1. CASE c = Len(made) + 1
    BY <1>1, <1>2, <2>1
  <2>2. CASE c # Len(made) + 1
    <3>1. c \in 1 .. Len(made)
      BY <1>1, <2>2
    <3> QED
      BY <1>2, <3>1 DEF Makes
  <2> QED
    BY <2>1, <2>2
<1> QED
  BY <1>1, <1>2, <1>3 DEF Makes

\* Where a copy is filled in that the innermost call has, or a check is added.
LEMMA MakesSet ==
  ASSUME RunInv, NEW t, NEW made, Makes(t, made), NEW c \in 1 .. Len(made), NEW k \in Copies,
         \/ HasTop(t, c) /\ c <= Len(copies) /\ k.list \in {made[c].list, Top(t).list} /\ k.arr \in {made[c].arr, c}
         \/ k.list = made[c].list /\ k.arr = made[c].arr /\ k.left = made[c].left /\ made[c].own \subseteq k.own,
         k.given = made[c].given, k.step = made[c].step, k.of = made[c].of
  PROVE  /\ Makes(t, [ made EXCEPT ![c] = k ]) /\ Len([ made EXCEPT ![c] = k ]) = Len(made)
         /\ \A d \in 1 .. Len(made) : [ made EXCEPT ![c] = k ][d] = IF d = c THEN k ELSE made[d]
<1>1. made \in Seq(Copies) /\ Len(made) \in Nat /\ Len(copies) <= Len(made)
  BY DEF Makes
<1>2. PICK s : s = [ made EXCEPT ![c] = k ]
  OBVIOUS
<1>3. s \in Seq(Copies) /\ Len(s) = Len(made) /\ \A d \in 1 .. Len(made) : s[d] = IF d = c THEN k ELSE made[d]
  BY <1>1, <1>2
<1>4. ASSUME NEW d \in 1 .. Len(s) PROVE IF d <= Len(copies) THEN Aged(t, s[d], d) ELSE Born(t, s[d])
  <2>1. IF d <= Len(copies) THEN Aged(t, made[d], d) ELSE Born(t, made[d])
    BY <1>3 DEF Makes
  <2>2. CASE d # c
    BY <1>3, <2>1, <2>2
  <2>3. CASE d = c /\ d <= Len(copies)
    BY <1>3, <2>1, <2>3 DEF Aged
  <2>4. CASE d = c /\ ~(d <= Len(copies))
    BY <1>3, <2>1, <2>4 DEF Born
  <2> QED
    BY <2>2, <2>3, <2>4
<1>5. Makes(t, s)
  BY <1>1, <1>3, <1>4 DEF Makes
<1> QED
  BY <1>2, <1>3, <1>5

LEMMA MakesChecked ==
  ASSUME RunInv, NEW t, NEW made, Makes(t, made), NEW arr \in 0 .. Len(made), NEW id \in StepIds, NEW kind \in Kinds,
         AddCheck(made, arr, id, kind)
  PROVE  /\ Deals(t) /\ Len(copies') = Len(made)
         /\ \A c \in 1 .. Len(made) :
              /\ copies'[c].left = made[c].left /\ copies'[c].list = made[c].list /\ copies'[c].of = made[c].of
              /\ copies'[c].arr = made[c].arr /\ copies'[c].step = made[c].step /\ copies'[c].given = made[c].given
         /\ IF arr = 0 THEN kind \in checks'[id] ELSE kind \in copies'[arr].own
<1>0. made \in Seq(Copies) /\ Len(made) \in Nat /\ checks \in [StepIds -> SUBSET Kinds]
  BY DEF Makes, RunInv, TypeOK
<1>1. CASE arr = 0
  <2>1. copies' = made /\ checks' = [ checks EXCEPT ![id] = @ \cup {kind} ]
    BY <1>1 DEF AddCheck
  <2>2. \A s \in StepIds : checks[s] \subseteq checks'[s] /\ kind \in checks'[id]
    BY <1>0, <2>1
  <2> QED
    BY <1>1, <2>1, <2>2 DEF Deals
<1>2. CASE arr # 0
  <2>1. arr \in 1 .. Len(made)
    BY <1>0, <1>2
  <2>2. PICK o : o = made[arr]
    OBVIOUS
  <2>3. PICK k : k = [ o EXCEPT !.own = @ \cup {kind} ]
    OBVIOUS
  <2>4. o \in Copies
    BY <1>0, <2>1, <2>2
  <2>5. /\ k \in Copies /\ k.list = o.list /\ k.arr = o.arr /\ k.left = o.left /\ o.own \subseteq k.own
        /\ k.given = o.given /\ k.step = o.step /\ k.of = o.of /\ kind \in k.own
    BY <2>3, <2>4 DEF Copies
  <2>6. copies' = [ made EXCEPT ![arr] = k ] /\ checks' = checks
    BY <1>2, <2>2, <2>3 DEF AddCheck
  <2>7. /\ Makes(t, copies') /\ Len(copies') = Len(made)
        /\ \A d \in 1 .. Len(made) : copies'[d] = IF d = arr THEN k ELSE made[d]
    <3>1. /\ k.list = made[arr].list /\ k.arr = made[arr].arr /\ k.left = made[arr].left /\ made[arr].own \subseteq k.own
          /\ k.given = made[arr].given /\ k.step = made[arr].step /\ k.of = made[arr].of
      BY <2>2, <2>5
    <3>2. /\ Makes(t, [ made EXCEPT ![arr] = k ]) /\ Len([ made EXCEPT ![arr] = k ]) = Len(made)
          /\ \A d \in 1 .. Len(made) : [ made EXCEPT ![arr] = k ][d] = IF d = arr THEN k ELSE made[d]
      BY <2>1, <2>5, <3>1, MakesSet
    <3> QED
      BY <2>6, <3>2
  <2> QED
    BY <1>2, <2>1, <2>2, <2>5, <2>6, <2>7 DEF Deals
<1> QED
  BY <1>1, <1>2

LEMMA UnderIs ==
  ASSUME RunInv, NEW t \in Threads, stack[t] # <<>>
  PROVE  /\ Under(t) \in Seq(Frames) /\ Len(stack[t]) \in Nat \ {0} /\ Len(Under(t)) = Len(stack[t]) - 1
         /\ \A i \in 1 .. Len(Under(t)) : i < Len(stack[t]) /\ i \in 1 .. Len(stack[t]) /\ Under(t)[i] = stack[t][i]
         /\ stack \in [Threads -> Seq(Frames)] /\ Top(t) = stack[t][Len(stack[t])] /\ Len(lists) \in Nat
         /\ Top(t).fn = "step" => Under(t) # <<>>
<1>1. stack \in [Threads -> Seq(Frames)] /\ stack[t] \in Seq(Frames) /\ Len(lists) \in Nat
  BY DEF RunInv, TypeOK
<1>2. /\ Under(t) \in Seq(Frames) /\ Len(stack[t]) \in Nat \ {0} /\ Len(Under(t)) = Len(stack[t]) - 1
      /\ Under(t) = Upto(stack[t], Len(stack[t]) - 1) /\ (Under(t) = <<>> => Top(t).fn = "workflow")
  BY TopGood
<1>3. \A i \in 1 .. Len(Under(t)) : Under(t)[i] = stack[t][i]
  <2>1. Len(stack[t]) - 1 \in 0 .. Len(stack[t])
    BY <1>2
  <2>2. PICK s : s = stack[t]
    OBVIOUS
  <2>3. PICK n : n = Len(s) - 1
    OBVIOUS
  <2>4. s \in Seq(Frames) /\ n \in 0 .. Len(s)
    BY <1>1, <2>1, <2>2, <2>3
  <2>5. \A i \in 1 .. n : Upto(s, n)[i] = s[i]
    BY <2>4, UptoIs
  <2> QED
    BY <1>2, <2>2, <2>3, <2>5
<1> QED
  BY <1>1, <1>2, <1>3 DEF Top

LEMMA OnlySteps ==
  ASSUME NEW f, NEW c, Awaits(f, c)
  PROVE  f.fn = "step"
BY DEF Awaits

\* The innermost call goes on, ...
LEMMA StayTurns ==
  ASSUME RunInv, NEW t \in Threads, stack[t] # <<>>, Top(t).fn = "step", NEW g \in Frames, Stay(t, g), Follows(t, g),
         \A c \in 1 .. Len(copies) : Awaits(Top(t), c) => Awaits(g, c) \/ Superseded(c)'
  PROVE  Turns(t) /\ Serves(t) /\ stack'[t][Len(stack[t])] = g /\ Len(stack'[t]) = Len(stack[t])
<1>1. /\ Under(t) \in Seq(Frames) /\ Len(stack[t]) \in Nat \ {0} /\ Len(Under(t)) = Len(stack[t]) - 1
      /\ \A i \in 1 .. Len(Under(t)) : i < Len(stack[t]) /\ Under(t)[i] = stack[t][i]
      /\ stack \in [Threads -> Seq(Frames)] /\ Top(t) = stack[t][Len(stack[t])]
  BY UnderIs
<1>2. PICK s : s = stack'[t]
  OBVIOUS
<1>3. s = Append(Under(t), g)
  BY <1>1, <1>2 DEF Stay
<1>4. Len(s) = Len(stack[t]) /\ s[Len(stack[t])] = g /\ \A i \in 1 .. Len(Under(t)) : s[i] = Under(t)[i]
  BY <1>1, <1>3
<1>5. \A i \in 1 .. Len(stack[t]) : i = Len(stack[t]) \/ (i < Len(stack[t]) /\ s[i] = stack[t][i])
  <2> TAKE i \in 1 .. Len(stack[t])
  <2>1. i = Len(stack[t]) \/ i \in 1 .. Len(Under(t))
    BY <1>1
  <2> QED
    BY <1>1, <1>4, <2>1
<1>6. Turns(t)
  BY <1>2, <1>4, <1>5 DEF Turns
<1>7. Serves(t)
  <2>1. ASSUME NEW i \in 1 .. Len(stack[t]), NEW c \in 1 .. Len(copies), Awaits(stack[t][i], c)
        PROVE  i <= Len(s) /\ (Awaits(s[i], c) \/ Superseded(c)')
    <3>1. i <= Len(s)
      BY <1>1, <1>4
    <3>2. CASE i = Len(stack[t])
      BY <1>1, <1>4, <2>1, <3>1, <3>2
    <3>3. CASE s[i] = stack[t][i]
      BY <2>1, <3>1, <3>3
    <3> QED
      BY <1>5, <3>2, <3>3
  <2> QED
    BY <1>2, <2>1 DEF Serves
<1> QED
  BY <1>2, <1>4, <1>6, <1>7

\* ... calls another, ...
LEMMA CallTurns ==
  ASSUME RunInv, NEW t \in Threads, stack[t] # <<>>, NEW f \in Frames, NEW g \in Frames, Call(t, f, g),
         f.fn = "step" => Top(t).fn = "step" /\ Follows(t, f),
         g.fn = "step" => /\ g.stage = "start" /\ g.of = 0 /\ g.arr = 0
                          /\ f.fn = "step" => g.list > Len(lists),
         \A c \in 1 .. Len(copies) : Awaits(Top(t), c) => Awaits(f, c) \/ Superseded(c)'
  PROVE  Turns(t) /\ Serves(t) /\ stack'[t][Len(stack[t])] = f /\ Len(stack'[t]) = Len(stack[t]) + 1
<1>1. /\ Under(t) \in Seq(Frames) /\ Len(stack[t]) \in Nat \ {0} /\ Len(Under(t)) = Len(stack[t]) - 1
      /\ \A i \in 1 .. Len(Under(t)) : i < Len(stack[t]) /\ Under(t)[i] = stack[t][i]
      /\ stack \in [Threads -> Seq(Frames)] /\ Top(t) = stack[t][Len(stack[t])]
  BY UnderIs
<1>2. PICK s : s = stack'[t]
  OBVIOUS
<1>3. PICK h : h = Append(Under(t), f)
  OBVIOUS
<1>4. s = Append(h, g)
  BY <1>1, <1>2, <1>3 DEF Call
<1>5. h \in Seq(Frames) /\ Len(h) = Len(stack[t]) /\ h[Len(stack[t])] = f /\ \A i \in 1 .. Len(Under(t)) : h[i] = Under(t)[i]
  BY <1>1, <1>3
<1>6. Len(s) = Len(stack[t]) + 1 /\ s[Len(stack[t]) + 1] = g /\ \A i \in 1 .. Len(stack[t]) : s[i] = h[i]
  BY <1>1, <1>4, <1>5
<1>7. \A i \in 1 .. Len(stack[t]) : (i = Len(stack[t]) /\ s[i] = f) \/ (i < Len(stack[t]) /\ s[i] = stack[t][i])
  <2> TAKE i \in 1 .. Len(stack[t])
  <2>1. i = Len(stack[t]) \/ i \in 1 .. Len(Under(t))
    BY <1>1
  <2> QED
    BY <1>1, <1>5, <1>6, <2>1
<1>8. Turns(t)
  <2>1. ASSUME NEW i \in 1 .. Len(s), s[i].fn = "step"
        PROVE  \/ i < Len(stack[t]) /\ s[i] = stack[t][i]
               \/ i = Len(stack[t]) /\ Top(t).fn = "step" /\ Follows(t, s[i])
               \/ /\ i = Len(stack[t]) + 1 /\ s[i].stage = "start" /\ s[i].of = 0 /\ s[i].arr = 0
                  /\ s[i - 1].fn = "step" => s[i].list > Len(lists)
    <3>1. CASE i \in 1 .. Len(stack[t])
      BY <1>7, <2>1, <3>1
    <3>2. CASE i = Len(stack[t]) + 1
      <4>1. i - 1 = Len(stack[t]) /\ i - 1 \in 1 .. Len(stack[t]) /\ s[i] = g
        BY <1>1, <1>6, <3>2
      <4>2. s[i - 1] = f
        BY <1>1, <1>7, <4>1
      <4> QED
        BY <2>1, <3>2, <4>1, <4>2
    <3> QED
      BY <1>1, <1>6, <3>1, <3>2
  <2> QED
    BY <1>2, <2>1 DEF Turns
<1>9. Serves(t)
  <2>1. ASSUME NEW i \in 1 .. Len(stack[t]), NEW c \in 1 .. Len(copies), Awaits(stack[t][i], c)
        PROVE  i <= Len(s) /\ (Awaits(s[i], c) \/ Superseded(c)')
    <3>1. i <= Len(s)
      BY <1>1, <1>6
    <3>2. CASE i = Len(stack[t]) /\ s[i] = f
      BY <1>1, <2>1, <3>1, <3>2
    <3>3. CASE s[i] = stack[t][i]
      BY <2>1, <3>1, <3>3
    <3> QED
      BY <1>7, <3>2, <3>3
  <2> QED
    BY <1>2, <2>1 DEF Serves
<1> QED
  BY <1>1, <1>2, <1>6, <1>7, <1>8, <1>9

\* The call that catches an error was at a step of its workflow.
LEMMA ThrowerIs ==
  ASSUME RunInv, NEW t \in Threads, stack[t] # <<>>, NEW k \in 1 .. Len(Under(t)), Under(t)[k].fn = "workflow"
  PROVE  Id(Under(t)[k]) \in StepIds /\ Under(t)[k].list \in Nat
<1>1. PICK f : f = Under(t)[k]
  OBVIOUS
<1>2. Ready(copies, Under(t)) /\ plan \in Plans
  BY TopGood DEF RunInv, TypeOK
<1>3. GoodFrame(copies, f) /\ Open(f) /\ f.fn = "workflow"
  BY <1>1, <1>2 DEF Ready, GoodStack
<1>4. f \in Frames /\ f.w \in Workflows /\ f.pos \in Nat \ {0} /\ f.list \in Nat
  BY <1>3 DEF GoodFrame, Frames
<1>5. f.pos <= Len(Steps(f.w))
  BY <1>3 DEF Open
<1>6. f.pos \in DOMAIN Steps(f.w)
  BY <1>2, <1>4, <1>5, PlanTypes
<1>7. <<f.w, f.pos>> \in StepIds
  BY <1>2, <1>4, <1>6, PlanTypes
<1> QED
  BY <1>1, <1>4, <1>7 DEF Id

\* ... returns, ...
LEMMA PopTurns ==
  ASSUME RunInv, NEW t \in Threads, stack[t] # <<>>, NEW s, s = stack'[t], Len(s) \in Nat, Len(s) < Len(stack[t]),
         \A i \in 1 .. Len(s) : s[i].fn = "step" => s[i] = stack[t][i]
  PROVE  Turns(t)
<1>1. Len(stack[t]) \in Nat \ {0}
  BY UnderIs
<1>2. \A i \in 1 .. Len(s) : i < Len(stack[t])
  BY <1>1
<1> QED
  BY <1>2 DEF Turns

LEMMA BackTurns ==
  ASSUME RunInv, NEW t \in Threads, stack[t] # <<>>, NEW s, s = stack'[t], Len(s) = Len(stack[t]) - 1,
         \A i \in 1 .. Len(s) : s[i].fn = "step" \/ stack[t][i].fn = "step" => s[i] = stack[t][i],
         \A c \in 1 .. Len(copies) : Awaits(Top(t), c) => Superseded(c)'
  PROVE  Turns(t) /\ Serves(t) /\ Len(s) < Len(stack[t])
<1>1. Len(stack[t]) \in Nat \ {0} /\ Top(t) = stack[t][Len(stack[t])]
  BY UnderIs
<1>2. Len(s) \in Nat /\ Len(s) < Len(stack[t]) /\ \A i \in 1 .. Len(stack[t]) : i = Len(stack[t]) \/ (i <= Len(s) /\ i \in 1 .. Len(s))
  BY <1>1
<1>3. Turns(t)
  BY <1>2, PopTurns
<1>4. ASSUME NEW i \in 1 .. Len(stack[t]), NEW c \in 1 .. Len(copies), Awaits(stack[t][i], c)
      PROVE  (i <= Len(s) /\ Awaits(s[i], c)) \/ Superseded(c)'
  <2>1. CASE i = Len(stack[t])
    BY <1>1, <1>4, <2>1
  <2>2. CASE i <= Len(s) /\ i \in 1 .. Len(s)
    BY <1>4, <2>2, OnlySteps
  <2> QED
    BY <1>2, <2>1, <2>2
<1>5. Serves(t)
  BY <1>4 DEF Serves
<1> QED
  BY <1>2, <1>3, <1>5

LEMMA ReturnTurns ==
  ASSUME RunInv, NEW t \in Threads, stack[t] # <<>>, Top(t).fn = "step", NEW end, Return(t, end),
         \A c \in 1 .. Len(copies) : Awaits(Top(t), c) => Superseded(c)'
  PROVE  Turns(t) /\ Serves(t) /\ Len(stack'[t]) < Len(stack[t])
<1>1. PICK u : u = Under(t)
  OBVIOUS
<1>2. /\ u \in Seq(Frames) /\ Len(stack[t]) \in Nat \ {0} /\ Len(u) = Len(stack[t]) - 1
      /\ \A i \in 1 .. Len(u) : u[i] = stack[t][i]
      /\ stack \in [Threads -> Seq(Frames)] /\ u # <<>>
  BY <1>1, UnderIs
<1>3. PICK s : s = stack'[t]
  OBVIOUS
<1>4. s = IF u[Len(u)].fn = "workflow" THEN Append(FrontOf(u), Advance(u[Len(u)], end)) ELSE u
  BY <1>1, <1>2, <1>3 DEF Return
<1>5. CASE u[Len(u)].fn # "workflow"
  BY <1>2, <1>3, <1>4, <1>5, BackTurns
<1>6. CASE u[Len(u)].fn = "workflow"
  <2>1. PICK b : b = Advance(u[Len(u)], end)
    OBVIOUS
  <2>2. b.fn = "workflow"
    <3>1. u[Len(u)] \in Frames
      BY <1>2
    <3> QED
      BY <1>6, <2>1, <3>1 DEF Advance, Frames
  <2>3. s = Append(SubSeq(u, 1, Len(u) - 1), b)
    BY <1>4, <1>6, <2>1 DEF FrontOf
  <2>4. Len(u) \in Nat \ {0}
    BY <1>2
  <2>5. PICK h : h = SubSeq(u, 1, Len(u) - 1)
    OBVIOUS
  <2>6. h \in Seq(Frames) /\ Len(h) = Len(u) - 1 /\ \A i \in 1 .. Len(u) - 1 : h[i] = u[i]
    BY <1>2, <2>4, <2>5
  <2>7. Len(s) = Len(u) /\ s[Len(u)] = b /\ \A i \in 1 .. Len(u) - 1 : s[i] = u[i]
    BY <2>3, <2>4, <2>5, <2>6
  <2>8. \A i \in 1 .. Len(s) : s[i].fn = "step" \/ stack[t][i].fn = "step" => s[i] = stack[t][i]
    <3> TAKE i \in 1 .. Len(s)
    <3>1. CASE i = Len(u)
      BY <1>2, <1>6, <2>2, <2>4, <2>7, <3>1
    <3>2. CASE i # Len(u)
      <4>1. i \in 1 .. Len(u) - 1 /\ i \in 1 .. Len(u)
        BY <2>4, <2>7, <3>2
      <4> QED
        BY <1>2, <2>7, <4>1
    <3> QED
      BY <3>1, <3>2
  <2>9. Len(s) = Len(stack[t]) - 1
    BY <1>2, <2>7
  <2> QED
    BY <1>3, <2>8, <2>9, BackTurns
<1> QED
  BY <1>5, <1>6

\* ... or throws.
LEMMA ThrowTurns ==
  ASSUME LastInv, NEW t \in Threads, stack[t] # <<>>, NEW made, CopiesOK(made), Makes(t, made), Throw(t, Under(t), made)
  PROVE  Deals(t) /\ Turns(t) /\ Serves(t)
<1>1. PICK u : u = Under(t)
  OBVIOUS
<1>2. /\ u \in Seq(Frames) /\ Len(stack[t]) \in Nat \ {0} /\ Len(u) = Len(stack[t]) - 1
      /\ \A i \in 1 .. Len(u) : u[i] = stack[t][i] /\ i \in 1 .. Len(stack[t])
      /\ stack \in [Threads -> Seq(Frames)] /\ Top(t) = stack[t][Len(stack[t])] /\ RunInv
      /\ Top(t).fn = "step" => u # <<>>
  <2>1. RunInv
    BY DEF LastInv, GateInv
  <2> QED
    BY <1>1, <2>1, UnderIs
<1>3. PICK s : s = stack'[t]
  OBVIOUS
<1>4. checks \in [StepIds -> SUBSET Kinds] /\ Len(copies) \in Nat
  BY <1>2 DEF RunInv, TypeOK
<1>5. CASE u = <<>> /\ stack' = [ stack EXCEPT ![t] = <<>> ] /\ copies' = made /\ checks' = checks
  <2>1. s = <<>> /\ Len(s) = 0 /\ Len(stack[t]) = 1
    BY <1>2, <1>3, <1>5
  <2>2. Turns(t)
    <3>1. Len(s) \in Nat /\ Len(s) < Len(stack[t]) /\ \A i \in 1 .. Len(s) : s[i].fn = "step" => s[i] = stack[t][i]
      BY <2>1
    <3> QED
      BY <1>2, <1>3, <3>1, PopTurns
  <2>3. \A i \in 1 .. Len(stack[t]) : stack[t][i].fn # "step"
    BY <1>2, <1>5, <2>1
  <2>4. Serves(t)
    BY <2>3, OnlySteps DEF Serves
  <2> QED
    BY <1>4, <1>5, <2>2, <2>4 DEF Deals
<1>6. ASSUME NEW k \in 1 .. Len(u), u[k].fn = "workflow",
             \A j \in 1 .. Len(u) : u[j].fn = "workflow" => j <= k,
             stack' = [ stack EXCEPT ![t] = Append(Upto(u, k - 1), Advance(u[k], FALSE)) ],
             AddCheck(Append(made, Thrown(u[k])), 0, Id(u[k]), "error")
      PROVE  Deals(t) /\ Turns(t) /\ Serves(t)
  <2>1. PICK b : b = Advance(u[k], FALSE)
    OBVIOUS
  <2>2. PICK h : h = Upto(u, k - 1)
    OBVIOUS
  <2>3. u[k] \in Frames /\ k - 1 \in 0 .. Len(u) /\ k \in Nat /\ GoodFrame(copies, u[k]) /\ k \in 1 .. Len(stack[t])
    <3>1. GoodStack(copies, stack[t])
      BY <1>2 DEF RunInv
    <3> QED
      BY <1>2, <3>1 DEF GoodStack
  <2>4. b.fn = "workflow"
    BY <1>6, <2>1, <2>3 DEF Advance, Frames
  <2>5. h \in Seq(Frames) /\ Len(h) = k - 1 /\ \A i \in 1 .. k - 1 : h[i] = u[i]
    BY <1>2, <2>2, <2>3, UptoIs
  <2>6. s = Append(h, b)
    BY <1>2, <1>3, <1>6, <2>1, <2>2
  <2>7. Len(s) = k /\ s[k] = b /\ \A i \in 1 .. k - 1 : s[i] = stack[t][i]
    <3>1. Len(s) = k /\ s[k] = b /\ \A i \in 1 .. k - 1 : s[i] = h[i]
      BY <2>3, <2>5, <2>6
    <3>2. \A i \in 1 .. k - 1 : i \in 1 .. Len(u)
      BY <1>2
    <3> QED
      BY <1>2, <2>5, <3>1, <3>2
  <2>8. Turns(t)
    <3>1. \A i \in 1 .. Len(s) : s[i].fn = "step" => s[i] = stack[t][i]
      <4> TAKE i \in 1 .. Len(s)
      <4>1. i = k \/ i \in 1 .. k - 1
        BY <2>3, <2>7
      <4> QED
        BY <2>4, <2>7, <4>1
    <3>2. Len(s) \in Nat /\ Len(s) < Len(stack[t])
      BY <1>2, <2>7
    <3> QED
      BY <1>2, <1>3, <3>1, <3>2, PopTurns
  <2>9. PICK id : id = Id(u[k])
    OBVIOUS
  <2>10. PICK l : l = stack[t][k].list
    OBVIOUS
  <2>11. PICK e : e = Thrown(u[k])
    OBVIOUS
  <2>12. id \in StepIds /\ l \in Nat /\ u[k].list = l
    <3>1. Id(u[k]) \in StepIds /\ u[k].list \in Nat
      BY <1>1, <1>2, <1>6, ThrowerIs
    <3> QED
      BY <1>2, <2>9, <2>10, <3>1
  <2>13. e \in Copies /\ Born(t, e) /\ e.list = l /\ e.left = 0 /\ e.arr = 0 /\ e.step = id
    BY <2>9, <2>11, <2>12 DEF Thrown, Copies, Born
  <2>14. PICK a : a = Append(made, e)
    OBVIOUS
  <2>20. Makes(t, a) /\ Len(a) = Len(made) + 1 /\ Len(made) \in Nat /\ a[Len(made) + 1] = e
    BY <1>2, <2>13, <2>14, MakesMore
  <2>15. /\ Deals(t) /\ Len(copies') = Len(a)
         /\ \A c \in 1 .. Len(a) :
              /\ copies'[c].left = a[c].left /\ copies'[c].list = a[c].list
              /\ copies'[c].arr = a[c].arr /\ copies'[c].step = a[c].step
         /\ "error" \in checks'[id]
    <3>1. AddCheck(a, 0, id, "error") /\ 0 \in 0 .. Len(a) /\ "error" \in Kinds
      BY <1>6, <2>9, <2>11, <2>14, <2>20 DEF Kinds
    <3> QED
      BY <1>2, <2>12, <2>20, <3>1, MakesChecked
  <2>16. PICK d : d = Len(made) + 1
    OBVIOUS
  <2>17. Recorded(l)'
    <3>1. /\ d \in 1 .. Len(copies') /\ copies'[d].left = 0 /\ copies'[d].list = l /\ copies'[d].arr = 0
          /\ copies'[d].step = id /\ checks'[id] # {}
      BY <2>13, <2>15, <2>16, <2>20
    <3>2. d > Len(copies)
      BY <1>4, <2>16, <2>20 DEF Makes
    <3>3. ASSUME NEW v \in Threads, NEW i \in 1 .. Len(stack'[v]), Has(stack'[v][i], d) PROVE FALSE
      <4>1. i \in 1 .. Len(stack[v]) /\ stack'[v][i] = stack[v][i]
        <5>1. CASE v # t
          BY <1>2, <1>6, <3>3, <5>1
        <5>2. CASE v = t
          <6>1. i # k
            BY <1>3, <2>4, <2>7, <3>3, <5>2 DEF Has
          <6>2. i \in 1 .. k - 1
            BY <1>3, <2>3, <2>7, <5>2, <6>1
          <6>3. i \in 1 .. Len(stack[t])
            BY <1>2, <2>3, <6>2
          <6> QED
            BY <1>3, <2>7, <5>2, <6>2, <6>3
        <5> QED
          BY <5>1, <5>2
      <4>2. d \in 1 .. Len(copies)
        BY <1>2, <3>3, <4>1, StepKnows DEF Has
      <4> QED
        BY <1>4, <3>2, <4>2
    <3>4. Free(d)'
      BY <3>3 DEF Free
    <3> QED
      BY <3>1, <3>4 DEF Recorded, Caught, Free
  <2>18. ASSUME NEW i \in 1 .. Len(stack[t]), NEW c \in 1 .. Len(copies), Awaits(stack[t][i], c)
         PROVE  \/ i <= Len(s) /\ Awaits(s[i], c)
                \/ /\ k \in 1 .. i - 1 /\ Len(s) <= k /\ stack[t][k].fn = "workflow"
                   /\ \A j \in k + 1 .. i : stack[t][j].fn = "step"
    <3>1. stack[t][i].fn = "step" /\ stack[t][k].fn = "workflow"
      BY <1>2, <1>6, <2>18, OnlySteps
    <3>2. CASE i < k
      <4>1. i \in 1 .. k - 1 /\ i <= Len(s)
        BY <2>3, <2>7, <3>2
      <4> QED
        BY <2>7, <2>18, <4>1
    <3>3. CASE i > k
      <4>1. k \in 1 .. i - 1 /\ Len(s) <= k
        BY <2>3, <2>7, <3>3
      <4>2. ASSUME NEW j \in k + 1 .. i PROVE stack[t][j].fn = "step"
        <5>1. j = i \/ j \in 1 .. Len(u)
          BY <1>2, <2>3
        <5>2. CASE j \in 1 .. Len(u)
          <6>1. ~(j <= k)
            BY <2>3
          <6>2. stack[t][j].fn # "workflow"
            BY <1>2, <1>6, <5>2, <6>1
          <6>3. stack[t] \in Seq(Frames) /\ j \in 1 .. Len(stack[t])
            BY <1>2, <5>2
          <6>4. stack[t][j] \in Frames
            BY <6>3
          <6> QED
            BY <6>2, <6>4 DEF Frames
        <5> QED
          BY <3>1, <5>1, <5>2
      <4> QED
        BY <3>1, <4>1, <4>2
    <3> QED
      BY <2>3, <3>1, <3>2, <3>3
  <2>19. Serves(t)
    BY <1>3, <2>10, <2>17, <2>18 DEF Serves
  <2> QED
    BY <2>8, <2>15, <2>19
<1> QED
  BY <1>1, <1>2, <1>5, <1>6, ThrowIs

Knows(t) == LastInv /\ Held(t, 1, 0) /\ stack[t] # <<>>
Tells(t) == Deals(t) /\ Turns(t) /\ Serves(t) /\ Keeps(t)

LEMMA KnowsIs ==
  ASSUME NEW t, Knows(t)
  PROVE  /\ LastInv /\ Held(t, 1, 0) /\ RunInv /\ t \in Threads /\ stack[t] # <<>> /\ Top(t) \in Frames
         /\ Len(copies) \in Nat /\ Len(lists) \in Nat /\ copies \in Seq(Copies) /\ checks \in [StepIds -> SUBSET Kinds]
         /\ Top(t).list \in Nat /\ Top(t).list <= Len(lists)
<1>1. LastInv /\ Held(t, 1, 0) /\ stack[t] # <<>>
  BY DEF Knows
<1>2. RunInv /\ t \in Threads /\ Top(t) \in Frames /\ Top(t).list \in 1 .. Len(lists)
  BY <1>1, HeldIs, TopHeld
<1>3. Len(copies) \in Nat /\ Len(lists) \in Nat /\ copies \in Seq(Copies) /\ checks \in [StepIds -> SUBSET Kinds]
  BY <1>2 DEF RunInv, TypeOK
<1> QED
  BY <1>1, <1>2, <1>3

LEMMA KnowsHere ==
  ASSUME LastInv, NEW t \in Threads, Workflow(t) \/ Step(t) \/ Act(t)
  PROVE  Knows(t)
<1>1. GateInv /\ RunInv
  BY DEF LastInv, GateInv
<1>2. stack[t] # <<>> /\ ThreadStep(t)
  BY <1>1, ThreadActs, ThreadSteps
<1>3. Region(t, 1, 0) /\ 0 \in 0 .. Len(copies) /\ 1 \in Nat \ {0}
  <2>1. Region(t, 1, 0)
    BY <1>1 DEF GateInv
  <2>2. Len(copies) \in Nat
    BY <1>1 DEF RunInv, TypeOK
  <2> QED
    BY <2>1, <2>2
<1>4. Held(t, 1, 0)
  BY <1>1, <1>2, <1>3, HeldBy
<1> QED
  BY <1>2, <1>4 DEF Knows

LEMMA DealsSame == ASSUME RunInv, NEW t, UNCHANGED <<copies, checks>> PROVE Deals(t)
<1>1. Makes(t, copies)
  BY MakesSame
<1>2. copies' = copies /\ checks' = checks
  OBVIOUS
<1>3. Makes(t, copies')
  BY <1>1, <1>2
<1> QED
  BY <1>2, <1>3 DEF Deals

LEMMA KeepsNone == ASSUME NEW t, Top(t).fn = "workflow" \/ Top(t).stage = "start" PROVE Keeps(t)
BY DEF Keeps, HasTop, Has

LEMMA KeepsLeft ==
  ASSUME NEW t, Top(t).stage # "retried", copies'[Top(t).copy].left \in {0, copies[Top(t).copy].left}
  PROVE  Keeps(t)
BY DEF Keeps, HasTop, Has

LEMMA NoAwaits ==
  ASSUME NEW t, Top(t).fn = "workflow" \/ Top(t).stage \notin {"start", "retried"}
  PROVE  \A c : ~Awaits(Top(t), c)
BY DEF Awaits

LEMMA NextStepTells == ASSUME NEW t, Knows(t), NextStep(t) PROVE Tells(t)
<1>1. PICK f : f = Top(t)
  OBVIOUS
<1>2. PICK g : g = RunStep(f.w, f.pos, f.list, f.left, f.retrying)
  OBVIOUS
<1>3. RunInv /\ t \in Threads /\ Held(t, 1, 0)
  BY KnowsIs
<1>4. /\ stack[t] # <<>> /\ f.stage = "steps" /\ f.fn = "workflow" /\ Call(t, f, g) /\ UNCHANGED <<copies, checks>>
  BY <1>1, <1>2, <1>3, AtTop DEF NextStep
<1>5. f \in Frames /\ g \in Frames
  BY <1>3, <1>4, CallTyped
<1>6. g.fn = "step" /\ g.stage = "start" /\ g.of = 0 /\ g.arr = 0
  BY <1>2 DEF RunStep
<1>7. \A c : ~Awaits(Top(t), c)
  BY <1>1, <1>4, NoAwaits
<1>8. Turns(t) /\ Serves(t)
  BY <1>3, <1>4, <1>5, <1>6, <1>7, CallTurns
<1>9. Deals(t) /\ Keeps(t)
  BY <1>1, <1>3, <1>4, DealsSame, KeepsNone
<1> QED
  BY <1>8, <1>9 DEF Tells

LEMMA FinishTells == ASSUME NEW t, Knows(t), FinishWorkflow(t) PROVE Tells(t)
<1>1. RunInv /\ t \in Threads
  BY KnowsIs
<1>2. /\ stack[t] # <<>> /\ Top(t).fn = "workflow" /\ stack' = [ stack EXCEPT ![t] = Under(t) ] /\ UNCHANGED <<copies, checks>>
  BY <1>1, AtTop DEF FinishWorkflow
<1>3. \A c : ~Awaits(Top(t), c)
  BY <1>2, NoAwaits
<1>4. PICK s : s = Under(t)
  OBVIOUS
<1>5. /\ Len(s) = Len(stack[t]) - 1 /\ \A i \in 1 .. Len(s) : s[i] = stack[t][i]
      /\ stack \in [Threads -> Seq(Frames)]
  BY <1>1, <1>2, <1>4, UnderIs
<1>6. s = stack'[t]
  BY <1>1, <1>2, <1>4, <1>5
<1>7. Turns(t) /\ Serves(t)
  BY <1>1, <1>2, <1>3, <1>5, <1>6, BackTurns
<1>8. Deals(t) /\ Keeps(t)
  BY <1>1, <1>2, DealsSame, KeepsNone
<1> QED
  BY <1>7, <1>8 DEF Tells

LEMMA ThrowTells ==
  ASSUME NEW t, Knows(t), Throw(t, Under(t), copies), Top(t).fn = "workflow" \/ Top(t).stage = "start"
  PROVE  Tells(t)
<1>1. LastInv /\ RunInv /\ t \in Threads /\ stack[t] # <<>>
  BY KnowsIs
<1>2. CopiesOK(copies) /\ Makes(t, copies)
  BY <1>1, MakesSame DEF RunInv
<1>3. Deals(t) /\ Turns(t) /\ Serves(t)
  BY <1>1, <1>2, ThrowTurns
<1> QED
  BY <1>3, KeepsNone DEF Tells

LEMMA OutputsThrowTells == ASSUME NEW t, Knows(t), OutputsThrow(t) PROVE Tells(t)
<1>1. RunInv /\ t \in Threads
  BY KnowsIs
<1>2. Top(t).fn = "workflow" /\ Throw(t, Under(t), copies)
  BY <1>1, AtTop DEF OutputsThrow
<1> QED
  BY <1>2, ThrowTells

LEMMA StartBrokenTells == ASSUME NEW t, Knows(t), StartBroken(t) PROVE Tells(t)
BY ThrowTells DEF StartBroken, InStage

\* The copy that a call starts with.
LEMMA StartsAs ==
  ASSUME NEW t, Knows(t), Starting(t), NEW list \in {0, Top(t).list}, NEW made, made = Append(copies, CopyOf(Top(t), list))
  PROVE  /\ Makes(t, made) /\ CopiesOK(made) /\ Len(made) = NewCopy /\ NewCopy \in Nat \ {0}
         /\ made[NewCopy].of = Top(t).of /\ made[NewCopy].list = list
         /\ Top(t).fn = "step" /\ Top(t).stage = "start" /\ Id(Top(t)) \in StepIds
         /\ Top(t).arr \in 0 .. Len(made)
<1>1. RunInv /\ t \in Threads /\ Held(t, 1, 0) /\ Len(copies) \in Nat /\ copies \in Seq(Copies) /\ Top(t).list \in Nat
  BY KnowsIs
<1>2. list \in Nat
  BY <1>1
<1>3. Top(t).fn = "step" /\ Top(t).stage = "start" /\ CopiesOK(made) /\ Id(Top(t)) \in StepIds
  BY <1>1, <1>2, AtStart
<1>4. PICK k : k = CopyOf(Top(t), list)
  OBVIOUS
<1>5. k.left = k.given /\ k.of = Top(t).of /\ k.arr = Top(t).arr /\ k.list = list
  BY <1>4 DEF CopyOf
<1>6. k \in Copies
  <2>1. made \in Seq(Copies)
    BY <1>3 DEF CopiesOK
  <2>2. Len(made) = Len(copies) + 1 /\ made[Len(copies) + 1] = k
    BY <1>1, <1>4
  <2>3. Len(made) \in 1 .. Len(made)
    BY <1>1, <2>2
  <2> QED
    BY <2>1, <2>2, <2>3
<1>7. Born(t, k) /\ Makes(t, copies)
  BY <1>1, <1>3, <1>5, MakesSame DEF Born
<1>8. Makes(t, made) /\ Len(made) = Len(copies) + 1 /\ made[Len(copies) + 1] = k
  BY <1>1, <1>4, <1>6, <1>7, MakesMore
<1>9. Top(t).arr \in {0} \cup (1 .. Len(copies))
  BY <1>1, TopHeld, KnowsIs
<1> QED
  BY <1>1, <1>3, <1>5, <1>8, <1>9 DEF NewCopy

LEMMA StartServes ==
  ASSUME NEW t, Top(t).stage = "start", NEW d \in DOMAIN copies', copies'[d].of = Top(t).of
  PROVE  \A c \in 1 .. Len(copies) : Awaits(Top(t), c) => Superseded(c)'
BY DEF Awaits, Superseded

LEMMA StartChildTells == ASSUME NEW t, Knows(t), StartChild(t) PROVE Tells(t)
<1>1. PICK b : b = Top(t)
  OBVIOUS
<1>2. PICK f : f = [ b EXCEPT !.stage = "child", !.copy = NewCopy ]
  OBVIOUS
<1>3. PICK g : g = RunWorkflow(Def(b).calls, 1, NewList, 0, {})
  OBVIOUS
<1>4. PICK made : made = Append(copies, CopyOf(Top(t), 0))
  OBVIOUS
<1>5. Starting(t) /\ Call(t, f, g) /\ copies' = made /\ checks' = checks
  BY <1>1, <1>2, <1>3, <1>4 DEF StartChild
<1>6. /\ RunInv /\ t \in Threads /\ Held(t, 1, 0) /\ stack[t] # <<>> /\ b \in Frames
  BY <1>1, KnowsIs
<1>7. f \in Frames /\ g \in Frames
  BY <1>5, <1>6, CallTyped
<1>8. /\ Makes(t, made) /\ Len(made) = NewCopy /\ NewCopy \in Nat \ {0}
      /\ made[NewCopy].of = b.of /\ made[NewCopy].list = 0 /\ b.fn = "step" /\ b.stage = "start"
  BY <1>1, <1>4, <1>5, StartsAs
<1>9. f.fn = "step" /\ f.stage = "child" /\ f.list = b.list /\ f.of = b.of /\ f.copy = NewCopy /\ g.fn = "workflow"
  BY <1>2, <1>3, <1>6, <1>8 DEF Frames, RunWorkflow
<1>10. Follows(t, f)
  BY <1>1, <1>5, <1>8, <1>9 DEF Follows
<1>11. \A c \in 1 .. Len(copies) : Awaits(Top(t), c) => Superseded(c)'
  <2>1. NewCopy \in DOMAIN copies'
    BY <1>5, <1>8 DEF Makes
  <2> QED
    BY <1>1, <1>5, <1>8, <2>1, StartServes
<1>12. Turns(t) /\ Serves(t)
  BY <1>1, <1>5, <1>6, <1>7, <1>8, <1>9, <1>10, <1>11, CallTurns
<1>13. Deals(t)
  <2>1. \A s \in StepIds : checks[s] \subseteq checks'[s]
    BY <1>5
  <2> QED
    BY <1>5, <1>8, <2>1 DEF Deals
<1>14. Keeps(t)
  BY <1>1, <1>8, KeepsNone
<1> QED
  BY <1>12, <1>13, <1>14 DEF Tells

\* A step that fails a check instead of being sent.
LEMMA CheckedTells ==
  ASSUME NEW t, Knows(t), Starting(t), NEW kind \in Kinds,
         AddCheck(Append(copies, CopyOf(Top(t), Top(t).list)), Top(t).arr, Id(Top(t)), kind), NEW end, Return(t, end)
  PROVE  Tells(t)
<1>1. PICK made : made = Append(copies, CopyOf(Top(t), Top(t).list))
  OBVIOUS
<1>2. RunInv /\ t \in Threads /\ stack[t] # <<>>
  BY KnowsIs
<1>3. /\ Makes(t, made) /\ Len(made) = NewCopy /\ NewCopy \in Nat \ {0} /\ made[NewCopy].of = Top(t).of
      /\ Top(t).fn = "step" /\ Top(t).stage = "start" /\ Id(Top(t)) \in StepIds /\ Top(t).arr \in 0 .. Len(made)
  BY <1>1, StartsAs
<1>4. /\ Deals(t) /\ Len(copies') = Len(made) /\ \A c \in 1 .. Len(made) : copies'[c].of = made[c].of
  <2>1. PICK arr : arr = Top(t).arr
    OBVIOUS
  <2>2. PICK id : id = Id(Top(t))
    OBVIOUS
  <2>3. AddCheck(made, arr, id, kind) /\ arr \in 0 .. Len(made) /\ id \in StepIds /\ Makes(t, made)
    BY <1>1, <1>3, <2>1, <2>2
  <2> QED
    BY <1>2, <2>3, MakesChecked
<1>5. \A c \in 1 .. Len(copies) : Awaits(Top(t), c) => Superseded(c)'
  <2>1. copies' \in Seq(Copies)
    BY <1>4 DEF Deals, Makes
  <2>2. NewCopy \in DOMAIN copies' /\ copies'[NewCopy].of = Top(t).of
    BY <1>3, <1>4, <2>1
  <2> QED
    BY <1>3, <2>2, StartServes
<1>6. Turns(t) /\ Serves(t)
  BY <1>2, <1>3, <1>5, ReturnTurns
<1>7. Keeps(t)
  BY <1>3, KeepsNone
<1> QED
  BY <1>4, <1>6, <1>7 DEF Tells

LEMMA StartMissingTells == ASSUME NEW t, Knows(t), StartMissing(t) PROVE Tells(t)
<1>1. "error" \in Kinds
  BY DEF Kinds
<1> QED
  BY <1>1, CheckedTells DEF StartMissing

LEMMA OverLimitTells == ASSUME NEW t, Knows(t), StartOverLimit(t) PROVE Tells(t)
<1>1. "max steps" \in Kinds
  BY DEF Kinds
<1> QED
  BY <1>1, CheckedTells DEF StartOverLimit, AtApi, Registered

LEMMA TimedOutTells == ASSUME NEW t, Knows(t), StartTimedOut(t) PROVE Tells(t)
<1>1. "timeout" \in Kinds
  BY DEF Kinds
<1> QED
  BY <1>1, CheckedTells DEF StartTimedOut, AtApi, Registered

LEMMA StartThrowsTells == ASSUME NEW t, Knows(t), StartThrows(t) PROVE Tells(t)
<1>1. PICK made : made = Append(copies, CopyOf(Top(t), Top(t).list))
  OBVIOUS
<1>2. LastInv /\ t \in Threads /\ stack[t] # <<>>
  BY KnowsIs
<1>3. Starting(t) /\ Throw(t, Under(t), made)
  BY <1>1 DEF StartThrows, AtApi, Registered
<1>4. Makes(t, made) /\ CopiesOK(made) /\ Top(t).stage = "start"
  BY <1>1, <1>3, StartsAs
<1>5. Deals(t) /\ Turns(t) /\ Serves(t)
  BY <1>2, <1>3, <1>4, ThrowTurns
<1> QED
  BY <1>4, <1>5, KeepsNone DEF Tells

LEMMA RequestTells == ASSUME NEW t, Knows(t), StartRequest(t) PROVE Tells(t)
<1>1. PICK b : b = Top(t)
  OBVIOUS
<1>2. PICK f : f = [ b EXCEPT !.stage = "calling", !.copy = NewCopy ]
  OBVIOUS
<1>3. PICK made : made = Append(copies, CopyOf(Top(t), Top(t).list))
  OBVIOUS
<1>4. Starting(t) /\ Stay(t, f) /\ copies' = made /\ checks' = checks
  BY <1>1, <1>2, <1>3 DEF StartRequest, AtApi, Registered
<1>5. /\ RunInv /\ t \in Threads /\ Held(t, 1, 0) /\ stack[t] # <<>> /\ b \in Frames
  BY <1>1, KnowsIs
<1>6. f \in Frames
  BY <1>4, <1>5, StayTyped
<1>7. /\ Makes(t, made) /\ Len(made) = NewCopy /\ NewCopy \in Nat \ {0}
      /\ made[NewCopy].of = b.of /\ made[NewCopy].list = b.list /\ b.fn = "step" /\ b.stage = "start"
  BY <1>1, <1>3, <1>4, StartsAs
<1>8. f.fn = "step" /\ f.stage = "calling" /\ f.list = b.list /\ f.of = b.of /\ f.copy = NewCopy
  BY <1>2, <1>5, <1>7 DEF Frames
<1>9. Follows(t, f)
  BY <1>1, <1>4, <1>7, <1>8 DEF Follows
<1>10. \A c \in 1 .. Len(copies) : Awaits(Top(t), c) => Superseded(c)'
  <2>1. NewCopy \in DOMAIN copies'
    BY <1>4, <1>7 DEF Makes
  <2> QED
    BY <1>1, <1>4, <1>7, <2>1, StartServes
<1>11. Turns(t) /\ Serves(t)
  BY <1>1, <1>4, <1>5, <1>6, <1>7, <1>9, <1>10, StayTurns
<1>12. Deals(t)
  <2>1. \A s \in StepIds : checks[s] \subseteq checks'[s]
    BY <1>4
  <2> QED
    BY <1>4, <1>7, <2>1 DEF Deals
<1>13. Keeps(t)
  BY <1>1, <1>7, KeepsNone
<1> QED
  BY <1>11, <1>12, <1>13 DEF Tells

\* A call at an action, a child workflow or a request of its step.
LEMMA GoingOn ==
  ASSUME NEW t, Knows(t), NEW stage, InStage(t, stage), stage \notin {"steps", "start"}
  PROVE  /\ RunInv /\ t \in Threads /\ Held(t, 1, 0) /\ stack[t] # <<>> /\ Top(t) \in Frames
         /\ Top(t).fn = "step" /\ Top(t).stage = stage /\ Id(Top(t)) \in StepIds /\ Top(t).list \in Nat
         /\ Top(t).copy \in 1 .. Len(copies) /\ copies[Top(t).copy] \in Copies /\ Top(t).copy <= Len(copies)
         /\ copies[Top(t).copy].step = Id(Top(t)) /\ HasTop(t, Top(t).copy)
         /\ copies[Top(t).copy].arr \in 0 .. Len(copies) /\ Len(copies) \in Nat
<1>1. /\ RunInv /\ t \in Threads /\ Held(t, 1, 0) /\ stack[t] # <<>> /\ Top(t) \in Frames /\ Len(copies) \in Nat /\ LastInv
  BY KnowsIs
<1>2. /\ Top(t).fn = "step" /\ Top(t).stage = stage /\ Id(Top(t)) \in StepIds /\ Top(t).list \in Nat
      /\ Top(t).copy \in 1 .. Len(copies) /\ copies[Top(t).copy] \in Copies
  BY <1>1, InStep
<1>3. copies[Top(t).copy].step = Id(Top(t))
  BY <1>1, <1>2, TopHeld
<1>4. HasTop(t, Top(t).copy)
  BY <1>1, <1>2 DEF HasTop, Has
<1>5. copies[Top(t).copy].arr \in {0} \cup (1 .. Len(copies))
  BY <1>1, <1>2, CopyKnows
<1> QED
  BY <1>1, <1>2, <1>3, <1>4, <1>5

\* The call goes on with its actions, and its copy keeps the retries left or has none.
LEMMA StayTells ==
  ASSUME NEW t, Knows(t), NEW stage \in {"child", "calling", "acting"}, InStage(t, stage), Deals(t),
         copies'[Top(t).copy].left \in {0, copies[Top(t).copy].left},
         NEW f, Stay(t, f), f.fn = "step", f.stage = "acting", f.list = Top(t).list, f.of = Top(t).of, f.copy = Top(t).copy
  PROVE  Tells(t)
<1>1. /\ RunInv /\ t \in Threads /\ Held(t, 1, 0) /\ stack[t] # <<>> /\ Top(t).fn = "step" /\ Top(t).stage = stage
  BY GoingOn
<1>2. f \in Frames
  BY <1>1, StayTyped
<1>3. Follows(t, f)
  BY <1>1 DEF Follows
<1>4. \A c : ~Awaits(Top(t), c)
  BY <1>1, NoAwaits
<1>5. Turns(t) /\ Serves(t)
  BY <1>1, <1>2, <1>3, <1>4, StayTurns
<1>6. Keeps(t)
  BY <1>1, KeepsLeft
<1> QED
  BY <1>5, <1>6 DEF Tells

\* The copy of the innermost call is filled in.
Fits(t, c, k) ==
  /\ k.given = copies[c].given /\ k.step = copies[c].step /\ k.of = copies[c].of
  /\ k.list \in {copies[c].list, Top(t).list} /\ k.arr \in {copies[c].arr, c}

LEMMA SetTop ==
  ASSUME RunInv, NEW t, NEW c \in 1 .. Len(copies), HasTop(t, c), NEW k \in Copies, Fits(t, c, k)
  PROVE  /\ Makes(t, [ copies EXCEPT ![c] = k ]) /\ Len([ copies EXCEPT ![c] = k ]) = Len(copies)
         /\ [ copies EXCEPT ![c] = k ][c] = k
<1>1. copies \in Seq(Copies) /\ Len(copies) \in Nat
  BY DEF RunInv, TypeOK
<1>2. PICK s : s = [ copies EXCEPT ![c] = k ]
  OBVIOUS
<1>3. s \in Seq(Copies) /\ Len(s) = Len(copies) /\ \A d \in 1 .. Len(copies) : s[d] = IF d = c THEN k ELSE copies[d]
  BY <1>1, <1>2
<1>4. ASSUME NEW d \in 1 .. Len(s) PROVE d <= Len(copies) /\ Aged(t, s[d], d)
  <2>1. CASE d # c
    BY <1>1, <1>3, <2>1 DEF Aged
  <2>2. CASE d = c
    BY <1>1, <1>3, <2>2 DEF Aged, Fits
  <2> QED
    BY <2>1, <2>2
<1>5. Makes(t, s)
  BY <1>1, <1>3, <1>4 DEF Makes
<1> QED
  BY <1>2, <1>3, <1>5

LEMMA DealsMade ==
  ASSUME NEW t, NEW made, Makes(t, made), copies' = made, checks' = checks
  PROVE  Deals(t)
<1>1. \A s \in StepIds : checks[s] \subseteq checks'[s]
  OBVIOUS
<1> QED
  BY <1>1 DEF Deals

LEMMA RequestDoneTells == ASSUME NEW t, Knows(t), RequestDone(t) PROVE Tells(t)
<1>1. PICK b : b = Top(t)
  OBVIOUS
<1>2. PICK c : c = b.copy
  OBVIOUS
<1>3. PICK o : o = copies[c]
  OBVIOUS
<1>4. InStage(t, "calling") /\ "calling" \notin {"steps", "start"} /\ "calling" \in {"child", "calling", "acting"}
  BY DEF RequestDone
<1>5. /\ RunInv /\ b \in Frames /\ b.fn = "step" /\ Id(b) \in StepIds /\ c \in 1 .. Len(copies) /\ o \in Copies
      /\ o.arr \in 0 .. Len(copies) /\ c \in Nat
  BY <1>1, <1>2, <1>3, <1>4, GoingOn
<1>6. PICK kind : /\ Stay(t, [ b EXCEPT !.stage = "acting", !.kind = kind ])
                  /\ \/ copies' = [ copies EXCEPT ![c].arr = c ] /\ checks' = checks
                     \/ copies' = [ copies EXCEPT ![c].arr = c, ![c].own = {"failed"} ] /\ checks' = checks
                     \/ AddCheck(copies, copies[c].arr, Id(b), "error")
  BY <1>1, <1>2 DEF RequestDone
<1>7. PICK f : f = [ b EXCEPT !.stage = "acting", !.kind = kind ]
  OBVIOUS
<1>8. f.fn = "step" /\ f.stage = "acting" /\ f.list = b.list /\ f.of = b.of /\ f.copy = b.copy
  BY <1>5, <1>7 DEF Frames
<1>9. ASSUME NEW k \in Copies, k.given = o.given, k.step = o.step, k.of = o.of, k.list = o.list, k.arr = c, k.left = o.left,
             copies' = [ copies EXCEPT ![c] = k ], checks' = checks
      PROVE  Deals(t) /\ copies'[c].left = o.left
  <2>1. PICK made : made = [ copies EXCEPT ![c] = k ]
    OBVIOUS
  <2>3. Makes(t, made) /\ made[c] = k
    <3>1. Fits(t, c, k)
      BY <1>1, <1>3, <1>9 DEF Fits
    <3>2. HasTop(t, c)
      BY <1>1, <1>2, <1>4, GoingOn
    <3> QED
      BY <1>5, <2>1, <3>1, <3>2, SetTop
  <2>4. Deals(t)
    BY <1>9, <2>1, <2>3, DealsMade
  <2> QED
    BY <1>9, <2>1, <2>3, <2>4
<1>10. Deals(t) /\ copies'[c].left = o.left
  <2>1. CASE copies' = [ copies EXCEPT ![c].arr = c ] /\ checks' = checks
    <3>1. PICK k : k = [ o EXCEPT !.arr = c ]
      OBVIOUS
    <3>2. /\ k \in Copies /\ k.given = o.given /\ k.step = o.step /\ k.of = o.of /\ k.list = o.list
          /\ k.arr = c /\ k.left = o.left
      BY <1>5, <3>1 DEF Copies
    <3>3. copies' = [ copies EXCEPT ![c] = k ]
      BY <1>3, <2>1, <3>1
    <3> QED
      BY <1>9, <2>1, <3>2, <3>3
  <2>2. CASE copies' = [ copies EXCEPT ![c].arr = c, ![c].own = {"failed"} ] /\ checks' = checks
    <3>1. PICK k : k = [ o EXCEPT !.arr = c, !.own = {"failed"} ]
      OBVIOUS
    <3>2. /\ k \in Copies /\ k.given = o.given /\ k.step = o.step /\ k.of = o.of /\ k.list = o.list
          /\ k.arr = c /\ k.left = o.left
      BY <1>5, <3>1 DEF Copies, Kinds
    <3>3. copies' = [ copies EXCEPT ![c] = k ]
      <4>1. copies \in Seq(Copies) /\ c \in DOMAIN copies
        BY <1>4, <1>5, GoingOn, KnowsIs
      <4> QED
        BY <1>3, <2>2, <3>1, <4>1
    <3> QED
      BY <1>9, <2>2, <3>2, <3>3
  <2>3. CASE AddCheck(copies, copies[c].arr, Id(b), "error")
    <3>1. PICK arr : arr = copies[c].arr
      OBVIOUS
    <3>2. PICK id : id = Id(b)
      OBVIOUS
    <3>3. AddCheck(copies, arr, id, "error") /\ arr \in 0 .. Len(copies) /\ id \in StepIds /\ Makes(t, copies) /\ "error" \in Kinds
      BY <1>3, <1>5, <2>3, <3>1, <3>2, MakesSame DEF Kinds
    <3>4. Deals(t) /\ \A d \in 1 .. Len(copies) : copies'[d].left = copies[d].left
      BY <1>5, <3>3, MakesChecked
    <3> QED
      BY <1>3, <1>5, <3>4
  <2> QED
    BY <1>6, <2>1, <2>2, <2>3
<1> QED
  BY <1>1, <1>2, <1>3, <1>4, <1>6, <1>7, <1>8, <1>10, StayTells

LEMMA ChildDoneTells == ASSUME NEW t, Knows(t), ChildDone(t) PROVE Tells(t)
<1>1. PICK b : b = Top(t)
  OBVIOUS
<1>2. PICK c : c = b.copy
  OBVIOUS
<1>3. PICK o : o = copies[c]
  OBVIOUS
<1>4. InStage(t, "child") /\ "child" \notin {"steps", "start"} /\ "child" \in {"child", "calling", "acting"}
  BY DEF ChildDone
<1>5. /\ RunInv /\ b \in Frames /\ b.fn = "step" /\ Id(b) \in StepIds /\ c \in 1 .. Len(copies) /\ o \in Copies
      /\ o.arr \in 0 .. Len(copies) /\ c \in Nat /\ b.list \in Nat
  BY <1>1, <1>2, <1>3, <1>4, GoingOn
<1>6. PICK kind : /\ Stay(t, [ b EXCEPT !.stage = "acting", !.kind = kind ])
                  /\ \/ copies' = copies /\ checks' = checks
                     \/ AddCheck([ copies EXCEPT ![c].list = b.list ], copies[c].arr, Id(b), "error")
  BY <1>1, <1>2 DEF ChildDone
<1>7. PICK f : f = [ b EXCEPT !.stage = "acting", !.kind = kind ]
  OBVIOUS
<1>8. f.fn = "step" /\ f.stage = "acting" /\ f.list = b.list /\ f.of = b.of /\ f.copy = b.copy
  BY <1>5, <1>7 DEF Frames
<1>9. CASE copies' = copies /\ checks' = checks
  <2>1. Deals(t)
    BY <1>5, <1>9, DealsSame
  <2> QED
    BY <1>1, <1>2, <1>3, <1>4, <1>6, <1>7, <1>8, <1>9, <2>1, StayTells
<1>10. CASE AddCheck([ copies EXCEPT ![c].list = b.list ], copies[c].arr, Id(b), "error")
  <2>1. PICK k : k = [ o EXCEPT !.list = b.list ]
    OBVIOUS
  <2>2. /\ k \in Copies /\ k.given = o.given /\ k.step = o.step /\ k.of = o.of /\ k.list = b.list
        /\ k.arr = o.arr /\ k.left = o.left
    BY <1>5, <2>1 DEF Copies
  <2>3. PICK made : made = [ copies EXCEPT ![c] = k ]
    OBVIOUS
  <2>5. Makes(t, made) /\ Len(made) = Len(copies) /\ c \in 1 .. Len(made) /\ made[c] = k
    <3>1. Fits(t, c, k)
      BY <1>1, <1>3, <2>2 DEF Fits
    <3>2. HasTop(t, c)
      BY <1>1, <1>2, <1>4, GoingOn
    <3>3. RunInv /\ c \in 1 .. Len(copies) /\ k \in Copies
      BY <1>5, <2>2
    <3>4. /\ Makes(t, [ copies EXCEPT ![c] = k ]) /\ Len([ copies EXCEPT ![c] = k ]) = Len(copies)
          /\ [ copies EXCEPT ![c] = k ][c] = k
      BY <3>1, <3>2, <3>3, SetTop
    <3> QED
      BY <2>3, <3>3, <3>4
  <2>6. PICK arr : arr = o.arr
    OBVIOUS
  <2>7. PICK id : id = Id(b)
    OBVIOUS
  <2>8. AddCheck(made, arr, id, "error") /\ arr \in 0 .. Len(made) /\ id \in StepIds /\ "error" \in Kinds
    BY <1>3, <1>5, <1>10, <2>1, <2>3, <2>5, <2>6, <2>7 DEF Kinds
  <2>9. Deals(t) /\ \A d \in 1 .. Len(made) : copies'[d].left = made[d].left
    BY <1>5, <2>5, <2>8, MakesChecked
  <2>10. copies'[c].left = copies[c].left
    BY <1>3, <2>2, <2>5, <2>9
  <2> QED
    BY <1>1, <1>2, <1>4, <1>6, <1>7, <1>8, <2>9, <2>10, StayTells
<1> QED
  BY <1>6, <1>9, <1>10

LEMMA ReturnTells ==
  ASSUME NEW t, Knows(t), NEW stage \in {"acting", "gone"}, InStage(t, stage), Deals(t), NEW end, Return(t, end),
         Len(stack'[t]) < Len(stack[t]) => Keeps(t)
  PROVE  Tells(t)
<1>1. /\ RunInv /\ t \in Threads /\ stack[t] # <<>> /\ Top(t).fn = "step" /\ Top(t).stage = stage
  BY GoingOn
<1>2. \A c : ~Awaits(Top(t), c)
  BY <1>1, NoAwaits
<1>3. Turns(t) /\ Serves(t) /\ Len(stack'[t]) < Len(stack[t])
  BY <1>1, <1>2, ReturnTurns
<1> QED
  BY <1>3 DEF Tells

LEMMA PlainReturn ==
  ASSUME NEW t, Knows(t), NEW stage \in {"acting", "gone"}, InStage(t, stage), UNCHANGED <<copies, checks>>,
         NEW end, Return(t, end)
  PROVE  Tells(t)
<1>1. RunInv /\ Top(t).stage # "retried"
  BY GoingOn
<1>2. Deals(t) /\ Keeps(t)
  BY <1>1, DealsSame, KeepsLeft
<1> QED
  BY <1>2, ReturnTells

LEMMA NoMoreActionsTells == ASSUME NEW t, Knows(t), NoMoreActions(t) PROVE Tells(t)
BY PlainReturn DEF NoMoreActions

LEMMA EndActionTells == ASSUME NEW t, Knows(t), EndAction(t) PROVE Tells(t)
BY PlainReturn DEF EndAction, Matched, Acting

LEMMA GoneTells == ASSUME NEW t, Knows(t), Gone(t) PROVE Tells(t)
BY PlainReturn DEF Gone

LEMMA NextAct ==
  ASSUME NEW b \in Frames, b.fn = "step", b.stage = "acting", NEW f, f = [ b EXCEPT !.act = @ + 1 ]
  PROVE  f.fn = "step" /\ f.stage = "acting" /\ f.list = b.list /\ f.of = b.of /\ f.copy = b.copy
BY DEF Frames

LEMMA UnmatchedTells == ASSUME NEW t, Knows(t), Unmatched(t) PROVE Tells(t)
<1>1. PICK f : f = [ Top(t) EXCEPT !.act = @ + 1 ]
  OBVIOUS
<1>2. InStage(t, "acting") /\ Stay(t, f) /\ UNCHANGED <<copies, checks>>
  BY <1>1 DEF Unmatched, Acting
<1>3. RunInv /\ Top(t) \in Frames /\ Top(t).fn = "step" /\ Top(t).stage = "acting"
  BY <1>2, GoingOn
<1>4. f.fn = "step" /\ f.stage = "acting" /\ f.list = Top(t).list /\ f.of = Top(t).of /\ f.copy = Top(t).copy
  BY <1>1, <1>3, NextAct
<1>5. Deals(t) /\ copies'[Top(t).copy].left \in {0, copies[Top(t).copy].left}
  BY <1>2, <1>3, DealsSame
<1> QED
  BY <1>2, <1>4, <1>5, StayTells

\* A broken action is recorded in the copy, which nobody has any more.
LEMMA FailTells ==
  ASSUME NEW t, Knows(t), InStage(t, "acting"), NEW c, c = Top(t).copy, NEW k \in Copies, Fits(t, c, k),
         k.arr = copies[c].arr, NEW made, [ made EXCEPT ![c].list = Top(t).list ] = [ copies EXCEPT ![c] = k ],
         FailStep(t, made)
  PROVE  Tells(t)
<1>1. /\ RunInv /\ t \in Threads /\ Id(Top(t)) \in StepIds /\ c \in 1 .. Len(copies) /\ HasTop(t, c)
      /\ copies[c].step = Id(Top(t)) /\ copies[c].arr \in 0 .. Len(copies)
  BY GoingOn
<1>2. PICK a : a = [ copies EXCEPT ![c] = k ]
  OBVIOUS
<1>3. Makes(t, a) /\ Len(a) = Len(copies) /\ a[c] = k
  <2>1. /\ Makes(t, [ copies EXCEPT ![c] = k ]) /\ Len([ copies EXCEPT ![c] = k ]) = Len(copies)
        /\ [ copies EXCEPT ![c] = k ][c] = k
    BY <1>1, SetTop
  <2> QED
    BY <1>2, <2>1
<1>4. PICK arr : arr = copies[c].arr
  OBVIOUS
<1>5. PICK id : id = Id(Top(t))
  OBVIOUS
<1>6. /\ AddCheck(a, arr, id, "action") /\ arr \in 0 .. Len(a) /\ id \in StepIds /\ "action" \in Kinds
      /\ Return(t, TRUE)
  BY <1>1, <1>2, <1>3, <1>4, <1>5 DEF FailStep, Kinds
<1>7. /\ Deals(t) /\ Len(copies') = Len(a)
      /\ \A d \in 1 .. Len(a) :
           /\ copies'[d].left = a[d].left /\ copies'[d].list = a[d].list /\ copies'[d].of = a[d].of
           /\ copies'[d].arr = a[d].arr /\ copies'[d].step = a[d].step /\ copies'[d].given = a[d].given
      /\ IF arr = 0 THEN "action" \in checks'[id] ELSE "action" \in copies'[arr].own
  BY <1>1, <1>3, <1>6, MakesChecked
<1>8. copies'[c].arr = arr /\ copies'[c].step = id
  BY <1>1, <1>3, <1>4, <1>5, <1>7 DEF Fits
<1>9. "action" \in ChecksOf(c)'
  BY <1>7, <1>8 DEF ChecksOf
<1>10. ASSUME Len(stack'[t]) < Len(stack[t]) PROVE Keeps(t)
  <2>1. \A d : HasTop(t, d) => d = c
    BY DEF HasTop, Has
  <2> QED
    BY <1>9, <1>10, <2>1 DEF Keeps
<1> QED
  BY <1>6, <1>7, <1>10, ReturnTells

LEMMA FailPlain == ASSUME NEW t, Knows(t), InStage(t, "acting"), FailStep(t, copies) PROVE Tells(t)
<1>1. PICK c : c = Top(t).copy
  OBVIOUS
<1>2. PICK o : o = copies[c]
  OBVIOUS
<1>3. o \in Copies /\ Top(t).list \in Nat
  BY <1>1, <1>2, GoingOn
<1>4. PICK k : k = [ o EXCEPT !.list = Top(t).list ]
  OBVIOUS
<1>5. /\ k \in Copies /\ k.given = o.given /\ k.step = o.step /\ k.of = o.of /\ k.list = Top(t).list /\ k.arr = o.arr
  BY <1>3, <1>4 DEF Copies
<1>6. Fits(t, c, k) /\ k.arr = copies[c].arr
  BY <1>2, <1>5 DEF Fits
<1>7. [ copies EXCEPT ![c].list = Top(t).list ] = [ copies EXCEPT ![c] = k ]
  BY <1>2, <1>4
<1> QED
  BY <1>1, <1>5, <1>6, <1>7, FailTells

LEMMA BrokenActionTells == ASSUME NEW t, Knows(t), BrokenAction(t) PROVE Tells(t)
BY FailPlain DEF BrokenAction, Acting

LEMMA GotoFailsTells == ASSUME NEW t, Knows(t), GotoFails(t) PROVE Tells(t)
BY FailPlain DEF GotoFails, Matched, Acting

\* The retries left of the innermost call are recorded.
LEMMA LeftIs ==
  ASSUME NEW t, Knows(t), Matched(t, "retry"), NEW c, c = Top(t).copy, NEW o, o = copies[c]
  PROVE  /\ InStage(t, "acting") /\ o \in Copies /\ Left(t) \in Nat
         /\ [ o EXCEPT !.left = Left(t) ] \in Copies /\ Fits(t, c, [ o EXCEPT !.left = Left(t) ])
         /\ WithLeft(t) = [ copies EXCEPT ![c] = [ o EXCEPT !.left = Left(t) ] ]
         /\ [ o EXCEPT !.left = Left(t) ].left = Left(t) /\ [ o EXCEPT !.left = Left(t) ].arr = o.arr
<1>1. InStage(t, "acting")
  BY DEF Matched, Acting
<1>2. RunInv /\ t \in Threads /\ o \in Copies
  BY <1>1, GoingOn
<1>3. Left(t) \in Nat
  BY <1>2, AtRetry
<1>4. PICK k : k = [ o EXCEPT !.left = Left(t) ]
  OBVIOUS
<1>5. /\ k \in Copies /\ k.given = o.given /\ k.step = o.step /\ k.of = o.of /\ k.list = o.list /\ k.arr = o.arr
      /\ k.left = Left(t)
  BY <1>2, <1>3, <1>4 DEF Copies
<1>6. Fits(t, c, k)
  BY <1>5 DEF Fits
<1>7. WithLeft(t) = [ copies EXCEPT ![c] = k ]
  BY <1>4 DEF WithLeft
<1> QED
  BY <1>1, <1>2, <1>3, <1>4, <1>5, <1>6, <1>7

LEMMA LeftDeals ==
  ASSUME NEW t, Knows(t), Matched(t, "retry"), copies' = WithLeft(t), checks' = checks
  PROVE  Deals(t) /\ copies'[Top(t).copy].left = Left(t)
<1>1. PICK c : c = Top(t).copy
  OBVIOUS
<1>2. PICK o : o = copies[c]
  OBVIOUS
<1>3. PICK k : k = [ o EXCEPT !.left = Left(t) ]
  OBVIOUS
<1>4. InStage(t, "acting") /\ k \in Copies /\ Fits(t, c, k) /\ copies' = [ copies EXCEPT ![c] = k ] /\ k.left = Left(t)
  BY <1>1, <1>2, <1>3, LeftIs
<1>5. RunInv /\ c \in 1 .. Len(copies) /\ HasTop(t, c)
  BY <1>1, <1>4, GoingOn
<1>6. Makes(t, [ copies EXCEPT ![c] = k ]) /\ [ copies EXCEPT ![c] = k ][c] = k
  BY <1>4, <1>5, SetTop
<1>7. Deals(t)
  BY <1>4, <1>6, DealsMade
<1> QED
  BY <1>1, <1>4, <1>6, <1>7

LEMMA RetryFailsTells == ASSUME NEW t, Knows(t), RetryFails(t) PROVE Tells(t)
<1>1. PICK c : c = Top(t).copy
  OBVIOUS
<1>2. PICK o : o = copies[c]
  OBVIOUS
<1>3. PICK m : m = [ o EXCEPT !.left = Left(t) ]
  OBVIOUS
<1>4. Matched(t, "retry") /\ FailStep(t, WithLeft(t))
  BY DEF RetryFails
<1>5. InStage(t, "acting") /\ m \in Copies /\ Fits(t, c, m) /\ WithLeft(t) = [ copies EXCEPT ![c] = m ] /\ m.arr = o.arr
  BY <1>1, <1>2, <1>3, <1>4, LeftIs
<1>6. /\ Top(t).list \in Nat /\ c \in 1 .. Len(copies) /\ copies \in Seq(Copies)
  BY <1>1, <1>5, GoingOn, KnowsIs
<1>7. PICK k : k = [ m EXCEPT !.list = Top(t).list ]
  OBVIOUS
<1>8. /\ k \in Copies /\ k.given = m.given /\ k.step = m.step /\ k.of = m.of /\ k.list = Top(t).list /\ k.arr = m.arr
  BY <1>5, <1>6, <1>7 DEF Copies
<1>9. Fits(t, c, k) /\ k.arr = copies[c].arr
  BY <1>2, <1>5, <1>8 DEF Fits
<1>10. PICK made : made = WithLeft(t)
  OBVIOUS
<1>11. [ made EXCEPT ![c].list = Top(t).list ] = [ copies EXCEPT ![c] = k ]
  <2>1. c \in DOMAIN copies
    BY <1>6
  <2> QED
    BY <1>5, <1>7, <1>10, <2>1
<1>12. FailStep(t, made)
  BY <1>4, <1>10
<1> QED
  BY <1>1, <1>5, <1>8, <1>9, <1>11, <1>12, FailTells

LEMMA OutOfRetriesTells == ASSUME NEW t, Knows(t), OutOfRetries(t) PROVE Tells(t)
<1>1. PICK f : f = [ Top(t) EXCEPT !.act = @ + 1 ]
  OBVIOUS
<1>2. /\ Matched(t, "retry") /\ InStage(t, "acting") /\ Left(t) = 0 /\ copies' = WithLeft(t) /\ checks' = checks
      /\ Stay(t, f)
  BY <1>1 DEF OutOfRetries, Matched, Acting
<1>3. Top(t) \in Frames /\ Top(t).fn = "step" /\ Top(t).stage = "acting"
  BY <1>2, GoingOn
<1>4. f.fn = "step" /\ f.stage = "acting" /\ f.list = Top(t).list /\ f.of = Top(t).of /\ f.copy = Top(t).copy
  BY <1>1, <1>3, NextAct
<1>5. Deals(t) /\ copies'[Top(t).copy].left = 0
  BY <1>2, LeftDeals
<1> QED
  BY <1>2, <1>4, <1>5, StayTells

\* The step is run again: its attempt is awaited now, if it was not before.
LEMMA AgainTells ==
  ASSUME NEW t, Knows(t), NEW stage \in {"acting", "retried"}, InStage(t, stage), Stay(t, Again(t, copies)), Deals(t),
         copies'[Top(t).copy].left # 0 \/ (stage = "retried" /\ copies'[Top(t).copy].left = copies[Top(t).copy].left)
  PROVE  Tells(t)
<1>1. PICK b : b = Top(t)
  OBVIOUS
<1>2. PICK f : f = Again(t, copies)
  OBVIOUS
<1>3. /\ RunInv /\ t \in Threads /\ Held(t, 1, 0) /\ stack[t] # <<>> /\ b.fn = "step" /\ b.stage = stage
  BY <1>1, GoingOn
<1>4. Stay(t, f)
  BY <1>2
<1>5. f \in Frames
  BY <1>3, <1>4, StayTyped
<1>6. f.fn = "step" /\ f.stage = "start" /\ f.list = b.list /\ f.arr = copies[b.copy].arr /\ f.of = b.copy
  BY <1>1, <1>2 DEF Again, RunStep
<1>7. Follows(t, f)
  BY <1>1, <1>3, <1>6 DEF Follows
<1>8. \A c : Awaits(Top(t), c) => Awaits(f, c)
  BY <1>1, <1>3, <1>6 DEF Awaits
<1>9. Turns(t) /\ Serves(t) /\ stack'[t][Len(stack[t])] = f /\ Len(stack'[t]) = Len(stack[t])
  BY <1>1, <1>3, <1>4, <1>5, <1>7, <1>8, StayTurns
<1>10. Len(stack[t]) \in Nat \ {0}
  BY <1>3, UnderIs
<1>11. Len(stack[t]) \in 1 .. Len(stack'[t])
  BY <1>9, <1>10
<1>12. \A c : HasTop(t, c) => Awaits(f, c)
  BY <1>1, <1>3, <1>6 DEF HasTop, Has, Awaits
<1>13. Keeps(t)
  BY <1>9, <1>11, <1>12 DEF Keeps
<1> QED
  BY <1>9, <1>13 DEF Tells

LEMMA RetryStepTells == ASSUME NEW t, Knows(t), RetryStep(t) PROVE Tells(t)
<1>1. /\ Matched(t, "retry") /\ InStage(t, "acting") /\ Left(t) > 0 /\ copies' = WithLeft(t) /\ checks' = checks
      /\ Stay(t, Again(t, copies))
  BY DEF RetryStep, Matched, Acting
<1>2. Deals(t) /\ copies'[Top(t).copy].left = Left(t)
  BY <1>1, LeftDeals
<1>3. Left(t) # 0
  BY <1>1
<1> QED
  BY <1>1, <1>2, <1>3, AgainTells

LEMMA RetriedTells == ASSUME NEW t, Knows(t), Retried(t) PROVE Tells(t)
<1>1. InStage(t, "retried") /\ Stay(t, Again(t, copies)) /\ UNCHANGED <<copies, checks>>
  BY DEF Retried
<1>2. Deals(t)
  BY <1>1, KnowsIs, DealsSame
<1> QED
  BY <1>1, <1>2, AgainTells

LEMMA RetryTargetTells == ASSUME NEW t, Knows(t), RetryTarget(t) PROVE Tells(t)
<1>1. PICK b : b = Top(t)
  OBVIOUS
<1>2. PICK a : a = Action(t)
  OBVIOUS
<1>3. PICK by : by = b.retrying \cup {Id(b)}
  OBVIOUS
<1>4. PICK f : f = [ b EXCEPT !.stage = "retried" ]
  OBVIOUS
<1>5. PICK g : g = IF a.workflow # None
                   THEN RunWorkflow(a.workflow, 1, NewList, Left(t) - 1, by)
                   ELSE RunStep(b.w, a.step, NewList, 0, by)
  OBVIOUS
<1>6. /\ Matched(t, "retry") /\ InStage(t, "acting") /\ Call(t, f, g) /\ Left(t) > 0
      /\ copies' = WithLeft(t) /\ checks' = checks
  BY <1>1, <1>2, <1>3, <1>4, <1>5 DEF RetryTarget, Matched, Acting
<1>7. /\ RunInv /\ t \in Threads /\ Held(t, 1, 0) /\ stack[t] # <<>> /\ b \in Frames /\ b.fn = "step" /\ b.stage = "acting"
  BY <1>1, <1>6, GoingOn
<1>8. f \in Frames /\ g \in Frames
  BY <1>6, <1>7, CallTyped
<1>9. f.fn = "step" /\ f.stage = "retried" /\ f.list = b.list /\ f.of = b.of /\ f.copy = b.copy
  BY <1>4, <1>7 DEF Frames
<1>10. Deals(t) /\ copies'[b.copy].left = Left(t) /\ Left(t) # 0
  BY <1>1, <1>6, LeftDeals
<1>11. Follows(t, f)
  BY <1>1, <1>7, <1>9, <1>10 DEF Follows
<1>12. g.fn = "step" => g.stage = "start" /\ g.of = 0 /\ g.arr = 0 /\ g.list = NewList
  BY <1>5 DEF RunWorkflow, RunStep
<1>13. NewList > Len(lists) /\ Len(stack[t]) \in Nat \ {0}
  BY <1>7, UnderIs DEF NewList
<1>14. \A c : ~Awaits(Top(t), c)
  BY <1>1, <1>7, NoAwaits
<1>15. g.fn = "step" => /\ g.stage = "start" /\ g.of = 0 /\ g.arr = 0
                        /\ f.fn = "step" => g.list > Len(lists)
  BY <1>12, <1>13
<1>16. Turns(t) /\ Serves(t) /\ stack'[t][Len(stack[t])] = f /\ Len(stack'[t]) = Len(stack[t]) + 1
  BY <1>1, <1>6, <1>7, <1>8, <1>11, <1>14, <1>15, CallTurns
<1>17. Len(stack[t]) \in 1 .. Len(stack'[t])
  BY <1>13, <1>16
<1>18. \A c : HasTop(t, c) => Awaits(f, c)
  <2>1. f.fn = "step" /\ f.stage = "retried" /\ f.copy = Top(t).copy
    BY <1>1, <1>9
  <2> QED
    BY <2>1 DEF HasTop, Has, Awaits
<1>19. Keeps(t)
  BY <1>16, <1>17, <1>18 DEF Keeps
<1> QED
  BY <1>10, <1>16, <1>19 DEF Tells

LEMMA GotoTells == ASSUME NEW t, Knows(t), Goto(t) PROVE Tells(t)
<1>1. PICK b : b = Top(t)
  OBVIOUS
<1>2. PICK a : a = Action(t)
  OBVIOUS
<1>3. PICK f : f = [ b EXCEPT !.stage = "gone" ]
  OBVIOUS
<1>4. PICK g : g = RunWorkflow(IF a.workflow # None THEN a.workflow ELSE b.w, From(t, a), NewList, 0, {})
  OBVIOUS
<1>5. InStage(t, "acting") /\ Call(t, f, g) /\ UNCHANGED <<copies, checks>>
  BY <1>1, <1>2, <1>3, <1>4 DEF Goto, Matched, Acting
<1>6. /\ RunInv /\ t \in Threads /\ Held(t, 1, 0) /\ stack[t] # <<>> /\ b \in Frames /\ b.fn = "step" /\ b.stage = "acting"
  BY <1>1, <1>5, GoingOn
<1>7. f \in Frames /\ g \in Frames
  BY <1>5, <1>6, CallTyped
<1>8. f.fn = "step" /\ f.stage = "gone" /\ f.list = b.list /\ f.of = b.of /\ f.copy = b.copy
  BY <1>3, <1>6 DEF Frames
<1>9. g.fn = "workflow"
  BY <1>4 DEF RunWorkflow
<1>10. copies'[b.copy].left = copies[b.copy].left
  BY <1>5
<1>11. Follows(t, f)
  BY <1>1, <1>6, <1>8, <1>10 DEF Follows
<1>12. \A c : ~Awaits(Top(t), c)
  BY <1>1, <1>6, NoAwaits
<1>13. Turns(t) /\ Serves(t)
  BY <1>1, <1>5, <1>6, <1>7, <1>8, <1>9, <1>11, <1>12, CallTurns
<1>14. Deals(t) /\ Keeps(t)
  BY <1>1, <1>5, <1>6, <1>10, DealsSame, KeepsLeft
<1> QED
  BY <1>13, <1>14 DEF Tells

LEMMA ThreadTells == ASSUME NEW t, Knows(t), Workflow(t) \/ Step(t) \/ Act(t) PROVE Tells(t)
<1>1. CASE Workflow(t)
  BY <1>1, NextStepTells, FinishTells, OutputsThrowTells DEF Workflow
<1>2. CASE Step(t)
  BY <1>2, StartBrokenTells, StartChildTells, StartMissingTells, ChildDoneTells, OverLimitTells, TimedOutTells,
     StartThrowsTells, RequestTells, RequestDoneTells DEF Step
<1>3. CASE Act(t)
  BY <1>3, NoMoreActionsTells, UnmatchedTells, BrokenActionTells, OutOfRetriesTells, RetryStepTells, RetryFailsTells,
     RetryTargetTells, RetriedTells, EndActionTells, GotoFailsTells, GotoTells, GoneTells DEF Act
<1> QED
  BY <1>1, <1>2, <1>3

LEMMA LastThread == ASSUME LastInv, NEW t \in Threads, Workflow(t) \/ Step(t) \/ Act(t) PROVE LastInv'
<1>1. Tells(t)
  BY KnowsHere, ThreadTells
<1> QED
  BY <1>1, ActsKeep DEF Tells

\* A step of runWorkflows: what it begins has no step yet, and what it reports
\* is what the last workflow returned.
Quiet ==
  /\ LastInv /\ GateInv' /\ UNCHANGED <<plan, copies, checks>> /\ DeadStay /\ Len(lists) <= Len(lists')
  /\ \A u \in Threads :
       \/ stack'[u] = stack[u]
       \/ stack[u] = <<>> /\ \A i \in 1 .. Len(stack'[u]) : stack'[u][i].fn = "workflow"
  /\ \A i \in 1 .. Len(results') :
       \/ i \in 1 .. Len(results) /\ results'[i] = results[i]
       \/ results'[i].list \in {0, ret[Main].list}
  /\ results' = results \/ \A u \in Threads : stack'[u] = <<>>

LEMMA QuietFrames ==
  ASSUME Quiet, NEW u \in Threads, NEW i,
         \/ i \in 1 .. Len(stack'[u]) /\ stack'[u][i].fn = "step"
         \/ i \in 1 .. Len(stack[u]) /\ stack[u][i].fn = "step"
  PROVE  stack'[u] = stack[u] /\ stack'[u][i] = stack[u][i] /\ i \in 1 .. Len(stack[u]) /\ i \in 1 .. Len(stack'[u])
<1>1. CASE stack'[u] = stack[u]
  BY <1>1
<1>2. CASE stack[u] = <<>> /\ \A j \in 1 .. Len(stack'[u]) : stack'[u][j].fn = "workflow"
  <2>1. Len(stack[u]) = 0 /\ i \notin 1 .. 0
    BY <1>2
  <2>2. i \in 1 .. Len(stack'[u]) /\ stack'[u][i].fn = "workflow"
    BY <1>2, <2>1
  <2>3. stack'[u][i].fn # "step"
    BY <2>2
  <2> QED
    BY <1>2, <2>1, <2>3
<1> QED
  BY <1>1, <1>2 DEF Quiet

LEMMA QuietHas ==
  ASSUME Quiet, NEW c
  PROVE  /\ Free(c)' <=> Free(c)
         /\ Superseded(c)' <=> Superseded(c)
         /\ Awaited(c) => Awaited(c)'
         /\ ChecksOf(c)' = ChecksOf(c)
<1>1. ASSUME NEW u \in Threads, NEW i \in 1 .. Len(stack'[u]), Has(stack'[u][i], c)
      PROVE  i \in 1 .. Len(stack[u]) /\ Has(stack[u][i], c)
  <2>1. stack'[u][i].fn = "step"
    BY <1>1 DEF Has
  <2>2. stack'[u][i] = stack[u][i] /\ i \in 1 .. Len(stack[u])
    BY <2>1, QuietFrames
  <2> QED
    BY <1>1, <2>2
<1>2. ASSUME NEW u \in Threads, NEW i \in 1 .. Len(stack[u]), Has(stack[u][i], c)
      PROVE  i \in 1 .. Len(stack'[u]) /\ Has(stack'[u][i], c)
  <2>1. stack[u][i].fn = "step"
    BY <1>2 DEF Has
  <2>2. stack'[u][i] = stack[u][i] /\ i \in 1 .. Len(stack'[u])
    BY <2>1, QuietFrames
  <2> QED
    BY <1>2, <2>2
<1>3. Free(c)' <=> Free(c)
  BY <1>1, <1>2 DEF Free
<1>4. Superseded(c)' <=> Superseded(c)
  BY DEF Quiet, Superseded
<1>5. ASSUME Awaited(c) PROVE Awaited(c)'
  <2>1. PICK u \in Threads : \E i \in 1 .. Len(stack[u]) : Awaits(stack[u][i], c)
    BY <1>5 DEF Awaited
  <2>2. PICK i \in 1 .. Len(stack[u]) : Awaits(stack[u][i], c)
    BY <2>1
  <2>3. stack[u][i].fn = "step"
    BY <2>2 DEF Awaits
  <2>4. stack'[u][i] = stack[u][i] /\ i \in 1 .. Len(stack'[u])
    BY <2>3, QuietFrames
  <2>5. Awaits(stack'[u][i], c)
    BY <2>2, <2>4
  <2> QED
    BY <2>4, <2>5 DEF Awaited
<1>6. ChecksOf(c)' = ChecksOf(c)
  BY DEF Quiet, ChecksOf
<1> QED
  BY <1>3, <1>4, <1>5, <1>6

LEMMA QuietLists ==
  ASSUME Quiet
  PROVE  /\ ListsOfResults' /\ TargetsApart'
         /\ \A l : Lost(l) => Lost(l)'
<1>1. /\ RunInv /\ RunInv' /\ GateInv /\ Len(lists) \in Nat /\ Len(lists') \in Nat /\ Len(lists) <= Len(lists')
      /\ ListsOfResults /\ TargetsApart
  BY DEF Quiet, LastInv, GateInv, RunInv, TypeOK
<1>2. Main \in Threads /\ ret[Main].list \in Nat /\ ret[Main].list <= Len(lists)
  <2>1. Main \in Threads
    BY DEF Threads
  <2>2. Answered(Main) /\ ret \in [Threads -> Returned]
    BY <1>1, <2>1 DEF GateInv, RunInv, TypeOK
  <2>3. ret[Main] \in Returned
    BY <2>1, <2>2
  <2> QED
    BY <2>1, <2>2, <2>3 DEF Answered, Returned
<1>3. ASSUME NEW i \in 1 .. Len(results')
      PROVE  (i \in 1 .. Len(results) /\ results'[i] = results[i]) \/ results'[i].list \in {0, ret[Main].list}
  BY DEF Quiet
<1>4. ASSUME NEW i \in 1 .. Len(results') PROVE results'[i].list <= Len(lists')
  <2>1. CASE i \in 1 .. Len(results) /\ results'[i] = results[i]
    <3>1. results' \in Seq(Results)
      BY <1>1 DEF RunInv, TypeOK
    <3>2. results'[i] \in Results
      BY <3>1
    <3>3. results'[i].list \in Nat
      BY <3>2 DEF Results
    <3>4. results'[i].list <= Len(lists)
      BY <1>1, <2>1 DEF ListsOfResults
    <3> QED
      BY <1>1, <3>3, <3>4
  <2>2. CASE results'[i].list \in {0, ret[Main].list}
    BY <1>1, <1>2, <2>2
  <2> QED
    BY <1>3, <2>1, <2>2
<1>5. ASSUME NEW l, Lost(l) PROVE Lost(l)'
  <2>1. Dead(l)'
    BY <1>5 DEF Quiet, DeadStay, Lost
  <2>2. l # 0 /\ ret[Main].list # l
    BY <1>1, <1>2, <1>5 DEF Lost, Dead
  <2>3. ASSUME NEW i \in 1 .. Len(results') PROVE results'[i].list # l
    BY <1>3, <1>5, <2>2 DEF Lost
  <2> QED
    BY <2>1, <2>3 DEF Lost
<1>6. ASSUME NEW u \in Threads, NEW i \in 2 .. Len(stack'[u]), stack'[u][i].fn = "step", stack'[u][i - 1].fn = "step",
             NEW j \in 1 .. Len(results')
      PROVE  results'[j].list # stack'[u][i].list
  <2>1. stack'[u] # <<>>
    BY <1>6
  <2>2. results' = results
    BY <2>1 DEF Quiet
  <2>3. i \in 1 .. Len(stack'[u])
    BY <1>6
  <2>4. stack'[u] = stack[u]
    BY <1>6, <2>3, QuietFrames
  <2> QED
    BY <1>1, <1>6, <2>2, <2>4 DEF TargetsApart
<1> QED
  BY <1>4, <1>5, <1>6 DEF ListsOfResults, TargetsApart

LEMMA QuietKeeps == ASSUME Quiet PROVE LastInv'
<1>1. /\ LastInv /\ GateInv' /\ copies' = copies /\ checks' = checks
      /\ Unique /\ RunInv
  BY DEF Quiet, LastInv, GateInv
<1>2. ListsOfResults' /\ TargetsApart'
  BY QuietLists
<1>3. ASSUME NEW u \in Threads, NEW v \in Threads, NEW i \in 1 .. Len(stack'[u]), NEW j \in 1 .. Len(stack'[v]),
             NEW c, Has(stack'[u][i], c)
      PROVE  /\ Has(stack'[v][j], c) => u = v /\ i = j
             /\ stack'[v][j].fn = "step" => stack'[v][j].of # c
  <2>1. stack'[u][i].fn = "step"
    BY <1>3 DEF Has
  <2>2. i \in 1 .. Len(stack[u]) /\ stack'[u][i] = stack[u][i]
    BY <2>1, QuietFrames
  <2>3. stack'[v][j].fn = "step" => j \in 1 .. Len(stack[v]) /\ stack'[v][j] = stack[v][j]
    BY QuietFrames
  <2>4. Has(stack'[v][j], c) => stack'[v][j].fn = "step"
    BY DEF Has
  <2>5. Has(stack[u][i], c)
    BY <1>3, <2>2
  <2>6. CASE stack'[v][j].fn = "step"
    <3>0. Unique /\ i \in 1 .. Len(stack[u]) /\ j \in 1 .. Len(stack[v]) /\ Has(stack[u][i], c)
      BY <1>1, <2>2, <2>3, <2>5, <2>6
    <3>1. /\ Has(stack[v][j], c) => u = v /\ i = j
          /\ stack[v][j].fn = "step" => stack[v][j].of # c
      BY <3>0, UniqueIs
    <3> QED
      BY <2>3, <2>6, <3>1
  <2> QED
    BY <2>4, <2>6
<1>4. Unique'
  BY <1>3 DEF Unique
<1>5. ASSUME NEW u \in Threads, NEW i \in 1 .. Len(stack'[u]) PROVE (Holds(stack[u][i]) /\ Retries(stack[u][i]))'
  <2>1. PICK f : f = stack'[u][i]
    OBVIOUS
  <2>2. CASE f.fn # "step"
    BY <2>1, <2>2 DEF Holds, Retries
  <2>3. CASE f.fn = "step"
    <3>1. i \in 1 .. Len(stack[u]) /\ f = stack[u][i]
      BY <2>1, <2>3, QuietFrames
    <3>2. Holds(f) /\ Retries(f)
      BY <1>1, <3>1 DEF LastInv
    <3>3. (Superseded(f.copy)' <=> Superseded(f.copy)) /\ (Free(f.arr)' <=> Free(f.arr))
      BY QuietHas
    <3>4. Holds(f)' /\ Retries(f)'
      BY <1>1, <3>2, <3>3 DEF Holds, Retries
    <3> QED
      BY <2>1, <3>4 DEF Holds, Retries
  <2> QED
    BY <2>2, <2>3
<1>6. ASSUME NEW c \in 1 .. Len(copies') PROVE Owns(c)' /\ Decided(c)'
  <2>1. Owns(c) /\ Decided(c)
    BY <1>1 DEF LastInv
  <2>2. PICK a : a = copies[c].arr
    OBVIOUS
  <2>3. PICK l : l = copies[c].list
    OBVIOUS
  <2>4. /\ Superseded(c)' <=> Superseded(c)
        /\ Free(c)' <=> Free(c)
        /\ Free(a)' <=> Free(a)
        /\ Awaited(c) => Awaited(c)'
        /\ ChecksOf(c)' = ChecksOf(c)
    BY QuietHas
  <2>5. Owns(c)'
    BY <1>1, <2>1, <2>2, <2>4 DEF Owns
  <2>6. Marked(c) => Marked(c)'
    BY <2>4 DEF Marked
  <2>7. Unlisted(c) => Unlisted(c)'
    BY <1>1, <2>4 DEF Unlisted
  <2>8. Lost(l) => Lost(l)'
    BY QuietLists
  <2>9. ASSUME Recorded(l) PROVE Recorded(l)'
    <3>1. PICK d \in 1 .. Len(copies) : Caught(d, l)
      BY <2>9 DEF Recorded
    <3>2. Free(d)' <=> Free(d)
      BY QuietHas
    <3>3. Caught(d, l)'
      BY <1>1, <3>1, <3>2 DEF Caught
    <3> QED
      BY <1>1, <3>1, <3>3 DEF Recorded
  <2>10. Decided(c)'
    <3>1. copies'[c].list = l /\ copies'[c] = copies[c]
      BY <1>1, <2>3
    <3>2. CASE copies[c].given = 0 /\ copies[c].left # 0
      <4>1. \/ Superseded(c) \/ Awaited(c) \/ Marked(c) \/ Recorded(l) \/ Lost(l) \/ Unlisted(c)
        BY <2>1, <2>3, <3>2 DEF Decided
      <4>2. \/ Superseded(c)' \/ Awaited(c)' \/ Marked(c)' \/ Recorded(l)' \/ Lost(l)' \/ Unlisted(c)'
        BY <2>4, <2>6, <2>7, <2>8, <2>9, <4>1
      <4>3. Recorded(l)' => Recorded(copies[c].list)'
        BY <3>1 DEF Recorded, Caught
      <4>4. Lost(l)' => Lost(copies[c].list)'
        BY <3>1 DEF Lost, Dead
      <4> QED
        BY <4>2, <4>3, <4>4 DEF Decided
    <3>3. CASE ~(copies[c].given = 0 /\ copies[c].left # 0)
      BY <3>1, <3>3 DEF Decided
    <3> QED
      BY <3>2, <3>3
  <2> QED
    BY <2>5, <2>10
<1> QED
  BY <1>1, <1>2, <1>4, <1>5, <1>6 DEF LastInv

LEMMA QuietRest ==
  ASSUME LastInv, GateInv', UNCHANGED <<plan, copies, checks, lists, stack, ret>>,
         results' = results \/ (/\ \A u \in Threads : stack[u] = <<>>
                                /\ \E r : r.list \in {0, ret[Main].list} /\ results' = Append(results, r))
  PROVE  Quiet
<1>1. RunInv /\ results \in Seq(Results) /\ Len(lists) \in Nat
  BY DEF LastInv, GateInv, RunInv, TypeOK
<1>2. DeadStay /\ Len(lists) <= Len(lists')
  BY <1>1 DEF DeadStay, Dead
<1>3. ASSUME NEW i \in 1 .. Len(results')
      PROVE  (i \in 1 .. Len(results) /\ results'[i] = results[i]) \/ results'[i].list \in {0, ret[Main].list}
  <2>1. CASE results' = results
    BY <2>1
  <2>2. CASE \E r : r.list \in {0, ret[Main].list} /\ results' = Append(results, r)
    <3>1. PICK r : r.list \in {0, ret[Main].list} /\ results' = Append(results, r)
      BY <2>2
    <3>2. results \in Seq(Results \cup {r})
      BY <1>1
    <3>3. /\ Len(results) \in Nat /\ Len(results') = Len(results) + 1 /\ results'[Len(results) + 1] = r
          /\ \A j \in 1 .. Len(results) : results'[j] = results[j]
      BY <3>1, <3>2
    <3> QED
      BY <3>1, <3>3
  <2> QED
    BY <2>1, <2>2
<1>4. results' = results \/ \A u \in Threads : stack'[u] = <<>>
  OBVIOUS
<1> QED
  BY <1>2, <1>3, <1>4 DEF Quiet

LEMMA QuietBegin ==
  ASSUME LastInv, GateInv', NEW t \in Threads, NEW w \in Workflows, Run(t, w), stack[t] = <<>>,
         UNCHANGED <<plan, copies, checks, ret, threw, results>>
  PROVE  Quiet
<1>1. PICK r : r = NewList
  OBVIOUS
<1>2. PICK n : n = Len(copies)
  OBVIOUS
<1>3. GateInv /\ RunInv' /\ stack \in [Threads -> Seq(Frames)] /\ Len(lists) \in Nat
  BY DEF LastInv, GateInv, RunInv, TypeOK
<1>4. /\ \A u \in Threads : u # t => stack'[u] = stack[u]
      /\ DeadStay /\ r \in Nat \ {0} /\ r = Len(lists) + 1 /\ Len(lists') = r
  BY <1>1, <1>2, <1>3, GateBegin
<1>5. PICK f : f = RunWorkflow(w, 1, NewList, 0, {})
  OBVIOUS
<1>6. f.fn = "workflow"
  BY <1>5 DEF RunWorkflow
<1>7. stack'[t] = <<f>>
  BY <1>3, <1>5 DEF Run
<1>8. \A i \in 1 .. Len(stack'[t]) : stack'[t][i].fn = "workflow"
  <2>1. Len(<<f>>) = 1 /\ <<f>>[1] = f
    OBVIOUS
  <2>2. \A i \in 1 .. 1 : i = 1
    OBVIOUS
  <2> QED
    BY <1>6, <1>7, <2>1, <2>2
<1>9. \A u \in Threads :
        \/ stack'[u] = stack[u]
        \/ stack[u] = <<>> /\ \A i \in 1 .. Len(stack'[u]) : stack'[u][i].fn = "workflow"
  BY <1>4, <1>8
<1>10. Len(lists) <= Len(lists') /\ results' = results
  BY <1>3, <1>4
<1> QED
  BY <1>4, <1>9, <1>10 DEF Quiet

LEMMA QuietFlow == ASSUME LastInv, GateInv', Flow PROVE Quiet
<1>1. /\ PhasesOK /\ RunInv /\ GateInv /\ Main \in Threads /\ Workflows \subseteq Threads
      /\ Threads = Workflows \cup {Main}
  BY DEF LastInv, GateInv, Threads
<1>2. phase = "next" \/ (phase = "running" /\ stack[Main] = <<>>) => \A u \in Threads : stack[u] = <<>>
  BY <1>1 DEF PhasesOK
<1>3. CASE RunNext
  <2>1. /\ phase = "next" /\ at <= Len(plan.order) /\ Needs = {} /\ Run(Main, Current)
        /\ UNCHANGED <<plan, copies, checks, ret, threw, results>>
    BY <1>3 DEF RunNext
  <2>2. Current \in Workflows /\ stack[Main] = <<>>
    BY <1>1, <1>2, <2>1, CurrentIs
  <2> QED
    BY <1>1, <2>1, <2>2, QuietBegin
<1>4. CASE DependenciesDone
  <2>1. /\ phase = "depending" /\ pending = {} /\ UNCHANGED <<plan, copies, checks, ret, threw>>
        /\ \A d \in Needs : stack[d] = <<>>
    BY <1>4 DEF DependenciesDone
  <2>2. \A u \in Threads : stack[u] = <<>>
    BY <1>1, <2>1 DEF PhasesOK
  <2>3. CASE \E d \in Needs : Failed(ret[d].list)
    <3>0. PICK q : q = Result(Current, 0, TRUE, FALSE)
      OBVIOUS
    <3>1. results' = Append(results, q) /\ UNCHANGED <<lists, stack>>
      BY <1>4, <2>3, <3>0 DEF DependenciesDone
    <3>2. q.list = 0
      BY <3>0 DEF Result
    <3>3. \E r : r.list \in {0, ret[Main].list} /\ results' = Append(results, r)
      BY <3>1, <3>2
    <3> QED
      BY <2>1, <2>2, <3>1, <3>3, QuietRest
  <2>4. CASE ~ \E d \in Needs : Failed(ret[d].list)
    <3>1. Run(Main, Current) /\ results' = results
      BY <1>4, <2>4 DEF DependenciesDone
    <3>2. at <= Len(plan.order)
      BY <1>1, <2>1 DEF RunInv, PhaseOK
    <3>3. Missing \notin Needs
      BY <1>1, <2>1 DEF PhasesOK
    <3>4. Current \in Workflows /\ stack[Main] = <<>>
      BY <1>1, <2>2, <3>2, <3>3, CurrentIs
    <3> QED
      BY <1>1, <2>1, <3>1, <3>4, QuietBegin
  <2> QED
    BY <2>3, <2>4
<1>5. CASE DependencyMissing
  <2>0. PICK q : q = Result(Current, 0, TRUE, FALSE)
    OBVIOUS
  <2>1. /\ phase = "next" /\ UNCHANGED <<plan, copies, checks, lists, stack, ret>> /\ results' = Append(results, q)
    BY <1>5, <2>0 DEF DependencyMissing
  <2>2. q.list = 0
    BY <2>0 DEF Result
  <2>3. \E r : r.list \in {0, ret[Main].list} /\ results' = Append(results, r)
    BY <2>1, <2>2
  <2> QED
    BY <1>2, <2>1, <2>3, QuietRest
<1>6. CASE WorkflowDone
  <2>1. phase = "running" /\ stack[Main] = <<>> /\ UNCHANGED <<plan, copies, checks, lists, stack, ret>>
    BY <1>6 DEF WorkflowDone
  <2>2. CASE threw[Main]
    <3>1. results' = results
      BY <1>6, <2>2 DEF WorkflowDone
    <3> QED
      BY <2>1, <3>1, QuietRest
  <2>3. CASE ~threw[Main]
    <3>1. PICK r : r = Result(Current, ret[Main].list, FALSE, ret[Main].timeout)
      OBVIOUS
    <3>2. results' = Append(results, r)
      BY <1>6, <2>3, <3>1 DEF WorkflowDone
    <3>3. r.list = ret[Main].list
      BY <3>1 DEF Result
    <3>4. \E q : q.list \in {0, ret[Main].list} /\ results' = Append(results, q)
      BY <3>2, <3>3
    <3> QED
      BY <1>2, <2>1, <3>4, QuietRest
  <2> QED
    BY <2>2, <2>3
<1>7. CASE StartDependencies \/ DependencyThrew \/ AllDone
  <2>1. UNCHANGED <<plan, copies, checks, lists, stack, ret, results>>
    BY <1>7 DEF StartDependencies, DependencyThrew, AllDone
  <2> QED
    BY <2>1, QuietRest
<1> QED
  BY <1>3, <1>4, <1>5, <1>6, <1>7 DEF Flow

LEMMA LastNext == ASSUME LastInv, [Next]_vars PROVE LastInv'
<1>1. GateInv /\ GateInv'
  BY GateNext DEF LastInv
<1>2. CASE Runs
  BY <1>2, LastThread DEF Runs
<1>3. CASE Starts
  <2>1. PICK d \in Workflows : StartDependency(d)
    BY <1>3 DEF Starts
  <2>2. /\ d \in pending /\ Run(d, d) /\ UNCHANGED <<plan, copies, checks, ret, threw, results>>
    BY <2>1 DEF StartDependency
  <2>3. d \in Threads /\ stack[d] = <<>>
    BY <1>1, <2>2 DEF GateInv, PhasesOK, Threads
  <2> QED
    BY <1>1, <2>2, <2>3, QuietBegin, QuietKeeps
<1>4. CASE Flow
  BY <1>1, <1>4, QuietFlow, QuietKeeps
<1>5. CASE TimeUp \/ Over \/ UNCHANGED vars
  <2>1. UNCHANGED <<plan, copies, checks, lists, stack, ret, results>>
    BY <1>5 DEF TimeUp, Over, vars
  <2> QED
    BY <1>1, <2>1, QuietRest, QuietKeeps
<1> QED
  BY <1>2, <1>3, <1>4, <1>5 DEF Next

LEMMA LastInit == ASSUME Init PROVE LastInv
<1>1. GateInv /\ Len(copies) = 0 /\ Len(results) = 0
  BY GateInit DEF Init
<1>2. \A u \in Threads : stack[u] = <<>> /\ Len(stack[u]) = 0
  BY DEF Init
<1>3. Unique
  BY <1>2 DEF Unique
<1>4. ListsOfResults
  BY <1>1 DEF ListsOfResults
<1>5. TargetsApart
  BY <1>2 DEF TargetsApart
<1>6. \A u \in Threads : \A i \in 1 .. Len(stack[u]) : Holds(stack[u][i]) /\ Retries(stack[u][i])
  BY <1>2
<1>7. \A c \in 1 .. Len(copies) : Owns(c) /\ Decided(c)
  BY <1>1
<1> QED
  BY <1>1, <1>3, <1>4, <1>5, <1>6, <1>7 DEF LastInv

LEMMA LastAlways == Spec => []LastInv
<1>1. Init => LastInv
  BY LastInit
<1>2. LastInv /\ [Next]_vars => LastInv'
  BY LastNext
<1> QED
  BY <1>1, <1>2, PTL DEF Spec

LEMMA LastDecides == ASSUME LastInv PROVE LastAttemptsDecide
<1> SUFFICES ASSUME phase = "done", NEW i \in DOMAIN results
             PROVE  /\ Failed(results[i].list) => \E c \in Reported(i) : ~Superseded(c) /\ ChecksOf(c) # {}
                    /\ (\E c \in Reported(i) :
                          /\ ~Superseded(c) /\ copies[c].given = 0
                          /\ ChecksOf(c) # {} /\ "action" \notin ChecksOf(c)) => Failed(results[i].list)
  BY DEF LastAttemptsDecide
<1>1. /\ GateInv /\ RunInv /\ copies \in Seq(Copies) /\ results \in Seq(Results)
      /\ DOMAIN copies = 1 .. Len(copies) /\ DOMAIN results = 1 .. Len(results)
  BY DEF LastInv, GateInv, RunInv, TypeOK
<1>2. \A u \in Threads : Len(stack[u]) = 0
  <2>1. \A u \in Threads : stack[u] = <<>>
    BY <1>1 DEF GateInv, PhasesOK, Threads
  <2> QED
    BY <2>1
<1>3. PICK list : list = results[i].list
  OBVIOUS
<1>4. ASSUME Failed(list) PROVE \E c \in Reported(i) : ~Superseded(c) /\ ChecksOf(c) # {}
  <2>1. PICK c \in DOMAIN copies : Counted(c) /\ Home[copies[c].list] = list /\ ChecksOf(c) # {}
    BY <1>4 DEF Failed
  <2>2. c \in Reported(i) /\ copies[c].left = 0
    BY <1>3, <2>1 DEF Reported, Counted
  <2>3. Owns(c)
    BY <1>1, <2>1 DEF LastInv
  <2>4. ~Superseded(c)
    BY <2>2, <2>3 DEF Owns
  <2> QED
    BY <2>1, <2>2, <2>4
<1>5. ASSUME NEW c \in Reported(i), ~Superseded(c), copies[c].given = 0, ChecksOf(c) # {}, "action" \notin ChecksOf(c)
      PROVE  Failed(list)
  <2>1. c \in DOMAIN copies /\ copies[c].list # 0 /\ Home[copies[c].list] = list
    BY <1>3, <1>5 DEF Reported
  <2>2. PICK l : l = copies[c].list
    OBVIOUS
  <2>3. CASE copies[c].left = 0
    BY <1>5, <2>1, <2>3 DEF Failed, Counted
  <2>4. CASE copies[c].left # 0
    <3>1. Decided(c)
      BY <1>1, <2>1 DEF LastInv
    <3>2. ~Awaited(c)
      BY <1>2 DEF Awaited
    <3>3. ~Marked(c) /\ ~Unlisted(c)
      BY <1>5, <2>1 DEF Marked, Unlisted
    <3>4. ~Lost(l)
      <4>1. SUFFICES ASSUME Lost(l) PROVE FALSE
        OBVIOUS
      <4>2. l \in 1 .. Len(lists) /\ lists[l] = 0 /\ list # l
        BY <1>1, <1>3, <4>1 DEF Lost, Dead
      <4>3. ListsIn(1)
        BY <1>1 DEF GateInv, Region, Threads
      <4>4. Home = HomeIn(lists) /\ Len(lists) \in Nat /\ Inside(lists, Len(lists))
        BY <1>1, <4>3, HomeHere
      <4>5. Home[l] = l
        BY <4>2, <4>4, HomeIs
      <4> QED
        BY <2>1, <2>2, <4>2, <4>5
    <3>5. Recorded(l)
      BY <1>5, <2>2, <2>4, <3>1, <3>2, <3>3, <3>4 DEF Decided
    <3>6. PICK d \in 1 .. Len(copies) : Caught(d, l)
      BY <3>5 DEF Recorded
    <3>7. copies[d].list = l /\ copies[d].left = 0 /\ copies[d].arr = 0 /\ checks[copies[d].step] # {}
      BY <3>6 DEF Caught
    <3>8. Counted(d) /\ Home[copies[d].list] = list /\ ChecksOf(d) # {}
      BY <2>1, <2>2, <3>7 DEF Counted, ChecksOf
    <3> QED
      BY <1>1, <3>6, <3>8 DEF Failed
  <2> QED
    BY <2>3, <2>4
<1> QED
  BY <1>3, <1>4, <1>5

\* In every description, however its steps are retried, the last attempt of a
\* step decides: a reported workflow fails only if a reported attempt that no other
\* took the place of has failed checks, and it does fail if such an attempt was
\* made outside the target workflow of a retry and no action of it was broken
\* (runStep and runActions in respect-core/src/modules/flow-runner/run-step.ts,
\* calculateTotals in respect-core/src/modules/logger-output/calculate-tests-passed.ts).
THEOREM LastAttempts == Spec => []LastAttemptsDecide
<1>1. LastInv => LastAttemptsDecide
  BY LastDecides
<1> QED
  BY <1>1, LastAlways, PTL
==============================================================================
