---------------------------- MODULE Client_proofs ----------------------------
(***************************************************************************)
(* Proofs about the generated client.  HttpSend and EventStream: for calls *)
(* of any kinds, any number of middlewares and of events, and every order  *)
(* of aborts, timeouts, broken connections and reconnections.              *)
(*                                                                         *)
(* The invariant of `send` counts the attempts that are left, knows why    *)
(* the last fetch rejected, which bodies are open and what the onSettled   *)
(* hooks were told.  That of the stream says where a connection is and     *)
(* that what is read next follows the last event or the last id.           *)
(*                                                                         *)
(* For Pagination, with any number of items and size of a page, it says    *)
(* which items the position at hand leaves behind and that the page before *)
(* it was one of them, full or the last.                                   *)
(***************************************************************************)
EXTENDS EventStream, Pagination, SequenceTheorems, TLAPS

Pending == {"idle", "loop", "fetching", "askError", "responding", "askResponse", "sleeping"}

\* How many attempts there can be yet.
Bounded ==
  /\ phase = "idle" => attempt = 0 /\ hook = 0
  /\ phase \in {"loop", "askError", "askResponse", "sleeping"} => attempt < MaxAttempts
  /\ phase \in {"loop", "sleeping"} /\ attempt > 0 => call.resendable \/ call.custom
  /\ UnsafeSentOnce

\* What the last rejection was put down to.
Named ==
  /\ timedOut => cause = "budget"
  /\ cause = "budget" => timedOut \/ aborted
  /\ phase = "askError" => cause # Nothing
  /\ IF phase \in Pending THEN outcome = Nothing ELSE outcome \in Outcomes
  /\ TimeoutsAreNamed

\* Which bodies are open.
Bodies ==
  /\ BodiesReleased
  /\ phase = "settling" /\ outcome \notin {"ok", "hook"} => open = {}
  /\ phase \notin {"returned", "thrown"} => last = Nothing \/ last \in open

\* What the onSettled hooks were told.
Settled ==
  /\ phase \in Pending => told = {} /\ ~hookFailed
  /\ phase = "settling" =>
       /\ hook \in 1..(Hooks + 1) /\ told = {<<h, outcome, last>> : h \in 1..(hook - 1)}
       /\ hookFailed => outcome = "ok"
  /\ phase = "returned" => outcome = "ok" /\ ~hookFailed
  /\ phase = "thrown" => outcome # "ok" /\ (hookFailed => outcome = "hook")
  /\ phase \in {"returned", "thrown"} /\ hook > 0 =>
       told = {<<h, IF hookFailed THEN "ok" ELSE outcome, last>> : h \in 1..Hooks}

SendInv == SendTypeOK /\ Bounded /\ Named /\ Bodies /\ Settled

\* Where the connection is: what is read, or was, is an answer that is ok, and no
\* event that does not parse was passed.
Connected ==
  /\ sse \in {"reading", "yielding", "flushing"} =>
       phase = "returned" /\ status = "ok" /\ (resumes => taken \notin malformed)
  /\ lastEventId \notin malformed
  /\ ReadersReleased /\ DefinitiveErrorsEnd

\* How far the stream of a server that resumes is.
Forward ==
  /\ partial => got < Last
  /\ resumes =>
       /\ sse \in {"reading", "yielding"} => taken \in {at, lastEventId}
       /\ lastEventId <= at
       /\ sse = "flushing" => at = Last
  /\ CompleteAtEnd

StreamInv == SendInv /\ StreamTypeOK /\ Connected /\ Forward

------------------------------------------------------------------------------
(* The steps of send, and what a stream does to its call. *)

LEMMA AttemptsCounted ==
  ASSUME call \in CallKinds
  PROVE  MaxAttempts \in Nat /\ 0 \in 0..MaxAttempts
BY SendAssumption DEF MaxAttempts, Traits

LEMMA CallStarts == SendInit => SendInv
<1> USE SendAssumption DEF SendInit, Fresh
<1>1. SendInit => SendTypeOK
  <2> SUFFICES ASSUME SendInit PROVE SendTypeOK
    OBVIOUS
  <2>1. call \in CallKinds /\ attempt \in 0..MaxAttempts
    BY AttemptsCounted
  <2>2. phase \in Phases
    BY DEF Phases
  <2> QED
    BY <2>1, <2>2 DEF SendTypeOK
<1>2. SendInit => Bounded /\ Named
  BY DEF Bounded, UnsafeSentOnce, Named, Pending, TimeoutsAreNamed, Outcomes
<1>3. SendInit => Bodies /\ Settled
  BY DEF Bodies, BodiesReleased, Settled, Pending
<1> QED
  BY <1>1, <1>2, <1>3 DEF SendInv

\* A stream begins its next call.
LEMMA NextCallKeeps ==
  ASSUME SendInv, SendAgain, UNCHANGED <<call, aborted>>
  PROVE  SendInv'
<1> USE SendAssumption DEF SendAgain
<1>1. SendTypeOK'
  <2>1. call \in CallKinds /\ aborted \in BOOLEAN
    BY DEF SendInv, SendTypeOK
  <2>2. MaxAttempts' = MaxAttempts
    BY DEF MaxAttempts
  <2> QED
    BY <2>1, <2>2, AttemptsCounted DEF SendTypeOK, Phases
<1>2. Bounded' /\ Named'
  BY DEF Bounded, UnsafeSentOnce, Named, Pending, TimeoutsAreNamed, Outcomes
<1>3. Bodies' /\ Settled'
  BY DEF Bodies, BodiesReleased, Settled, Pending
<1> QED
  BY <1>1, <1>2, <1>3 DEF SendInv

LEMMA SendStays ==
  ASSUME SendInv, UNCHANGED sendVars
  PROVE  SendInv'
BY DEF SendInv, SendTypeOK, Bounded, UnsafeSentOnce, MaxAttempts, Named, TimeoutsAreNamed, Bodies,
   BodiesReleased, Settled, sendVars, network, answer, ending

\* The body of the response is read to its end, or cancelled.
LEMMA ReleaseKeeps ==
  ASSUME SendInv, Release, phase = "returned"
  PROVE  SendInv' /\ UNCHANGED <<phase, status, outcome, aborted, call>> /\ open' = {}
<1> USE DEF Release, network, ending
<1>1. SendTypeOK' /\ Bounded' /\ Named'
  BY DEF SendInv, SendTypeOK, Bounded, UnsafeSentOnce, MaxAttempts, Named, TimeoutsAreNamed
<1>2. Bodies' /\ Settled'
  BY DEF SendInv, Bodies, BodiesReleased, Settled, Pending
<1> QED
  BY <1>1, <1>2 DEF SendInv

LEMMA CallKeeps ==
  ASSUME SendInv, Call
  PROVE  SendInv'
<1> USE SendAssumption DEF SendInv, Call, network, answer, ending
<1>1. SendTypeOK'
  BY DEF SendTypeOK, Phases, Outcomes, Statuses, MaxAttempts, Traits, Bounded, Named, Pending
<1>2. Bounded'
  BY DEF SendTypeOK, Bounded, UnsafeSentOnce, MaxAttempts, Traits
<1>3. Named'
  BY DEF SendTypeOK, Named, Pending, TimeoutsAreNamed, Outcomes
<1>4. Bodies'
  BY DEF SendTypeOK, Bodies, BodiesReleased, Named, Pending, Settled
<1>5. Settled'
  BY DEF SendTypeOK, Settled, Named, Pending, Outcomes, Bounded
<1> QED
  BY <1>1, <1>2, <1>3, <1>4, <1>5

LEMMA AttemptKeeps ==
  ASSUME SendInv, Attempt
  PROVE  SendInv'
<1> USE SendAssumption DEF SendInv, Attempt, network, answer, ending
<1>1. SendTypeOK'
  BY DEF SendTypeOK, Phases, Outcomes, Statuses, MaxAttempts, Traits, Bounded, Named, Pending
<1>2. Bounded'
  BY DEF SendTypeOK, Bounded, UnsafeSentOnce, MaxAttempts, Traits
<1>3. Named'
  BY DEF SendTypeOK, Named, Pending, TimeoutsAreNamed, Outcomes
<1>4. Bodies'
  BY DEF SendTypeOK, Bodies, BodiesReleased, Named, Pending, Settled
<1>5. Settled'
  BY DEF SendTypeOK, Settled, Named, Pending, Outcomes
<1> QED
  BY <1>1, <1>2, <1>3, <1>4, <1>5

LEMMA AbortedBeforeKeeps ==
  ASSUME SendInv, AbortedBefore
  PROVE  SendInv'
<1> USE SendAssumption DEF SendInv, AbortedBefore, network, answer, ending, SettleCall
<1>1. SendTypeOK'
  BY DEF SendTypeOK, Phases, Outcomes, Statuses, MaxAttempts, Traits, Bounded, Named, Pending
<1>2. Bounded'
  BY DEF SendTypeOK, Bounded, UnsafeSentOnce, MaxAttempts, Traits
<1>3. Named'
  BY DEF SendTypeOK, Named, Pending, TimeoutsAreNamed, Outcomes
<1>4. Bodies'
  BY DEF SendTypeOK, Bodies, BodiesReleased, Named, Pending, Settled
<1>5. Settled'
  BY DEF SendTypeOK, Settled, Named, Pending, Outcomes
<1> QED
  BY <1>1, <1>2, <1>3, <1>4, <1>5

LEMMA AnswersKeeps ==
  ASSUME SendInv, NEW s \in Statuses, Answers(s)
  PROVE  SendInv'
<1> USE SendAssumption DEF SendInv, Answers, network, answer, ending, Statuses
<1>1. SendTypeOK'
  BY DEF SendTypeOK, Phases, Outcomes, Statuses, MaxAttempts, Traits, Bounded, Named, Pending
<1>2. Bounded'
  BY DEF SendTypeOK, Bounded, UnsafeSentOnce, MaxAttempts, Traits
<1>3. Named'
  BY DEF SendTypeOK, Named, Pending, TimeoutsAreNamed, Outcomes
<1>4. Bodies'
  BY DEF SendTypeOK, Bodies, BodiesReleased, Named, Pending, Settled
<1>5. Settled'
  BY DEF SendTypeOK, Settled, Named, Pending, Outcomes
<1> QED
  BY <1>1, <1>2, <1>3, <1>4, <1>5

LEMMA RejectsKeeps ==
  ASSUME SendInv, NEW k \in Causes, Rejects(k)
  PROVE  SendInv'
<1> USE SendAssumption DEF SendInv, Rejects, network, answer, ending, SettleCall, Causes, MayRetry, Surfaced
<1>1. SendTypeOK'
  BY DEF SendTypeOK, Phases, Outcomes, Statuses, MaxAttempts, Traits, Bounded, Named, Pending
<1>2. Bounded'
  BY DEF SendTypeOK, Bounded, UnsafeSentOnce, MaxAttempts, Traits
<1>3. Named'
  BY DEF SendTypeOK, Named, Pending, TimeoutsAreNamed, Outcomes
<1>4. Bodies'
  BY DEF SendTypeOK, Bodies, BodiesReleased, Named, Pending, Settled
<1>5. Settled'
  BY DEF SendTypeOK, Settled, Named, Pending, Outcomes
<1> QED
  BY <1>1, <1>2, <1>3, <1>4, <1>5

LEMMA SaysOfErrorKeeps ==
  ASSUME SendInv, NEW b \in BOOLEAN, SaysOfError(b)
  PROVE  SendInv'
<1> USE SendAssumption DEF SendInv, SaysOfError, network, answer, ending, SettleCall, Retries, Surfaced
<1>1. SendTypeOK'
  BY DEF SendTypeOK, Phases, Outcomes, Statuses, MaxAttempts, Traits, Bounded, Named, Pending
<1>2. Bounded'
  BY DEF SendTypeOK, Bounded, UnsafeSentOnce, MaxAttempts, Traits
<1>3. Named'
  BY DEF SendTypeOK, Named, Pending, TimeoutsAreNamed, Outcomes
<1>4. Bodies'
  BY DEF SendTypeOK, Bodies, BodiesReleased, Named, Pending, Settled
<1>5. Settled'
  BY DEF SendTypeOK, Settled, Named, Pending, Outcomes
<1> QED
  BY <1>1, <1>2, <1>3, <1>4, <1>5

LEMMA WakeKeeps ==
  ASSUME SendInv, Wake
  PROVE  SendInv'
<1> USE SendAssumption DEF SendInv, Wake, network, answer, ending
<1>1. SendTypeOK'
  BY DEF SendTypeOK, Phases, Outcomes, Statuses, MaxAttempts, Traits, Bounded, Named, Pending
<1>2. Bounded'
  BY DEF SendTypeOK, Bounded, UnsafeSentOnce, MaxAttempts, Traits
<1>3. Named'
  BY DEF SendTypeOK, Named, Pending, TimeoutsAreNamed, Outcomes
<1>4. Bodies'
  BY DEF SendTypeOK, Bodies, BodiesReleased, Named, Pending, Settled
<1>5. Settled'
  BY DEF SendTypeOK, Settled, Named, Pending, Outcomes
<1> QED
  BY <1>1, <1>2, <1>3, <1>4, <1>5

LEMMA AbortedAsleepKeeps ==
  ASSUME SendInv, AbortedAsleep
  PROVE  SendInv'
<1> USE SendAssumption DEF SendInv, AbortedAsleep, network, answer, ending, SettleCall
<1>1. SendTypeOK'
  BY DEF SendTypeOK, Phases, Outcomes, Statuses, MaxAttempts, Traits, Bounded, Named, Pending
<1>2. Bounded'
  BY DEF SendTypeOK, Bounded, UnsafeSentOnce, MaxAttempts, Traits
<1>3. Named'
  BY DEF SendTypeOK, Named, Pending, TimeoutsAreNamed, Outcomes
<1>4. Bodies'
  BY DEF SendTypeOK, Bodies, BodiesReleased, Named, Pending, Settled
<1>5. Settled'
  BY DEF SendTypeOK, Settled, Named, Pending, Outcomes
<1> QED
  BY <1>1, <1>2, <1>3, <1>4, <1>5

LEMMA OnResponseKeeps ==
  ASSUME SendInv, NEW how \in Statuses \cup {"keep"}, OnResponse(how)
  PROVE  SendInv'
<1> USE SendAssumption DEF SendInv, OnResponse, network, answer, ending, Statuses
<1>1. SendTypeOK'
  BY DEF SendTypeOK, Phases, Outcomes, Statuses, MaxAttempts, Traits, Bounded, Named, Pending
<1>2. Bounded'
  BY DEF SendTypeOK, Bounded, UnsafeSentOnce, MaxAttempts, Traits
<1>3. Named'
  BY DEF SendTypeOK, Named, Pending, TimeoutsAreNamed, Outcomes
<1>4. Bodies'
  BY DEF SendTypeOK, Bodies, BodiesReleased, Named, Pending, Settled
<1>5. Settled'
  BY DEF SendTypeOK, Settled, Named, Pending, Outcomes
<1> QED
  BY <1>1, <1>2, <1>3, <1>4, <1>5

LEMMA HookThrowsKeeps ==
  ASSUME SendInv, HookThrows
  PROVE  SendInv'
<1> USE SendAssumption DEF SendInv, HookThrows, network, answer, ending, SettleCall
<1>1. SendTypeOK'
  BY DEF SendTypeOK, Phases, Outcomes, Statuses, MaxAttempts, Traits, Bounded, Named, Pending
<1>2. Bounded'
  BY DEF SendTypeOK, Bounded, UnsafeSentOnce, MaxAttempts, Traits
<1>3. Named'
  BY DEF SendTypeOK, Named, Pending, TimeoutsAreNamed, Outcomes
<1>4. Bodies'
  BY DEF SendTypeOK, Bodies, BodiesReleased, Named, Pending, Settled
<1>5. Settled'
  BY DEF SendTypeOK, Settled, Named, Pending, Outcomes
<1> QED
  BY <1>1, <1>2, <1>3, <1>4, <1>5

LEMMA JudgeKeeps ==
  ASSUME SendInv, Judge
  PROVE  SendInv'
<1> USE SendAssumption DEF SendInv, Judge, network, answer, ending, SettleCall, MayRetry
<1>1. SendTypeOK'
  BY DEF SendTypeOK, Phases, Outcomes, Statuses, MaxAttempts, Traits, Bounded, Named, Pending
<1>2. Bounded'
  BY DEF SendTypeOK, Bounded, UnsafeSentOnce, MaxAttempts, Traits
<1>3. Named'
  BY DEF SendTypeOK, Named, Pending, TimeoutsAreNamed, Outcomes
<1>4. Bodies'
  BY DEF SendTypeOK, Bodies, BodiesReleased, Named, Pending, Settled
<1>5. Settled'
  BY DEF SendTypeOK, Settled, Named, Pending, Outcomes
<1> QED
  BY <1>1, <1>2, <1>3, <1>4, <1>5

LEMMA SaysOfResponseKeeps ==
  ASSUME SendInv, NEW b \in BOOLEAN, SaysOfResponse(b)
  PROVE  SendInv'
<1> USE SendAssumption DEF SendInv, SaysOfResponse, network, answer, ending, SettleCall, Retries
<1>1. SendTypeOK'
  BY DEF SendTypeOK, Phases, Outcomes, Statuses, MaxAttempts, Traits, Bounded, Named, Pending
<1>2. Bounded'
  BY DEF SendTypeOK, Bounded, UnsafeSentOnce, MaxAttempts, Traits
<1>3. Named'
  BY DEF SendTypeOK, Named, Pending, TimeoutsAreNamed, Outcomes
<1>4. Bodies'
  BY DEF SendTypeOK, Bodies, BodiesReleased, Named, Pending, Settled
<1>5. Settled'
  BY DEF SendTypeOK, Settled, Named, Pending, Outcomes
<1> QED
  BY <1>1, <1>2, <1>3, <1>4, <1>5

LEMMA OnSettledKeeps ==
  ASSUME SendInv, NEW b \in BOOLEAN, OnSettled(b)
  PROVE  SendInv'
<1> USE SendAssumption DEF SendInv, OnSettled, network, answer, ending
<1>1. SendTypeOK'
  BY DEF SendTypeOK, Phases, Outcomes, Statuses, MaxAttempts, Traits, Bounded, Named, Pending
<1>2. Bounded'
  BY DEF SendTypeOK, Bounded, UnsafeSentOnce, MaxAttempts, Traits
<1>3. Named'
  BY DEF SendTypeOK, Named, Pending, TimeoutsAreNamed, Outcomes
<1>4. Bodies'
  BY DEF SendTypeOK, Bodies, BodiesReleased, Named, Pending, Settled
<1>5. Settled'
  BY DEF SendTypeOK, Settled, Named, Pending, Outcomes
<1> QED
  BY <1>1, <1>2, <1>3, <1>4, <1>5

LEMMA EndsKeeps ==
  ASSUME SendInv, Ends
  PROVE  SendInv'
<1> USE SendAssumption DEF SendInv, Ends, network, answer, ending
<1>1. SendTypeOK'
  BY DEF SendTypeOK, Phases, Outcomes, Statuses, MaxAttempts, Traits, Bounded, Named, Pending
<1>2. Bounded'
  BY DEF SendTypeOK, Bounded, UnsafeSentOnce, MaxAttempts, Traits
<1>3. Named'
  BY DEF SendTypeOK, Named, Pending, TimeoutsAreNamed, Outcomes
<1>4. Bodies'
  BY DEF SendTypeOK, Bodies, BodiesReleased, Named, Pending, Settled
<1>5. Settled'
  BY DEF SendTypeOK, Settled, Named, Pending, Outcomes
<1> QED
  BY <1>1, <1>2, <1>3, <1>4, <1>5

LEMMA BudgetFiresKeeps ==
  ASSUME SendInv, BudgetFires
  PROVE  SendInv'
<1> USE SendAssumption DEF SendInv, BudgetFires, network, answer, ending
<1>1. SendTypeOK'
  BY DEF SendTypeOK, Phases, Outcomes, Statuses, MaxAttempts, Traits, Bounded, Named, Pending
<1>2. Bounded'
  BY DEF SendTypeOK, Bounded, UnsafeSentOnce, MaxAttempts, Traits
<1>3. Named'
  BY DEF SendTypeOK, Named, Pending, TimeoutsAreNamed, Outcomes
<1>4. Bodies'
  BY DEF SendTypeOK, Bodies, BodiesReleased, Named, Pending, Settled
<1>5. Settled'
  BY DEF SendTypeOK, Settled, Named, Pending, Outcomes
<1> QED
  BY <1>1, <1>2, <1>3, <1>4, <1>5

LEMMA AbortKeeps ==
  ASSUME SendInv, Abort
  PROVE  SendInv'
<1> USE SendAssumption DEF SendInv, Abort, network, answer, ending
<1>1. SendTypeOK'
  BY DEF SendTypeOK, Phases, Outcomes, Statuses, MaxAttempts, Traits, Bounded, Named, Pending
<1>2. Bounded'
  BY DEF SendTypeOK, Bounded, UnsafeSentOnce, MaxAttempts, Traits
<1>3. Named'
  BY DEF SendTypeOK, Named, Pending, TimeoutsAreNamed, Outcomes
<1>4. Bodies'
  BY DEF SendTypeOK, Bodies, BodiesReleased, Named, Pending, Settled
<1>5. Settled'
  BY DEF SendTypeOK, Settled, Named, Pending, Outcomes
<1> QED
  BY <1>1, <1>2, <1>3, <1>4, <1>5

LEMMA SendKeeps ==
  ASSUME SendInv, SendNext \/ Abort
  PROVE  SendInv'
BY CallKeeps, AttemptKeeps, AbortedBeforeKeeps, AnswersKeeps, RejectsKeeps, SaysOfErrorKeeps, WakeKeeps,
   AbortedAsleepKeeps, OnResponseKeeps, HookThrowsKeeps, JudgeKeeps, SaysOfResponseKeeps, OnSettledKeeps,
   EndsKeeps, BudgetFiresKeeps, AbortKeeps DEF SendNext, SendGoesOn, FetchEnds

------------------------------------------------------------------------------
(* The steps of the stream. *)

LEMMA StreamStarts == StreamInit => StreamInv
<1> SUFFICES ASSUME StreamInit PROVE StreamInv
  OBVIOUS
<1> USE StreamAssumption DEF StreamInit
<1>1. SendInv /\ open = {}
  BY CallStarts DEF SendInit, Fresh
<1>2. StreamTypeOK
  <2>1. 0 \in 0..Last
    OBVIOUS
  <2>2. SendTypeOK /\ sse \in {"off", "preparing"}
    BY <1>1 DEF SendInv
  <2> QED
    BY <2>1, <2>2 DEF StreamTypeOK
<1>3. Connected
  BY <1>1 DEF Connected, ReadersReleased, DefinitiveErrorsEnd
<1>4. Forward
  BY DEF Forward, CompleteAtEnd
<1> QED
  BY <1>1, <1>2, <1>3, <1>4 DEF StreamInv

LEMMA SendStepsKeep ==
  ASSUME StreamInv, SendSteps
  PROVE  StreamInv'
<1> USE DEF SendSteps, Sending, streamVars, traits, buffer
<1>1. SendInv'
  BY SendKeeps DEF StreamInv
<1>2. StreamTypeOK'
  BY <1>1 DEF StreamInv, StreamTypeOK, SendInv
<1>3. Connected' /\ Forward'
  BY DEF StreamInv, Connected, ReadersReleased, DefinitiveErrorsEnd, Forward, CompleteAtEnd
<1> QED
  BY <1>1, <1>2, <1>3 DEF StreamInv

LEMMA AbortsKeep ==
  ASSUME StreamInv, Aborts
  PROVE  StreamInv'
<1> USE DEF Aborts, Abort, StreamOver, streamVars, traits, buffer
<1>1. SendInv'
  BY SendKeeps DEF StreamInv
<1>2. StreamTypeOK'
  BY <1>1 DEF StreamInv, StreamTypeOK, SendInv
<1>3. Connected' /\ Forward'
  BY DEF StreamInv, Connected, ReadersReleased, DefinitiveErrorsEnd, Forward, CompleteAtEnd, answer, ending
<1> QED
  BY <1>1, <1>2, <1>3 DEF StreamInv

LEMMA PrepareKeeps ==
  ASSUME StreamInv, Prepare
  PROVE  StreamInv'
<1> USE StreamAssumption DEF Prepare, traits, buffer
<1>1. SendInv' /\ (aborted => UNCHANGED <<outcome, open>>) /\ UNCHANGED aborted
  BY SendStays, NextCallKeeps DEF StreamInv, sendVars, answer, ending
<1>2. StreamTypeOK'
  BY <1>1 DEF StreamInv, StreamTypeOK, SendInv
<1>3. Connected'
  BY <1>1 DEF StreamInv, StreamTypeOK, Connected, ReadersReleased, DefinitiveErrorsEnd
<1>4. Forward'
  BY <1>1 DEF StreamInv, StreamTypeOK, Forward, CompleteAtEnd
<1> QED
  BY <1>1, <1>2, <1>3, <1>4 DEF StreamInv

LEMMA PrepareThrowsKeep ==
  ASSUME StreamInv, PrepareThrows
  PROVE  StreamInv'
<1> USE StreamAssumption DEF PrepareThrows, traits, buffer
<1>1. SendInv' /\ UNCHANGED <<phase, status, outcome, open, aborted>>
  BY SendStays DEF StreamInv, sendVars, answer, ending
<1>2. StreamTypeOK'
  BY <1>1 DEF StreamInv, StreamTypeOK, SendInv
<1>3. Connected'
  BY <1>1 DEF StreamInv, StreamTypeOK, Connected, ReadersReleased, DefinitiveErrorsEnd
<1>4. Forward'
  BY <1>1 DEF StreamInv, StreamTypeOK, Forward, CompleteAtEnd
<1> QED
  BY <1>1, <1>2, <1>3, <1>4 DEF StreamInv

LEMMA SendFailsKeep ==
  ASSUME StreamInv, SendFails
  PROVE  StreamInv'
<1> USE StreamAssumption DEF SendFails, traits, buffer, Catches
<1>1. SendInv' /\ UNCHANGED <<phase, status, outcome, open, aborted>>
  BY SendStays DEF StreamInv, sendVars, answer, ending
<1>2. StreamTypeOK'
  BY <1>1 DEF StreamInv, StreamTypeOK, SendInv
<1>3. Connected'
  BY <1>1 DEF StreamInv, StreamTypeOK, Connected, ReadersReleased, DefinitiveErrorsEnd, SendInv, Bodies, BodiesReleased
<1>4. Forward'
  BY <1>1 DEF StreamInv, StreamTypeOK, Forward, CompleteAtEnd
<1> QED
  BY <1>1, <1>2, <1>3, <1>4 DEF StreamInv

LEMMA RefusedKeeps ==
  ASSUME StreamInv, Refused
  PROVE  StreamInv'
<1> USE StreamAssumption DEF Refused, traits, buffer, Catches
<1>1. SendInv' /\ UNCHANGED <<phase, status, outcome, aborted>> /\ open' = {}
  BY ReleaseKeeps DEF StreamInv, Connected
<1>2. StreamTypeOK'
  BY <1>1 DEF StreamInv, StreamTypeOK, SendInv
<1>3. Connected'
  BY <1>1 DEF StreamInv, StreamTypeOK, Connected, ReadersReleased, DefinitiveErrorsEnd
<1>4. Forward'
  BY <1>1 DEF StreamInv, StreamTypeOK, Forward, CompleteAtEnd
<1> QED
  BY <1>1, <1>2, <1>3, <1>4 DEF StreamInv

LEMMA NoBodyKeeps ==
  ASSUME StreamInv, NoBody
  PROVE  StreamInv'
<1> USE StreamAssumption DEF NoBody, traits, buffer
<1>1. SendInv' /\ UNCHANGED <<phase, status, outcome, aborted>> /\ open' = {}
  BY ReleaseKeeps DEF StreamInv, Connected
<1>2. StreamTypeOK'
  BY <1>1 DEF StreamInv, StreamTypeOK, SendInv
<1>3. Connected'
  BY <1>1 DEF StreamInv, StreamTypeOK, Connected, ReadersReleased, DefinitiveErrorsEnd
<1>4. Forward'
  BY <1>1 DEF StreamInv, StreamTypeOK, Forward, CompleteAtEnd
<1> QED
  BY <1>1, <1>2, <1>3, <1>4 DEF StreamInv

LEMMA OpensKeep ==
  ASSUME StreamInv, NEW from \in 0..Last, Opens(from)
  PROVE  StreamInv'
<1> USE StreamAssumption DEF Opens, traits, buffer, Starts
<1>1. SendInv' /\ UNCHANGED <<phase, status, outcome, open, aborted>>
  BY SendStays DEF StreamInv, sendVars, answer, ending
<1>2. StreamTypeOK'
  <2>1. SendTypeOK'
    BY <1>1 DEF SendInv
  <2>2. taken' \in 0..Last /\ got' \in taken'..Last
    OBVIOUS
  <2> QED
    BY <2>1, <2>2 DEF StreamInv, StreamTypeOK
<1>3. Connected'
  BY <1>1 DEF StreamInv, StreamTypeOK, Connected, ReadersReleased, DefinitiveErrorsEnd
<1>4. Forward'
  BY <1>1 DEF StreamInv, StreamTypeOK, Forward, CompleteAtEnd
<1> QED
  BY <1>1, <1>2, <1>3, <1>4 DEF StreamInv

LEMMA ReceivesKeep ==
  ASSUME StreamInv, NEW n \in 0..Last, NEW part \in BOOLEAN, Receives(n, part)
  PROVE  StreamInv'
<1> USE StreamAssumption DEF Receives, traits, buffer, Reads
<1>1. SendInv' /\ UNCHANGED <<phase, status, outcome, open, aborted>>
  BY SendStays DEF StreamInv, sendVars, answer, ending
<1>2. StreamTypeOK'
  BY <1>1 DEF StreamInv, StreamTypeOK, SendInv
<1>3. Connected'
  BY <1>1 DEF StreamInv, StreamTypeOK, Connected, ReadersReleased, DefinitiveErrorsEnd
<1>4. Forward'
  BY <1>1 DEF StreamInv, StreamTypeOK, Forward, CompleteAtEnd
<1> QED
  BY <1>1, <1>2, <1>3, <1>4 DEF StreamInv

LEMMA BreaksKeep ==
  ASSUME StreamInv, Breaks
  PROVE  StreamInv'
<1> USE StreamAssumption DEF Breaks, traits, buffer, Catches, Reads
<1>1. SendInv' /\ UNCHANGED <<phase, status, outcome, aborted>> /\ open' = {}
  BY ReleaseKeeps DEF StreamInv, Connected
<1>2. StreamTypeOK'
  BY <1>1 DEF StreamInv, StreamTypeOK, SendInv
<1>3. Connected'
  BY <1>1 DEF StreamInv, StreamTypeOK, Connected, ReadersReleased, DefinitiveErrorsEnd
<1>4. Forward'
  BY <1>1 DEF StreamInv, StreamTypeOK, Forward, CompleteAtEnd
<1> QED
  BY <1>1, <1>2, <1>3, <1>4 DEF StreamInv

LEMMA TooLongKeeps ==
  ASSUME StreamInv, TooLong
  PROVE  StreamInv'
<1> USE StreamAssumption DEF TooLong, traits, buffer, Catches, Reads
<1>1. SendInv' /\ UNCHANGED <<phase, status, outcome, aborted>> /\ open' = {}
  BY ReleaseKeeps DEF StreamInv, Connected
<1>2. StreamTypeOK'
  BY <1>1 DEF StreamInv, StreamTypeOK, SendInv
<1>3. Connected'
  BY <1>1 DEF StreamInv, StreamTypeOK, Connected, ReadersReleased, DefinitiveErrorsEnd
<1>4. Forward'
  BY <1>1 DEF StreamInv, StreamTypeOK, Forward, CompleteAtEnd
<1> QED
  BY <1>1, <1>2, <1>3, <1>4 DEF StreamInv

LEMMA YieldsKeep ==
  ASSUME StreamInv, Yields
  PROVE  StreamInv'
<1> USE StreamAssumption DEF Yields, traits, buffer
<1> USE DEF Hands, Catches, Sees
<1>1. SendInv' /\ UNCHANGED <<phase, status, aborted>> /\ (sse' # "yielding" => open' = {})
  BY SendStays, ReleaseKeeps DEF StreamInv, Connected, sendVars, answer
<1>2. StreamTypeOK'
  BY <1>1 DEF StreamInv, StreamTypeOK, SendInv
<1>3. Connected'
  BY <1>1 DEF StreamInv, StreamTypeOK, Connected, ReadersReleased, DefinitiveErrorsEnd
<1>4. Forward'
  BY <1>1 DEF StreamInv, StreamTypeOK, Forward, CompleteAtEnd
<1> QED
  BY <1>1, <1>2, <1>3, <1>4 DEF StreamInv

LEMMA FinishesKeep ==
  ASSUME StreamInv, Finishes
  PROVE  StreamInv'
<1> USE StreamAssumption DEF Finishes, traits, buffer, Reads
<1> USE DEF Hands, Catches, Sees
<1>1. SendInv' /\ UNCHANGED <<phase, status, aborted>> /\ (sse' # "flushing" => open' = {})
  BY SendStays, ReleaseKeeps DEF StreamInv, Connected, sendVars, answer
<1>2. StreamTypeOK'
  <2>1. SendTypeOK'
    BY <1>1 DEF SendInv
  <2>2. partial => got + 1 \in 0..Last
    BY DEF StreamInv, StreamTypeOK, Forward
  <2>3. lastEventId' \in 0..Last /\ at' \in 0..Last
    BY <2>2 DEF StreamInv, StreamTypeOK
  <2>4. sse' \in {"flushing", "ended", "failed", "backoff"}
    OBVIOUS
  <2> QED
    BY <2>1, <2>3, <2>4 DEF StreamInv, StreamTypeOK
<1>3. Connected'
  BY <1>1 DEF StreamInv, StreamTypeOK, Connected, ReadersReleased, DefinitiveErrorsEnd
<1>4. Forward'
  BY <1>1 DEF StreamInv, StreamTypeOK, Forward, CompleteAtEnd
<1> QED
  BY <1>1, <1>2, <1>3, <1>4 DEF StreamInv

LEMMA ResumesKeep ==
  ASSUME StreamInv, Resumes
  PROVE  StreamInv'
<1> USE StreamAssumption DEF Resumes, traits, buffer
<1>1. SendInv' /\ UNCHANGED <<phase, status, outcome, open, aborted>>
  BY SendStays DEF StreamInv, sendVars, answer, ending
<1>2. StreamTypeOK'
  BY <1>1 DEF StreamInv, StreamTypeOK, SendInv
<1>3. Connected'
  BY <1>1 DEF StreamInv, StreamTypeOK, Connected, ReadersReleased, DefinitiveErrorsEnd
<1>4. Forward'
  BY <1>1 DEF StreamInv, StreamTypeOK, Forward, CompleteAtEnd
<1> QED
  BY <1>1, <1>2, <1>3, <1>4 DEF StreamInv

LEMMA FlushedKeeps ==
  ASSUME StreamInv, Flushed
  PROVE  StreamInv'
<1> USE StreamAssumption DEF Flushed, traits, buffer
<1>1. SendInv' /\ UNCHANGED <<phase, status, outcome, aborted>> /\ open' = {}
  BY ReleaseKeeps DEF StreamInv, Connected
<1>2. StreamTypeOK'
  BY <1>1 DEF StreamInv, StreamTypeOK, SendInv
<1>3. Connected'
  BY <1>1 DEF StreamInv, StreamTypeOK, Connected, ReadersReleased, DefinitiveErrorsEnd
<1>4. Forward'
  BY <1>1 DEF StreamInv, StreamTypeOK, Forward, CompleteAtEnd
<1> QED
  BY <1>1, <1>2, <1>3, <1>4 DEF StreamInv

LEMMA LeavesKeep ==
  ASSUME StreamInv, Leaves
  PROVE  StreamInv'
<1> USE StreamAssumption DEF Leaves, traits, buffer
<1>1. SendInv' /\ UNCHANGED <<phase, status, outcome, aborted>> /\ open' = {}
  BY ReleaseKeeps DEF StreamInv, Connected
<1>2. StreamTypeOK'
  BY <1>1 DEF StreamInv, StreamTypeOK, SendInv
<1>3. Connected'
  BY <1>1 DEF StreamInv, StreamTypeOK, Connected, ReadersReleased, DefinitiveErrorsEnd
<1>4. Forward'
  BY <1>1 DEF StreamInv, StreamTypeOK, Forward, CompleteAtEnd
<1> QED
  BY <1>1, <1>2, <1>3, <1>4 DEF StreamInv

LEMMA WakesKeep ==
  ASSUME StreamInv, Wakes
  PROVE  StreamInv'
<1> USE StreamAssumption DEF Wakes, traits, buffer
<1>1. SendInv' /\ UNCHANGED <<phase, status, outcome, open, aborted>>
  BY SendStays DEF StreamInv, sendVars, answer, ending
<1>2. StreamTypeOK'
  BY <1>1 DEF StreamInv, StreamTypeOK, SendInv
<1>3. Connected'
  BY <1>1 DEF StreamInv, StreamTypeOK, Connected, ReadersReleased, DefinitiveErrorsEnd
<1>4. Forward'
  BY <1>1 DEF StreamInv, StreamTypeOK, Forward, CompleteAtEnd
<1> QED
  BY <1>1, <1>2, <1>3, <1>4 DEF StreamInv

LEMMA StreamSteps ==
  ASSUME StreamInv, [StreamNext]_clientVars
  PROVE  StreamInv'
<1>1. CASE StreamNext
  BY SendStepsKeep, AbortsKeep, PrepareKeeps, PrepareThrowsKeep, SendFailsKeep,
     RefusedKeeps, NoBodyKeeps, OpensKeep, ReceivesKeep, BreaksKeep, TooLongKeeps,
     YieldsKeep, FinishesKeep, ResumesKeep, FlushedKeeps, LeavesKeep, WakesKeep, <1>1
  DEF StreamNext, StreamGoesOn, StreamServed
<1>2. CASE UNCHANGED clientVars
  BY <1>2, SendStays DEF clientVars, streamVars, traits, buffer, StreamInv, StreamTypeOK, SendInv,
     Connected, ReadersReleased, DefinitiveErrorsEnd, Forward, CompleteAtEnd, sendVars, answer, ending
<1> QED
  BY <1>1, <1>2

LEMMA StreamAlways == StreamSpec => []StreamInv
<1>1. StreamInv /\ [StreamNext]_clientVars => StreamInv'
  BY StreamSteps
<1> QED
  BY StreamStarts, <1>1, PTL DEF StreamSpec

------------------------------------------------------------------------------
(* The theorems about calls. *)

\* The variables of the runtime keep their types; no call makes more attempts than
\* its retries allow (send.ts 175-281).
THEOREM ClientTyped == StreamSpec => []StreamTypeOK
<1>1. StreamInv => StreamTypeOK
  BY DEF StreamInv
<1> QED
  BY <1>1, StreamAlways, PTL

\* Bodies are given back by every way out of a call, however many hooks replace the
\* response and however many attempts are made (send.ts 188-268).
THEOREM BodiesAreReleased == StreamSpec => []BodiesReleased
<1>1. StreamInv => BodiesReleased
  BY DEF StreamInv, SendInv, Bodies
<1> QED
  BY <1>1, StreamAlways, PTL

\* Each of any number of middlewares is told the outcome once (send.ts 282-319).
THEOREM OutcomeIsTold == StreamSpec => []SettledOnce
<1>1. ASSUME StreamInv, SendOver, hook > 0, NEW h \in 1..Hooks
      PROVE  \E t \in told :
               /\ t[1] = h
               /\ t[2] = "ok" <=> (phase = "returned" \/ hookFailed)
               /\ t[2] = outcome \/ hookFailed
               /\ \A u \in told : u[1] = h => u = t
  <2> DEFINE t == <<h, IF hookFailed THEN "ok" ELSE outcome, last>>
  <2>1. told = {<<g, IF hookFailed THEN "ok" ELSE outcome, last>> : g \in 1..Hooks}
    BY <1>1 DEF StreamInv, SendInv, Settled, SendOver
  <2>2. t \in told /\ \A u \in told : u[1] = h => u = t
    BY <2>1
  <2>3. t[2] = "ok" <=> (phase = "returned" \/ hookFailed)
    BY <1>1 DEF StreamInv, SendInv, Settled, SendOver
  <2> QED
    BY <2>2, <2>3
<1>2. StreamInv => SettledOnce
  BY <1>1 DEF SettledOnce
<1> QED
  BY <1>2, StreamAlways, PTL

\* A settled hook is never handed a response that was drained or replaced.
THEOREM HooksSeeTheirResponse == StreamSpec => []HooksSeeLiveResponses
<1>1. StreamInv => HooksSeeLiveResponses
  BY DEF StreamInv, SendInv, Settled, Bodies, HooksSeeLiveResponses
<1> QED
  BY <1>1, StreamAlways, PTL

\* Whoever fires first, the caller's signal or the timeout, the error says which.
THEOREM ErrorsAreNamed == StreamSpec => []TimeoutsAreNamed
<1>1. StreamInv => TimeoutsAreNamed
  BY DEF StreamInv, SendInv, Named
<1> QED
  BY <1>1, StreamAlways, PTL

\* A request that is not idempotent, or whose body can be read once, is sent once.
THEOREM UnsafeIsSentOnce == StreamSpec => []UnsafeSentOnce
<1>1. StreamInv => UnsafeSentOnce
  BY DEF StreamInv, SendInv, Bounded
<1> QED
  BY <1>1, StreamAlways, PTL

------------------------------------------------------------------------------
(* The theorems about streams. *)

\* A stream holds no connection while it waits for the next one or is over.
THEOREM ReadersAreReleased == StreamSpec => []ReadersReleased
<1>1. StreamInv => ReadersReleased
  BY DEF StreamInv, Connected
<1> QED
  BY <1>1, StreamAlways, PTL

\* No refusal and no event that does not parse leads to a reconnection.
THEOREM DefinitiveErrorsAreFinal == StreamSpec => []DefinitiveErrorsEnd
<1>1. StreamInv => DefinitiveErrorsEnd
  BY DEF StreamInv, Connected
<1> QED
  BY <1>1, StreamAlways, PTL

\* A stream of any number of events that ends by itself has handed out the last.
THEOREM EndsComplete == StreamSpec => []CompleteAtEnd
<1>1. StreamInv => CompleteAtEnd
  BY DEF StreamInv, Forward
<1> QED
  BY <1>1, StreamAlways, PTL

\* An abort is never turned into a failure of the stream.
THEOREM AbortedQuietly == StreamSpec => AbortIsQuiet
<1>1. ASSUME [StreamNext]_clientVars, sse' = "failed", sse # "failed"
      PROVE  ~aborted \/ sse = "preparing"
  <2>1. SendSteps \/ Aborts \/ UNCHANGED clientVars => UNCHANGED sse
    BY DEF SendSteps, Aborts, streamVars, clientVars
  <2>2. StreamGoesOn \/ StreamServed => ~aborted \/ sse = "preparing"
    BY <1>1 DEF StreamGoesOn, StreamServed, Prepare, PrepareThrows, SendFails, Refused, NoBody, Yields,
       Resumes, Flushed, Leaves, Wakes, Opens, Breaks, TooLong, Finishes, Receives, Hands, Catches
  <2> QED
    BY <1>1, <2>1, <2>2 DEF StreamNext
<1> QED
  BY <1>1, PTL DEF StreamSpec, AbortIsQuiet

\* An event is handed out after the last one or after the last one with an id.
LEMMA HandedNext ==
  ASSUME StreamInv, NEW e \in Nat, NEW then, Hands(e, then), ~StreamOver, ~(then \in {"ended", "failed"}),
         e <= Last, e >= 1, resumes => e \in {at + 1, lastEventId + 1}, UNCHANGED resumes
  PROVE  Delivery!Deliver \/ Delivery!Stop \/ UNCHANGED <<resumes, at, lastEventId, StreamOver>>
<1>1. CASE e \in malformed
  BY <1>1 DEF Hands, Catches, Delivery!Stop, StreamOver
<1>2. CASE e \notin malformed
  BY <1>2 DEF Hands, Sees, Delivery!Deliver, StreamOver
<1> QED
  BY <1>1, <1>2

\* Every step of the stream is one of OrderedDelivery, or changes nothing of it.
LEMMA StepDelivers ==
  StreamInv /\ [StreamNext]_clientVars => [Delivery!Next]_<<resumes, at, lastEventId, StreamOver>>
<1> SUFFICES ASSUME StreamInv, [StreamNext]_clientVars
             PROVE  Delivery!Next \/ UNCHANGED <<resumes, at, lastEventId, StreamOver>>
  OBVIOUS
<1> USE DEF Delivery!Next
<1>1. CASE Yields
  <2>1. taken + 1 \in 1..Last /\ (resumes => taken \in {at, lastEventId}) /\ taken \in Nat
    BY <1>1, StreamAssumption DEF Yields, StreamInv, StreamTypeOK, Forward
  <2>2. Hands(taken + 1, "yielding") /\ ~StreamOver /\ UNCHANGED resumes
    BY <1>1 DEF Yields, StreamOver, traits
  <2> QED
    BY <2>1, <2>2, HandedNext
<1>2. CASE Finishes
  <2>1. CASE partial
    <3>1. got + 1 \in 1..Last /\ (resumes => got \in {at, lastEventId}) /\ got \in Nat
      BY <1>2, <2>1, StreamAssumption DEF Finishes, Reads, StreamInv, StreamTypeOK, Forward
    <3>2. Hands(got + 1, "flushing") /\ ~StreamOver /\ UNCHANGED resumes
      BY <1>2, <2>1 DEF Finishes, Reads, StreamOver, traits
    <3> QED
      BY <3>1, <3>2, HandedNext
  <2>2. CASE ~partial
    BY <1>2, <2>2 DEF Finishes, Reads, Delivery!Stop, StreamOver, traits
  <2> QED
    BY <2>1, <2>2
<1>3. CASE SendSteps \/ Aborts \/ UNCHANGED clientVars
  BY <1>3 DEF SendSteps, Aborts, clientVars, streamVars, traits, StreamOver
<1>4. CASE \/ Prepare \/ PrepareThrows \/ SendFails \/ Refused \/ NoBody \/ Resumes \/ Flushed \/ Leaves
           \/ Wakes \/ Breaks \/ TooLong \/ \E from \in 0..Last : Opens(from)
           \/ \E n \in 0..Last, part \in BOOLEAN : Receives(n, part)
  <2>1. ~StreamOver /\ UNCHANGED <<resumes, at, lastEventId>>
    BY <1>4 DEF Prepare, PrepareThrows, SendFails, Refused, NoBody, Resumes, Flushed, Leaves, Wakes,
       Breaks, TooLong, Opens, Receives, Reads, StreamOver, traits
  <2> QED
    BY <2>1 DEF Delivery!Stop, StreamOver
<1> QED
  BY <1>1, <1>2, <1>3, <1>4 DEF StreamNext, StreamGoesOn, StreamServed

\* An event stream implements OrderedDelivery: whatever breaks, events are handed
\* out in order and only those after the last id come again (sse.ts 28-123).
THEOREM Delivers == StreamSpec => DeliveredInOrder
<1>1. StreamInit => Delivery!Init
  BY DEF StreamInit, Delivery!Init, StreamOver
<1> QED
  BY <1>1, StreamAlways, StepDelivers, PTL DEF StreamSpec, DeliveredInOrder, Delivery!Spec

\* No connection of a call or of a stream stays checked out.
THEOREM ReleasesConnections == StreamSpec => []ConnectionsReleased
<1>1. BodiesReleased /\ ReadersReleased => ConnectionsReleased
  BY DEF ConnectionsReleased
<1> QED
  BY <1>1, BodiesAreReleased, ReadersAreReleased, PTL

\* Callers and hooks are told the true outcome of every call, once.
THEOREM TellsTheTruth == StreamSpec => []OutcomesAreTrue
<1>1. SettledOnce /\ HooksSeeLiveResponses /\ TimeoutsAreNamed => OutcomesAreTrue
  BY DEF OutcomesAreTrue
<1> QED
  BY <1>1, OutcomeIsTold, HooksSeeTheirResponse, ErrorsAreNamed, PTL

\* Events come in order, none is skipped, and a stream that ends by itself is
\* complete.
THEOREM DeliversAll == StreamSpec => EventsAreDelivered
  BY Delivers, EndsComplete DEF EventsAreDelivered

\* A definitive error is not retried, and an abort is not an error.
THEOREM FailsTruly == StreamSpec => FailuresAreTrue
  BY DefinitiveErrorsAreFinal, AbortedQuietly DEF FailuresAreTrue

------------------------------------------------------------------------------
(* Pagination. *)

\* The item before the first one of the page at a position, and the first items.
StartAt(p) == IF style = "page" THEN (p - 1) * PageSize ELSE p
First(n) == [i \in 1..n |-> i]

\* The page before the position: the server had it, full or as the last one.
Before(s) ==
  \/ previous = NoPage /\ s = 0
  \/ \E m \in Nat :
       LET q == m * PageSize
       IN q < total /\ previous = After(q) /\ (s = q + PageSize \/ s = Least(q + PageSize, total))

HonestInv ==
  LET s == StartAt(position)
  IN /\ position \in Nat /\ s \in Nat /\ out = First(Len(out)) /\ Len(out) \in 0..total
     /\ walk \in {"asking", "yielded"} /\ style = "cursor" => s <= total
     /\ walk \in {"asking", "yielded"} /\ s < total => \E m \in Nat : s = m * PageSize
     /\ walk = "asking" => Len(out) = Least(s, total) /\ (style # "cursor" => Before(s))
     /\ walk = "yielded" => page = After(s) /\ Len(out) = Least(s + PageSize, total)
     /\ walk \in {"done", "stuck"} => Len(out) = total

PagesInv ==
  /\ style \in {"cursor", "offset", "page"} /\ total \in Nat /\ clamps \in BOOLEAN
  /\ style = "cursor" => ~clamps
  /\ walk \in {"asking", "yielded", "done", "stuck", "error"}
  /\ next = Honest(total) => HonestInv

LEMMA FirstIs ==
  ASSUME NEW n \in Nat
  PROVE  First(n) \in Seq(Nat) /\ Len(First(n)) = n /\ \A i \in 1..n : First(n)[i] = i
<1>1. First(n) \in Seq(Nat)
  BY IsASeq DEF First
<1> QED
  BY <1>1, LenProperties DEF First

\* The page of the items after p.
LEMMA PageIs ==
  ASSUME NEW p \in Nat, total \in Nat
  PROVE  LET n == IF p >= total THEN 0 ELSE Least(PageSize, total - p)
         IN /\ n \in Nat /\ After(p) = [i \in 1..n |-> p + i] /\ Len(After(p)) = n
            /\ After(p) \in Seq(Nat) /\ (After(p) = <<>> <=> n = 0)
            /\ p < total => n > 0 /\ After(p)[1] = p + 1
<1> DEFINE n == IF p >= total THEN 0 ELSE Least(PageSize, total - p)
<1>1. PageSize \in Nat /\ PageSize > 0
  BY PaginationAssumption
<1>2. n \in Nat /\ (p < total => n > 0) /\ Least(PageSize, total - Least(p, total)) = n
  BY <1>1 DEF Least
<1> HIDE DEF n
<1>3. After(p) = [i \in 1..n |-> p + i]
  BY <1>2 DEF After
<1>4. \A i \in 1..n : p + i \in Nat
  BY <1>2
<1>5. [i \in 1..n |-> p + i] \in Seq(Nat) /\ Len([i \in 1..n |-> p + i]) = n
  BY <1>2, <1>4, IsASeq, LenProperties
<1>6. After(p) = <<>> <=> n = 0
  BY <1>2, <1>3, <1>5, EmptySeq
<1> QED
  BY <1>2, <1>3, <1>5, <1>6 DEF n

\* The first items and the page after them are the first items.
LEMMA PageFollows ==
  ASSUME NEW p \in Nat, total \in Nat, p < total
  PROVE  /\ Least(p + PageSize, total) \in Nat
         /\ First(p) \o After(p) = First(Least(p + PageSize, total))
<1> DEFINE n == Least(PageSize, total - p)
<1>1. /\ n \in Nat /\ After(p) = [i \in 1..n |-> p + i] /\ Len(After(p)) = n /\ After(p) \in Seq(Nat)
  BY PageIs
<1>2. Least(p + PageSize, total) = p + n
  BY PaginationAssumption DEF Least
<1> HIDE DEF n
<1>3. First(p) \in Seq(Nat) /\ Len(First(p)) = p
  BY IsASeq, LenProperties DEF First
<1>4. First(p + n) \in Seq(Nat) /\ Len(First(p + n)) = p + n
  BY <1>1, IsASeq, LenProperties DEF First
<1> DEFINE t == First(p) \o After(p)
<1>5. /\ t \in Seq(Nat) /\ Len(t) = p + n
      /\ \A i \in 1..p + n : t[i] = IF i <= p THEN First(p)[i] ELSE After(p)[i - p]
  <2>1. /\ t \in Seq(Nat) /\ Len(t) = Len(First(p)) + Len(After(p))
        /\ \A i \in 1..Len(First(p)) + Len(After(p)) :
             t[i] = IF i <= Len(First(p)) THEN First(p)[i] ELSE After(p)[i - Len(First(p))]
    <3>1. First(p) \in Seq(Nat) /\ After(p) \in Seq(Nat)
      BY <1>1, <1>3
    <3> QED
      BY <3>1, ConcatProperties
  <2> HIDE DEF t
  <2> QED
    BY <1>1, <1>3, <2>1
<1> HIDE DEF t
<1>6. \A i \in 1..p + n : t[i] = First(p + n)[i]
  <2> TAKE i \in 1..p + n
  <2>1. First(p + n)[i] = i
    BY DEF First
  <2>2. CASE i <= p
    BY <1>1, <1>5, <2>1, <2>2 DEF First
  <2>3. CASE ~(i <= p)
    <3>1. i - p \in 1..n /\ p + (i - p) = i
      BY <1>1, <2>3
    <3> QED
      BY <1>1, <1>5, <2>1, <2>3, <3>1
  <2> QED
    BY <2>2, <2>3
<1>7. t = First(p + n)
  BY <1>4, <1>5, <1>6, SeqEqual
<1>8. Least(p + PageSize, total) \in Nat
  BY <1>1, <1>2
<1>9. First(p) \o After(p) = First(p + n)
  BY <1>7 DEF t
<1> QED
  BY <1>2, <1>8, <1>9

\* Where the last page starts.
LEMMA LastPage ==
  ASSUME NEW m \in Nat, total \in Nat, m * PageSize < total, total <= m * PageSize + PageSize
  PROVE  LastStart = m * PageSize
<1>1. PageSize \in Nat /\ PageSize > 0 /\ total # 0
  BY PaginationAssumption
<1>2. (total - 1) \div PageSize = m
  BY <1>1
<1> QED
  BY <1>1, <1>2 DEF LastStart

LEMMA PagesStart == PagesInit => PagesInv
<1> SUFFICES ASSUME PagesInit PROVE PagesInv
  OBVIOUS
<1>1. total \in Nat /\ PageSize \in Nat /\ style \in {"cursor", "offset", "page"} /\ clamps \in BOOLEAN
  <2>1. total \in Nat /\ PageSize \in Nat /\ style \in {"cursor", "offset", "page"}
    BY PaginationAssumption DEF PagesInit
  <2>2. clamps \in BOOLEAN
    BY DEF PagesInit
  <2> QED
    BY <2>1, <2>2
<1>2. position \in Nat /\ StartAt(position) = 0
  BY <1>1 DEF PagesInit, StartAt
<1>3. out = First(0) /\ Len(out) = 0
  BY EmptySeq DEF PagesInit, First
<1>4. HonestInv
  BY <1>1, <1>2, <1>3 DEF PagesInit, HonestInv, Before, Least
<1> QED
  BY <1>1, <1>2, <1>4 DEF PagesInit, PagesInv

\* A page after others is not the one before it.
LEMMA PagesDiffer ==
  ASSUME total \in Nat, NEW p \in Nat, p < total, Before(p)
  PROVE  After(p) # previous
<1>1. After(p) \in Seq(Nat) /\ After(p)[1] = p + 1
  BY PageIs
<1>2. CASE previous = NoPage
  BY <1>1, <1>2, PaginationAssumption
<1>3. CASE previous # NoPage
  <2>1. PICK m \in Nat :
          LET q == m * PageSize
          IN q < total /\ previous = After(q) /\ (p = q + PageSize \/ p = Least(q + PageSize, total))
    BY <1>3 DEF Before
  <2> DEFINE q == m * PageSize
  <2>2. q \in Nat /\ q < total /\ previous = After(q) /\ q # p
    BY <2>1, PaginationAssumption DEF Least
  <2> HIDE DEF q
  <2>3. previous[1] = q + 1
    BY <2>2, PageIs
  <2> QED
    BY <1>1, <2>2, <2>3
<1> QED
  BY <1>2, <1>3

LEMMA AsksKeeps == ASSUME PagesInv, Asks PROVE PagesInv'
<1>1. /\ walk = "asking" /\ UNCHANGED <<style, total, clamps, next, position, previous>>
      /\ walk' \in {"stuck", "yielded"}
  BY DEF Asks, server, YieldsPage
<1>2. PICK s : s = StartAt(position)
  OBVIOUS
<1>3. ASSUME next = Honest(total) PROVE HonestInv'
  <2>1. /\ HonestInv /\ s \in Nat /\ out = First(Len(out)) /\ Len(out) = Least(s, total)
        /\ total \in Nat /\ PageSize \in Nat /\ PageSize > 0 /\ position \in Nat
        /\ style = "cursor" => s <= total
    BY <1>1, <1>2, <1>3, PaginationAssumption DEF PagesInv, HonestInv
  <2>2. StartAt(position)' = s
    BY <1>1, <1>2 DEF StartAt
  <2>3. CASE s < total
    <3>1. PageAt(position) = After(s)
      BY <1>2, <2>1, <2>3 DEF PageAt, StartAt
    <3>2. ~(style # "cursor" /\ PageAt(position) = previous)
      BY <1>1, <1>2, <2>1, <2>3, <3>1, PagesDiffer DEF HonestInv
    <3>3. /\ walk' = "yielded" /\ page' = After(s) /\ out' = out \o After(s)
      BY <1>3, <3>1, <3>2 DEF Asks, YieldsPage
    <3>4. Len(out) = s /\ out = First(s)
      BY <2>1, <2>3 DEF Least
    <3>5. Least(s + PageSize, total) \in 0..total /\ out' = First(Least(s + PageSize, total))
      <4>1. Least(s + PageSize, total) \in 0..total
        BY <2>1 DEF Least
      <4>2. First(s) \o After(s) = First(Least(s + PageSize, total))
        BY <2>1, <2>3, PageFollows
      <4> QED
        BY <3>3, <3>4, <4>1, <4>2
    <3>6. Len(out') = Least(s + PageSize, total)
      BY <3>5, LenProperties, IsASeq DEF First
    <3>7. After(s)' = After(s) /\ \E m \in Nat : s = m * PageSize
      BY <1>1, <1>2, <2>1, <2>3 DEF After, HonestInv
    <3> QED
      BY <1>1, <2>1, <2>2, <3>3, <3>5, <3>6, <3>7 DEF HonestInv
  <2>4. CASE ~(s < total)
    <3>1. Len(out) = total /\ Least(s + PageSize, total) = total /\ After(s) = <<>>
      BY <2>1, <2>4, PageIs DEF Least
    <3>2. CASE walk' = "stuck"
      <4>1. out' = out
        BY <3>2 DEF Asks, YieldsPage
      <4> QED
        BY <1>1, <2>1, <2>2, <3>1, <3>2, <4>1 DEF HonestInv
    <3>3. CASE walk' = "yielded"
      <4>1. page' = PageAt(position) /\ out' = out \o PageAt(position)
            /\ ~(style # "cursor" /\ PageAt(position) = previous)
        BY <1>3, <3>3 DEF Asks, YieldsPage
      <4>2. PageAt(position) = After(s)
        <5>1. CASE style = "cursor" \/ ~clamps
          BY <1>2, <5>1 DEF PageAt, StartAt
        <5>2. CASE style # "cursor" /\ clamps
          <6>1. PageAt(position) = After(LastStart)
            BY <1>2, <2>1, <2>4, <5>2 DEF PageAt, StartAt
          <6>2. Before(s)
            BY <1>1, <1>2, <2>1, <5>2 DEF HonestInv
          <6>3. CASE previous = NoPage /\ s = 0
            <7>1. total = 0
              BY <2>1, <2>4, <6>3
            <7> QED
              BY <6>1, <6>3, <7>1 DEF LastStart
          <6>4. ASSUME NEW m \in Nat, m * PageSize < total, previous = After(m * PageSize),
                       s = m * PageSize + PageSize \/ s = Least(m * PageSize + PageSize, total)
                PROVE  FALSE
            <7>1. m * PageSize \in Nat /\ total <= m * PageSize + PageSize
              BY <2>1, <2>4, <6>4 DEF Least
            <7>2. PageAt(position) = previous
              BY <2>1, <6>1, <6>4, <7>1, LastPage
            <7> QED
              BY <4>1, <5>2, <7>2
          <6> QED
            BY <6>2, <6>3, <6>4 DEF Before
        <5> QED
          BY <5>1, <5>2
      <4>3. out' = out /\ After(s)' = After(s)
        <5>1. out \in Seq(Nat)
          BY <2>1, IsASeq DEF First
        <5> QED
          BY <1>1, <3>1, <4>1, <4>2, <5>1, ConcatEmptySeq DEF After
      <4> QED
        BY <1>1, <2>1, <2>2, <2>4, <3>1, <3>3, <4>1, <4>2, <4>3 DEF HonestInv
    <3> QED
      BY <1>1, <3>2, <3>3
  <2> QED
    BY <2>3, <2>4
<1>4. next' = Honest(total)' => next = Honest(total)
  BY <1>1 DEF Honest
<1> QED
  BY <1>1, <1>3, <1>4 DEF PagesInv

LEMMA GoesOnKeeps == ASSUME PagesInv, GoesOn PROVE PagesInv'
<1>1. walk = "yielded" /\ UNCHANGED <<style, total, clamps, next, page, out>>
  BY DEF GoesOn, server
<1>2. PICK s : s = StartAt(position)
  OBVIOUS
<1>3. /\ style \in {"cursor", "offset", "page"} /\ total \in Nat
      /\ PageSize \in Nat /\ PageSize > 0
  BY PaginationAssumption DEF PagesInv
<1>4. next' = Honest(total)' => next = Honest(total)
  BY <1>1 DEF Honest
<1>5. ASSUME next = Honest(total)
      PROVE  /\ HonestInv /\ s \in Nat /\ page = After(s) /\ Len(out) = Least(s + PageSize, total)
             /\ out = First(Len(out)) /\ Len(out) \in 0..total
             /\ s < total => \E m \in Nat : s = m * PageSize
             /\ position \in Nat /\ (style = "cursor" => s <= total)
  BY <1>1, <1>2, <1>5 DEF PagesInv, HonestInv
<1>6. CASE style = "cursor"
  <2>1. Follow /\ walk' \in {"done", "stuck", "asking"} /\ previous' = previous
    BY <1>6 DEF GoesOn, Follow
  <2>2. ASSUME next = Honest(total) PROVE HonestInv'
    <3>1. s = position /\ StartAt(position)' = position'
      BY <1>1, <1>2, <1>6 DEF StartAt
    <3>2. CASE s + PageSize >= total
      <4>1. Len(out) = total
        BY <1>3, <1>5, <2>2, <3>2 DEF Least
      <4>2. position \in 0..total => next[position] = NoPage
        BY <2>2, <3>1, <3>2 DEF Honest
      <4>3. position <= total
        BY <1>5, <1>6, <2>2, <3>1
      <4>4. walk' = "done" /\ position' = position
        <5>1. next[position] = NoPage /\ next[position] # position
          BY <1>3, <1>5, <2>2, <4>2, <4>3, PaginationAssumption
        <5> QED
          BY <2>1, <5>1 DEF Follow
      <4> QED
        BY <1>1, <1>3, <1>5, <2>2, <3>1, <4>1, <4>4 DEF HonestInv
    <3>3. CASE s + PageSize < total
      <4>1. next[position] = position + PageSize
        <5>1. position \in 0..total /\ ~(position + PageSize >= total)
          BY <1>3, <1>5, <2>2, <3>1, <3>3
        <5> QED
          BY <2>2, <5>1 DEF Honest
      <4>2. walk' = "asking" /\ position' = position + PageSize
        <5>1. next[position] # NoPage /\ next[position] # position
          BY <1>3, <1>5, <2>2, <4>1, PaginationAssumption
        <5> QED
          BY <2>1, <4>1, <5>1 DEF Follow
      <4>3. PICK m \in Nat : s = m * PageSize
        BY <1>3, <1>5, <2>2, <3>3
      <4>4. position' = (m + 1) * PageSize /\ m + 1 \in Nat
        BY <1>3, <3>1, <4>2, <4>3
      <4>5. Len(out) = position' /\ Least(position', total) = position'
        BY <1>3, <1>5, <2>2, <3>1, <3>3, <4>2 DEF Least
      <4>6. position' \in Nat /\ position' <= total /\ Len(out) = Least(position', total)
        BY <1>3, <1>5, <2>2, <3>1, <3>3, <4>2, <4>5
      <4>7. out' = First(Len(out')) /\ Len(out') \in 0..total' /\ total' = total /\ style' = "cursor"
        BY <1>1, <1>5, <1>6, <2>2
      <4>8. Len(out') = Least(position', total')
        BY <1>1, <4>6
      <4> QED
        BY <3>1, <4>2, <4>4, <4>6, <4>7, <4>8 DEF HonestInv
    <3> QED
      BY <1>3, <1>5, <2>2, <3>2, <3>3
  <2> QED
    BY <1>1, <1>3, <1>4, <2>1, <2>2 DEF PagesInv
<1>7. CASE style # "cursor"
  <2>1. Advance /\ walk' \in {"done", "asking"}
    BY <1>7 DEF GoesOn, Advance
  <2>3. ASSUME next = Honest(total) PROVE HonestInv'
    <3>1. CASE s >= total
      <4>1. page = <<>> /\ Len(out) = total
        BY <1>3, <1>5, <2>3, <3>1, PageIs DEF Least
      <4>2. walk' = "done" /\ position' = position
        BY <2>1, <4>1 DEF Advance
      <4>3. StartAt(position)' = s
        BY <1>1, <1>2, <4>2 DEF StartAt
      <4> QED
        BY <1>1, <1>5, <2>3, <4>1, <4>2, <4>3 DEF HonestInv
    <3>2. CASE s < total
      <4>1. page # <<>> /\ Len(page) = Least(PageSize, total - s)
        <5>1. total - s > 0 /\ page = After(s) /\ s \in Nat
          BY <1>3, <1>5, <2>3, <3>2
        <5>2. Len(After(s)) = (IF s >= total THEN 0 ELSE Least(PageSize, total - s))
          <6>1. s \in Nat /\ total \in Nat
            BY <1>3, <5>1
          <6> QED
            BY <6>1, PageIs
        <5>4. Len(After(s)) = Least(PageSize, total - s)
          BY <1>3, <3>2, <5>1, <5>2
        <5>5. Least(PageSize, total - s) > 0
          BY <1>3, <5>1 DEF Least
        <5>3. Len(<<>>) = 0
          BY EmptySeq
        <5> QED
          BY <5>1, <5>3, <5>4, <5>5
      <4>2. /\ walk' = "asking" /\ previous' = page
            /\ position' = position + (IF style = "page" THEN 1 ELSE Len(page))
        BY <2>1, <4>1 DEF Advance
      <4>3. PICK m \in Nat : s = m * PageSize
        BY <1>5, <2>3, <3>2
      <4>4. PICK t : t = StartAt(position)'
        OBVIOUS
      <4>5. t = s + PageSize \/ t = Least(s + PageSize, total)
        <5>1. CASE style = "page"
          <6>1. position' = position + 1 /\ position \in Nat
            BY <1>5, <2>3, <4>2, <5>1
          <6>2. t = (position' - 1) * PageSize /\ s = (position - 1) * PageSize
            BY <1>1, <1>2, <4>4, <5>1 DEF StartAt
          <6>3. position' - 1 = (position - 1) + 1
            BY <6>1
          <6>4. PICK k \in Int : k = position - 1
            BY <6>1
          <6>5. t = (k + 1) * PageSize /\ s = k * PageSize
            BY <6>2, <6>3, <6>4
          <6> QED
            BY <1>3, <6>5
        <5>2. CASE style # "page"
          <6>1. t = s + Len(page)
            BY <1>1, <1>2, <4>2, <4>4, <5>2 DEF StartAt
          <6> QED
            BY <1>3, <1>5, <2>3, <3>2, <4>1, <6>1 DEF Least
        <5> QED
          BY <5>1, <5>2
      <4>6. t \in Nat /\ Len(out) = Least(t, total)
        BY <1>3, <1>5, <2>3, <3>2, <4>5 DEF Least
      <4>7. t < total => t = (m + 1) * PageSize /\ m + 1 \in Nat
        BY <1>3, <4>3, <4>5 DEF Least
      <4>8. page = After(m * PageSize)' /\ m * PageSize < total
        BY <1>1, <1>5, <2>3, <3>2, <4>3 DEF After
      <4>9. \E n \in Nat :
              LET q == n * PageSize
              IN q < total' /\ previous' = After(q)' /\ (t = q + PageSize \/ t = Least(q + PageSize, total)')
        BY <1>1, <4>2, <4>3, <4>5, <4>8 DEF Least
      <4>10. Before(t)'
        BY <4>9 DEF Before
      <4>11. position' \in Nat
        BY <1>3, <1>5, <2>3, <4>1, <4>2 DEF Least
      <4>12. /\ out' = First(Len(out')) /\ Len(out') \in 0..total' /\ total' = total /\ style' # "cursor"
             /\ Len(out') = Least(t, total')
        BY <1>1, <1>5, <1>7, <2>3, <4>6
      <4>13. t < total => \E k \in Nat : t = k * PageSize
        BY <4>7
      <4>14. Before(StartAt(position))'
        BY <4>4, <4>10 DEF Before
      <4> QED
        BY <4>2, <4>4, <4>6, <4>11, <4>12, <4>13, <4>14 DEF HonestInv
    <3> QED
      BY <1>3, <1>5, <2>3, <3>1, <3>2
  <2> QED
    BY <1>1, <1>3, <1>4, <2>1, <2>3 DEF PagesInv
<1> QED
  BY <1>6, <1>7

LEMMA PagesAlways == PagesSpec => []PagesInv
<1>1. ASSUME PagesInv, UNCHANGED walkVars PROVE PagesInv'
  <2>1. UNCHANGED <<style, total, clamps, next, position, page, previous, walk, out>>
    BY <1>1 DEF walkVars, server
  <2>2. HonestInv' <=> HonestInv
    BY <2>1 DEF HonestInv, StartAt, Before, After, Least
  <2>3. Honest(total)' = Honest(total)
    BY <2>1 DEF Honest
  <2> QED
    BY <1>1, <2>1, <2>2, <2>3 DEF PagesInv
<1>2. ASSUME PagesInv, AskFails PROVE PagesInv'
  <2>1. /\ walk' = "error" /\ UNCHANGED <<style, total, clamps, next, position, page, previous, out>>
    BY <1>2 DEF AskFails, server
  <2>2. next = Honest(total) => HonestInv'
    BY <1>2, <2>1 DEF PagesInv, HonestInv, StartAt
  <2>3. Honest(total)' = Honest(total)
    BY <2>1 DEF Honest
  <2> QED
    BY <1>2, <2>1, <2>2, <2>3 DEF PagesInv
<1>3. PagesInv /\ [PagesNext]_walkVars => PagesInv'
  BY <1>1, <1>2, AsksKeeps, GoesOnKeeps DEF PagesNext
<1> QED
  BY PagesStart, <1>3, PTL DEF PagesSpec

\* For any number of items and size of a page, by a cursor, an offset or a page
\* number, and also when the server answers its last page for ever: the consumer
\* gets every item once and in order.
THEOREM ItemsOnce == PagesSpec => []EveryItemOnce
<1>1. ASSUME PagesInv, next = Honest(total)
      PROVE  /\ Len(out) <= total /\ out = SubSeq(AllItems, 1, Len(out))
             /\ walk \in {"done", "stuck"} => out = AllItems
  <2>1. /\ out = First(Len(out)) /\ Len(out) \in 0..total /\ total \in Nat
        /\ walk \in {"done", "stuck"} => Len(out) = total
    BY <1>1 DEF PagesInv, HonestInv
  <2>2. PICK n \in 0..total : n = Len(out)
    BY <2>1
  <2>3. AllItems = First(total)
    BY DEF AllItems, First
  <2>4. out \in Seq(Nat) /\ AllItems \in Seq(Nat) /\ \A i \in 1..n : out[i] = AllItems[i] /\ AllItems[i] \in Nat
    <3>1. First(n) \in Seq(Nat) /\ \A i \in 1..n : First(n)[i] = i
      BY <2>1, FirstIs
    <3>2. First(total) \in Seq(Nat) /\ \A i \in 1..total : First(total)[i] = i
      BY <2>1, FirstIs
    <3> QED
      BY <2>1, <2>2, <2>3, <3>1, <3>2
  <2>5. /\ SubSeq(AllItems, 1, n) \in Seq(Nat) /\ Len(SubSeq(AllItems, 1, n)) = n
        /\ \A i \in 1..n : SubSeq(AllItems, 1, n)[i] = AllItems[i]
    <3>1. \A i \in 1..n : AllItems[i] \in Nat
      BY <2>4
    <3>2. /\ SubSeq(AllItems, 1, n) \in Seq(Nat)
          /\ Len(SubSeq(AllItems, 1, n)) = (IF 1 <= n THEN n - 1 + 1 ELSE 0)
          /\ \A i \in 1..n - 1 + 1 : SubSeq(AllItems, 1, n)[i] = AllItems[1 + i - 1]
      BY <2>1, <3>1, SubSeqProperties
    <3>3. \A i \in 1..n : i \in 1..n - 1 + 1 /\ 1 + i - 1 = i
      BY <2>1
    <3> QED
      BY <2>1, <3>2, <3>3
  <2>6. out = SubSeq(AllItems, 1, n)
    BY <2>2, <2>4, <2>5, SeqEqual
  <2> QED
    BY <2>1, <2>2, <2>3, <2>6
<1>2. PagesInv => EveryItemOnce
  BY <1>1 DEF EveryItemOnce
<1> QED
  BY <1>2, PagesAlways, PTL
==============================================================================
