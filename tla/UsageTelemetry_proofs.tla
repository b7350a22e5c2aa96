------------------------ MODULE UsageTelemetry_proofs ------------------------
(***************************************************************************)
(* Proofs about UsageTelemetry, for any number of clients and calls and any*)
(* length of time.                                                         *)
(*                                                                         *)
(* That no call is counted twice is not inductive: it needs that a call is *)
(* counted in one place, a window or a send, and that what is still to be  *)
(* sent is not stored yet.  That flush waits for all that was counted needs*)
(* that nothing was lost before it was called.                             *)
(***************************************************************************)
EXTENDS UsageTelemetry, TLAPS

\* What a window counts has settled, since the window began.
Windows ==
  \A s \in Sdks : \A c \in counts[s] :
    SdkOf[c] = s /\ settled[c] # None /\ start[s] <= settled[c]

\* What a send holds settled in its time, and it holds something.
Covers(x) ==
  /\ x.calls # {}
  /\ \A c \in x.calls :
       SdkOf[c] = x.sdk /\ settled[c] # None /\ x.from <= settled[c] /\ settled[c] <= x.to

\* No call is counted in two places.
Apart ==
  /\ \A x, y \in sends : x = y \/ x.calls \cap y.calls = {}
  /\ \A x \in sends : \A s \in Sdks : x.calls \cap counts[s] = {}

\* What will be sent is not stored yet.
Fresh(c) == received[c] = 0 \/ c \in broken
Unsent ==
  /\ \A s \in Sdks : \A c \in counts[s] : Fresh(c)
  /\ \A x \in sends : x.outcome \in {"none", "keep"} => \A c \in x.calls : Fresh(c)

\* A send that ended was tried, and was stored if it was sent.
Ended ==
  /\ \A c \in Calls : received[c] > 0 => c \in tried /\ settled[c] # None
  /\ \A x \in sends : x.outcome # "none" => x.calls \subseteq tried
  /\ \A x \in sends : x.outcome = "sent" => \A c \in x.calls : received[c] > 0

\* A flush awaits the calls that were counted when it was called.
Waits ==
  \A c \in before :
    c \in tried \cup dropped \/ \E x \in sends : c \in x.calls /\ x.outcome = "none" /\ x.awaited

Past == \A c \in Calls : settled[c] # None => settled[c] <= now

Inv ==
  /\ TypeOK
  /\ Windows /\ (\A x \in sends : Covers(x)) /\ Past
  /\ OpenWindowsAreArmed /\ NothingIsLost /\ NothingIsLeft
  /\ Apart /\ Unsent /\ Ended /\ CountedAtMostOnce
  /\ Waits

------------------------------------------------------------------------------
(* Sends that begin *)

\* y is x, awaited or not.
Like(y, x) ==
  /\ y.sdk = x.sdk /\ y.calls = x.calls /\ y.from = x.from /\ y.to = x.to
  /\ y.onFailedSend = x.onFailedSend /\ y.outcome = x.outcome

\* What begins is a send of a window that has counts.
LEMMA BegunHolds ==
  ASSUME Inv, NEW S \in SUBSET Sdks, NEW how \in {"keep", "drop"}
  PROVE  /\ Begun(S, how) \subseteq Sends
         /\ \A x \in Begun(S, how) :
              /\ x.sdk \in S /\ x.calls = counts[x.sdk] /\ Covers(x)
              /\ x.outcome = "none" /\ x.onFailedSend = how
              /\ \A c \in x.calls : Fresh(c)
         /\ ~disabled => \A s \in Nonempty(S) : Send(s, how) \in Begun(S, how)
<1>1. now \in Nat /\ start \in [Sdks -> Nat] /\ counts \in [Sdks -> SUBSET Calls]
  BY Clients DEF Inv, TypeOK
<1>2. ASSUME NEW s \in Nonempty(S)
      PROVE  /\ Send(s, how) \in Sends
             /\ Send(s, how).sdk = s /\ Send(s, how).calls = counts[s]
             /\ Send(s, how).from = start[s] /\ Send(s, how).to = now
             /\ Send(s, how).outcome = "none" /\ Send(s, how).onFailedSend = how
  BY <1>1 DEF Send, Sends, Nonempty
<1>3. ASSUME NEW s \in Nonempty(S)
      PROVE  Covers(Send(s, how)) /\ \A c \in counts[s] : Fresh(c)
  BY <1>1, <1>2, <1>3 DEF Covers, Inv, Windows, Past, Unsent, Nonempty
<1>4. ASSUME NEW x \in Begun(S, how)
      PROVE  \E s \in Nonempty(S) : x = Send(s, how)
  BY <1>4 DEF Begun
<1> QED
  BY <1>2, <1>3, <1>4 DEF Begun, Nonempty

\* When the windows of some clients are sent, and maybe every send is awaited
\* from then on, no count is lost and none is in two places.
LEMMA Begins ==
  ASSUME Inv, NEW S \in SUBSET Sdks, NEW how \in {"keep", "drop"}, Close(S),
         UNCHANGED <<now, settled, received, broken, tried>>,
         sends' \subseteq Sends,
         \A y \in sends' : \E x \in sends \cup Begun(S, how) : Like(y, x),
         \A x \in sends \cup Begun(S, how) : \E y \in sends' : Like(y, x),
         \A y, z \in sends' : Like(y, z) => y = z
  PROVE  /\ Windows' /\ (\A x \in sends' : Covers(x)') /\ Past'
         /\ OpenWindowsAreArmed' /\ NothingIsLost'
         /\ Apart' /\ Unsent' /\ Ended' /\ CountedAtMostOnce'
         /\ counts' \in [Sdks -> SUBSET Calls] /\ start' = start
         /\ timer' \in [Sdks -> {"off", "running", "draining"}]
         /\ active' \subseteq Sdks /\ dropped' \subseteq Calls
         /\ dropped \subseteq dropped'
         /\ \A s \in S : counts'[s] = {}
         /\ \A s \in Sdks \ S : counts'[s] = counts[s]
<1> DEFINE B == Begun(S, how)
<1>1. TypeOK /\ counts \in [Sdks -> SUBSET Calls] /\ timer \in [Sdks -> {"off", "running", "draining"}]
  BY DEF Inv, TypeOK
<1>2. /\ counts' = [ s \in Sdks |-> IF s \in Nonempty(S) THEN {} ELSE counts[s] ]
      /\ timer' = [ s \in Sdks |-> IF s \in Nonempty(S) THEN "off" ELSE timer[s] ]
      /\ active' = active \ Nonempty(S)
      /\ dropped' = IF disabled THEN dropped \cup UNION { counts[s] : s \in S } ELSE dropped
      /\ start' = start
  BY DEF Close
<1>3. /\ B \subseteq Sends
      /\ \A x \in B : /\ x.sdk \in S /\ x.calls = counts[x.sdk] /\ Covers(x)
                      /\ x.outcome = "none" /\ x.onFailedSend = how
                      /\ \A c \in x.calls : Fresh(c)
      /\ ~disabled => \A s \in Nonempty(S) : Send(s, how) \in B
  BY BegunHolds
<1>4. /\ \A s \in S : counts'[s] = {}
      /\ \A s \in Sdks \ S : counts'[s] = counts[s]
      /\ \A s \in Sdks : counts'[s] = {} \/ counts'[s] = counts[s]
  BY <1>2 DEF Nonempty
<1>5. /\ counts' \in [Sdks -> SUBSET Calls] /\ start' = start
      /\ timer' \in [Sdks -> {"off", "running", "draining"}]
      /\ active' \subseteq Sdks /\ dropped' \subseteq Calls
      /\ dropped \subseteq dropped'
  BY <1>1, <1>2 DEF TypeOK
<1>6. Windows' /\ Past'
  BY <1>2, <1>4 DEF Inv, Windows, Past
<1>7. \A x \in sends' : Covers(x)'
  BY <1>3 DEF Inv, Covers, Like
<1>8. OpenWindowsAreArmed'
  BY <1>1, <1>2 DEF Inv, OpenWindowsAreArmed, Nonempty
<1>9. NothingIsLost'
  <2> SUFFICES ASSUME NEW c \in Settled, ~(received[c] > 0), c \notin dropped
               PROVE  \/ c \in counts'[SdkOf[c]] \/ \E x \in sends' : c \in x.calls
                      \/ c \in dropped'
    BY <1>5 DEF NothingIsLost, Settled
  <2>1. SdkOf[c] \in Sdks
    BY Clients DEF Settled
  <2>2. CASE c \in counts[SdkOf[c]]
    <3>1. CASE SdkOf[c] \notin S
      BY <1>4, <2>1, <2>2, <3>1
    <3>2. CASE SdkOf[c] \in S /\ disabled
      BY <1>2, <2>2, <3>2
    <3>3. CASE SdkOf[c] \in S /\ ~disabled
      <4>1. Send(SdkOf[c], how) \in B /\ Send(SdkOf[c], how).calls = counts[SdkOf[c]]
        BY <1>3, <2>2, <3>3 DEF Nonempty, Send
      <4> QED
        BY <2>2, <4>1 DEF Like
    <3> QED
      BY <3>1, <3>2, <3>3
  <2>3. CASE \E x \in sends : c \in x.calls
    BY <2>3 DEF Like
  <2> QED
    BY <2>2, <2>3 DEF Inv, NothingIsLost
<1>10. Apart'
  <2>1. ASSUME NEW x \in sends \cup B, NEW y \in sends \cup B, x.calls \cap y.calls # {}
        PROVE  Like(x, y)
    <3>1. CASE x \in B /\ y \in B
      <4>1. x.sdk = y.sdk
        BY <1>3, <2>1, <3>1 DEF Covers
      <4> QED
        BY <3>1, <4>1 DEF Begun, Send, Like
    <3>2. CASE x \in sends /\ y \in sends
      BY <2>1, <3>2 DEF Inv, Apart, Like
    <3>3. CASE (x \in B /\ y \in sends) \/ (x \in sends /\ y \in B)
      BY <1>3, <2>1, <3>3 DEF Inv, Apart
    <3> QED
      BY <3>1, <3>2, <3>3
  <2>2. ASSUME NEW x \in sends \cup B, NEW s \in Sdks
        PROVE  x.calls \cap counts'[s] = {}
    <3>1. CASE x \in B
      <4>1. s \in S \/ x.calls \cap counts[s] = {}
        BY <1>3, <3>1 DEF Inv, Covers, Windows
      <4> QED
        BY <1>4, <4>1
    <3>2. CASE x \in sends
      BY <1>4, <3>2 DEF Inv, Apart
    <3> QED
      BY <3>1, <3>2
  <2>3. ASSUME NEW y \in sends', NEW z \in sends', y.calls \cap z.calls # {}
        PROVE  y = z
    <3>1. PICK x \in sends \cup B : Like(y, x)
      OBVIOUS
    <3>2. PICK w \in sends \cup B : Like(z, w)
      OBVIOUS
    <3>3. Like(x, w)
      BY <2>1, <2>3, <3>1, <3>2 DEF Like
    <3>4. Like(y, z)
      BY <3>1, <3>2, <3>3 DEF Like
    <3> QED
      BY <3>4
  <2>4. ASSUME NEW y \in sends', NEW s \in Sdks
        PROVE  y.calls \cap counts'[s] = {}
    BY <2>2 DEF Like
  <2> QED
    BY <2>3, <2>4 DEF Apart
<1>11. Unsent'
  <2>1. \A x \in sends \cup B : x.outcome \in {"none", "keep"} => \A c \in x.calls : Fresh(c)
    BY <1>3 DEF Inv, Unsent
  <2>2. \A y \in sends' : y.outcome \in {"none", "keep"} => \A c \in y.calls : Fresh(c)'
    BY <2>1 DEF Like, Fresh
  <2> QED
    BY <1>4, <2>2 DEF Inv, Unsent, Fresh
<1>12. Ended'
  <2>1. \A x \in sends \cup B :
          /\ x.outcome # "none" => x.calls \subseteq tried
          /\ x.outcome = "sent" => \A c \in x.calls : received[c] > 0
    BY <1>3 DEF Inv, Ended
  <2> QED
    BY <2>1 DEF Inv, Ended, Like
<1>13. CountedAtMostOnce'
  BY DEF Inv, CountedAtMostOnce
<1> QED
  BY <1>4, <1>5, <1>6, <1>7, <1>8, <1>9, <1>10, <1>11, <1>12, <1>13

------------------------------------------------------------------------------
(* Counts that are added to a window *)

\* Adding calls that settled, are not stored and are in no other place keeps
\* what is said of the windows.
LEMMA Adds ==
  ASSUME Inv, NEW s \in Sdks, NEW calls \in SUBSET Calls, NEW oldest \in Nat,
         Add(s, calls, oldest), calls # {}, UNCHANGED <<now, broken, received>>,
         process # "exited", oldest <= now,
         \A c \in calls : SdkOf[c] = s /\ settled'[c] # None /\ oldest <= settled'[c] /\ Fresh(c),
         \A c \in calls : settled'[c] \in 0 .. now,
         \A c \in Calls : settled[c] # None => settled'[c] = settled[c]
  PROVE  /\ Windows' /\ OpenWindowsAreArmed'
         /\ \A t \in Sdks : \A c \in counts'[t] : Fresh(c)'
         /\ counts' \in [Sdks -> SUBSET Calls] /\ start' \in [Sdks -> 0 .. MaxTime]
         /\ timer' \in [Sdks -> {"off", "running", "draining"}] /\ active' \subseteq Sdks
         /\ counts'[s] = counts[s] \cup calls
         /\ \A t \in Sdks \ {s} : counts'[t] = counts[t]
<1> DEFINE open == Opened(s)
<1>1. /\ counts \in [Sdks -> SUBSET Calls] /\ start \in [Sdks -> 0 .. MaxTime]
      /\ timer \in [Sdks -> {"off", "running", "draining"}] /\ active \subseteq Sdks
      /\ now \in 0 .. MaxTime /\ process \in {"running", "draining"}
      /\ settled \in [Calls -> (0 .. MaxTime) \cup {None}] /\ MaxTime \in Nat
  BY Clients DEF Inv, TypeOK
<1>2. /\ counts[s] = {} => open.start = now /\ open.timer = process /\ open.active = active \cup {s}
      /\ counts[s] # {} => open.start = start[s] /\ open.timer = timer[s] /\ open.active = active
  BY DEF Opened
<1>3. /\ counts' = [ counts EXCEPT ![s] = @ \cup calls ]
      /\ start' = [ start EXCEPT ![s] = IF oldest < open.start THEN oldest ELSE open.start ]
      /\ timer' = [ timer EXCEPT ![s] = open.timer ]
      /\ active' = open.active
  BY DEF Add
<1> HIDE DEF open
<1>4. open.start \in 0 .. now /\ open.timer \in {"off", "running", "draining"}
  <2>1. counts[s] # {} => start[s] <= now
    BY <1>1 DEF Inv, Windows, Past
  <2> QED
    BY <1>1, <1>2, <2>1
<1>5. counts' \in [Sdks -> SUBSET Calls] /\ start' \in [Sdks -> 0 .. MaxTime]
  BY <1>1, <1>3, <1>4
<1>6. timer' \in [Sdks -> {"off", "running", "draining"}] /\ active' \subseteq Sdks
  BY <1>1, <1>2, <1>3, <1>4
<1>7. /\ counts'[s] = counts[s] \cup calls
      /\ \A t \in Sdks \ {s} : counts'[t] = counts[t]
      /\ \A t \in Sdks \ {s} : start'[t] = start[t] /\ timer'[t] = timer[t]
      /\ start'[s] <= oldest /\ start'[s] <= open.start
      /\ timer'[s] = open.timer
  BY <1>1, <1>3, <1>4
<1>8. Windows'
  <2> SUFFICES ASSUME NEW t \in Sdks, NEW c \in counts'[t]
               PROVE  SdkOf[c] = t /\ settled'[c] # None /\ start'[t] <= settled'[c]
    BY DEF Windows
  <2>1. CASE t # s
    <3>1. SdkOf[c] = t /\ settled[c] # None /\ start[t] <= settled[c] /\ c \in Calls
      BY <1>1, <1>7, <2>1 DEF Inv, Windows
    <3> QED
      BY <1>7, <2>1, <3>1
  <2>2. CASE t = s /\ c \in calls
    BY <1>5, <1>7, <2>2
  <2>3. CASE t = s /\ c \in counts[s]
    <3>1. SdkOf[c] = s /\ settled[c] # None /\ start[s] <= settled[c] /\ c \in Calls
      BY <1>1, <2>3 DEF Inv, Windows
    <3>2. open.start = start[s] /\ settled'[c] = settled[c] /\ settled[c] \in Nat
      BY <1>1, <1>2, <2>3, <3>1
    <3> QED
      BY <1>1, <1>5, <1>7, <2>3, <3>1, <3>2
  <2> QED
    BY <1>7, <2>1, <2>2, <2>3
<1>9. OpenWindowsAreArmed'
  <2>1. \A t \in Sdks : (counts[t] # {} <=> t \in active) /\ (counts[t] # {} <=> timer[t] # "off")
    BY DEF Inv, OpenWindowsAreArmed
  <2>2. open.timer # "off" /\ s \in active' /\ \A t \in Sdks \ {s} : t \in active' <=> t \in active
    BY <1>1, <1>2, <1>3, <2>1
  <2> QED
    BY <1>7, <2>1, <2>2 DEF OpenWindowsAreArmed
<1>10. \A t \in Sdks : \A c \in counts'[t] : Fresh(c)'
  BY <1>7 DEF Inv, Unsent, Fresh
<1> QED
  BY <1>5, <1>6, <1>7, <1>8, <1>9, <1>10

------------------------------------------------------------------------------
(* The steps *)

LEMMA SettleKeeps == ASSUME Inv, NEW c \in Calls, Settle(c) PROVE Inv'
<1>1. /\ process = "running" /\ settled[c] = None
      /\ settled' = [ settled EXCEPT ![c] = now ]
      /\ Add(SdkOf[c], {c}, now)
      /\ UNCHANGED <<now, sends, received, broken, tried, dropped>>
      /\ UNCHANGED <<disabled, flushing, before, process>>
  BY DEF Settle, fates, app
<1>2. /\ now \in 0 .. MaxTime /\ settled \in [Calls -> (0 .. MaxTime) \cup {None}]
      /\ SdkOf[c] \in Sdks /\ MaxTime \in Nat /\ None \notin Nat
  BY Clients DEF Inv, TypeOK
<1>3. settled'[c] = now /\ \A d \in Calls : d # c => settled'[d] = settled[d]
  BY <1>1, <1>2
<1>4. Fresh(c)
  BY <1>1 DEF Inv, TypeOK, Ended, Fresh
<1>5. /\ Windows' /\ OpenWindowsAreArmed'
      /\ \A t \in Sdks : \A d \in counts'[t] : Fresh(d)'
      /\ counts' \in [Sdks -> SUBSET Calls] /\ start' \in [Sdks -> 0 .. MaxTime]
      /\ timer' \in [Sdks -> {"off", "running", "draining"}] /\ active' \subseteq Sdks
      /\ counts'[SdkOf[c]] = counts[SdkOf[c]] \cup {c}
      /\ \A t \in Sdks \ {SdkOf[c]} : counts'[t] = counts[t]
  <2>1. \A d \in {c} : SdkOf[d] = SdkOf[c] /\ settled'[d] # None /\ now <= settled'[d] /\ Fresh(d)
    BY <1>2, <1>3, <1>4
  <2>2. \A d \in {c} : settled'[d] \in 0 .. now
    BY <1>2, <1>3
  <2>3. \A d \in Calls : settled[d] # None => settled'[d] = settled[d]
    BY <1>1, <1>3
  <2>4. {c} \in SUBSET Calls /\ {c} # {} /\ now \in Nat /\ now <= now /\ process # "exited"
    BY <1>1, <1>2
  <2> QED
    BY <1>1, <1>2, <2>1, <2>2, <2>3, <2>4, Adds
<1>6. TypeOK'
  BY <1>1, <1>2, <1>5 DEF Inv, TypeOK
<1>7. \A x \in sends : x.calls \in SUBSET Calls
  BY DEF Inv, TypeOK, Sends
<1>8. (\A x \in sends : Covers(x))'
  BY <1>1, <1>3, <1>7 DEF Inv, Covers
<1>9. Past'
  BY <1>1, <1>2, <1>3 DEF Inv, Past
<1>10. NothingIsLost'
  <2>1. \A d \in Settled' : d = c \/ d \in Settled
    BY <1>3 DEF Settled
  <2>2. \A t \in Sdks : counts[t] \subseteq counts'[t]
    BY <1>5
  <2>3. \A d \in Calls : SdkOf[d] \in Sdks
    BY Clients
  <2> QED
    BY <1>1, <1>5, <2>1, <2>2, <2>3 DEF Inv, NothingIsLost, Settled
<1>11. NothingIsLeft'
  BY <1>1 DEF NothingIsLeft
<1>12. Apart'
  <2>1. \A x \in sends : c \notin x.calls
    BY <1>1 DEF Inv, Covers
  <2> QED
    BY <1>1, <1>5, <2>1 DEF Inv, Apart
<1>13. Unsent' /\ Ended' /\ CountedAtMostOnce' /\ Waits'
  BY <1>1, <1>3, <1>5 DEF Inv, Unsent, Ended, CountedAtMostOnce, Waits, Fresh
<1> QED
  BY <1>6, <1>5, <1>8, <1>9, <1>10, <1>11, <1>12, <1>13 DEF Inv

LEMMA TimerFiresKeeps == ASSUME Inv, NEW s \in Sdks, TimerFires(s) PROVE Inv'
<1>1. /\ process # "exited" /\ sends' = sends \cup Begun({s}, "keep") /\ Close({s})
      /\ UNCHANGED <<now, settled, received, broken, tried>>
      /\ UNCHANGED <<disabled, flushing, before, process>>
  BY DEF TimerFires, app
<1>2. Begun({s}, "keep") \subseteq Sends
  BY BegunHolds
<1>3. sends' \subseteq Sends
  BY <1>1, <1>2 DEF Inv, TypeOK
<1>4. \A y, z \in sends' : Like(y, z) => y = z
  <2>1. \A y, z \in sends : Like(y, z) => y = z
    BY DEF Inv, Apart, Like, Covers
  <2>2. \A y, z \in Begun({s}, "keep") : y = z
    BY DEF Begun, Nonempty
  <2>3. \A y \in sends, z \in Begun({s}, "keep") : ~Like(y, z) /\ ~Like(z, y)
    BY BegunHolds DEF Inv, Apart, Like, Covers
  <2> QED
    BY <1>1, <2>1, <2>2, <2>3
<1>5. /\ Windows' /\ (\A x \in sends' : Covers(x)') /\ Past'
      /\ OpenWindowsAreArmed' /\ NothingIsLost'
      /\ Apart' /\ Unsent' /\ Ended' /\ CountedAtMostOnce'
      /\ counts' \in [Sdks -> SUBSET Calls] /\ start' = start
      /\ timer' \in [Sdks -> {"off", "running", "draining"}]
      /\ active' \subseteq Sdks /\ dropped' \subseteq Calls /\ dropped \subseteq dropped'
  BY <1>1, <1>3, <1>4, Begins DEF Like
<1>6. TypeOK'
  BY <1>1, <1>3, <1>5 DEF Inv, TypeOK
<1>7. NothingIsLeft' /\ Waits'
  BY <1>1, <1>5 DEF Inv, NothingIsLeft, Waits
<1> QED
  BY <1>5, <1>6, <1>7 DEF Inv

\* The last sends begin when no other is under way: they stay apart.
LEMMA BeforeExitKeeps == ASSUME Inv, BeforeExit PROVE Inv'
<1>1. /\ process = "draining" /\ sends = {} /\ ~flushing
      /\ sends' = Begun(active, "drop") /\ Close(active)
      /\ process' = IF sends' = {} THEN "exited" ELSE "draining"
      /\ UNCHANGED <<now, settled, received, broken, tried, disabled, flushing, before>>
  BY DEF BeforeExit
<1>2. active \in SUBSET Sdks
  BY DEF Inv, TypeOK
<1>3. sends' \subseteq Sends
  BY <1>1, <1>2, BegunHolds
<1>4. \A y, z \in sends' : Like(y, z) => y = z
  <2>1. \A y \in Begun(active, "drop") : y = Send(y.sdk, "drop")
    BY DEF Begun, Send
  <2> QED
    BY <1>1, <2>1 DEF Like
<1>5. /\ Windows' /\ (\A x \in sends' : Covers(x)') /\ Past'
      /\ OpenWindowsAreArmed' /\ NothingIsLost'
      /\ Apart' /\ Unsent' /\ Ended' /\ CountedAtMostOnce'
      /\ counts' \in [Sdks -> SUBSET Calls] /\ start' = start
      /\ timer' \in [Sdks -> {"off", "running", "draining"}]
      /\ active' \subseteq Sdks /\ dropped' \subseteq Calls /\ dropped \subseteq dropped'
      /\ \A s \in active : counts'[s] = {}
      /\ \A s \in Sdks \ active : counts'[s] = counts[s]
  BY <1>1, <1>2, <1>3, <1>4, Begins DEF Like
<1>6. TypeOK'
  BY <1>1, <1>3, <1>5 DEF Inv, TypeOK
<1>7. \A s \in Sdks : counts'[s] = {}
  BY <1>5 DEF Inv, OpenWindowsAreArmed
<1>8. NothingIsLeft' /\ Waits'
  BY <1>1, <1>5, <1>7 DEF Inv, NothingIsLeft, Waits
<1> QED
  BY <1>5, <1>6, <1>8 DEF Inv

LEMMA SinkEndsKeeps == ASSUME Inv, NEW x \in sends, SinkEnds(x) PROVE Inv'
<1>1. PICK outcome \in {"sent", "keep", "drop"}, stored \in BOOLEAN :
        /\ outcome = "sent" => stored
        /\ sends' = (sends \ {x}) \cup { [ x EXCEPT !.outcome = outcome ] }
        /\ Store(x, stored)
        /\ broken' = IF outcome = "keep" /\ stored THEN broken \cup x.calls ELSE broken
  BY DEF SinkEnds
<1>2. /\ x.outcome = "none" /\ tried' = tried \cup x.calls
      /\ UNCHANGED <<now, settled, counts, start, timer, active, dropped>>
      /\ UNCHANGED <<disabled, flushing, before, process>>
  BY DEF SinkEnds, windows, app
<1> DEFINE z == [ x EXCEPT !.outcome = outcome ]
<1>3. /\ x \in Sends /\ x.calls \subseteq Calls
      /\ received \in [Calls -> 0 .. 2]
  BY DEF Inv, TypeOK, Sends
<1>4. /\ z \in Sends /\ z.sdk = x.sdk /\ z.calls = x.calls /\ z.from = x.from /\ z.to = x.to
      /\ z.onFailedSend = x.onFailedSend /\ z.outcome = outcome /\ z.awaited = x.awaited
  BY <1>3 DEF Sends
<1>5. /\ received' \in [Calls -> 0 .. 2]
      /\ \A c \in Calls : c \notin x.calls \/ ~stored => received'[c] = received[c]
      /\ \A c \in x.calls : stored => received'[c] = IF received[c] < 2 THEN received[c] + 1 ELSE received[c]
  BY <1>1, <1>3 DEF Store
<1> HIDE DEF z
<1>6. \A y \in sends' : y = z \/ (y \in sends /\ y # x)
  BY <1>1 DEF z
<1>7. z \in sends' /\ \A y \in sends : y # x => y \in sends'
  BY <1>1 DEF z
<1>8. TypeOK'
  BY <1>1, <1>2, <1>3, <1>4, <1>5, <1>6 DEF Inv, TypeOK
<1>9. Windows' /\ Past' /\ OpenWindowsAreArmed'
  BY <1>2 DEF Inv, Windows, Past, OpenWindowsAreArmed
<1>10. (\A y \in sends : Covers(y))'
  BY <1>2, <1>4, <1>6 DEF Inv, Covers
<1>11. NothingIsLeft'
  BY <1>2 DEF Inv, NothingIsLeft
<1>12. NothingIsLost'
  <2>1. \A c \in Calls : received[c] > 0 => received'[c] > 0
    BY <1>3, <1>5
  <2>2. \A c \in Calls : (\E y \in sends : c \in y.calls) => \E y \in sends' : c \in y.calls
    BY <1>4, <1>7
  <2> QED
    BY <1>2, <2>1, <2>2 DEF Inv, NothingIsLost, Settled
<1>13. Apart'
  <2>1. \A y \in sends : y # x => y.calls \cap x.calls = {}
    BY DEF Inv, Apart
  <2> QED
    BY <1>2, <1>4, <1>6, <2>1 DEF Inv, Apart
<1>14. broken \subseteq broken'
  BY <1>1
<1>15. \A c \in Calls : c \notin x.calls /\ Fresh(c) => Fresh(c)'
  BY <1>5, <1>14 DEF Fresh
<1>16. Unsent'
  <2>1. \A s \in Sdks : \A c \in counts[s] : c \in Calls /\ c \notin x.calls /\ Fresh(c)
    BY DEF Inv, TypeOK, Apart, Unsent
  <2>2. \A y \in sends : y # x /\ y.outcome \in {"none", "keep"} =>
          \A c \in y.calls : c \in Calls /\ c \notin x.calls /\ Fresh(c)
    BY DEF Inv, TypeOK, Apart, Unsent, Sends
  <2>3. outcome = "keep" => \A c \in x.calls : Fresh(c)'
    <3>1. \A c \in x.calls : Fresh(c)
      BY <1>2 DEF Inv, Unsent
    <3> QED
      BY <1>1, <1>3, <1>5, <3>1 DEF Fresh
  <2> QED
    BY <1>2, <1>4, <1>6, <1>15, <2>1, <2>2, <2>3 DEF Unsent
<1>17. Ended'
  <2>1. \A c \in Calls : received'[c] > 0 => c \in tried' /\ settled[c] # None
    <3>1. \A c \in x.calls : settled[c] # None
      BY DEF Inv, Covers
    <3> QED
      BY <1>2, <1>5, <3>1 DEF Inv, Ended
  <2>2. \A y \in sends' : y.outcome # "none" => y.calls \subseteq tried'
    BY <1>2, <1>4, <1>6 DEF Inv, Ended
  <2>3. \A y \in sends : y # x /\ y.outcome = "sent" => \A c \in y.calls : received'[c] > 0
    BY <1>3, <1>5 DEF Inv, Ended, TypeOK, Sends
  <2>4. outcome = "sent" => \A c \in x.calls : received'[c] > 0
    BY <1>1, <1>3, <1>5
  <2> QED
    BY <1>2, <1>4, <1>6, <2>1, <2>2, <2>3, <2>4 DEF Ended
<1>18. CountedAtMostOnce'
  <2>1. \A c \in x.calls : Fresh(c)
    BY <1>2 DEF Inv, Unsent
  <2> QED
    BY <1>3, <1>5, <1>14, <2>1 DEF Inv, CountedAtMostOnce, Fresh
<1>19. Waits'
  <2>1. \A c \in before : c \in tried' \cup dropped \/ \E y \in sends : /\ y # x /\ c \in y.calls
                                                                     /\ y.outcome = "none" /\ y.awaited
    BY <1>2 DEF Inv, Waits
  <2> QED
    BY <1>2, <1>7, <2>1 DEF Waits
<1> QED
  BY <1>8, <1>9, <1>10, <1>11, <1>12, <1>13, <1>16, <1>17, <1>18, <1>19 DEF Inv

LEMMA FlushEndsKeeps == ASSUME Inv, NEW x \in sends, FlushEnds(x) PROVE Inv'
<1>1. /\ x.outcome # "none" /\ sends' = sends \ {x}
      /\ IF Kept(x)
         THEN Add(x.sdk, x.calls, x.from) /\ UNCHANGED dropped
         ELSE /\ dropped' = IF x.outcome = "sent" THEN dropped ELSE dropped \cup x.calls
              /\ UNCHANGED <<counts, start, timer, active>>
      /\ UNCHANGED <<now, settled, received, broken, tried>>
      /\ UNCHANGED <<disabled, flushing, before, process>>
  BY DEF FlushEnds, windows, app
<1>2. /\ x \in Sends /\ x.sdk \in Sdks /\ x.calls \in SUBSET Calls /\ x.from \in Nat
      /\ Covers(x) /\ x.calls \subseteq tried
  BY <1>1 DEF Inv, TypeOK, Sends, Ended
<1>3. /\ sends' \subseteq Sends
      /\ (\A y \in sends : Covers(y))' /\ Past'
      /\ \A y \in sends' : y \in sends /\ y.calls \cap x.calls = {}
  BY <1>1 DEF Inv, TypeOK, Apart, Covers, Past
<1>4. NothingIsLeft'
  BY <1>1 DEF Inv, NothingIsLeft
<1>5. Ended' /\ CountedAtMostOnce'
  BY <1>1 DEF Inv, Ended, CountedAtMostOnce
<1>6. dropped \subseteq dropped' /\ dropped' \subseteq Calls
  BY <1>1, <1>2 DEF Inv, TypeOK
<1>7. Waits'
  <2>1. \A c \in before : c \in tried \cup dropped \/ \E y \in sends : /\ y # x /\ c \in y.calls
                                                                     /\ y.outcome = "none" /\ y.awaited
    BY <1>1 DEF Inv, Waits
  <2> QED
    BY <1>1, <1>6, <2>1 DEF Waits
<1>8. CASE Kept(x)
  <2>1. \A c \in x.calls : /\ SdkOf[c] = x.sdk /\ settled'[c] # None /\ x.from <= settled'[c]
                           /\ Fresh(c) /\ settled'[c] \in 0 .. now
    BY <1>1, <1>2, <1>8, Clients DEF Covers, Kept, Inv, Unsent, Past, TypeOK
  <2>2. x.from <= now /\ process # "exited" /\ x.calls # {}
    <3>1. PICK c \in x.calls : TRUE
      BY <1>2 DEF Covers
    <3>2. now \in Nat
      BY Clients DEF Inv, TypeOK
    <3> QED
      BY <1>2, <2>1, <3>1, <3>2, <1>1 DEF Inv, NothingIsLeft, Covers
  <2>3. /\ Windows' /\ OpenWindowsAreArmed'
        /\ \A t \in Sdks : \A c \in counts'[t] : Fresh(c)'
        /\ counts' \in [Sdks -> SUBSET Calls] /\ start' \in [Sdks -> 0 .. MaxTime]
        /\ timer' \in [Sdks -> {"off", "running", "draining"}] /\ active' \subseteq Sdks
        /\ counts'[x.sdk] = counts[x.sdk] \cup x.calls
        /\ \A t \in Sdks \ {x.sdk} : counts'[t] = counts[t]
    BY <1>1, <1>2, <1>8, <2>1, <2>2, Adds
  <2>4. TypeOK'
    BY <1>1, <1>3, <1>6, <2>3 DEF Inv, TypeOK
  <2>5. NothingIsLost'
    <3> SUFFICES ASSUME NEW c \in Settled, ~(received[c] > 0), c \notin dropped
                 PROVE  c \in counts'[SdkOf[c]] \/ \E y \in sends' : c \in y.calls
      BY <1>1, <1>6 DEF NothingIsLost, Settled
    <3>1. SdkOf[c] \in Sdks
      BY Clients DEF Settled
    <3>2. c \in counts[SdkOf[c]] \/ \E y \in sends : c \in y.calls
      BY DEF Inv, NothingIsLost
    <3>3. CASE c \in x.calls
      BY <1>2, <2>3, <3>3 DEF Covers
    <3> QED
      BY <1>1, <2>3, <3>1, <3>2, <3>3
  <2>6. Apart'
    BY <1>1, <1>3, <2>3 DEF Inv, Apart
  <2>7. Unsent'
    BY <1>1, <2>3 DEF Inv, Unsent, Fresh
  <2> QED
    BY <1>3, <1>4, <1>5, <1>7, <2>3, <2>4, <2>5, <2>6, <2>7 DEF Inv
<1>9. CASE ~Kept(x)
  <2>1. /\ dropped' = IF x.outcome = "sent" THEN dropped ELSE dropped \cup x.calls
        /\ UNCHANGED <<counts, start, timer, active>>
    BY <1>1, <1>9
  <2>2. TypeOK'
    BY <1>1, <1>3, <1>6, <2>1 DEF Inv, TypeOK
  <2>3. Windows' /\ OpenWindowsAreArmed'
    BY <1>1, <2>1 DEF Inv, Windows, OpenWindowsAreArmed
  <2>4. NothingIsLost'
    <3>1. \A c \in x.calls : received[c] > 0 \/ c \in dropped'
      BY <2>1 DEF Inv, Ended
    <3> QED
      BY <1>1, <1>6, <2>1, <3>1 DEF Inv, NothingIsLost, Settled
  <2>5. Apart' /\ Unsent'
    BY <1>1, <2>1 DEF Inv, Apart, Unsent, Fresh
  <2> QED
    BY <1>3, <1>4, <1>5, <1>7, <2>2, <2>3, <2>4, <2>5 DEF Inv
<1> QED
  BY <1>8, <1>9

LEMMA FlushKeeps == ASSUME Inv, Flush PROVE Inv'
<1> DEFINE T == sends \cup Begun(active, "keep")
           Await(x) == [ x EXCEPT !.awaited = TRUE ]
<1>1. /\ process = "running" /\ sends' = { Await(x) : x \in T } /\ Close(active)
      /\ flushing' = TRUE /\ before' = Settled
      /\ UNCHANGED <<now, settled, received, broken, tried, disabled, process>>
  BY DEF Flush
<1>2. active \in SUBSET Sdks /\ T \subseteq Sends
  BY BegunHolds DEF Inv, TypeOK
<1>3. \A x \in T : Await(x) \in Sends /\ Like(Await(x), x) /\ Await(x).awaited = TRUE
  BY <1>2 DEF Sends, Like
<1>4. sends' \subseteq Sends
  BY <1>1, <1>3
<1>5. \A y, z \in sends' : Like(y, z) => y = z
  BY <1>1, <1>3, <1>4 DEF Sends, Like
<1> HIDE DEF Await
<1>6. /\ \A y \in sends' : \E x \in T : Like(y, x)
      /\ \A x \in T : \E y \in sends' : Like(y, x)
      /\ \A y \in sends' : y.awaited
  BY <1>1, <1>3
<1>7. /\ Windows' /\ (\A x \in sends' : Covers(x)') /\ Past'
      /\ OpenWindowsAreArmed' /\ NothingIsLost'
      /\ Apart' /\ Unsent' /\ Ended' /\ CountedAtMostOnce'
      /\ counts' \in [Sdks -> SUBSET Calls] /\ start' = start
      /\ timer' \in [Sdks -> {"off", "running", "draining"}]
      /\ active' \subseteq Sdks /\ dropped' \subseteq Calls /\ dropped \subseteq dropped'
      /\ \A s \in active : counts'[s] = {}
      /\ \A s \in Sdks \ active : counts'[s] = counts[s]
  BY <1>1, <1>2, <1>4, <1>5, <1>6, Begins
<1>8. TypeOK'
  BY <1>1, <1>4, <1>7 DEF Inv, TypeOK, Settled
<1>9. NothingIsLeft'
  BY <1>1 DEF NothingIsLeft
<1>10. Waits'
  <2> SUFFICES ASSUME NEW c \in Settled, c \notin tried \cup dropped'
               PROVE  \E y \in sends' : c \in y.calls /\ y.outcome = "none" /\ y.awaited
    BY <1>1 DEF Waits
  <2>1. c \notin dropped /\ ~(received[c] > 0) /\ c \in Calls
    BY <1>7 DEF Inv, Ended, Settled
  <2>2. c \in counts'[SdkOf[c]] \/ \E y \in sends' : c \in y.calls
    BY <1>1, <1>7, <2>1 DEF NothingIsLost, Settled
  <2>3. \A s \in Sdks : counts'[s] = {}
    BY <1>7 DEF Inv, OpenWindowsAreArmed
  <2>4. PICK y \in sends' : c \in y.calls
    BY <2>1, <2>2, <2>3, Clients
  <2>5. y.outcome = "none"
    BY <1>1, <1>7, <2>4 DEF Ended
  <2> QED
    BY <1>6, <2>4, <2>5
<1> QED
  BY <1>7, <1>8, <1>9, <1>10 DEF Inv

LEMMA ProcessStepsKeep == ASSUME Inv, FlushReturns \/ OptOut \/ AppEnds \/ Tick PROVE Inv'
<1>1. /\ UNCHANGED <<settled, counts, start, timer, active, sends, received, broken, tried, dropped>>
      /\ now' = now \/ (now' = now + 1 /\ now < MaxTime)
      /\ before' \in {before, {}}
      /\ flushing' \in BOOLEAN /\ disabled' \in BOOLEAN
      /\ process' = process \/ process' = "draining"
  <2>1. CASE FlushReturns
    BY <2>1 DEF FlushReturns, windows, fates, Inv, TypeOK
  <2>2. CASE OptOut
    BY <2>2 DEF OptOut, windows, fates, Inv, TypeOK
  <2>3. CASE AppEnds
    BY <2>3 DEF AppEnds, windows, fates, Inv, TypeOK
  <2>4. CASE Tick
    BY <2>4 DEF Tick, windows, fates, app, Inv, TypeOK
  <2> QED
    BY <2>1, <2>2, <2>3, <2>4
<1>2. now \in 0 .. MaxTime /\ now' \in 0 .. MaxTime /\ now <= now' /\ MaxTime \in Nat
  BY <1>1, Clients DEF Inv, TypeOK
<1>3. TypeOK'
  BY <1>1, <1>2 DEF Inv, TypeOK
<1>4. Windows' /\ (\A x \in sends : Covers(x))' /\ OpenWindowsAreArmed' /\ NothingIsLost'
  BY <1>1 DEF Inv, Windows, Covers, OpenWindowsAreArmed, NothingIsLost, Settled
<1>5. Past'
  <2>1. \A c \in Calls : settled[c] # None => settled[c] \in Nat /\ settled[c] <= now
    BY DEF Inv, TypeOK, Past
  <2> QED
    BY <1>1, <1>2, <2>1 DEF Past
<1>6. NothingIsLeft' /\ Apart' /\ Unsent' /\ Ended' /\ CountedAtMostOnce' /\ Waits'
  BY <1>1 DEF Inv, NothingIsLeft, Apart, Unsent, Fresh, Ended, CountedAtMostOnce, Waits
<1> QED
  BY <1>3, <1>4, <1>5, <1>6 DEF Inv

LEMMA InitHolds == Init => Inv
<1> SUFFICES ASSUME Init PROVE Inv
  OBVIOUS
<1>1. TypeOK
  <2>1. 0 \in 0 .. MaxTime /\ 0 \in 0 .. 2
    BY Clients
  <2>2. settled \in [Calls -> (0 .. MaxTime) \cup {None}] /\ start \in [Sdks -> 0 .. MaxTime]
    BY <2>1 DEF Init
  <2>3. received \in [Calls -> 0 .. 2] /\ counts \in [Sdks -> SUBSET Calls]
    BY <2>1 DEF Init
  <2> QED
    BY <2>1, <2>2, <2>3 DEF Init, TypeOK
<1>2. Windows /\ Past /\ OpenWindowsAreArmed /\ NothingIsLost /\ NothingIsLeft
  BY DEF Init, Windows, Past, OpenWindowsAreArmed, NothingIsLost, NothingIsLeft, Settled
<1>3. (\A x \in sends : Covers(x)) /\ Apart /\ Unsent /\ Ended /\ CountedAtMostOnce /\ Waits
  BY DEF Init, Apart, Unsent, Ended, CountedAtMostOnce, Waits
<1> QED
  BY <1>1, <1>2, <1>3 DEF Inv

LEMMA StepKeeps == Inv /\ [Next]_vars => Inv'
<1> SUFFICES ASSUME Inv, [Next]_vars PROVE Inv'
  OBVIOUS
<1>1. CASE \E c \in Calls : Settle(c)
  BY <1>1, SettleKeeps
<1>2. CASE \E s \in Sdks : TimerFires(s)
  BY <1>2, TimerFiresKeeps
<1>3. CASE \E x \in sends : SinkEnds(x) \/ FlushEnds(x)
  BY <1>3, SinkEndsKeeps, FlushEndsKeeps
<1>4. CASE Flush
  BY <1>4, FlushKeeps
<1>5. CASE BeforeExit
  BY <1>5, BeforeExitKeeps
<1>6. CASE FlushReturns \/ OptOut \/ AppEnds \/ Tick
  BY <1>6, ProcessStepsKeep
<1>7. CASE UNCHANGED vars
  <2>1. UNCHANGED <<now, settled, counts, start, timer, active, sends>>
    BY <1>7 DEF vars, windows
  <2>2. UNCHANGED <<received, broken, tried, dropped, disabled, flushing, before, process>>
    BY <1>7 DEF vars, fates, app
  <2>3. TypeOK'
    BY <2>1, <2>2 DEF Inv, TypeOK
  <2>4. Windows' /\ (\A x \in sends : Covers(x))' /\ Past' /\ OpenWindowsAreArmed' /\ NothingIsLost'
    BY <2>1, <2>2 DEF Inv, Windows, Covers, Past, OpenWindowsAreArmed, NothingIsLost, Settled
  <2>5. NothingIsLeft' /\ Apart' /\ Unsent' /\ Ended' /\ CountedAtMostOnce' /\ Waits'
    BY <2>1, <2>2 DEF Inv, NothingIsLeft, Apart, Unsent, Fresh, Ended, CountedAtMostOnce, Waits
  <2> QED
    BY <2>3, <2>4, <2>5 DEF Inv
<1> QED
  BY <1>1, <1>2, <1>3, <1>4, <1>5, <1>6, <1>7 DEF Next, Over

------------------------------------------------------------------------------
(* The theorems *)

THEOREM InvHolds == Spec => []Inv
  BY InitHolds, StepKeeps, PTL DEF Spec

\* The state of the middleware keeps its types: flushWindow never leaves a
\* window without a start, nor a timer of a process that has exited.
THEOREM TypeCorrect == Spec => []TypeOK
<1>1. Inv => TypeOK
  BY DEF Inv
<1> QED
  BY <1>1, InvHolds, PTL

\* Between the windows, the sends and the merges of flushWindow no call is lost.
THEOREM LosesNothing == Spec => []NothingIsLost
<1>1. Inv => NothingIsLost
  BY DEF Inv
<1> QED
  BY <1>1, InvHolds, PTL

\* However the sends of flushWindow overlap and fail, no call is counted twice
\* at the endpoint but after a broken connection.
THEOREM CountsOnce == Spec => []CountedAtMostOnce
<1>1. Inv => CountedAtMostOnce
  BY DEF Inv
<1> QED
  BY <1>1, InvHolds, PTL

\* A window has a timer and is in activeWindows exactly when it has counts.
THEOREM WindowsAreArmed == Spec => []OpenWindowsAreArmed
<1>1. Inv => OpenWindowsAreArmed
  BY DEF Inv
<1> QED
  BY <1>1, InvHolds, PTL

\* The times that toEvents reports cover every call that it reports.
THEOREM EventsCover == Spec => []EventsCoverTheirCalls
<1>1. Inv => EventsCoverTheirCalls
  BY DEF Inv, Covers, EventsCoverTheirCalls
<1> QED
  BY <1>1, InvHolds, PTL

\* When beforeExit lets the process go, nothing is left in windows or sends.
THEOREM LeavesNothing == Spec => []NothingIsLeft
<1>1. Inv => NothingIsLeft
  BY DEF Inv
<1> QED
  BY <1>1, InvHolds, PTL

\* flush resolves only after all that was counted when it was called was tried.
THEOREM FlushWaitsForAll == Spec => FlushTriesAll
<1>1. Inv /\ [Next]_vars => [flushing /\ ~flushing' => before \subseteq tried \cup dropped]_vars
  <2> SUFFICES ASSUME Inv, Next, flushing, ~flushing'
               PROVE  before \subseteq tried \cup dropped
    OBVIOUS
  <2>1. \A x \in sends : x.awaited => x.outcome # "none"
    BY DEF Next, Settle, TimerFires, SinkEnds, FlushEnds, Flush, FlushReturns, OptOut, AppEnds,
           BeforeExit, Tick, Over, vars, app
  <2> QED
    BY <2>1 DEF Inv, Waits
<1> QED
  BY <1>1, InvHolds, PTL DEF Spec, FlushTriesAll

\* No call is lost or counted twice while the process lives, nor when it exits.
THEOREM KeepsCounts == Spec => []CountsAreKept
<1>1. NothingIsLost /\ CountedAtMostOnce /\ NothingIsLeft => CountsAreKept
  BY DEF CountsAreKept
<1> QED
  BY <1>1, LosesNothing, CountsOnce, LeavesNothing, PTL

\* Every window with counts is armed and covers them.
THEOREM KeepsWindows == Spec => []WindowsAreSound
<1>1. OpenWindowsAreArmed /\ EventsCoverTheirCalls => WindowsAreSound
  BY DEF WindowsAreSound
<1> QED
  BY <1>1, WindowsAreArmed, EventsCover, PTL
==============================================================================
