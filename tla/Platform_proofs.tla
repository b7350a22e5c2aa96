--------------------------- MODULE Platform_proofs ---------------------------
(***************************************************************************)
(* Proofs about Credentials, for any number of processes, platforms and    *)
(* pairs of tokens, and every order of their steps.                        *)
(*                                                                         *)
(* The invariant says that what a process holds or the file contains was   *)
(* issued by the platform it names, so that a process that read the file   *)
(* for a platform has that platform's tokens, and that a pair not saved    *)
(* yet is known to one process only.                                       *)
(*                                                                         *)
(* Of DeviceFlow, with any number of polls, it says that polls overlap     *)
(* when two of them are on their way, and that a token the server handed   *)
(* out is on its way while the login is pending.  Of DeploymentWait, with  *)
(* any window, interval and latency, it bounds when a request or a pause   *)
(* begins.                                                                 *)
(***************************************************************************)
EXTENDS Credentials, DeviceFlow, DeploymentWait, TLAPS

\* Credentials say truly which platform issued them.
Genuine(c) == c.pair \in 1..issued /\ c.residency = home[c.pair]

IssuedRight ==
  /\ \A t \in 1..issued : home[t] \in Platforms
  /\ valid \subseteq 1..issued

HeldRight ==
  /\ file \in Saved => Genuine(file)
  /\ \A p \in Procs : held[p] # NoFile => Genuine(held[p])
  /\ \A p \in Procs : proc[p] \notin {"idle", "removing"} => held[p] # NoFile

CredInv ==
  CredTypeOK /\ IssuedRight /\ HeldRight /\ TokensStayHome /\ FreshPairsAreUnshared /\ NoSessionLost

------------------------------------------------------------------------------
\* Files and credentials are told apart.
LEMMA KindsDiffer ==
  /\ NoFile \notin Saved /\ Torn \notin Saved /\ Torn # NoFile /\ NoFile \notin Platforms
  /\ \A c \in Saved : c.pair \in Pair /\ c.residency \in Platforms \cup {NoFile}
  /\ \A t \in Pair, u \in Platforms : [pair |-> t, residency |-> u] \in Saved
BY CredentialsAssumption DEF Saved, Pair

LEMMA CredStarts == CredInit => CredInv
<1> SUFFICES ASSUME CredInit PROVE CredInv
  OBVIOUS
<1>1. CredTypeOK
  <2>1. issued \in 0..MaxPairs
    BY CredentialsAssumption DEF CredInit
  <2>2. proc \in [Procs -> ProcStages]
    BY DEF CredInit, ProcStages
  <2>3. file \in Saved \cup {NoFile, Torn} /\ url \in [Procs -> Platforms \cup {NoFile}]
    BY DEF CredInit
  <2>4. held \in [Procs -> Saved \cup {NoFile}] /\ home \in [Pair -> Platforms \cup {NoFile}]
    BY DEF CredInit
  <2> QED
    BY <2>1, <2>2, <2>3, <2>4 DEF CredInit, CredTypeOK
<1>2. IssuedRight /\ HeldRight
  BY KindsDiffer DEF CredInit, IssuedRight, HeldRight
<1>3. TokensStayHome /\ FreshPairsAreUnshared /\ NoSessionLost
  BY KindsDiffer DEF CredInit, TokensStayHome, FreshPairsAreUnshared, NoSessionLost
<1> QED
  BY <1>1, <1>2, <1>3 DEF CredInv

LEMMA LogsInKeeps ==
  ASSUME CredInv, NEW p \in Procs, NEW u \in Platforms, LogsIn(p, u)
  PROVE  CredInv'
<1> USE CredentialsAssumption, KindsDiffer DEF LogsIn, Issues, Received
<1>1. CredTypeOK'
  BY DEF CredInv, CredTypeOK, Pair, ProcStages, HeldRight
<1>2. IssuedRight'
  BY DEF CredInv, CredTypeOK, IssuedRight, Pair
<1>3. HeldRight'
  BY DEF CredInv, CredTypeOK, IssuedRight, HeldRight, Genuine, Pair
<1>4. TokensStayHome'
  BY DEF CredInv, CredTypeOK, IssuedRight, HeldRight, Genuine, TokensStayHome, Pair
<1>5. FreshPairsAreUnshared'
  BY DEF CredInv, CredTypeOK, IssuedRight, HeldRight, Genuine, FreshPairsAreUnshared, Pair
<1>6. NoSessionLost'
  BY DEF CredInv, CredTypeOK, HeldRight, FreshPairsAreUnshared, NoSessionLost
<1> QED
  BY <1>1, <1>2, <1>3, <1>4, <1>5, <1>6 DEF CredInv

LEMMA ReadsKeep ==
  ASSUME CredInv, NEW p \in Procs, NEW u \in Platforms, Reads(p, u)
  PROVE  CredInv'
<1> USE CredentialsAssumption, KindsDiffer DEF Reads
<1>1. CredTypeOK'
  BY DEF CredInv, CredTypeOK, Pair, ProcStages, HeldRight
<1>2. IssuedRight'
  BY DEF CredInv, CredTypeOK, IssuedRight, Pair
<1>3. HeldRight'
  BY DEF CredInv, CredTypeOK, IssuedRight, HeldRight, Genuine, Pair
<1>4. TokensStayHome'
  BY DEF CredInv, CredTypeOK, IssuedRight, HeldRight, Genuine, TokensStayHome, Pair
<1>5. FreshPairsAreUnshared'
  BY DEF CredInv, CredTypeOK, IssuedRight, HeldRight, Genuine, FreshPairsAreUnshared, Pair
<1>6. NoSessionLost'
  BY DEF CredInv, CredTypeOK, HeldRight, FreshPairsAreUnshared, NoSessionLost
<1> QED
  BY <1>1, <1>2, <1>3, <1>4, <1>5, <1>6 DEF CredInv

LEMMA VerifiedKeeps ==
  ASSUME CredInv, NEW p \in Procs, NEW accepted \in BOOLEAN, Verified(p, accepted)
  PROVE  CredInv'
<1> USE CredentialsAssumption, KindsDiffer DEF Verified
<1>1. CredTypeOK'
  BY DEF CredInv, CredTypeOK, Pair, ProcStages, HeldRight
<1>2. IssuedRight'
  BY DEF CredInv, CredTypeOK, IssuedRight, Pair
<1>3. HeldRight'
  BY DEF CredInv, CredTypeOK, IssuedRight, HeldRight, Genuine, Pair
<1>4. TokensStayHome'
  BY DEF CredInv, CredTypeOK, IssuedRight, HeldRight, Genuine, TokensStayHome, Pair
<1>5. FreshPairsAreUnshared'
  BY DEF CredInv, CredTypeOK, IssuedRight, HeldRight, Genuine, FreshPairsAreUnshared, Pair
<1>6. NoSessionLost'
  BY DEF CredInv, CredTypeOK, HeldRight, FreshPairsAreUnshared, NoSessionLost
<1> QED
  BY <1>1, <1>2, <1>3, <1>4, <1>5, <1>6 DEF CredInv

LEMMA RotatesKeep ==
  ASSUME CredInv, NEW p \in Procs, Rotates(p)
  PROVE  CredInv'
<1> USE CredentialsAssumption, KindsDiffer DEF Rotates, Issues, Received, Accepts
<1>0. issued + 1 \in Pair /\ issued' = issued + 1 /\ url[p] \in Platforms
  BY DEF CredInv, CredTypeOK, IssuedRight, HeldRight, Genuine, TokensStayHome, Pair
<1>1. CredTypeOK'
  <2>1. issued' \in 0..MaxPairs /\ valid' \subseteq Pair
    <3>1. issued' \in 0..MaxPairs
      BY <1>0 DEF Pair
    <3>2. valid \subseteq Pair /\ valid' \subseteq valid \cup {issued + 1}
      BY DEF CredInv, CredTypeOK
    <3> QED
      BY <3>1, <3>2, <1>0, Zenon
  <2>2. home' \in [Pair -> Platforms \cup {NoFile}]
    BY <1>0 DEF CredInv, CredTypeOK
  <2>3. proc' \in [Procs -> ProcStages]
    BY DEF CredInv, CredTypeOK, ProcStages
  <2>4. held' \in [Procs -> Saved \cup {NoFile}]
    BY <1>0 DEF CredInv, CredTypeOK
  <2> QED
    BY <2>1, <2>2, <2>3, <2>4 DEF CredInv, CredTypeOK
<1>2. IssuedRight'
  <2>1. \A t \in 1..issued' : home'[t] \in Platforms
    BY <1>0 DEF CredInv, CredTypeOK, IssuedRight, Pair
  <2>2. valid' \subseteq 1..issued'
    <3>1. issued \in Nat /\ valid \subseteq 1..issued /\ valid' \subseteq valid \cup {issued + 1}
      BY DEF CredInv, CredTypeOK, IssuedRight
    <3>2. 1..issued \subseteq 1..(issued + 1) /\ issued + 1 \in 1..(issued + 1)
      BY <3>1
    <3> QED
      BY <3>1, <3>2, <1>0, Zenon
  <2> QED
    BY <2>1, <2>2 DEF IssuedRight
<1>3. HeldRight'
  BY DEF CredInv, CredTypeOK, IssuedRight, HeldRight, Genuine, Pair
<1>4. TokensStayHome'
  BY DEF CredInv, CredTypeOK, IssuedRight, HeldRight, Genuine, TokensStayHome, Pair
<1>5. FreshPairsAreUnshared'
  BY DEF CredInv, CredTypeOK, IssuedRight, HeldRight, Genuine, FreshPairsAreUnshared, Pair
<1>6. NoSessionLost'
  BY DEF CredInv, CredTypeOK, HeldRight, FreshPairsAreUnshared, NoSessionLost
<1> QED
  BY <1>1, <1>2, <1>3, <1>4, <1>5, <1>6 DEF CredInv

LEMMA RotatesInVainKeeps ==
  ASSUME CredInv, NEW p \in Procs, RotatesInVain(p)
  PROVE  CredInv'
<1> USE CredentialsAssumption, KindsDiffer DEF RotatesInVain, Issues, Accepts
<1>0. issued + 1 \in Pair /\ issued' = issued + 1 /\ url[p] \in Platforms
  BY DEF CredInv, CredTypeOK, IssuedRight, HeldRight, Genuine, TokensStayHome, Pair
<1>1. CredTypeOK'
  <2>1. issued' \in 0..MaxPairs /\ valid' \subseteq Pair
    <3>1. issued' \in 0..MaxPairs
      BY <1>0 DEF Pair
    <3>2. valid \subseteq Pair /\ valid' \subseteq valid \cup {issued + 1}
      BY DEF CredInv, CredTypeOK
    <3> QED
      BY <3>1, <3>2, <1>0, Zenon
  <2>2. home' \in [Pair -> Platforms \cup {NoFile}]
    BY <1>0 DEF CredInv, CredTypeOK
  <2>3. proc' \in [Procs -> ProcStages]
    BY DEF CredInv, CredTypeOK, ProcStages
  <2>4. held' \in [Procs -> Saved \cup {NoFile}]
    BY <1>0 DEF CredInv, CredTypeOK
  <2> QED
    BY <2>1, <2>2, <2>3, <2>4 DEF CredInv, CredTypeOK
<1>2. IssuedRight'
  <2>1. \A t \in 1..issued' : home'[t] \in Platforms
    BY <1>0 DEF CredInv, CredTypeOK, IssuedRight, Pair
  <2>2. valid' \subseteq 1..issued'
    <3>1. issued \in Nat /\ valid \subseteq 1..issued /\ valid' \subseteq valid \cup {issued + 1}
      BY DEF CredInv, CredTypeOK, IssuedRight
    <3>2. 1..issued \subseteq 1..(issued + 1) /\ issued + 1 \in 1..(issued + 1)
      BY <3>1
    <3> QED
      BY <3>1, <3>2, <1>0, Zenon
  <2> QED
    BY <2>1, <2>2 DEF IssuedRight
<1>3. HeldRight'
  BY DEF CredInv, CredTypeOK, IssuedRight, HeldRight, Genuine, Pair
<1>4. TokensStayHome'
  BY DEF CredInv, CredTypeOK, IssuedRight, HeldRight, Genuine, TokensStayHome, Pair
<1>5. FreshPairsAreUnshared'
  BY DEF CredInv, CredTypeOK, IssuedRight, HeldRight, Genuine, FreshPairsAreUnshared, Pair
<1>6. NoSessionLost'
  BY DEF CredInv, CredTypeOK, HeldRight, FreshPairsAreUnshared, NoSessionLost
<1> QED
  BY <1>1, <1>2, <1>3, <1>4, <1>5, <1>6 DEF CredInv

LEMMA RefusedKeeps ==
  ASSUME CredInv, NEW p \in Procs, Refused(p)
  PROVE  CredInv'
<1> USE CredentialsAssumption, KindsDiffer DEF Refused
<1>1. CredTypeOK'
  BY DEF CredInv, CredTypeOK, Pair, ProcStages, HeldRight
<1>2. IssuedRight'
  BY DEF CredInv, CredTypeOK, IssuedRight, Pair
<1>3. HeldRight'
  BY DEF CredInv, CredTypeOK, IssuedRight, HeldRight, Genuine, Pair
<1>4. TokensStayHome'
  BY DEF CredInv, CredTypeOK, IssuedRight, HeldRight, Genuine, TokensStayHome, Pair
<1>5. FreshPairsAreUnshared'
  BY DEF CredInv, CredTypeOK, IssuedRight, HeldRight, Genuine, FreshPairsAreUnshared, Pair
<1>6. NoSessionLost'
  BY DEF CredInv, CredTypeOK, HeldRight, FreshPairsAreUnshared, NoSessionLost
<1> QED
  BY <1>1, <1>2, <1>3, <1>4, <1>5, <1>6 DEF CredInv

LEMMA OpensKeep ==
  ASSUME CredInv, NEW p \in Procs, Opens(p)
  PROVE  CredInv'
<1> USE CredentialsAssumption, KindsDiffer DEF Opens
<1>1. CredTypeOK'
  BY DEF CredInv, CredTypeOK, Pair, ProcStages, HeldRight
<1>2. IssuedRight'
  BY DEF CredInv, CredTypeOK, IssuedRight, Pair
<1>3. HeldRight'
  BY DEF CredInv, CredTypeOK, IssuedRight, HeldRight, Genuine, Pair
<1>4. TokensStayHome'
  BY DEF CredInv, CredTypeOK, IssuedRight, HeldRight, Genuine, TokensStayHome, Pair
<1>5. FreshPairsAreUnshared'
  BY DEF CredInv, CredTypeOK, IssuedRight, HeldRight, Genuine, FreshPairsAreUnshared, Pair
<1>6. NoSessionLost'
  BY DEF CredInv, CredTypeOK, HeldRight, FreshPairsAreUnshared, NoSessionLost
<1> QED
  BY <1>1, <1>2, <1>3, <1>4, <1>5, <1>6 DEF CredInv

LEMMA WritesKeep ==
  ASSUME CredInv, NEW p \in Procs, Writes(p)
  PROVE  CredInv'
<1> USE CredentialsAssumption, KindsDiffer DEF Writes
<1>1. CredTypeOK'
  BY DEF CredInv, CredTypeOK, Pair, ProcStages, HeldRight
<1>2. IssuedRight'
  BY DEF CredInv, CredTypeOK, IssuedRight, Pair
<1>3. HeldRight'
  BY DEF CredInv, CredTypeOK, IssuedRight, HeldRight, Genuine, Pair
<1>4. TokensStayHome'
  BY DEF CredInv, CredTypeOK, IssuedRight, HeldRight, Genuine, TokensStayHome, Pair
<1>5. FreshPairsAreUnshared'
  BY DEF CredInv, CredTypeOK, IssuedRight, HeldRight, Genuine, FreshPairsAreUnshared, Pair
<1>6. NoSessionLost'
  BY DEF CredInv, CredTypeOK, HeldRight, FreshPairsAreUnshared, NoSessionLost
<1> QED
  BY <1>1, <1>2, <1>3, <1>4, <1>5, <1>6 DEF CredInv

LEMMA WritesUnlinkedKeeps ==
  ASSUME CredInv, NEW p \in Procs, WritesUnlinked(p)
  PROVE  CredInv'
<1> USE CredentialsAssumption, KindsDiffer DEF WritesUnlinked
<1>1. CredTypeOK'
  BY DEF CredInv, CredTypeOK, Pair, ProcStages, HeldRight
<1>2. IssuedRight'
  BY DEF CredInv, CredTypeOK, IssuedRight, Pair
<1>3. HeldRight'
  BY DEF CredInv, CredTypeOK, IssuedRight, HeldRight, Genuine, Pair
<1>4. TokensStayHome'
  BY DEF CredInv, CredTypeOK, IssuedRight, HeldRight, Genuine, TokensStayHome, Pair
<1>5. FreshPairsAreUnshared'
  BY DEF CredInv, CredTypeOK, IssuedRight, HeldRight, Genuine, FreshPairsAreUnshared, Pair
<1>6. NoSessionLost'
  BY DEF CredInv, CredTypeOK, HeldRight, FreshPairsAreUnshared, NoSessionLost
<1> QED
  BY <1>1, <1>2, <1>3, <1>4, <1>5, <1>6 DEF CredInv

LEMMA DiesKeeps ==
  ASSUME CredInv, NEW p \in Procs, Dies(p)
  PROVE  CredInv'
<1> USE CredentialsAssumption, KindsDiffer DEF Dies
<1>1. CredTypeOK'
  BY DEF CredInv, CredTypeOK, Pair, ProcStages, HeldRight
<1>2. IssuedRight'
  BY DEF CredInv, CredTypeOK, IssuedRight, Pair
<1>3. HeldRight'
  BY DEF CredInv, CredTypeOK, IssuedRight, HeldRight, Genuine, Pair
<1>4. TokensStayHome'
  BY DEF CredInv, CredTypeOK, IssuedRight, HeldRight, Genuine, TokensStayHome, Pair
<1>5. FreshPairsAreUnshared'
  BY DEF CredInv, CredTypeOK, IssuedRight, HeldRight, Genuine, FreshPairsAreUnshared, Pair
<1>6. NoSessionLost'
  BY DEF CredInv, CredTypeOK, HeldRight, FreshPairsAreUnshared, NoSessionLost
<1> QED
  BY <1>1, <1>2, <1>3, <1>4, <1>5, <1>6 DEF CredInv

LEMMA LooksForFileKeeps ==
  ASSUME CredInv, NEW p \in Procs, LooksForFile(p)
  PROVE  CredInv'
<1> USE CredentialsAssumption, KindsDiffer DEF LooksForFile
<1>1. CredTypeOK'
  BY DEF CredInv, CredTypeOK, Pair, ProcStages, HeldRight
<1>2. IssuedRight'
  BY DEF CredInv, CredTypeOK, IssuedRight, Pair
<1>3. HeldRight'
  BY DEF CredInv, CredTypeOK, IssuedRight, HeldRight, Genuine, Pair
<1>4. TokensStayHome'
  BY DEF CredInv, CredTypeOK, IssuedRight, HeldRight, Genuine, TokensStayHome, Pair
<1>5. FreshPairsAreUnshared'
  BY DEF CredInv, CredTypeOK, IssuedRight, HeldRight, Genuine, FreshPairsAreUnshared, Pair
<1>6. NoSessionLost'
  BY DEF CredInv, CredTypeOK, HeldRight, FreshPairsAreUnshared, NoSessionLost
<1> QED
  BY <1>1, <1>2, <1>3, <1>4, <1>5, <1>6 DEF CredInv

LEMMA RemovesKeep ==
  ASSUME CredInv, NEW p \in Procs, Removes(p)
  PROVE  CredInv'
<1> USE CredentialsAssumption, KindsDiffer DEF Removes
<1>1. CredTypeOK'
  BY DEF CredInv, CredTypeOK, Pair, ProcStages, HeldRight
<1>2. IssuedRight'
  BY DEF CredInv, CredTypeOK, IssuedRight, Pair
<1>3. HeldRight'
  BY DEF CredInv, CredTypeOK, IssuedRight, HeldRight, Genuine, Pair
<1>4. TokensStayHome'
  BY DEF CredInv, CredTypeOK, IssuedRight, HeldRight, Genuine, TokensStayHome, Pair
<1>5. FreshPairsAreUnshared'
  BY DEF CredInv, CredTypeOK, IssuedRight, HeldRight, Genuine, FreshPairsAreUnshared, Pair
<1>6. NoSessionLost'
  BY DEF CredInv, CredTypeOK, HeldRight, FreshPairsAreUnshared, NoSessionLost
<1> QED
  BY <1>1, <1>2, <1>3, <1>4, <1>5, <1>6 DEF CredInv

LEMMA CredStays ==
  ASSUME CredInv, UNCHANGED credVars
  PROVE  CredInv'
BY DEF credVars, CredInv, CredTypeOK, IssuedRight, HeldRight, Genuine, TokensStayHome,
   FreshPairsAreUnshared, NoSessionLost

LEMMA CredKeeps ==
  ASSUME CredInv, [CredNext]_credVars
  PROVE  CredInv'
BY LogsInKeeps, ReadsKeep, VerifiedKeeps, RotatesKeep, RotatesInVainKeeps, RefusedKeeps, OpensKeep,
   WritesKeep, WritesUnlinkedKeeps, DiesKeeps, LooksForFileKeeps, RemovesKeep, CredStays DEF CredNext

LEMMA CredHolds == CredSpec => []CredInv
BY CredStarts, CredKeeps, PTL DEF CredSpec

\* The variables of the shared file keep their types.
THEOREM CredTyped == CredSpec => []CredTypeOK
<1>1. CredInv => CredTypeOK
  BY DEF CredInv
<1> QED
  BY <1>1, CredHolds, PTL

\* A token is shown only to the platform that issued it (oauth-client.ts).
THEOREM TokensAreHome == CredSpec => []TokensStayHome
<1>1. CredInv => TokensStayHome
  BY DEF CredInv
<1> QED
  BY <1>1, CredHolds, PTL

\* A pair that is not saved yet is known to one process (oauth-client.ts).
THEOREM FreshPairsAreOwn == CredSpec => []FreshPairsAreUnshared
<1>1. CredInv => FreshPairsAreUnshared
  BY DEF CredInv
<1> QED
  BY <1>1, CredHolds, PTL

\* Without a crash or a loss, the refresh token in the file is good or its
\* successor is about to be saved (oauth-client.ts).
THEOREM SessionsSurvive == CredSpec => []NoSessionLost
<1>1. CredInv => NoSessionLost
  BY DEF CredInv
<1> QED
  BY <1>1, CredHolds, PTL

\* All that processes may rely on when they share the file.
THEOREM CredentialsStaySound == CredSpec => []CredentialsAreSound
<1>1. CredTypeOK /\ TokensStayHome /\ FreshPairsAreUnshared /\ NoSessionLost => CredentialsAreSound
  BY DEF CredentialsAreSound
<1> QED
  BY <1>1, CredTyped, TokensAreHome, FreshPairsAreOwn, SessionsSurvive, PTL

------------------------------------------------------------------------------
(* The device flow. *)

\* The timers run until the login is settled.
TimersRun == ticking = (login = "pending") /\ armed = (login = "pending")

\* Without an overlap one poll at most is on its way.
OneOnItsWay ==
  alive /\ ~overlapped => \A m, n \in Poll : OnItsWay(m) /\ OnItsWay(n) => m = n

\* Answers and the login follow from what the server did.
AnswersFollow ==
  /\ \A n \in Poll : poll[n] = "token" => device = "taken"
  /\ \A n \in Poll : poll[n] = "error" => device \in {"denied", "taken"}
  /\ login = "token" => device = "taken"
  /\ login = "error" => device \in {"denied", "taken"}
  /\ alive /\ login = "expired" /\ (\E n \in Poll : OnItsWay(n)) => late

DeviceInv == DeviceTypeOK /\ TimersRun /\ OneOnItsWay /\ AnswersFollow /\ TokenLostOnlyInARace

LEMMA DeviceStarts == DeviceInit => DeviceInv
BY DEF DeviceInit, DeviceInv, DeviceTypeOK, TimersRun, OneOnItsWay, AnswersFollow,
       TokenLostOnlyInARace, OnItsWay, Answers

LEMMA DecidesKeeps ==
  ASSUME DeviceInv, NEW how \in {"approved", "denied"}, Decides(how)
  PROVE  DeviceInv'
BY DEF DeviceInv, DeviceTypeOK, TimersRun, OneOnItsWay, AnswersFollow, TokenLostOnlyInARace,
       OnItsWay, Answers, Decides

LEMMA TicksKeeps ==
  ASSUME DeviceInv, NEW n \in Poll, Ticks(n)
  PROVE  DeviceInv'
<1>1. /\ alive /\ login = "pending" /\ poll[n] = "unsent" /\ poll' = [poll EXCEPT ![n] = "sent"]
      /\ overlapped' = (overlapped \/ \E m \in Poll : OnItsWay(m))
      /\ UNCHANGED <<login, ticking, armed, device, alive, late>>
  BY DEF DeviceInv, TimersRun, Ticks
<1>2. DeviceTypeOK'
  BY <1>1 DEF DeviceInv, DeviceTypeOK
<1>3. \A m \in Poll : poll'[m] = IF m = n THEN "sent" ELSE poll[m]
  BY <1>1 DEF DeviceInv, DeviceTypeOK
<1>4. OneOnItsWay'
  BY <1>1, <1>3 DEF OneOnItsWay, OnItsWay
<1>5. AnswersFollow' /\ TimersRun'
  BY <1>1, <1>3 DEF DeviceInv, TimersRun, AnswersFollow
<1>6. TokenLostOnlyInARace'
  BY <1>1, <1>3 DEF DeviceInv, TokenLostOnlyInARace
<1> QED
  BY <1>2, <1>4, <1>5, <1>6 DEF DeviceInv

LEMMA AnswersPollKeeps ==
  ASSUME DeviceInv, NEW n \in Poll, AnswersPoll(n)
  PROVE  DeviceInv'
<1> DEFINE answer == CASE device = "asked" -> "pending" [] device = "approved" -> "token" [] OTHER -> "error"
<1>1. /\ poll[n] = "sent" /\ poll' = [poll EXCEPT ![n] = answer]
      /\ device' = (IF device = "approved" THEN "taken" ELSE device)
      /\ UNCHANGED <<login, ticking, armed, alive, overlapped, late>>
  BY DEF AnswersPoll
<1>2. /\ answer \in Answers
      /\ answer = "token" => device' = "taken" /\ device = "approved"
      /\ answer = "error" => device' \in {"denied", "taken"} /\ device' = device
      /\ device' = "taken" => device = "taken" \/ answer = "token"
  BY <1>1 DEF DeviceInv, DeviceTypeOK, Answers
<1> HIDE DEF answer
<1>3. DeviceTypeOK'
  BY <1>1, <1>2 DEF DeviceInv, DeviceTypeOK
<1>4. \A m \in Poll : poll'[m] = IF m = n THEN answer ELSE poll[m]
  BY <1>1 DEF DeviceInv, DeviceTypeOK
<1>5. \A m \in Poll : OnItsWay(m)' <=> OnItsWay(m)
  BY <1>1, <1>2, <1>4 DEF OnItsWay
<1>6. OneOnItsWay'
  BY <1>1, <1>5 DEF DeviceInv, OneOnItsWay
<1>7. AnswersFollow' /\ TimersRun'
  BY <1>1, <1>2, <1>4, <1>5 DEF DeviceInv, TimersRun, AnswersFollow
<1>8. TokenLostOnlyInARace'
  <2>1. OnItsWay(n)
    BY <1>1 DEF OnItsWay
  <2> QED
    BY <1>1, <1>2, <1>4, <2>1 DEF DeviceInv, TokenLostOnlyInARace, AnswersFollow
<1> QED
  BY <1>3, <1>6, <1>7, <1>8 DEF DeviceInv

LEMMA SeesKeeps ==
  ASSUME DeviceInv, NEW n \in Poll, Sees(n)
  PROVE  DeviceInv'
<1>1. /\ alive /\ poll[n] \in Answers /\ poll' = [poll EXCEPT ![n] = "seen"]
      /\ UNCHANGED <<device, alive, overlapped, late>>
      /\ poll[n] = "pending" => UNCHANGED <<login, ticking, armed>>
      /\ poll[n] # "pending" =>
           /\ login' = (IF login = "pending" THEN poll[n] ELSE login)
           /\ armed' = FALSE /\ ticking' = FALSE
  BY DEF Sees, SettlesOnce
<1>2. DeviceTypeOK'
  BY <1>1 DEF DeviceInv, DeviceTypeOK, Answers
<1>3. \A m \in Poll : poll'[m] = IF m = n THEN "seen" ELSE poll[m]
  BY <1>1 DEF DeviceInv, DeviceTypeOK
<1>4. /\ OnItsWay(n) /\ \A m \in Poll : OnItsWay(m)' => OnItsWay(m)
  BY <1>1, <1>3 DEF OnItsWay, Answers
<1>5. OneOnItsWay'
  BY <1>1, <1>4 DEF DeviceInv, OneOnItsWay
<1>6. TimersRun'
  BY <1>1 DEF DeviceInv, TimersRun, Answers
<1>7. AnswersFollow'
  BY <1>1, <1>3, <1>4 DEF DeviceInv, AnswersFollow, Answers
<1>8. TokenLostOnlyInARace'
  <2> SUFFICES ASSUME device = "taken" PROVE TokenLostOnlyInARace'
    BY <1>1 DEF TokenLostOnlyInARace
  <2>1. CASE login # "pending"
    <3>1. login' = login
      BY <1>1, <2>1
    <3> QED
      BY <1>1, <2>1, <3>1 DEF DeviceInv, TokenLostOnlyInARace
  <2>2. CASE login = "pending"
    <3>1. PICK m \in Poll : poll[m] = "token"
      BY <1>1, <2>2 DEF DeviceInv, TokenLostOnlyInARace
    <3>2. CASE m = n
      BY <1>1, <2>2, <3>1, <3>2 DEF TokenLostOnlyInARace
    <3>3. CASE m # n
      <4>1. poll'[m] = "token" /\ OnItsWay(m)
        BY <1>3, <3>1, <3>3 DEF OnItsWay, Answers
      <4>2. overlapped
        BY <1>1, <1>4, <3>3, <4>1 DEF DeviceInv, OneOnItsWay, DeviceTypeOK
      <4>3. login' # "expired"
        BY <1>1, <2>2 DEF Answers
      <4> QED
        BY <1>1, <4>1, <4>2, <4>3 DEF TokenLostOnlyInARace
    <3> QED
      BY <3>2, <3>3
  <2> QED
    BY <2>1, <2>2
<1> QED
  BY <1>2, <1>5, <1>6, <1>7, <1>8 DEF DeviceInv

LEMMA FailsKeeps ==
  ASSUME DeviceInv, NEW n \in Poll, Fails(n)
  PROVE  DeviceInv'
<1>1. /\ poll' = [poll EXCEPT ![n] = "failed"] /\ alive' = FALSE
      /\ UNCHANGED <<login, ticking, armed, device, overlapped, late>>
  BY DEF Fails
<1>2. \A m \in Poll : poll'[m] = IF m = n THEN "failed" ELSE poll[m]
  BY <1>1 DEF DeviceInv, DeviceTypeOK
<1> QED
  BY <1>1, <1>2 DEF DeviceInv, DeviceTypeOK, TimersRun, OneOnItsWay, AnswersFollow, TokenLostOnlyInARace

LEMMA ExpiresKeeps ==
  ASSUME DeviceInv, Expires
  PROVE  DeviceInv'
<1>1. /\ alive /\ login = "pending" /\ login' = "expired" /\ ticking' = FALSE /\ armed' = FALSE
      /\ late' = (late \/ \E n \in Poll : OnItsWay(n))
      /\ UNCHANGED <<poll, device, alive, overlapped>>
  BY DEF DeviceInv, TimersRun, Expires, SettlesOnce
<1>2. \A n \in Poll : OnItsWay(n)' <=> OnItsWay(n)
  BY <1>1 DEF OnItsWay
<1>3. DeviceTypeOK' /\ TimersRun' /\ OneOnItsWay'
  BY <1>1, <1>2 DEF DeviceInv, DeviceTypeOK, TimersRun, OneOnItsWay
<1>4. AnswersFollow'
  BY <1>1, <1>2 DEF DeviceInv, AnswersFollow
<1>5. TokenLostOnlyInARace'
  <2> SUFFICES ASSUME device = "taken" PROVE late'
    BY <1>1 DEF TokenLostOnlyInARace
  <2>1. PICK n \in Poll : poll[n] = "token"
    BY <1>1 DEF DeviceInv, TokenLostOnlyInARace
  <2> QED
    BY <1>1, <2>1 DEF OnItsWay, Answers
<1> QED
  BY <1>3, <1>4, <1>5 DEF DeviceInv

\* However polls overlap, race the expiry or fail: a token that the server handed
\* out is lost only in such a race, who has not decided is not turned away, and no
\* poll is sent once the login is settled.
THEOREM LoginSound == DeviceSpec => LoginIsSound
<1>1. ASSUME DeviceInv, [DeviceNext]_deviceVars PROVE DeviceInv'
  <2>1. CASE UNCHANGED deviceVars
    BY <1>1, <2>1 DEF deviceVars, DeviceInv, DeviceTypeOK, TimersRun, OneOnItsWay, AnswersFollow,
                      TokenLostOnlyInARace, OnItsWay
  <2> QED
    BY <1>1, <2>1, DecidesKeeps, TicksKeeps, AnswersPollKeeps, SeesKeeps, FailsKeeps, ExpiresKeeps
    DEF DeviceNext
<1>2. DeviceInv => DeviceTypeOK /\ TokenLostOnlyInARace /\ UndecidedKeepsWaiting
  BY DEF DeviceInv, UndecidedKeepsWaiting, AnswersFollow, DeviceTypeOK
<1>3. ASSUME DeviceInv, [DeviceNext]_deviceVars
      PROVE  [login # "pending" => \A n \in Poll : poll[n] = "unsent" => poll'[n] = "unsent"]_deviceVars
  <2> SUFFICES ASSUME DeviceNext, login # "pending", NEW n \in Poll, poll[n] = "unsent"
               PROVE  poll'[n] = "unsent"
    BY <1>3
  <2>1. ~ticking /\ poll \in [Poll -> Answers \cup {"unsent", "sent", "seen", "failed"}]
    BY <1>3 DEF DeviceInv, DeviceTypeOK, TimersRun
  <2> QED
    BY <2>1 DEF DeviceNext, Expires, Decides, Ticks, AnswersPoll, Sees, Fails, OnItsWay, Answers
<1> QED
  BY DeviceStarts, <1>1, <1>2, <1>3, PTL DEF DeviceSpec, LoginIsSound, PollingStops

------------------------------------------------------------------------------
(* The wait for a deployment. *)

WaitTypeOK ==
  /\ now \in Nat /\ since \in Nat /\ since <= now /\ build \in Builds /\ mainBranch \in BOOLEAN
  /\ wait \in {"looking", "asking", "pausing", "success", "failed", "timeout", "error"}
  /\ deploy \in [Builds -> Statuses]
  /\ outcome \in [Builds -> {"none", "success", "failed", "timeout", "error"}]

\* A pause begins within the window; the lookup for production may follow the last
\* request for the preview, and the request for its status the lookup.
InTime ==
  /\ wait = "pausing" => since <= Window /\ now <= since + Interval
  /\ wait = "looking" =>
       /\ now <= since + Latency
       /\ since <= IF build = "production" THEN LastAsked + Latency ELSE 0
  /\ wait = "asking" =>
       /\ now <= since + Latency
       /\ since <= IF build = "production" THEN LastAsked + 2 * Latency ELSE LastAsked

WaitInv ==
  /\ WaitTypeOK /\ InTime /\ ReportsTheDeployment
  /\ build = "production" => outcome["preview"] = "success" /\ mainBranch
  /\ outcome["production"] # "none" => build = "production"

LEMMA WaitStarts == WaitInit => WaitInv
BY WaitAssumption DEF WaitInit, WaitInv, WaitTypeOK, InTime, ReportsTheDeployment, Builds, Statuses

LEMMA EndsWaitKeeps ==
  ASSUME WaitInv, NEW s \in {"success", "failed", "timeout", "error"}, EndsWait(s),
         s \in {"success", "failed"} => s = deploy[build],
         UNCHANGED <<now, mainBranch, deploy>>
  PROVE  WaitInv'
BY DEF WaitInv, WaitTypeOK, InTime, ReportsTheDeployment, EndsWait, Builds, Statuses

LEMMA AnsweredKeeps == ASSUME WaitInv, Answered PROVE WaitInv'
<1>1. wait = "asking" /\ UNCHANGED <<now, mainBranch, deploy>> /\ deploy[build] \in Statuses
  BY DEF Answered, WaitInv, WaitTypeOK
<1>2. CASE deploy[build] = "pending" /\ now > Deadline
  BY <1>1, <1>2, EndsWaitKeeps DEF Answered
<1>3. CASE deploy[build] = "pending" /\ ~(now > Deadline)
  <2>1. wait' = "pausing" /\ since' = now /\ UNCHANGED <<build, outcome>>
    BY <1>3 DEF Answered
  <2> QED
    BY <1>1, <1>3, <2>1, WaitAssumption
    DEF WaitInv, WaitTypeOK, InTime, ReportsTheDeployment, Deadline
<1>4. CASE deploy[build] = "success" /\ build = "preview" /\ mainBranch
  <2>1. /\ build' = "production" /\ since' = now /\ wait' = "looking"
        /\ outcome' = [outcome EXCEPT !["preview"] = "success"]
    BY <1>4 DEF Answered
  <2>2. WaitTypeOK'
    BY <1>1, <2>1 DEF WaitInv, WaitTypeOK, Builds
  <2>3. InTime'
    BY <1>1, <1>4, <2>1, WaitAssumption DEF WaitInv, WaitTypeOK, InTime, LastAsked
  <2> QED
    BY <1>1, <1>4, <2>1, <2>2, <2>3 DEF WaitInv, WaitTypeOK, ReportsTheDeployment, Builds
<1>5. CASE deploy[build] # "pending" /\ ~(deploy[build] = "success" /\ build = "preview" /\ mainBranch)
  BY <1>1, <1>5, EndsWaitKeeps DEF Answered, Statuses
<1> QED
  BY <1>2, <1>3, <1>4, <1>5

LEMMA WaitKeeps == WaitInv /\ [WaitNext]_waitVars => WaitInv'
<1> SUFFICES ASSUME WaitInv, [WaitNext]_waitVars PROVE WaitInv'
  OBVIOUS
<1>1. CASE Tick
  BY <1>1, WaitAssumption
  DEF Tick, WaitInv, WaitTypeOK, InTime, ReportsTheDeployment, Waiting, Requesting
<1>2. CASE RequestFails
  BY <1>2, EndsWaitKeeps DEF RequestFails
<1>3. CASE PauseEnds
  BY <1>3, WaitAssumption
  DEF PauseEnds, WaitInv, WaitTypeOK, InTime, LastAsked, ReportsTheDeployment
<1>4. ASSUME NEW b \in Builds, NEW s \in Statuses, Deploys(b, s) PROVE WaitInv'
  BY <1>4 DEF Deploys, WaitInv, WaitTypeOK, InTime, ReportsTheDeployment, Statuses, Builds
<1>5. CASE LookedUp
  BY <1>5, WaitAssumption
  DEF LookedUp, WaitInv, WaitTypeOK, InTime, LastAsked, ReportsTheDeployment
<1>6. CASE UNCHANGED waitVars
  BY <1>6 DEF waitVars, WaitInv, WaitTypeOK, InTime, ReportsTheDeployment
<1> QED
  BY <1>1, <1>2, <1>3, <1>4, <1>5, <1>6, AnsweredKeeps DEF WaitNext

\* Both waits end within the window, an interval and three requests (or four, where
\* the window is shorter than the first lookup); production is
\* waited for only after a preview that succeeded, what is reported is what the
\* platform said, and only what was pending after the window is a timeout.
THEOREM WaitSound == WaitSpec => WaitIsSound
<1>1. WaitInv => OneWindowForBoth /\ ReportsTheDeployment
  BY WaitAssumption DEF WaitInv, WaitTypeOK, InTime, LastAsked, OneWindowForBoth, Waiting, Requesting
<1>2. ASSUME WaitInv, [WaitNext]_waitVars
      PROVE  [wait' = "timeout" /\ wait # "timeout" => deploy[build] = "pending" /\ now > Window]_waitVars
  <2> SUFFICES ASSUME WaitNext, wait' = "timeout", wait # "timeout"
               PROVE  deploy[build] = "pending" /\ now > Window
    BY <1>2
  <2>1. deploy[build] \in Statuses
    BY <1>2 DEF WaitInv, WaitTypeOK
  <2> QED
    BY <2>1 DEF WaitNext, Tick, LookedUp, Answered, RequestFails, PauseEnds, Deploys, EndsWait, Deadline, Statuses
<1> QED
  BY WaitStarts, WaitKeeps, <1>1, <1>2, PTL DEF WaitSpec, WaitIsSound, LateResultsCount
==============================================================================
