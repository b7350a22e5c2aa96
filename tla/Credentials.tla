----------------------------- MODULE Credentials -----------------------------
(***************************************************************************)
(* RedoclyOAuthClient over the file ~/.redocly/credentials, which every    *)
(* process of the user shares: a login saves a pair of tokens, a command   *)
(* that needs one (and the telemetry after every command) reads the file,  *)
(* verifies the access token and otherwise rotates the refresh token and   *)
(* saves the new pair, and a logout removes the file.  Nothing locks it.   *)
(*                                                                         *)
(* A pair of tokens is a number.  A platform accepts a refresh token once, *)
(* and only its own.                                                       *)
(***************************************************************************)
EXTENDS Naturals

CONSTANTS
  Procs, Platforms,
  MaxPairs,   (* how many pairs are issued *)
  NoFile,      (* no value, no file                *)
  Torn       (* a file that is not wholly written *)

ASSUME CredentialsAssumption ==
  /\ MaxPairs \in Nat /\ NoFile \notin Platforms /\ Torn # NoFile
  /\ {NoFile, Torn} \cap [pair : 1..MaxPairs, residency : Platforms \cup {NoFile}] = {}

VARIABLES
  file,    (* NoFile, Torn or the saved pair and its residency                    *)
  proc,    (* of every process: where it is                                   *)
  url,     (* ... the platform its command is for                             *)
  held,    (* ... the credentials it has read or received                     *)
  issued,  (* the number of pairs issued                                      *)
  home,    (* who issued a pair                                               *)
  valid,   (* the pairs whose refresh token has not been used                 *)
  unhandled, (* a rejection that nobody handles has ended a process           *)
  calm     (* history: no process died, no answer was lost and no write failed *)

credVars == <<file, proc, url, held, issued, home, valid, unhandled, calm>>

Pair == 1..MaxPairs
Saved == [pair : Pair, residency : Platforms \cup {NoFile}]
ProcStages == {"idle", "verifying", "refreshing", "saving", "writing", "unlinked", "removing"}

CredInit ==
  /\ file = NoFile /\ unhandled = FALSE /\ calm = TRUE
  /\ proc = [p \in Procs |-> "idle"] /\ url = [p \in Procs |-> NoFile] /\ held = [p \in Procs |-> NoFile]
  /\ issued = 0 /\ home = [t \in Pair |-> NoFile] /\ valid = {}

Issues(u) == issued < MaxPairs /\ issued' = issued + 1 /\ home' = [home EXCEPT ![issued + 1] = u]

\* The pair just issued, with the platform it came from.
Received(u) == [pair |-> issued + 1, residency |-> u]

------------------------------------------------------------------------------
\* login, once the device flow has the tokens.
LogsIn(p, u) ==
  /\ proc[p] = "idle" /\ Issues(u) /\ valid' = valid \cup {issued + 1}
  /\ held' = [held EXCEPT ![p] = Received(u)] /\ url' = [url EXCEPT ![p] = u]
  /\ proc' = [proc EXCEPT ![p] = "saving"]
  /\ UNCHANGED <<file, unhandled, calm>>

\* Faulty: a token is good for every platform.
ReadsAny(p, u) ==
  /\ proc[p] = "idle" /\ file \in Saved
  /\ proc' = [proc EXCEPT ![p] = "verifying"]
  /\ url' = [url EXCEPT ![p] = u] /\ held' = [held EXCEPT ![p] = file]
  /\ UNCHANGED <<file, issued, home, valid, unhandled, calm>>

\* Faulty: a file that cannot be decrypted is read all the same.
ReadsTorn(p, u) ==
  /\ proc[p] = "idle" /\ file # NoFile /\ (file # Torn => file.residency \in {NoFile, u})
  /\ proc' = [proc EXCEPT ![p] = "verifying"]
  /\ url' = [url EXCEPT ![p] = u] /\ held' = [held EXCEPT ![p] = file]
  /\ UNCHANGED <<file, issued, home, valid, unhandled, calm>>

\* getAccessToken reads the file; without credentials for the platform it ends.
Reads(p, u) ==
  /\ proc[p] = "idle" /\ file \in Saved /\ file.residency \in {NoFile, u}
  /\ proc' = [proc EXCEPT ![p] = "verifying"]
  /\ url' = [url EXCEPT ![p] = u] /\ held' = [held EXCEPT ![p] = file]
  /\ UNCHANGED <<file, issued, home, valid, unhandled, calm>>

\* verifyToken: a token that is accepted is returned, anything else refreshes.
Verified(p, accepted) ==
  /\ proc[p] = "verifying"
  /\ accepted => home[held[p].pair] = url[p]
  /\ proc' = [proc EXCEPT ![p] = IF accepted THEN "idle" ELSE "refreshing"]
  /\ UNCHANGED <<file, url, held, issued, home, valid, unhandled, calm>>

Accepts(p) == held[p].pair \in valid /\ home[held[p].pair] = url[p]

\* Faulty: the new access token is returned and not saved.
RotatesUnsaved(p) ==
  /\ proc[p] = "refreshing" /\ Accepts(p) /\ Issues(url[p])
  /\ valid' = (valid \ {held[p].pair}) \cup {issued + 1}
  /\ held' = [held EXCEPT ![p] = Received(url[p])]
  /\ proc' = [proc EXCEPT ![p] = "idle"]
  /\ UNCHANGED <<file, url, unhandled, calm>>

\* Faulty: the old refresh token is kept.
RotatesKeepingOld(p) ==
  /\ proc[p] = "refreshing" /\ Accepts(p) /\ Issues(url[p])
  /\ valid' = (valid \ {held[p].pair}) \cup {issued + 1}
  /\ proc' = [proc EXCEPT ![p] = "saving"]
  /\ UNCHANGED <<file, url, held, unhandled, calm>>

\* refreshToken: the pair is exchanged for a new one, ...
Rotates(p) ==
  /\ proc[p] = "refreshing" /\ Accepts(p) /\ Issues(url[p])
  /\ valid' = (valid \ {held[p].pair}) \cup {issued + 1}
  /\ held' = [held EXCEPT ![p] = Received(url[p])]
  /\ proc' = [proc EXCEPT ![p] = "saving"]
  /\ UNCHANGED <<file, url, unhandled, calm>>

\* ... or exchanged while the answer is lost, ...
RotatesInVain(p) ==
  /\ proc[p] = "refreshing" /\ Accepts(p) /\ Issues(url[p])
  /\ valid' = (valid \ {held[p].pair}) \cup {issued + 1}
  /\ proc' = [proc EXCEPT ![p] = "idle"] /\ calm' = FALSE
  /\ UNCHANGED <<file, url, held, unhandled>>

\* ... or refused, or the request fails: getAccessToken returns null.
Refused(p) ==
  /\ proc[p] = "refreshing"
  /\ proc' = [proc EXCEPT ![p] = "idle"]
  /\ UNCHANGED <<file, url, held, issued, home, valid, unhandled, calm>>

\* saveCredentials: writeFileSync empties the file and writes it, or fails.
Opens(p) ==
  /\ proc[p] = "saving"
  /\ file' = Torn /\ proc' = [proc EXCEPT ![p] = "writing"]
  /\ UNCHANGED <<url, held, issued, home, valid, unhandled, calm>>

\* What was written by two processes that opened the file both may be a mixture.
Writes(p) ==
  /\ proc[p] = "writing"
  /\ file' \in {held[p]} \cup (IF file \in Saved THEN {Torn} ELSE {})
  /\ proc' = [proc EXCEPT ![p] = "idle"]
  /\ UNCHANGED <<url, held, issued, home, valid, unhandled, calm>>

\* The file was removed after it was opened.
WritesUnlinked(p) ==
  /\ proc[p] = "unlinked"
  /\ proc' = [proc EXCEPT ![p] = "idle"]
  /\ UNCHANGED <<file, url, held, issued, home, valid, unhandled, calm>>

\* The process ends, or its write fails.
Dies(p) ==
  /\ proc[p] # "idle"
  /\ proc' = [proc EXCEPT ![p] = "idle"] /\ calm' = FALSE
  /\ UNCHANGED <<file, url, held, issued, home, valid, unhandled>>

\* logout looks for the file and removes it.
LooksForFile(p) ==
  /\ proc[p] = "idle" /\ file # NoFile
  /\ proc' = [proc EXCEPT ![p] = "removing"]
  /\ UNCHANGED <<file, url, held, issued, home, valid, unhandled, calm>>

\* removeCredentials is async and not awaited: what rmSync throws when another
\* logout was faster escapes the catch of logout.
Removes(p) ==
  /\ proc[p] = "removing"
  /\ file' = NoFile /\ unhandled' = (unhandled \/ file = NoFile)
  /\ proc' = [q \in Procs |->
       IF q = p THEN "idle" ELSE IF proc[q] = "writing" THEN "unlinked" ELSE proc[q]]
  /\ UNCHANGED <<url, held, issued, home, valid, calm>>

CredNext ==
  \E p \in Procs :
    \/ Rotates(p) \/ RotatesInVain(p) \/ Refused(p) \/ Opens(p) \/ Writes(p) \/ WritesUnlinked(p) \/ Dies(p)
    \/ LooksForFile(p) \/ Removes(p)
    \/ \E u \in Platforms : LogsIn(p, u) \/ Reads(p, u)
    \/ \E accepted \in BOOLEAN : Verified(p, accepted)

CredSpec == CredInit /\ [][CredNext]_credVars

------------------------------------------------------------------------------
(* Properties. *)

CredTypeOK ==
  /\ file \in Saved \cup {NoFile, Torn}
  /\ proc \in [Procs -> ProcStages] /\ url \in [Procs -> Platforms \cup {NoFile}]
  /\ held \in [Procs -> Saved \cup {NoFile}]
  /\ issued \in 0..MaxPairs /\ home \in [Pair -> Platforms \cup {NoFile}]
  /\ valid \subseteq Pair /\ unhandled \in BOOLEAN /\ calm \in BOOLEAN

\* A token is shown to the platform that issued it and to no other, through
\* every chain of refreshes by processes that know nothing of each other
\* (platform-integration/src/auth/oauth-client.ts).
TokensStayHome ==
  \A p \in Procs : proc[p] \in {"verifying", "refreshing"} => home[held[p].pair] = url[p]

\* The refresh token in the file can still be used, or a process that has used it
\* holds its successor and is about to save it.  Only a crash, a lost answer or a
\* failed write between the rotation and the save breaks this.
NoSessionLost ==
  calm /\ file \in Saved =>
    file.pair \in valid \/ \E p \in Procs : proc[p] = "saving" /\ held[p].pair \in valid

\* Credentials that a process is about to save belong to it alone: no other
\* process saves or shows them, and they are not in the file yet.
FreshPairsAreUnshared ==
  \A p \in Procs :
    proc[p] \in {"saving", "writing"} =>
      /\ held[p].pair \in valid
      /\ file \in Saved => file.pair # held[p].pair
      /\ \A q \in Procs \ {p} : held[q] # NoFile => held[q].pair # held[p].pair

\* What processes that share the file may rely on: no torn file is read, tokens stay
\* home, fresh ones are known to one process, and the session survives.
CredentialsAreSound ==
  CredTypeOK /\ TokensStayHome /\ FreshPairsAreUnshared /\ NoSessionLost
==============================================================================
