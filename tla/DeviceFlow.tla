------------------------------ MODULE DeviceFlow ------------------------------
(***************************************************************************)
(* pollingAccessToken of the OAuth device flow: an interval asks for the   *)
(* token, a timer ends the login when the device code expires, and the     *)
(* first of them to settle the promise decides.  A poll that takes longer  *)
(* than the interval overlaps the next one.  The interval's callback is    *)
(* async and nobody handles its rejection: a request that fails ends the   *)
(* process.                                                                *)
(*                                                                         *)
(* The server hands the token out once; later polls are answered with an   *)
(* error.                                                                  *)
(***************************************************************************)
EXTENDS Naturals

CONSTANT Polls   (* how many polls fit in the lifetime of the code *)

ASSUME DeviceAssumption == Polls \in Nat

VARIABLES
  login,    (* the promise: "pending", "token", "error", "expired"            *)
  ticking,  (* intervalId                                                     *)
  armed,    (* timeoutId                                                      *)
  poll,     (* of every poll: "unsent", "sent", "pending", "token", "error"
               (the server's answer, on its way), "seen", "failed"            *)
  device,   (* at the server: "asked", "approved", "denied", "taken"          *)
  alive,    (* the process                                                    *)
  overlapped, (* history: a poll was sent while another one was on its way    *)
  late      (* history: a poll was on its way when the code expired           *)

deviceVars == <<login, ticking, armed, poll, device, alive, overlapped, late>>

Poll == 1..Polls
Answers == {"pending", "token", "error"}
OnItsWay(n) == poll[n] \in Answers \cup {"sent"}

DeviceInit ==
  /\ login = "pending" /\ ticking = TRUE /\ armed = TRUE
  /\ poll = [n \in Poll |-> "unsent"]
  /\ device = "asked" /\ alive = TRUE /\ overlapped = FALSE /\ late = FALSE

\* The user approves or denies the device.
Decides(how) ==
  /\ device = "asked" /\ how \in {"approved", "denied"}
  /\ device' = how
  /\ UNCHANGED <<login, ticking, armed, poll, alive, overlapped, late>>

\* The interval fires.
Ticks(n) ==
  /\ alive /\ ticking /\ poll[n] = "unsent" /\ \A m \in 1..(n - 1) : poll[m] # "unsent"
  /\ poll' = [poll EXCEPT ![n] = "sent"]
  /\ overlapped' = (overlapped \/ \E m \in Poll : OnItsWay(m))
  /\ UNCHANGED <<login, ticking, armed, device, alive, late>>

\* The server answers a poll.
AnswersPoll(n) ==
  /\ poll[n] = "sent"
  /\ poll' = [poll EXCEPT ![n] =
       CASE device = "asked" -> "pending" [] device = "approved" -> "token" [] OTHER -> "error"]
  /\ device' = (IF device = "approved" THEN "taken" ELSE device)
  /\ UNCHANGED <<login, ticking, armed, alive, overlapped, late>>

SettlesOnce(what) == login' = (IF login = "pending" THEN what ELSE login)

\* Faulty: an error leaves the interval running.
SeesTicking(n) ==
  /\ alive /\ poll[n] \in Answers
  /\ poll' = [poll EXCEPT ![n] = "seen"]
  /\ IF poll[n] = "pending" THEN UNCHANGED <<login, ticking, armed>>
     ELSE /\ SettlesOnce(poll[n])
          /\ armed' = FALSE /\ ticking' = (ticking /\ poll[n] = "error")
  /\ UNCHANGED <<device, alive, overlapped, late>>

\* Faulty: that the user has not decided yet is an error like any other.
SeesPendingAsError(n) ==
  /\ alive /\ poll[n] \in Answers
  /\ poll' = [poll EXCEPT ![n] = "seen"]
  /\ SettlesOnce(IF poll[n] = "token" THEN "token" ELSE "error")
  /\ armed' = FALSE /\ ticking' = FALSE
  /\ UNCHANGED <<device, alive, overlapped, late>>

\* The answer arrives: a token or an error stops the timers and settles the
\* promise, unless it is settled.
Sees(n) ==
  /\ alive /\ poll[n] \in Answers
  /\ poll' = [poll EXCEPT ![n] = "seen"]
  /\ IF poll[n] = "pending" THEN UNCHANGED <<login, ticking, armed>>
     ELSE SettlesOnce(poll[n]) /\ armed' = FALSE /\ ticking' = FALSE
  /\ UNCHANGED <<device, alive, overlapped, late>>

\* Faulty: a request that fails is like one that was never made.
FailsQuietly(n) ==
  /\ alive /\ OnItsWay(n)
  /\ poll' = [poll EXCEPT ![n] = "failed"]
  /\ UNCHANGED <<login, ticking, armed, device, alive, overlapped, late>>

\* The request fails, before or after it reached the server.
Fails(n) ==
  /\ alive /\ OnItsWay(n)
  /\ poll' = [poll EXCEPT ![n] = "failed"] /\ alive' = FALSE
  /\ UNCHANGED <<login, ticking, armed, device, overlapped, late>>

\* Faulty: the timer only stops the polling.
ExpiresQuietly ==
  /\ alive /\ armed
  /\ ticking' = FALSE /\ armed' = FALSE
  /\ late' = (late \/ \E n \in Poll : OnItsWay(n))
  /\ UNCHANGED <<login, poll, device, alive, overlapped>>

\* The code expires.
Expires ==
  /\ alive /\ armed
  /\ SettlesOnce("expired") /\ ticking' = FALSE /\ armed' = FALSE
  /\ late' = (late \/ \E n \in Poll : OnItsWay(n))
  /\ UNCHANGED <<poll, device, alive, overlapped>>

DeviceNext ==
  \/ Expires
  \/ \E how \in {"approved", "denied"} : Decides(how)
  \/ \E n \in Poll : Ticks(n) \/ AnswersPoll(n) \/ Sees(n) \/ Fails(n)

\* The timer fires, whatever the polls do.
LoginTimely == Expires

DeviceSpec == DeviceInit /\ [][DeviceNext]_deviceVars /\ WF_deviceVars(LoginTimely)

------------------------------------------------------------------------------
(* Properties. *)

DeviceTypeOK ==
  /\ login \in {"pending", "token", "error", "expired"}
  /\ ticking \in BOOLEAN /\ armed \in BOOLEAN /\ alive \in BOOLEAN
  /\ poll \in [Poll -> Answers \cup {"unsent", "sent", "seen", "failed"}]
  /\ device \in {"asked", "approved", "denied", "taken"}
  /\ overlapped \in BOOLEAN /\ late \in BOOLEAN

\* The login fails although the server has handed the token out only when polls
\* overlapped, or when the code expired while one was on its way: a poll that
\* stays within its interval never loses a token
\* (platform-integration/src/auth/device-flow.ts).
TokenLostOnlyInARace ==
  alive /\ device = "taken" =>
    /\ login = "error" => overlapped
    /\ login = "expired" => late
    /\ login = "pending" => \E n \in Poll : poll[n] = "token"

\* Who has not decided yet is not turned away before the code expires.
UndecidedKeepsWaiting == device = "asked" => login \in {"pending", "expired"}

\* Once the login is settled no poll is sent.
PollingStops ==
  [][login # "pending" => \A n \in Poll : poll[n] = "unsent" => poll'[n] = "unsent"]_deviceVars

\* The login is settled, or a failed poll has ended the process.
LoginSettles == <>(login # "pending" \/ ~alive)

\* What the login promises while polls overlap and race the expiry
\* (platform-integration/src/auth/device-flow.ts).
LoginIsSound ==
  [](DeviceTypeOK /\ TokenLostOnlyInARace /\ UndecidedKeepsWaiting) /\ PollingStops
==============================================================================
