--------------------------- MODULE OrderedDelivery ---------------------------
(***************************************************************************)
(* What an event stream promises its consumer.  When the server resumes,   *)
(* events come one after the other, none is left out, and what comes again *)
(* after a broken connection starts after the last event that had an id.   *)
(* Another server's events may come in any order.                          *)
(***************************************************************************)
EXTENDS Naturals

CONSTANT Last   (* the number of the server's events *)

VARIABLES
  resumes, (* whether the server does                     *)
  at,      (* the event handed out last                   *)
  mark,    (* the last event with an id that was handed out *)
  over     (* nothing comes any more                      *)

Init == resumes \in BOOLEAN /\ at = 0 /\ mark = 0 /\ over = FALSE

Deliver ==
  /\ ~over
  /\ at' \in (IF resumes THEN {at + 1, mark + 1} ELSE 1..Last) /\ at' <= Last
  /\ mark' \in {mark, at'}
  /\ UNCHANGED <<resumes, over>>

Stop == ~over /\ over' = TRUE /\ UNCHANGED <<resumes, at, mark>>

Next == Deliver \/ Stop

Spec == Init /\ [][Next]_<<resumes, at, mark, over>>
==============================================================================
