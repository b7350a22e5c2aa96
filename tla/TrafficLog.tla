------------------------------ MODULE TrafficLog ------------------------------
(***************************************************************************)
(* What the proxy command promises of a capture: exchanges are recorded    *)
(* one after the other, each once; at one point the record is sealed, and  *)
(* the document that is assembled holds what was recorded until then, in   *)
(* that order.  What is recorded later is not in the document.             *)
(***************************************************************************)
EXTENDS Naturals, Sequences, SequencesExt

CONSTANTS Requests, None

VARIABLES
  recorded,
  sealed,    (* how many exchanges the document will have, None before       *)
  document

Init == recorded = <<>> /\ sealed = None /\ document = None

Record(r) ==
  /\ r \in Requests /\ ~Contains(recorded, r)
  /\ recorded' = Append(recorded, r)
  /\ UNCHANGED <<sealed, document>>

Seal ==
  /\ sealed = None
  /\ sealed' = Len(recorded)
  /\ UNCHANGED <<recorded, document>>

Assemble ==
  /\ sealed # None /\ document = None
  /\ document' = SubSeq(recorded, 1, sealed)
  /\ UNCHANGED <<recorded, sealed>>

Next == (\E r \in Requests : Record(r)) \/ Seal \/ Assemble

Spec == Init /\ [][Next]_<<recorded, sealed, document>>
==============================================================================
