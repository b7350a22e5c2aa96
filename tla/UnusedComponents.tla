--------------------------- MODULE UnusedComponents ---------------------------
(***************************************************************************)
(* The decorator remove-unused-components of OpenAPI 3: its visitors       *)
(* collect in one map, in the order of the walk, the components and where  *)
(* each is referenced; when the walk leaves the root, rounds over the map  *)
(* remove what is unused until a round removes nothing.                    *)
(*                                                                         *)
(* A component is its key (type and name).  "outside" stands for all that  *)
(* is no component: paths, security requirements.  A $ref counts as a use  *)
(* when the walk meets it where one of eight types is expected; one met as *)
(* another type, as a map of properties, does not.                         *)
(***************************************************************************)
EXTENDS Naturals, Sequences, FiniteSets

CONSTANTS Keys

Sources == Keys \cup {"outside"}
Uses == [from : Sources, to : Keys]

ASSUME KeysAssumption == "outside" \notin Keys /\ IsFiniteSet(Keys) /\ Keys \cap Uses = {}

VARIABLES
  declared,  (* the components of the document as the walk finds it             *)
  uses,      (* its $refs to or into components: [from, to]                     *)
  counted,   (* those of a type that counts, and the names of security schemes  *)
  children,  (* the schemas that extend one with a discriminator by allOf       *)
  unread,    (* the visits that are to come: $refs and components               *)
  known,     (* components.keys(), in the order of insertion                    *)
  usedIn,    (* ... of each                                                     *)
  typed,     (* ... that have a componentType                                   *)
  extends,   (* ... that have referencesDiscriminator                           *)
  removed,   (* removedKeys                                                     *)
  round,     (* where the rounds are: "none", "going", "done"                   *)
  ahead,     (* the part of the map that the round has not come to              *)
  before     (* removedCountBefore                                              *)

usage == <<declared, uses, counted, children>>
info == <<known, usedIn, typed, extends>>
unusedVars == <<usage, unread, info, removed, round, ahead, before>>

UnusedInit ==
  /\ declared \in SUBSET Keys /\ children \in SUBSET declared
  /\ uses \in SUBSET [from : declared \cup {"outside"}, to : Keys] /\ counted \in SUBSET uses
  /\ unread = uses \cup declared
  /\ known = <<>> /\ usedIn = [k \in Keys |-> {}] /\ typed = {} /\ extends = {}
  /\ removed = {} /\ round = "none" /\ ahead = <<>> /\ before = 0

Listed(k) == \E i \in DOMAIN known : known[i] = k
List(k) == known' = (IF Listed(k) THEN known ELSE Append(known, k))
Place(s, k) == CHOOSE i \in DOMAIN s : s[i] = k
Without(s, k) == SubSeq(s, 1, Place(s, k) - 1) \o SubSeq(s, Place(s, k) + 1, Len(s))

------------------------------------------------------------------------------
(* The walk. *)

\* Faulty: a reference makes a component of its target.
RefersToComponent(u) ==
  /\ round = "none" /\ u \in unread \cap counted
  /\ List(u.to) /\ usedIn' = [usedIn EXCEPT ![u.to] = @ \cup {u.from}]
  /\ typed' = typed \cup {u.to}
  /\ unread' = unread \ {u}
  /\ UNCHANGED <<usage, extends, removed, round, ahead, before>>

\* ref.leave and SecurityRequirement, also for a component that is not there.
Refers(u) ==
  /\ round = "none" /\ u \in unread \cap counted
  /\ List(u.to) /\ usedIn' = [usedIn EXCEPT ![u.to] = @ \cup {u.from}]
  /\ unread' = unread \ {u}
  /\ UNCHANGED <<usage, typed, extends, removed, round, ahead, before>>

\* A $ref met as a type that is not listed: nothing is remembered of it.
Ignores(u) ==
  /\ round = "none" /\ u \in unread \cap (uses \ counted)
  /\ unread' = unread \ {u}
  /\ UNCHANGED <<usage, info, removed, round, ahead, before>>

\* Faulty: what was collected before the component was met is forgotten.
RegistersAnew(k) ==
  /\ round = "none" /\ k \in unread \cap declared
  /\ List(k) /\ usedIn' = [usedIn EXCEPT ![k] = {}]
  /\ typed' = typed \cup {k} /\ extends' = (IF k \in children THEN extends \cup {k} ELSE extends)
  /\ unread' = unread \ {k}
  /\ UNCHANGED <<usage, removed, round, ahead, before>>

\* registerComponent keeps what is known of the component.
Registers(k) ==
  /\ round = "none" /\ k \in unread \cap declared
  /\ List(k) /\ UNCHANGED usedIn
  /\ typed' = typed \cup {k} /\ extends' = (IF k \in children THEN extends \cup {k} ELSE extends)
  /\ unread' = unread \ {k}
  /\ UNCHANGED <<usage, removed, round, ahead, before>>

------------------------------------------------------------------------------
(* Root.leave *)

RoundsBegin ==
  /\ round = "none" /\ unread = {}
  /\ round' = "going" /\ ahead' = known /\ before' = 0
  /\ UNCHANGED <<usage, unread, info, removed>>

\* Faulty: a schema is not kept for the discriminator of its parent.
UsedByRef(k) == \E s \in usedIn[k] : s # k /\ s \notin removed

\* Used by something that is neither itself nor removed, or for a discriminator.
Used(k) == (\E s \in usedIn[k] : s # k /\ s \notin removed) \/ k \in extends

Keeps ==
  /\ round = "going" /\ ahead # <<>> /\ (Used(Head(ahead)) \/ Head(ahead) \notin typed)
  /\ ahead' = Tail(ahead)
  /\ UNCHANGED <<usage, unread, info, removed, round, before>>

\* The component is deleted from the document and from the map.
RemovesUnused ==
  /\ round = "going" /\ ahead # <<>> /\ ~Used(Head(ahead)) /\ Head(ahead) \in typed
  /\ removed' = removed \cup {Head(ahead)}
  /\ known' = Without(known, Head(ahead)) /\ ahead' = Tail(ahead)
  /\ UNCHANGED <<usage, unread, usedIn, typed, extends, round, before>>

\* Faulty: one round is enough.
RoundOnce ==
  /\ round = "going" /\ ahead = <<>>
  /\ round' = "done"
  /\ UNCHANGED <<usage, unread, info, removed, ahead, before>>

\* Faulty: it goes on while anything was ever removed.
RoundForever ==
  /\ round = "going" /\ ahead = <<>>
  /\ IF Cardinality(removed) > 0
     THEN ahead' = known /\ before' = Cardinality(removed) /\ UNCHANGED round
     ELSE round' = "done" /\ UNCHANGED <<ahead, before>>
  /\ UNCHANGED <<usage, unread, info, removed>>

\* The end of a round.
RoundEnds ==
  /\ round = "going" /\ ahead = <<>>
  /\ IF Cardinality(removed) > before
     THEN ahead' = known /\ before' = Cardinality(removed) /\ UNCHANGED round
     ELSE round' = "done" /\ UNCHANGED <<ahead, before>>
  /\ UNCHANGED <<usage, unread, info, removed>>

UnusedNext ==
  \/ \E u \in uses : Refers(u) \/ Ignores(u)
  \/ \E k \in Keys : Registers(k)
  \/ RoundsBegin \/ Keeps \/ RemovesUnused \/ RoundEnds

UnusedSpec == UnusedInit /\ [][UnusedNext]_unusedVars /\ WF_unusedVars(UnusedNext)

------------------------------------------------------------------------------
(* Properties. *)

UnusedTypeOK ==
  /\ declared \subseteq Keys /\ uses \subseteq Uses /\ counted \subseteq uses
  /\ children \subseteq declared
  /\ unread \subseteq uses \cup declared
  /\ known \in Seq(Keys) /\ ahead \in Seq(Keys)
  /\ usedIn \in [Keys -> SUBSET Sources]
  /\ typed \subseteq declared /\ extends \subseteq children
  /\ removed \subseteq declared /\ round \in {"none", "going", "done"} /\ before \in Nat

\* What is removed is referenced by nothing that stays, at every step of every
\* round: no $ref that counts is left without its target.  One that does not count
\* may be: what it leads into is removed when nothing else uses it
\* (oas3/remove-unused-components.ts:84-95).
NoDanglingRefs ==
  \A u \in counted : u.to \in removed => u.from = u.to \/ u.from \in removed

\* No child of a schema with a discriminator is removed: the values of the
\* discriminator refer to it without a $ref.
ChildrenStay == removed \cap children = {}

\* The components that nothing which counts uses but themselves and one another without end,
\* found by taking away what is used from outside or by what is used.
UsedOnlyBy(S) == {k \in declared \ children : \A u \in counted : u.to = k => u.from \in {k} \cup S}
Gone[n \in 0..Cardinality(Keys)] == IF n = 0 THEN {} ELSE UsedOnlyBy(Gone[n - 1])
Unused == Gone[Cardinality(Keys)]

\* What is removed does not depend on the order in which the walk meets components
\* and references, and nothing unused is left.
OrderDoesNotMatter == removed \subseteq Unused /\ (round = "done" => removed = Unused)

\* What remove-unused-components promises: it removes exactly what is unused, in
\* whatever order the walk came to it, and nothing that is referenced by a $ref of a
\* type that counts.
RemovalIsSound == UnusedTypeOK /\ NoDanglingRefs /\ ChildrenStay /\ OrderDoesNotMatter
==============================================================================
