-------------------------- MODULE Documents_proofs ---------------------------
(***************************************************************************)
(* Proofs about what a document is worked on with: UnusedComponents, for   *)
(* any number of components and $refs and every order of the walk,         *)
(* PluginLoading, for any configurations, files and edits, ConfigMerge,    *)
(* for any number of files and layers that are extended, and Walker, for   *)
(* any document and rules.                                                 *)
(*                                                                         *)
(* The rounds that remove components ask usedIn and extends, so the        *)
(* invariant says that when they begin these know all $refs and all        *)
(* children of the document; and a round that has removed nothing so far   *)
(* has passed only what is used.                                           *)
(*                                                                         *)
(* A configuration is merged layer by layer, and what is merged so far     *)
(* says what the layers say that were written so far (Says): that goes on  *)
(* with each layer, so by induction it holds of the whole.                 *)
(*                                                                         *)
(* The stacks of the walker are its trail read once per context            *)
(* (StacksKept), the visits that were not left yet are those the trail     *)
(* holds (CountsKept), and a node that was seen and is not on the trail    *)
(* has had its kids seen.                                                  *)
(***************************************************************************)
EXTENDS UnusedComponents, PluginLoading, ConfigMerge, Walker,
        FiniteSetTheorems, SequenceTheorems, WellFoundedInduction, TLAPS

\* The parts of the type invariant that the proofs use.
Shaped ==
  /\ declared \subseteq Keys /\ uses \subseteq Uses /\ counted \subseteq uses /\ children \subseteq declared
  /\ typed \subseteq declared /\ removed \subseteq declared
  /\ usedIn \in [Keys -> SUBSET Sources]

\* What was visited is known.
Collected ==
  /\ \A u \in counted \ unread : u.from \in usedIn[u.to]
  /\ \A k \in declared \ unread : k \in children => k \in extends
  /\ round # "none" => unread = {}

UnusedInv == Shaped /\ Collected /\ NoDanglingRefs /\ ChildrenStay

------------------------------------------------------------------------------
(* The initial state and the steps. *)

LEMMA UnusedStarts == UnusedInit => UnusedInv
<1> SUFFICES ASSUME UnusedInit PROVE UnusedInv
  OBVIOUS
<1>1. declared \subseteq Keys /\ children \subseteq declared
  BY DEF UnusedInit
<1>2. uses \subseteq Uses
  BY <1>1 DEF UnusedInit, Uses, Sources
<1>3. Shaped
  BY <1>1, <1>2 DEF UnusedInit, Shaped
<1>4. Collected /\ NoDanglingRefs /\ ChildrenStay
  BY DEF UnusedInit, Collected, NoDanglingRefs, ChildrenStay
<1> QED
  BY <1>3, <1>4 DEF UnusedInv

LEMMA RefersKeeps ==
  ASSUME UnusedInv, NEW u \in uses, Refers(u)
  PROVE  UnusedInv'
<1>1. /\ u.from \in Sources /\ u.to \in Keys /\ u \notin declared
      /\ usedIn' = [usedIn EXCEPT ![u.to] = @ \cup {u.from}]
      /\ unread' = unread \ {u} /\ round = "none"
      /\ UNCHANGED <<declared, uses, counted, children, typed, extends, removed, round>>
  BY KeysAssumption DEF UnusedInv, Shaped, Refers, usage, Uses
<1>2. Shaped'
  BY <1>1 DEF UnusedInv, Shaped
<1>3. ASSUME NEW v \in counted, v \notin unread \/ v = u
      PROVE  v.from \in usedIn'[v.to]
  <2>1. v.to \in Keys
    BY DEF UnusedInv, Shaped, Uses
  <2> QED
    BY <1>1, <1>3, <2>1 DEF UnusedInv, Shaped, Collected
<1>4. Collected'
  BY <1>1, <1>3 DEF UnusedInv, Collected
<1>5. NoDanglingRefs' /\ ChildrenStay'
  BY <1>1 DEF UnusedInv, NoDanglingRefs, ChildrenStay
<1> QED
  BY <1>2, <1>4, <1>5 DEF UnusedInv

\* A $ref that does not count changes nothing but what is to come.
LEMMA IgnoresKeeps ==
  ASSUME UnusedInv, NEW u \in uses, Ignores(u)
  PROVE  UnusedInv'
<1>1. /\ u \notin counted /\ u \notin declared /\ unread' = unread \ {u} /\ round = "none"
      /\ UNCHANGED <<declared, uses, counted, children, usedIn, typed, extends, removed, round>>
  BY KeysAssumption DEF UnusedInv, Shaped, Ignores, usage, info
<1>2. counted \ unread' = counted \ unread /\ declared \ unread' = declared \ unread
  BY <1>1
<1>3. Shaped' /\ Collected'
  BY <1>1, <1>2 DEF UnusedInv, Shaped, Collected
<1>4. NoDanglingRefs' /\ ChildrenStay'
  BY <1>1 DEF UnusedInv, NoDanglingRefs, ChildrenStay
<1> QED
  BY <1>3, <1>4 DEF UnusedInv

LEMMA RegistersKeeps ==
  ASSUME UnusedInv, NEW k \in Keys, Registers(k)
  PROVE  UnusedInv'
<1>1. /\ k \in declared /\ k \notin uses /\ k \notin counted
      /\ typed' = typed \cup {k} /\ extends \subseteq extends' /\ (k \in children => k \in extends')
      /\ unread' = unread \ {k} /\ round = "none"
      /\ UNCHANGED <<declared, uses, counted, children, usedIn, removed, round>>
  BY KeysAssumption DEF UnusedInv, Shaped, Registers, usage
<1>2. Shaped'
  BY <1>1 DEF UnusedInv, Shaped
<1>3. Collected'
  BY <1>1 DEF UnusedInv, Collected
<1>4. NoDanglingRefs' /\ ChildrenStay'
  BY <1>1 DEF UnusedInv, NoDanglingRefs, ChildrenStay
<1> QED
  BY <1>2, <1>3, <1>4 DEF UnusedInv

\* A component is removed when nothing that stays refers to it.
LEMMA RemovesKeeps ==
  ASSUME UnusedInv, RemovesUnused
  PROVE  UnusedInv'
<1> DEFINE k == Head(ahead)
<1>1. /\ k \in declared /\ k \notin extends /\ unread = {}
      /\ \A s \in usedIn[k] : s = k \/ s \in removed
      /\ removed' = removed \cup {k}
      /\ UNCHANGED <<declared, uses, counted, children, unread, usedIn, typed, extends, round>>
  BY DEF UnusedInv, Shaped, Collected, RemovesUnused, Used, usage
<1> HIDE DEF k
<1>2. Shaped' /\ Collected'
  BY <1>1 DEF UnusedInv, Shaped, Collected
<1>3. \A u \in counted : u.from \in usedIn[u.to]
  BY <1>1 DEF UnusedInv, Collected
<1>4. NoDanglingRefs'
  BY <1>1, <1>3 DEF UnusedInv, NoDanglingRefs
<1>5. ChildrenStay'
  BY <1>1 DEF UnusedInv, Collected, ChildrenStay
<1> QED
  BY <1>2, <1>4, <1>5 DEF UnusedInv

LEMMA OtherRoundsKeep ==
  ASSUME UnusedInv, RoundsBegin \/ Keeps \/ RoundEnds \/ UNCHANGED unusedVars
  PROVE  UnusedInv'
<1>1. UNCHANGED <<declared, uses, counted, children, unread, usedIn, typed, extends, removed>>
  BY DEF RoundsBegin, Keeps, RoundEnds, unusedVars, usage, info
<1>2. (round' # "none" => unread' = {})
  BY DEF UnusedInv, Collected, RoundsBegin, Keeps, RoundEnds, unusedVars, usage, info
<1> QED
  BY <1>1, <1>2 DEF UnusedInv, Shaped, Collected, NoDanglingRefs, ChildrenStay

LEMMA UnusedAlways == UnusedSpec => []UnusedInv
<1>1. UnusedInv /\ [UnusedNext]_unusedVars => UnusedInv'
  BY RefersKeeps, IgnoresKeeps, RegistersKeeps, RemovesKeeps, OtherRoundsKeep DEF UnusedNext
<1> QED
  BY UnusedStarts, <1>1, PTL DEF UnusedSpec

------------------------------------------------------------------------------
(* The theorems. *)

\* However many rounds there are and in whatever order the components were met, no
\* component is removed that one which stays refers to by a $ref that counts.
THEOREM NothingDangles == UnusedSpec => []NoDanglingRefs
<1>1. UnusedInv => NoDanglingRefs
  BY DEF UnusedInv
<1> QED
  BY <1>1, UnusedAlways, PTL

\* No schema that a discriminator may name is removed.
THEOREM DiscriminatedStay == UnusedSpec => []ChildrenStay
<1>1. UnusedInv => ChildrenStay
  BY DEF UnusedInv
<1> QED
  BY <1>1, UnusedAlways, PTL

------------------------------------------------------------------------------
(* The decorator removes exactly what is unused. *)

\* No component is in a map twice.
Once(s) == \A i, j \in DOMAIN s : s[i] = s[j] => i = j

MapInv ==
  /\ known \in Seq(Keys) /\ ahead \in Seq(Keys) /\ Once(known) /\ Once(ahead)
  /\ unread \subseteq uses \cup declared /\ extends \subseteq children
  /\ round \in {"none", "going", "done"} /\ before \in Nat
  /\ \A k \in Keys : \A s \in usedIn[k] : \E u \in counted : u.to = k /\ u.from = s
  /\ \A k \in declared \ unread : k \in typed /\ (k \in removed \/ Listed(k))

\* What a round has passed while it removed nothing is used; what stays at the end is.
RoundInv ==
  /\ round = "none" => removed = {}
  /\ round = "going" =>
       /\ \A i \in DOMAIN ahead : Listed(ahead[i])
       /\ before <= Cardinality(removed)
       /\ before = Cardinality(removed) =>
            \A i \in DOMAIN known :
              known[i] \notin typed \/ Used(known[i]) \/ \E j \in DOMAIN ahead : ahead[j] = known[i]
  /\ round = "done" => \A k \in declared \ removed : Used(k)

\* What was removed is in every set that holds what is used only by it.
RemovedInv == \A S \in SUBSET Keys : UsedOnlyBy(S) \subseteq S => removed \subseteq S

RemovalInv == UnusedInv /\ MapInv /\ RoundInv /\ RemovedInv

------------------------------------------------------------------------------
(* What is unused is what RemovedInv speaks of. *)

\* A property of 0 that goes from a number to the next holds of all.
LEMMA SetInduction ==
  ASSUME NEW S, 0 \in S, \A n \in Nat : n \in S => n + 1 \in S
  PROVE  \A n \in Nat : n \in S
<1> DEFINE T == Nat \ S
           R == OpToRel(<, Nat)
<1> SUFFICES ASSUME T # {} PROVE FALSE
  OBVIOUS
<1>1. IsWellFoundedOn(R, Nat)
  BY NatLessThanWellFounded
<1>2. T \subseteq Nat
  OBVIOUS
<1>3. \A x, y \in Nat : y < x => <<y, x>> \in R
  BY DEF OpToRel
<1> HIDE DEF R
<1>4. PICK x \in T : \A y \in T : ~ (<<y, x>> \in R)
  <2> HIDE DEF T
  <2> QED BY <1>1, <1>2, WFMin
<1>5. x \in Nat /\ x # 0 /\ x - 1 \in Nat
  BY <1>2, <1>4
<1>6. <<x - 1, x>> \in R
  BY <1>3, <1>5
<1>7. x - 1 \notin T
  BY <1>4, <1>6
<1> QED
  BY <1>4, <1>5, <1>7

\* The sets of Gone, one from the other.
LEMMA GoneIs ==
  LET N == Cardinality(Keys)
  IN /\ N \in Nat /\ Gone[0] = {}
     /\ \A n \in 1..N : Gone[n] = UsedOnlyBy(Gone[n - 1])
<1> DEFINE N == Cardinality(Keys)
           Is(g, m) == g = [n \in 0..m |-> IF n = 0 THEN {} ELSE UsedOnlyBy(g[n - 1])]
           S == {m \in Nat : \E g : Is(g, m)}
<1>1. N \in Nat
  BY KeysAssumption, FS_CardinalityType
<1>2. 0 \in S
  <2>1. Is([n \in 0..0 |-> {}], 0)
    OBVIOUS
  <2> QED
    BY <2>1
<1>3. ASSUME NEW m \in Nat, m \in S PROVE m + 1 \in S
  <2>1. PICK g : Is(g, m)
    BY <1>3
  <2> DEFINE h == [n \in 0..m + 1 |-> IF n = 0 THEN {} ELSE UsedOnlyBy(g[n - 1])]
  <2>2. \A n \in 0..m : h[n] = g[n]
    <3> TAKE n \in 0..m
    <3>1. n \in 0..m + 1
      OBVIOUS
    <3>2. g[n] = IF n = 0 THEN {} ELSE UsedOnlyBy(g[n - 1])
      BY <2>1, Zenon
    <3> QED
      BY <3>1, <3>2
  <2>3. \A n \in 0..m + 1 : n # 0 => h[n - 1] = g[n - 1]
    <3> TAKE n \in 0..m + 1
    <3> HAVE n # 0
    <3>1. n - 1 \in 0..m
      OBVIOUS
    <3> QED
      BY <2>2, <3>1
  <2>4. h = [n \in 0..m + 1 |-> IF n = 0 THEN {} ELSE UsedOnlyBy(h[n - 1])]
    BY <2>3
  <2>5. \E gg : Is(gg, m + 1)
    <3> HIDE DEF h
    <3> QED
      BY <2>4, Zenon
  <2> QED
    BY <2>5
<1>4. N \in S
  <2> HIDE DEF S
  <2>1. \A n \in Nat : n \in S
    BY <1>2, <1>3, SetInduction
  <2> QED
    BY <1>1, <2>1
<1>5. \E g : Is(g, N)
  BY <1>4
<1>6. Is(Gone, N)
  BY <1>5 DEF Gone
<1>7. \A n \in 0..N : Gone[n] = IF n = 0 THEN {} ELSE UsedOnlyBy(Gone[n - 1])
  BY <1>6
<1>8. Gone[0] = {} /\ \A n \in 1..N : Gone[n] = UsedOnlyBy(Gone[n - 1])
  BY <1>1, <1>7
<1> QED
  BY <1>1, <1>8

\* After as many sets as there are components nothing more is found.
LEMMA UnusedIsClosed ==
  ASSUME UnusedInv
  PROVE  UsedOnlyBy(Unused) = Unused /\ Unused \in SUBSET Keys
<1> DEFINE N == Cardinality(Keys)
           Fine(n) ==
             /\ Gone[n] \subseteq UsedOnlyBy(Gone[n]) /\ Gone[n] \in SUBSET Keys
             /\ UsedOnlyBy(Gone[n]) = Gone[n] \/ Cardinality(Gone[n]) >= n
           S == {n \in Nat : n <= N => Fine(n)}
<1>1. /\ N \in Nat /\ Gone[0] = {}
      /\ \A n \in 1..N : Gone[n] = UsedOnlyBy(Gone[n - 1])
  BY GoneIs
<1>2. declared \subseteq Keys /\ IsFiniteSet(Keys)
  BY KeysAssumption DEF UnusedInv, Shaped
<1>3. 0 \in S
  BY <1>1, FS_EmptySet
<1>4. ASSUME NEW n \in Nat, n \in S PROVE n + 1 \in S
  <2> SUFFICES ASSUME n + 1 <= N PROVE Fine(n + 1)
    OBVIOUS
  <2>1. Fine(n) /\ Gone[n + 1] = UsedOnlyBy(Gone[n])
    BY <1>1, <1>4
  <2>2. Gone[n + 1] \subseteq UsedOnlyBy(Gone[n + 1]) /\ Gone[n + 1] \in SUBSET Keys
    BY <2>1, <1>2 DEF UsedOnlyBy
  <2>3. CASE UsedOnlyBy(Gone[n]) = Gone[n]
    BY <2>1, <2>2, <2>3
  <2>4. CASE UsedOnlyBy(Gone[n]) # Gone[n]
    <3>1. /\ IsFiniteSet(Gone[n + 1]) /\ IsFiniteSet(Gone[n])
          /\ Cardinality(Gone[n + 1]) \in Nat /\ Cardinality(Gone[n]) \in Nat
      BY <1>2, <2>1, <2>2, FS_Subset, FS_CardinalityType
    <3>2. Gone[n] \in SUBSET Gone[n + 1] /\ Gone[n] # Gone[n + 1]
      BY <2>1, <2>4
    <3>3. Cardinality(Gone[n]) < Cardinality(Gone[n + 1])
      BY <3>1, <3>2, FS_Subset
    <3> QED
      BY <2>1, <2>2, <2>4, <3>1, <3>3
  <2> QED
    BY <2>3, <2>4
<1>5. Fine(N)
  <2> HIDE DEF Fine
  <2>1. \A n \in Nat : n \in S
    <3> HIDE DEF S
    <3> QED
      BY <1>3, <1>4, SetInduction
  <2> QED
    BY <1>1, <2>1
<1>6. CASE Cardinality(Gone[N]) >= N
  <2>1. Cardinality(Gone[N]) <= N /\ Cardinality(Gone[N]) \in Nat
    BY <1>2, <1>5, FS_Subset, FS_CardinalityType
  <2>2. Gone[N] = Keys
    BY <1>1, <1>2, <1>5, <1>6, <2>1, FS_Subset
  <2>3. UsedOnlyBy(Gone[N]) \subseteq Keys
    BY <1>2 DEF UsedOnlyBy
  <2> QED
    BY <1>5, <2>2, <2>3 DEF Unused
<1> QED
  BY <1>5, <1>6 DEF Unused

\* A set without an unused component that only it and itself refer to has them all.
LEMMA UnusedIsLeast ==
  ASSUME UnusedInv, NEW R, \A k \in declared \ R :
           k \in children \/ \E u \in counted : u.to = k /\ u.from # k /\ u.from \notin R
  PROVE  Unused \subseteq R
<1> DEFINE N == Cardinality(Keys)
           S == {n \in Nat : n <= N => Gone[n] \subseteq R}
<1>1. /\ N \in Nat /\ Gone[0] = {}
      /\ \A n \in 1..N : Gone[n] = UsedOnlyBy(Gone[n - 1])
  BY GoneIs
<1>2. 0 \in S
  BY <1>1
<1>3. ASSUME NEW n \in Nat, n \in S PROVE n + 1 \in S
  <2> SUFFICES ASSUME n + 1 <= N, NEW k \in Gone[n + 1], k \notin R PROVE FALSE
    OBVIOUS
  <2>1. Gone[n + 1] = UsedOnlyBy(Gone[n]) /\ Gone[n] \subseteq R
    BY <1>1, <1>3
  <2>2. k \in declared \ children /\ \A u \in counted : u.to = k => u.from \in {k} \cup Gone[n]
    BY <2>1 DEF UsedOnlyBy
  <2> QED
    BY <2>1, <2>2
<1>4. N \in S
  <2> HIDE DEF S
  <2>1. \A n \in Nat : n \in S
    BY <1>2, <1>3, SetInduction
  <2> QED
    BY <1>1, <2>1
<1> QED
  BY <1>4 DEF Unused

------------------------------------------------------------------------------
(* The map and the rounds. *)

LEMMA RemovalStarts == UnusedInit => MapInv /\ RoundInv /\ RemovedInv
<1> SUFFICES ASSUME UnusedInit PROVE MapInv /\ RoundInv /\ RemovedInv
  OBVIOUS
<1>1. known = <<>> /\ ahead = <<>> /\ DOMAIN known = {} /\ DOMAIN ahead = {}
  BY DEF UnusedInit
<1>2. MapInv
  BY <1>1, EmptySeq DEF UnusedInit, MapInv, Once
<1>3. RoundInv /\ RemovedInv
  BY DEF UnusedInit, RoundInv, RemovedInv
<1> QED
  BY <1>2, <1>3

\* List puts a component into the map, where it is once, and moves no other.
LEMMA ListKeeps ==
  ASSUME MapInv, NEW k \in Keys, List(k)
  PROVE  /\ known' \in Seq(Keys) /\ Once(known')
         /\ \E i \in DOMAIN known' : known'[i] = k
         /\ \A i \in DOMAIN known : \E j \in DOMAIN known' : known'[j] = known[i]
<1>1. known \in Seq(Keys) /\ Once(known) /\ DOMAIN known = 1..Len(known) /\ Len(known) \in Nat
  BY LenProperties DEF MapInv
<1>2. CASE Listed(k)
  BY <1>1, <1>2 DEF List, Listed
<1>3. CASE ~Listed(k)
  <2>1. known' = Append(known, k)
    BY <1>3 DEF List
  <2>2. /\ known' \in Seq(Keys) /\ Len(known') = Len(known) + 1 /\ known'[Len(known) + 1] = k
        /\ \A i \in 1..Len(known) : known'[i] = known[i]
        /\ DOMAIN known' = 1..Len(known) + 1
    BY <1>1, <2>1, AppendProperties
  <2>3. Once(known')
    BY <1>1, <1>3, <2>2 DEF Once, Listed
  <2> QED
    BY <1>1, <2>2, <2>3
<1> QED
  BY <1>2, <1>3

LEMMA RefersKeepsMap ==
  ASSUME UnusedInv, MapInv, RoundInv, RemovedInv, NEW u \in uses, Refers(u)
  PROVE  MapInv' /\ RoundInv' /\ RemovedInv'
<1>1. /\ u \in counted /\ u.to \in Keys /\ u \notin declared /\ round = "none" /\ List(u.to)
      /\ usedIn' = [usedIn EXCEPT ![u.to] = @ \cup {u.from}]
      /\ unread' = unread \ {u}
      /\ UNCHANGED <<declared, uses, counted, children, typed, extends, removed, round, ahead, before>>
  BY KeysAssumption DEF UnusedInv, Shaped, Refers, usage, Uses
<1>2. /\ known' \in Seq(Keys) /\ Once(known')
      /\ \A i \in DOMAIN known : \E j \in DOMAIN known' : known'[j] = known[i]
  BY <1>1, ListKeeps
<1>3. \A k \in Keys : Listed(k) => Listed(k)'
  BY <1>2 DEF Listed
<1>4. \A k \in Keys : \A s \in usedIn'[k] : \E v \in counted : v.to = k /\ v.from = s
  BY <1>1 DEF MapInv, UnusedInv, Shaped
<1>5. declared \ unread' = declared \ unread /\ declared \subseteq Keys
  BY <1>1 DEF UnusedInv, Shaped
<1>6. \A k \in declared \ unread : k \in typed /\ (k \in removed \/ Listed(k)')
  BY <1>3, <1>5 DEF MapInv
<1>7. MapInv'
  BY <1>1, <1>2, <1>4, <1>5, <1>6 DEF MapInv, Once
<1>8. RoundInv' /\ RemovedInv'
  BY <1>1 DEF RoundInv, RemovedInv, UsedOnlyBy
<1> QED
  BY <1>7, <1>8

LEMMA IgnoresKeepsMap ==
  ASSUME UnusedInv, MapInv, RoundInv, RemovedInv, NEW u \in uses, Ignores(u)
  PROVE  MapInv' /\ RoundInv' /\ RemovedInv'
<1>1. /\ u \notin declared /\ unread' = unread \ {u} /\ round = "none"
      /\ UNCHANGED <<declared, uses, counted, children, known, usedIn, typed, extends, removed,
                     round, ahead, before>>
  BY KeysAssumption DEF UnusedInv, Shaped, Ignores, usage, info
<1>2. declared \ unread' = declared \ unread
  BY <1>1
<1>3. \A k : Listed(k)' <=> Listed(k)
  BY <1>1 DEF Listed
<1>4. MapInv'
  BY <1>1, <1>2, <1>3 DEF MapInv, Once
<1>5. RoundInv' /\ RemovedInv'
  BY <1>1 DEF RoundInv, RemovedInv, UsedOnlyBy
<1> QED
  BY <1>4, <1>5

LEMMA RegistersKeepsMap ==
  ASSUME UnusedInv, MapInv, RoundInv, RemovedInv, NEW k \in Keys, Registers(k)
  PROVE  MapInv' /\ RoundInv' /\ RemovedInv'
<1>1. /\ k \in declared /\ round = "none" /\ List(k)
      /\ unread' = unread \ {k} /\ typed' = typed \cup {k}
      /\ extends' \subseteq extends \cup ({k} \cap children)
      /\ UNCHANGED <<declared, uses, counted, children, usedIn, removed, round, ahead, before>>
  BY DEF Registers, usage
<1>2. /\ known' \in Seq(Keys) /\ Once(known') /\ Listed(k)'
      /\ \A i \in DOMAIN known : \E j \in DOMAIN known' : known'[j] = known[i]
  BY <1>1, ListKeeps DEF Listed
<1>3. \A j \in Keys : Listed(j) => Listed(j)'
  BY <1>2 DEF Listed
<1>4. declared \ unread' \subseteq (declared \ unread) \cup {k} /\ declared \subseteq Keys
  BY <1>1 DEF UnusedInv, Shaped
<1>5. \A j \in declared \ unread' : j \in typed' /\ (j \in removed \/ Listed(j)')
  BY <1>1, <1>2, <1>3, <1>4 DEF MapInv
<1>6. MapInv'
  BY <1>1, <1>2, <1>5 DEF MapInv, Once
<1>7. RoundInv' /\ RemovedInv'
  BY <1>1 DEF RoundInv, RemovedInv, UsedOnlyBy
<1> QED
  BY <1>6, <1>7

\* Without takes a component out of the map and leaves the others.
LEMMA WithoutIs ==
  ASSUME NEW s \in Seq(Keys), Once(s), NEW k, \E i \in DOMAIN s : s[i] = k
  PROVE  /\ Without(s, k) \in Seq(Keys) /\ Once(Without(s, k))
         /\ \A i \in DOMAIN Without(s, k) : \E j \in DOMAIN s : s[j] = Without(s, k)[i] /\ s[j] # k
         /\ \A j \in DOMAIN s : s[j] # k => \E i \in DOMAIN Without(s, k) : Without(s, k)[i] = s[j]
<1> DEFINE p == Place(s, k)
           a == SubSeq(s, 1, p - 1)
           b == SubSeq(s, p + 1, Len(s))
           t == a \o b
<1>1. p \in 1..Len(s) /\ s[p] = k /\ Len(s) \in Nat /\ DOMAIN s = 1..Len(s)
  BY LenProperties DEF Place
<1> HIDE DEF p
<1>2. \A i \in 1..Len(s) : s[i] \in Keys
  BY ElementOfSeq
<1>3. a \in Seq(Keys) /\ Len(a) = p - 1 /\ \A i \in 1..p - 1 : a[i] = s[i]
  <2>1. \A i \in 1..p - 1 : s[i] \in Keys
    BY <1>1, <1>2
  <2>2. /\ a \in Seq(Keys) /\ Len(a) = IF 1 <= p - 1 THEN p - 1 - 1 + 1 ELSE 0
        /\ \A i \in 1..p - 1 - 1 + 1 : a[i] = s[1 + i - 1]
    BY <1>1, <2>1, SubSeqProperties
  <2> HIDE DEF a
  <2> QED
    BY <1>1, <2>2
<1>4. b \in Seq(Keys) /\ Len(b) = Len(s) - p /\ \A i \in 1..Len(s) - p : b[i] = s[p + i]
  <2>1. \A i \in p + 1..Len(s) : s[i] \in Keys
    BY <1>1, <1>2
  <2>2. /\ b \in Seq(Keys) /\ Len(b) = IF p + 1 <= Len(s) THEN Len(s) - (p + 1) + 1 ELSE 0
        /\ \A i \in 1..Len(s) - (p + 1) + 1 : b[i] = s[p + 1 + i - 1]
    BY <1>1, <2>1, SubSeqProperties
  <2> HIDE DEF b
  <2>3. Len(b) = Len(s) - p
    <3>1. p \in Nat /\ Len(s) \in Nat /\ p <= Len(s)
      BY <1>1
    <3>2. CASE p = Len(s)
      BY <2>2, <3>1, <3>2
    <3>3. CASE p < Len(s)
      BY <2>2, <3>1, <3>3
    <3> QED
      BY <3>1, <3>2, <3>3
  <2>4. ASSUME NEW i \in 1..Len(s) - p PROVE b[i] = s[p + i]
    <3>1. i \in 1..Len(s) - (p + 1) + 1 /\ p + 1 + i - 1 = p + i
      BY <1>1
    <3> QED
      BY <2>2, <3>1
  <2> QED
    BY <2>2, <2>3, <2>4
<1> HIDE DEF a, b
<1>5. /\ t \in Seq(Keys) /\ Len(t) = Len(a) + Len(b)
      /\ \A i \in 1..Len(a) + Len(b) : t[i] = IF i <= Len(a) THEN a[i] ELSE b[i - Len(a)]
  BY <1>3, <1>4, ConcatProperties
<1> HIDE DEF t
<1>6. /\ t \in Seq(Keys) /\ DOMAIN t = 1..Len(s) - 1
      /\ \A i \in 1..Len(s) - 1 : t[i] = IF i < p THEN s[i] ELSE s[i + 1]
  <2>1. Len(t) = Len(s) - 1 /\ DOMAIN t = 1..Len(t)
    BY <1>1, <1>3, <1>4, <1>5, LenProperties
  <2>2. ASSUME NEW i \in 1..Len(s) - 1 PROVE t[i] = IF i < p THEN s[i] ELSE s[i + 1]
    <3>1. CASE i < p
      BY <1>1, <1>3, <1>4, <1>5, <3>1
    <3>2. CASE ~(i < p)
      <4>1. i - (p - 1) \in 1..Len(s) - p /\ p + (i - (p - 1)) = i + 1
        BY <1>1, <3>2
      <4>2. i \in 1..Len(a) + Len(b) /\ ~(i <= Len(a))
        BY <1>1, <1>3, <1>4, <3>2
      <4>3. t[i] = b[i - Len(a)]
        BY <1>5, <4>2
      <4> QED
        BY <1>3, <1>4, <3>2, <4>1, <4>3
    <3> QED
      BY <3>1, <3>2
  <2> QED
    BY <1>5, <2>1, <2>2
<1>7. Once(t)
  <2> SUFFICES ASSUME NEW i \in DOMAIN t, NEW j \in DOMAIN t, t[i] = t[j] PROVE i = j
    BY DEF Once
  <2> DEFINE m(n) == IF n < p THEN n ELSE n + 1
  <2>1. /\ m(i) \in DOMAIN s /\ m(j) \in DOMAIN s /\ t[i] = s[m(i)] /\ t[j] = s[m(j)]
    BY <1>1, <1>6
  <2>2. m(i) = m(j)
    <3> HIDE DEF m
    <3> QED
      BY <2>1 DEF Once
  <2> QED
    BY <1>1, <1>6, <2>2
<1>8. \A i \in DOMAIN t : \E j \in DOMAIN s : s[j] = t[i] /\ s[j] # k
  <2> TAKE i \in DOMAIN t
  <2>1. CASE i < p
    BY <1>1, <1>6, <2>1 DEF Once
  <2>2. CASE ~(i < p)
    <3>1. i + 1 \in DOMAIN s /\ s[i + 1] = t[i] /\ i + 1 # p
      BY <1>1, <1>6, <2>2
    <3> QED
      BY <1>1, <3>1 DEF Once
  <2> QED
    BY <2>1, <2>2
<1>9. \A j \in DOMAIN s : s[j] # k => \E i \in DOMAIN t : t[i] = s[j]
  <2> SUFFICES ASSUME NEW j \in DOMAIN s, s[j] # k PROVE \E i \in DOMAIN t : t[i] = s[j]
    OBVIOUS
  <2>1. CASE j < p
    BY <1>1, <1>6, <2>1
  <2>2. CASE ~(j < p)
    <3>1. j - 1 \in DOMAIN t /\ t[j - 1] = s[j]
      BY <1>1, <1>6, <2>2
    <3> QED
      BY <3>1
  <2> QED
    BY <2>1, <2>2
<1>10. Without(s, k) = t
  BY DEF Without, p, a, b, t
<1> QED
  BY <1>6, <1>7, <1>8, <1>9, <1>10

LEMMA RoundsBeginKeepMap ==
  ASSUME UnusedInv, MapInv, RoundInv, RemovedInv, RoundsBegin
  PROVE  MapInv' /\ RoundInv' /\ RemovedInv'
<1>1. /\ unread = {} /\ round = "none" /\ round' = "going" /\ ahead' = known /\ before' = 0
      /\ UNCHANGED <<declared, uses, counted, children, unread, known, usedIn, typed, extends, removed>>
  BY DEF RoundsBegin, usage, info
<1>2. removed = {} /\ Cardinality(removed') = 0
  BY <1>1, FS_EmptySet DEF RoundInv
<1>3. MapInv'
  BY <1>1 DEF MapInv, Once, Listed
<1>4. RoundInv'
  BY <1>1, <1>2 DEF RoundInv, Listed
<1>5. RemovedInv'
  BY <1>1 DEF RemovedInv, UsedOnlyBy
<1> QED
  BY <1>3, <1>4, <1>5

\* The first of the sequence is left behind.
LEMMA TailKeeps ==
  ASSUME MapInv, ahead # <<>>
  PROVE  /\ Head(ahead) \in Keys /\ Tail(ahead) \in Seq(Keys) /\ Once(Tail(ahead))
         /\ 1 \in DOMAIN ahead /\ Head(ahead) = ahead[1]
         /\ \A i \in DOMAIN ahead : ahead[i] # Head(ahead) =>
              \E j \in DOMAIN Tail(ahead) : Tail(ahead)[j] = ahead[i]
         /\ \A j \in DOMAIN Tail(ahead) :
              Tail(ahead)[j] # Head(ahead) /\ \E i \in DOMAIN ahead : ahead[i] = Tail(ahead)[j]
<1> DEFINE t == Tail(ahead)
<1>1. /\ ahead \in Seq(Keys) /\ Once(ahead) /\ Len(ahead) \in Nat /\ DOMAIN ahead = 1..Len(ahead)
      /\ Len(ahead) # 0 /\ Head(ahead) = ahead[1]
  BY LenProperties, EmptySeq DEF MapInv
<1>2. /\ Head(ahead) \in Keys /\ t \in Seq(Keys) /\ Len(t) = Len(ahead) - 1
      /\ \A i \in 1..Len(t) : t[i] = ahead[i + 1]
  BY <1>1, HeadTailProperties
<1> HIDE DEF t
<1>3. DOMAIN t = 1..Len(ahead) - 1
  BY <1>2, LenProperties
<1>4. Once(t)
  <2> SUFFICES ASSUME NEW i \in DOMAIN t, NEW j \in DOMAIN t, t[i] = t[j] PROVE i = j
    BY DEF Once
  <2>1. /\ i + 1 \in DOMAIN ahead /\ t[i] = ahead[i + 1]
        /\ j + 1 \in DOMAIN ahead /\ t[j] = ahead[j + 1]
    BY <1>1, <1>2, <1>3
  <2>2. i + 1 = j + 1
    BY <1>1, <2>1 DEF Once
  <2> QED
    BY <1>3, <2>2
<1>5. \A i \in DOMAIN ahead : ahead[i] # Head(ahead) => \E j \in DOMAIN t : t[j] = ahead[i]
  <2> SUFFICES ASSUME NEW i \in DOMAIN ahead, ahead[i] # Head(ahead)
               PROVE  \E j \in DOMAIN t : t[j] = ahead[i]
    OBVIOUS
  <2>1. i - 1 \in DOMAIN t /\ t[i - 1] = ahead[i]
    BY <1>1, <1>2, <1>3
  <2> QED
    BY <2>1
<1>6. \A j \in DOMAIN t : t[j] # Head(ahead) /\ \E i \in DOMAIN ahead : ahead[i] = t[j]
  <2> TAKE j \in DOMAIN t
  <2>1. j + 1 \in DOMAIN ahead /\ ahead[j + 1] = t[j] /\ j + 1 # 1 /\ 1 \in DOMAIN ahead
    BY <1>1, <1>2, <1>3
  <2> QED
    BY <1>1, <2>1 DEF Once
<1> QED
  BY <1>1, <1>2, <1>4, <1>5, <1>6 DEF t

LEMMA KeepsKeepsMap ==
  ASSUME UnusedInv, MapInv, RoundInv, RemovedInv, Keeps
  PROVE  MapInv' /\ RoundInv' /\ RemovedInv'
<1>1. /\ round = "going" /\ ahead # <<>> /\ (Used(Head(ahead)) \/ Head(ahead) \notin typed)
      /\ ahead' = Tail(ahead)
      /\ UNCHANGED <<declared, uses, counted, children, unread, known, usedIn, typed, extends, removed, round, before>>
  BY DEF Keeps, usage, info
<1>2. \A k : (Used(k)' <=> Used(k)) /\ (Listed(k)' <=> Listed(k))
  BY <1>1 DEF Used, Listed
<1>3. MapInv'
  BY <1>1, <1>2, TailKeeps DEF MapInv, Once
<1>4. RoundInv'
  BY <1>1, <1>2, TailKeeps DEF RoundInv
<1>5. RemovedInv'
  BY <1>1 DEF RemovedInv, UsedOnlyBy
<1> QED
  BY <1>3, <1>4, <1>5

LEMMA RoundEndsKeepsMap ==
  ASSUME UnusedInv, MapInv, RoundInv, RemovedInv, RoundEnds
  PROVE  MapInv' /\ RoundInv' /\ RemovedInv'
<1>1. /\ round = "going" /\ ahead = <<>>
      /\ UNCHANGED <<declared, uses, counted, children, unread, known, usedIn, typed, extends, removed>>
  BY DEF RoundEnds, usage, info
<1>2. Cardinality(removed) \in Nat
  BY KeysAssumption, FS_Subset, FS_CardinalityType DEF UnusedInv, Shaped
<1>3. \A k : (Used(k)' <=> Used(k)) /\ (Listed(k)' <=> Listed(k))
  BY <1>1 DEF Used, Listed
<1>4. RemovedInv'
  BY <1>1 DEF RemovedInv, UsedOnlyBy
<1>5. CASE Cardinality(removed) > before
  <2>1. ahead' = known /\ before' = Cardinality(removed) /\ round' = round
    BY <1>5 DEF RoundEnds
  <2>2. MapInv'
    BY <1>1, <1>2, <1>3, <2>1 DEF MapInv, Once
  <2>3. RoundInv'
    BY <1>1, <1>2, <1>3, <2>1 DEF RoundInv, Listed
  <2> QED
    BY <1>4, <2>2, <2>3
<1>6. CASE ~(Cardinality(removed) > before)
  <2>1. round' = "done" /\ UNCHANGED <<ahead, before>>
    BY <1>6 DEF RoundEnds
  <2>2. MapInv'
    BY <1>1, <1>3, <2>1 DEF MapInv, Once
  <2>3. unread = {} /\ before = Cardinality(removed)
    BY <1>1, <1>2, <1>6 DEF UnusedInv, Collected, RoundInv, MapInv
  <2>4. ASSUME NEW k \in declared \ removed PROVE Used(k)
    <3>1. k \in typed /\ Listed(k)
      BY <2>3 DEF MapInv
    <3>2. PICK i \in DOMAIN known : known[i] = k
      BY <3>1 DEF Listed
    <3>3. DOMAIN ahead = {}
      BY <1>1
    <3> QED
      BY <1>1, <2>3, <3>1, <3>2, <3>3 DEF RoundInv
  <2>5. RoundInv'
    BY <1>1, <1>3, <2>1, <2>4 DEF RoundInv
  <2> QED
    BY <1>4, <2>2, <2>5
<1> QED
  BY <1>5, <1>6

LEMMA RemovesKeepsMap ==
  ASSUME UnusedInv, MapInv, RoundInv, RemovedInv, RemovesUnused
  PROVE  MapInv' /\ RoundInv' /\ RemovedInv'
<1> DEFINE k == Head(ahead)
<1>1. /\ round = "going" /\ ahead # <<>> /\ ~Used(k) /\ k \in typed
      /\ removed' = removed \cup {k} /\ known' = Without(known, k) /\ ahead' = Tail(ahead)
      /\ UNCHANGED <<declared, uses, counted, children, unread, usedIn, typed, extends, round, before>>
  BY DEF RemovesUnused, usage
<1>2. k \in Keys /\ \E i \in DOMAIN known : known[i] = k
  BY <1>1, TailKeeps DEF RoundInv, Listed
<1> HIDE DEF k
<1>3. /\ known' \in Seq(Keys) /\ Once(known')
      /\ \A i \in DOMAIN known' : \E j \in DOMAIN known : known[j] = known'[i] /\ known[j] # k
      /\ \A j \in DOMAIN known : known[j] # k => \E i \in DOMAIN known' : known'[i] = known[j]
  BY <1>1, <1>2, WithoutIs DEF MapInv
<1>4. /\ Tail(ahead) \in Seq(Keys) /\ Once(Tail(ahead))
      /\ \A i \in DOMAIN ahead : ahead[i] # k =>
           \E j \in DOMAIN Tail(ahead) : Tail(ahead)[j] = ahead[i]
      /\ \A j \in DOMAIN Tail(ahead) :
           Tail(ahead)[j] # k /\ \E i \in DOMAIN ahead : ahead[i] = Tail(ahead)[j]
  BY <1>1, TailKeeps DEF k
<1>5. \A j : Listed(j) /\ j # k => Listed(j)'
  BY <1>3 DEF Listed
<1>6. MapInv'
  <2>1. \A j \in declared \ unread : j \in typed /\ (j \in removed' \/ Listed(j)')
    BY <1>1, <1>5 DEF MapInv
  <2>2. Once(known)' /\ Once(ahead)' /\ ahead' \in Seq(Keys)
    BY <1>1, <1>3, <1>4 DEF Once
  <2> QED
    BY <1>1, <1>3, <2>1, <2>2 DEF MapInv
<1>7. RoundInv'
  <2>1. \A i \in DOMAIN ahead' : \E j \in DOMAIN known' : known'[j] = ahead'[i]
    <3> TAKE i \in DOMAIN ahead'
    <3>1. PICK a \in DOMAIN ahead : ahead[a] = ahead'[i] /\ ahead'[i] # k
      BY <1>1, <1>4
    <3>2. Listed(ahead[a])
      BY <1>1 DEF RoundInv
    <3> QED
      BY <1>3, <3>1, <3>2 DEF Listed
  <2>2. /\ IsFiniteSet(removed) /\ Cardinality(removed) \in Nat
        /\ Cardinality(removed') = IF k \in removed THEN Cardinality(removed) ELSE Cardinality(removed) + 1
    BY <1>1, KeysAssumption, FS_Subset, FS_CardinalityType, FS_AddElement DEF UnusedInv, Shaped
  <2>3. before \in Nat /\ before <= Cardinality(removed)
    BY <1>1 DEF RoundInv, MapInv
  <2>4. ASSUME before = Cardinality(removed'), NEW i \in DOMAIN known'
        PROVE  \/ known'[i] \notin typed \/ known'[i] \in extends
               \/ \E s \in usedIn[known'[i]] : s # known'[i] /\ s \notin removed'
               \/ \E j \in DOMAIN ahead' : ahead'[j] = known'[i]
    <3>1. k \in removed /\ before = Cardinality(removed)
      BY <2>2, <2>3, <2>4
    <3>2. removed' = removed
      BY <1>1, <3>1
    <3>3. PICK j \in DOMAIN known : known[j] = known'[i] /\ known[j] # k
      BY <1>3
    <3>4. known[j] \notin typed \/ Used(known[j]) \/ \E a \in DOMAIN ahead : ahead[a] = known[j]
      BY <1>1, <3>1 DEF RoundInv
    <3>5. ASSUME NEW a \in DOMAIN ahead, ahead[a] = known[j]
          PROVE  \E b \in DOMAIN ahead' : ahead'[b] = known'[i]
      BY <1>1, <1>4, <3>3, <3>5
    <3> QED
      BY <3>2, <3>3, <3>4, <3>5 DEF Used
  <2> QED
    BY <1>1, <2>1, <2>2, <2>3, <2>4 DEF RoundInv, Listed, Used
<1>8. RemovedInv'
  <2> SUFFICES ASSUME NEW S \in SUBSET Keys, UsedOnlyBy(S) \subseteq S
               PROVE  removed' \subseteq S
    BY <1>1 DEF RemovedInv, UsedOnlyBy
  <2>1. removed \subseteq S
    BY DEF RemovedInv
  <2>2. k \in declared \ children
    BY <1>1 DEF UnusedInv, Shaped, Collected, Used
  <2>3. ASSUME NEW u \in counted, u.to = k PROVE u.from \in {k} \cup S
    <3>1. u.from \in usedIn[k]
      BY <1>1, <2>3 DEF UnusedInv, Collected
    <3> QED
      BY <1>1, <2>1, <3>1 DEF Used
  <2>4. k \in UsedOnlyBy(S)
    BY <2>2, <2>3 DEF UsedOnlyBy
  <2> QED
    BY <1>1, <2>1, <2>4
<1> QED
  BY <1>6, <1>7, <1>8

LEMMA RemovalAlways == UnusedSpec => []RemovalInv
<1>1. UnusedInit => RemovalInv
  BY UnusedStarts, RemovalStarts DEF RemovalInv
<1>2. ASSUME RemovalInv, [UnusedNext]_unusedVars PROVE RemovalInv'
  <2>1. UnusedInv /\ MapInv /\ RoundInv /\ RemovedInv
    BY <1>2 DEF RemovalInv
  <2>2. UnusedInv'
    BY <1>2, <2>1, RefersKeeps, IgnoresKeeps, RegistersKeeps, RemovesKeeps, OtherRoundsKeep
    DEF UnusedNext
  <2>3. CASE UNCHANGED unusedVars
    <3>1. UNCHANGED <<declared, uses, counted, children, unread, known, usedIn, typed, extends, removed, round, ahead, before>>
      BY <2>3 DEF unusedVars, usage, info
    <3>2. \A k : (Used(k)' <=> Used(k)) /\ (Listed(k)' <=> Listed(k))
      BY <3>1 DEF Used, Listed
    <3>3. MapInv' /\ RoundInv'
      BY <2>1, <3>1, <3>2 DEF MapInv, RoundInv, Once
    <3>4. RemovedInv'
      BY <2>1, <3>1 DEF RemovedInv, UsedOnlyBy
    <3> QED
      BY <2>2, <3>3, <3>4 DEF RemovalInv
  <2>4. CASE UnusedNext
    <3>1. MapInv' /\ RoundInv' /\ RemovedInv'
      BY <2>1, <2>4, RefersKeepsMap, IgnoresKeepsMap, RegistersKeepsMap, RoundsBeginKeepMap,
         KeepsKeepsMap, RemovesKeepsMap, RoundEndsKeepsMap DEF UnusedNext
    <3> QED
      BY <2>2, <3>1 DEF RemovalInv
  <2> QED
    BY <1>2, <2>3, <2>4
<1> QED
  BY <1>1, <1>2, PTL DEF UnusedSpec

\* Whatever the order of the walk: what is removed is unused, and when the rounds
\* are over nothing unused is left; no $ref that counts is without its target, and
\* no schema that a discriminator may name is removed.
THEOREM RemovalSound == UnusedSpec => []RemovalIsSound
<1>1. ASSUME RemovalInv PROVE RemovalIsSound
  <2>1. UnusedInv /\ MapInv /\ RoundInv /\ RemovedInv
    BY <1>1 DEF RemovalInv
  <2>2. UnusedTypeOK
    BY <2>1 DEF UnusedInv, Shaped, MapInv, UnusedTypeOK
  <2>3. removed \subseteq Unused
    BY <2>1, UnusedIsClosed DEF RemovedInv
  <2>4. ASSUME round = "done" PROVE Unused \subseteq removed
    <3>1. ASSUME NEW k \in declared \ removed
          PROVE  k \in children \/ \E u \in counted : u.to = k /\ u.from # k /\ u.from \notin removed
      <4>1. Used(k) /\ k \in Keys /\ extends \subseteq children
        BY <2>1, <2>4 DEF RoundInv, UnusedInv, Shaped, MapInv
      <4> QED
        BY <2>1, <4>1 DEF Used, MapInv
    <3> QED
      BY <2>1, <3>1, UnusedIsLeast
  <2> QED
    BY <2>1, <2>2, <2>3, <2>4 DEF UnusedInv, RemovalIsSound, OrderDoesNotMatter
<1> QED
  BY <1>1, RemovalAlways, PTL

------------------------------------------------------------------------------
(* Plugins: the invariant. *)

\* The numbers of the texts of a file.
TextsOf(p) == 1 .. Len(library[p])

\* A text from before the cache was cleared is that of an uncached CommonJS file.
Recent(p, t) == t >= cleared[p] \/ p \in CommonJs \cap uncached

\* What node and the plugin cache hold.
NodeInv ==
  /\ library \in Libraries /\ named \in [Configs -> PluginLists] /\ cacheVersion \in Versions
  /\ edits \in [Paths -> Nat] /\ cleared \in [Paths -> Nat]
  /\ imported \in [Paths \X Versions -> Nat \cup {Missing}]
  /\ required \in [Paths -> Nat \cup {Missing}]
  /\ \A p \in Paths :
       /\ edits[p] \in TextsOf(p) /\ cleared[p] <= edits[p]
       /\ required[p] # Missing => required[p] \in TextsOf(p) /\ p \in CommonJs /\ Recent(p, required[p])
       /\ \A v \in Versions : imported[<<p, v>>] # Missing =>
            /\ imported[<<p, v>>] \in TextsOf(p) /\ v <= cacheVersion
            /\ v = cacheVersion => Recent(p, imported[<<p, v>>])

\* A module that was imported for p.
Imported(m, p) ==
  /\ m \in Modules /\ m.path = p /\ m.version <= cacheVersion
  /\ imported[<<p, m.version>>] = m.text /\ m.text \in TextsOf(p)

CacheInv ==
  /\ pluginsCache \in [Paths -> Modules \cup {Missing}]
  /\ \A p \in Paths : pluginsCache[p] # Missing =>
       Imported(pluginsCache[p], p) /\ ~TextOf(pluginsCache[p]).fails

TaskStages == {"importing", "creating", "held", "done", "failed"}

\* The task of the i-th plugin of a configuration.
TaskInv(c, i) ==
  LET stage == tasks[c][i].stage
      m     == tasks[c][i].module
  IN /\ tasks[c][i] \in [stage : TaskStages, module : Modules \cup {Missing}]
     /\ m = Missing => stage = "done" /\ \E j \in 1 .. i - 1 : named[c][j] = named[c][i]
     /\ m # Missing => m.path = PathOf(c, i) /\ m.version <= cacheVersion
     /\ m # Missing /\ stage # "importing" => Imported(m, PathOf(c, i))
     /\ m # Missing /\ stage \in {"held", "done"} => ~TextOf(m).fails
     /\ m # Missing /\ stage = "done" =>
          \A x \in TextOf(m).ids : seenPluginIds[c][x] = m.path
     /\ stage = "failed" => resolving[c] = "rejected"

\* Where an id was seen, and what it became.
IdInv(c, x) ==
  seenPluginIds[c][x] # Missing =>
    /\ \E i \in DOMAIN tasks[c] :
         /\ tasks[c][i].stage \in {"done", "failed"} /\ tasks[c][i].module # Missing
         /\ tasks[c][i].module.path = seenPluginIds[c][x] /\ x \in TextOf(tasks[c][i].module).ids
    /\ resolving[c] # "rejected" => \E y \in instances[c] : y.id = x

LoadInv(c) ==
  /\ DOMAIN tasks[c] = IF resolving[c] = "none" THEN {} ELSE DOMAIN named[c]
  /\ \A i \in DOMAIN tasks[c] : TaskInv(c, i)
  /\ \A x \in PluginIds : IdInv(c, x)
  /\ \A y \in instances[c] : y.id \in PluginIds /\ seenPluginIds[c][y.id] # Missing
  /\ \A y, z \in instances[c] : y.id = z.id => y = z
  /\ resolving[c] = "fulfilled" => \A i \in DOMAIN tasks[c] : tasks[c][i].stage = "done"
  /\ resolving[c] = "rejected" => InConflict(c) \/ \E m \in Given(c) : TextOf(m).fails

\* tasks, and what else is kept of each configuration.
LoadType ==
  /\ resolving \in [Configs -> {"none", "pending", "fulfilled", "rejected"}]
  /\ DOMAIN tasks = Configs
  /\ seenPluginIds \in [Configs -> [PluginIds -> Paths \cup {Missing}]]
  /\ DOMAIN instances = Configs

PluginInv == NodeInv /\ CacheInv /\ LoadType /\ \A c \in Configs : LoadInv(c)

LEMMA PluginTypes ==
  /\ Missing \notin Modules /\ Missing \notin Nat /\ Missing \notin Paths
  /\ \A lib \in Libraries, p \in Paths : lib[p] \in Seq(Texts) /\ Len(lib[p]) \in Nat \ {0}
  /\ \A list \in PluginLists :
       /\ DOMAIN list = 1 .. Len(list) /\ Len(list) \in Nat
       /\ \A i \in DOMAIN list : list[i].path \in Paths
<1>1. \A lib \in Libraries, p \in Paths : lib[p] \in Seq(Texts) /\ Len(lib[p]) \in Nat \ {0}
  <2> TAKE lib \in Libraries, p \in Paths
  <2>1. lib[p] \in Seq(Texts) /\ lib[p] # <<>>
    BY PluginAssumption
  <2> QED
    BY <2>1, EmptySeq, LenProperties
<1>2. \A list \in PluginLists :
       /\ DOMAIN list = 1 .. Len(list) /\ Len(list) \in Nat
       /\ \A i \in DOMAIN list : list[i].path \in Paths
  <2> TAKE list \in PluginLists
  <2>1. list \in Seq([path : Paths, absolute : BOOLEAN])
    BY PluginAssumption
  <2>2. DOMAIN list = 1 .. Len(list) /\ Len(list) \in Nat
    BY <2>1, LenProperties
  <2>3. \A i \in DOMAIN list : list[i] \in [path : Paths, absolute : BOOLEAN]
    BY <2>1, <2>2, ElementOfSeq
  <2> QED
    BY <2>2, <2>3
<1> QED
  BY <1>1, <1>2, PluginAssumption

\* What a text has.
LEMMA TextTypes ==
  ASSUME library \in Libraries, NEW m \in Modules, m.text \in TextsOf(m.path)
  PROVE  TextOf(m).ids \subseteq PluginIds
<1>1. m.path \in Paths
  BY DEF Modules
<1>2. library[m.path] \in Seq(Texts)
  BY <1>1, PluginTypes
<1>3. library[m.path][m.text] \in Texts
  BY <1>2, ElementOfSeq DEF TextsOf
<1> QED
  BY <1>3 DEF TextOf, Texts

LEMMA PluginStarts == PluginInit => PluginInv
<1> SUFFICES ASSUME PluginInit PROVE PluginInv
  OBVIOUS
<1>1. /\ library \in Libraries /\ named \in [Configs -> PluginLists]
      /\ edits = [p \in Paths |-> 1] /\ cleared = edits /\ cacheVersion = 0
      /\ pluginsCache = [p \in Paths |-> Missing]
      /\ imported = [x \in Paths \X Versions |-> Missing] /\ required = [p \in Paths |-> Missing]
      /\ resolving = [c \in Configs |-> "none"] /\ tasks = [c \in Configs |-> <<>>]
      /\ seenPluginIds = [c \in Configs |-> [i \in PluginIds |-> Missing]]
      /\ instances = [c \in Configs |-> {}]
  BY DEF PluginInit, PluginStart
<1>2. NodeInv
  <2>1. \A p \in Paths : 1 \in TextsOf(p)
    BY <1>1, PluginTypes DEF TextsOf
  <2>2. \A p \in Paths, v \in Versions : imported[<<p, v>>] = Missing
    BY <1>1
  <2>3. 0 \in Versions
    BY PluginAssumption DEF Versions
  <2> QED
    BY <1>1, <2>1, <2>2, <2>3 DEF NodeInv
<1>3. CacheInv /\ LoadType
  BY <1>1 DEF CacheInv, LoadType
<1>4. ASSUME NEW c \in Configs PROVE LoadInv(c)
  BY <1>1 DEF LoadInv, IdInv
<1> QED
  BY <1>2, <1>3, <1>4 DEF PluginInv

\* What only grows: a module that was imported stays what it is.
Grows ==
  /\ library' = library /\ named' = named
  /\ cacheVersion \in Nat /\ cacheVersion' \in Nat /\ cacheVersion <= cacheVersion'
  /\ \A p \in Paths, v \in Versions : imported[<<p, v>>] # Missing => imported'[<<p, v>>] = imported[<<p, v>>]

LEMMA ImportedStays ==
  ASSUME Grows, NEW p, NEW m, Imported(m, p)
  PROVE  Imported(m, p)' /\ TextOf(m)' = TextOf(m)
<1>1. m \in Modules /\ m.path \in Paths /\ m.version \in Versions /\ m.version \in Nat /\ m.text \in Nat
  BY PluginAssumption DEF Imported, Modules, Versions
<1>2. imported[<<p, m.version>>] # Missing
  BY <1>1, PluginTypes DEF Imported
<1>3. imported'[<<p, m.version>>] = imported[<<p, m.version>>]
  BY <1>1, <1>2 DEF Grows, Imported
<1>4. m.version <= cacheVersion'
  BY <1>1 DEF Grows, Imported
<1> QED
  BY <1>1, <1>3, <1>4 DEF Grows, Imported, TextOf, TextsOf

\* The parts of LoadInv for a configuration that nothing happens to.
LEMMA LoadStays ==
  ASSUME Grows, NEW c \in Configs, LoadInv(c),
         tasks'[c] = tasks[c], resolving'[c] = resolving[c],
         seenPluginIds'[c] = seenPluginIds[c], instances'[c] = instances[c]
  PROVE  LoadInv(c)'
<1>1. \A m : TextOf(m)' = TextOf(m)
  BY DEF TextOf, Grows
<1>2. Given(c)' = Given(c) /\ (InConflict(c)' <=> InConflict(c))
  BY <1>1 DEF Given, InConflict
<1>3. \A i : PathOf(c, i)' = PathOf(c, i)
  BY DEF PathOf, Grows
<1>4. ASSUME NEW i \in DOMAIN tasks[c] PROVE TaskInv(c, i)'
  <2> DEFINE m == tasks[c][i].module
  <2>1. TaskInv(c, i)
    BY DEF LoadInv
  <2>2. m # Missing /\ tasks[c][i].stage # "importing" => Imported(m, PathOf(c, i))'
    BY <1>3, <2>1, ImportedStays DEF TaskInv
  <2>3. m # Missing => m.version <= cacheVersion'
    <3>1. m # Missing => m.version \in Nat
      BY <2>1, PluginAssumption DEF TaskInv, Modules, Versions
    <3> QED
      BY <2>1, <3>1 DEF TaskInv, Grows
  <2> QED
    BY <1>1, <1>3, <2>1, <2>2, <2>3 DEF TaskInv, Grows
<1>5. \A x \in PluginIds : IdInv(c, x)'
  BY <1>1 DEF LoadInv, IdInv
<1> QED
  BY <1>1, <1>2, <1>4, <1>5 DEF LoadInv, Grows

\* A task of c goes on: its siblings and the other configurations are not disturbed.
LEMMA OthersStay ==
  ASSUME PluginInv, Grows, LoadType', NEW c \in Configs,
         \A d \in Configs : d # c => /\ tasks'[d] = tasks[d] /\ resolving'[d] = resolving[d]
                                     /\ seenPluginIds'[d] = seenPluginIds[d] /\ instances'[d] = instances[d]
  PROVE  \A d \in Configs : d # c => LoadInv(d)'
<1> TAKE d \in Configs
<1> HAVE d # c
<1>1. LoadInv(d)
  BY DEF PluginInv
<1> QED
  BY <1>1, LoadStays

LEMMA NodeStays ==
  ASSUME NodeInv,
         UNCHANGED <<library, named, edits, cacheVersion, imported, required, cleared, uncached>>
  PROVE  NodeInv' /\ Grows
<1>1. cacheVersion \in Nat
  BY PluginAssumption DEF NodeInv, Versions
<1> QED
  BY <1>1 DEF NodeInv, Recent, TextsOf, Grows

LEMMA CacheStays ==
  ASSUME CacheInv, Grows, pluginsCache' = pluginsCache
  PROVE  CacheInv'
<1>1. ASSUME NEW p \in Paths, pluginsCache[p] # Missing
      PROVE  Imported(pluginsCache[p], p)' /\ ~TextOf(pluginsCache[p])'.fails
  <2> DEFINE m == pluginsCache[p]
  <2>1. Imported(m, p) /\ ~TextOf(m).fails
    BY <1>1 DEF CacheInv
  <2> HIDE DEF m
  <2>2. Imported(m, p)' /\ TextOf(m)' = TextOf(m)
    BY <2>1, ImportedStays DEF m
  <2> QED
    BY <2>1, <2>2 DEF m
<1> QED
  BY <1>1 DEF CacheInv, TextOf

\* The first step of the tasks of a configuration.
LEMMA ResolvesKeeps == ASSUME PluginInv, NEW c \in Configs, Resolves(c) PROVE PluginInv'
<1>1. /\ resolving[c] = "none" /\ resolving' = [resolving EXCEPT ![c] = "pending"]
      /\ tasks' = [tasks EXCEPT ![c] = [i \in DOMAIN named[c] |-> Asked(c, i)]]
      /\ UNCHANGED <<library, named, edits, cacheVersion, pluginsCache, imported, required,
                     seenPluginIds, instances, cleared, uncached>>
  BY DEF Resolves, onceVars, nodeVars
<1>2. NodeInv' /\ Grows
  BY <1>1, NodeStays DEF PluginInv
<1>3. CacheInv'
  BY <1>1, <1>2, CacheStays DEF PluginInv
<1>4. LoadType'
  BY <1>1 DEF PluginInv, LoadType
<1>5. \A d \in Configs : d # c => LoadInv(d)'
  BY <1>1, <1>2, <1>4, OthersStay DEF PluginInv, LoadType
<1>6. LoadInv(c)'
  <2>1. /\ tasks'[c] = [i \in DOMAIN named[c] |-> Asked(c, i)] /\ resolving'[c] = "pending"
        /\ DOMAIN tasks[c] = {}
    BY <1>1 DEF PluginInv, LoadType, LoadInv
  <2>2. \A x \in PluginIds : seenPluginIds[c][x] = Missing
    BY <2>1 DEF PluginInv, LoadInv, IdInv
  <2>3. instances[c] = {}
    BY <2>2 DEF PluginInv, LoadInv
  <2>4. ASSUME NEW i \in DOMAIN named[c] PROVE TaskInv(c, i)' /\ tasks'[c][i].stage # "failed"
    <3>1. tasks'[c][i] = Asked(c, i)
      BY <2>1
    <3>2. PathOf(c, i) \in Paths /\ PathOf(c, i)' = PathOf(c, i)
      BY <1>1, PluginTypes DEF PathOf, PluginInv, NodeInv
    <3>3. CASE \E j \in 1 .. (i - 1) : named[c][j] = named[c][i]
      BY <1>1, <3>1, <3>3 DEF Asked, Task, TaskInv, TaskStages
    <3>4. CASE /\ ~\E j \in 1 .. (i - 1) : named[c][j] = named[c][i]
               /\ pluginsCache[PathOf(c, i)] # Missing
      <4>1. PICK p, m : p = PathOf(c, i) /\ m = pluginsCache[p]
        OBVIOUS
      <4>2. tasks'[c][i] = [stage |-> "held", module |-> m]
        BY <3>1, <3>4, <4>1 DEF Asked, Task
      <4>3. Imported(m, p) /\ ~TextOf(m).fails /\ m # Missing
        BY <3>2, <3>4, <4>1 DEF PluginInv, CacheInv
      <4>4. Imported(m, p)' /\ ~TextOf(m)'.fails
        BY <1>2, <4>3, ImportedStays
      <4>5. m \in Modules /\ m.path = p /\ m.version <= cacheVersion' /\ p = PathOf(c, i)'
        BY <1>1, <3>2, <4>1, <4>3 DEF Imported
      <4> QED
        BY <4>2, <4>3, <4>4, <4>5 DEF TaskInv, TaskStages, TextOf
    <3>5. CASE /\ ~\E j \in 1 .. (i - 1) : named[c][j] = named[c][i]
               /\ pluginsCache[PathOf(c, i)] = Missing
      <4>1. tasks'[c][i] = [stage |-> "importing",
                            module |-> [path |-> PathOf(c, i), text |-> 0, version |-> cacheVersion]]
        BY <3>1, <3>5 DEF Asked, Task
      <4>2. [path |-> PathOf(c, i), text |-> 0, version |-> cacheVersion] \in Modules
        BY <3>2 DEF Modules, PluginInv, NodeInv
      <4>3. cacheVersion \in Nat
        BY PluginAssumption DEF PluginInv, NodeInv, Versions
      <4> QED
        BY <1>1, <3>2, <4>1, <4>2, <4>3, PluginTypes DEF TaskInv, TaskStages
    <3> QED
      BY <3>3, <3>4, <3>5
  <2> QED
    BY <1>1, <2>1, <2>2, <2>3, <2>4 DEF LoadInv, IdInv
<1> QED
  BY <1>2, <1>3, <1>4, <1>5, <1>6 DEF PluginInv

------------------------------------------------------------------------------
(* One task of a configuration goes on. *)

GivenStages == {"held", "done", "failed"}
Cause(c) == InConflict(c) \/ \E m \in Given(c) : TextOf(m).fails

\* What the other tasks of the configuration are, and that what it was given it keeps.
LEMMA TaskMoves ==
  ASSUME PluginInv, Grows, NEW c \in Configs, NEW i \in DOMAIN tasks[c], NEW task,
         tasks' = Moved(c, i, task),
         tasks[c][i].stage \in GivenStages =>
           task.stage \in GivenStages /\ task.module = tasks[c][i].module
  PROVE  /\ DOMAIN tasks' = Configs /\ DOMAIN tasks'[c] = DOMAIN tasks[c]
         /\ tasks'[c][i] = task
         /\ \A j \in DOMAIN tasks[c] : j # i => tasks'[c][j] = tasks[c][j]
         /\ \A d \in Configs : d # c => tasks'[d] = tasks[d]
         /\ Cause(c) => Cause(c)'
<1>1. /\ DOMAIN tasks' = Configs /\ DOMAIN tasks'[c] = DOMAIN tasks[c]
      /\ tasks'[c][i] = task
      /\ \A j \in DOMAIN tasks[c] : j # i => tasks'[c][j] = tasks[c][j]
      /\ \A d \in Configs : d # c => tasks'[d] = tasks[d]
  BY DEF PluginInv, LoadType, Moved
<1>2. Given(c) \subseteq Given(c)'
  <2> SUFFICES ASSUME NEW j \in DOMAIN tasks[c], tasks[c][j].stage \in GivenStages,
                      tasks[c][j].module # Missing
               PROVE  tasks[c][j].module \in Given(c)'
    BY DEF Given, GivenStages
  <2>1. tasks'[c][j].stage \in GivenStages /\ tasks'[c][j].module = tasks[c][j].module
    BY <1>1
  <2> QED
    BY <1>1, <2>1 DEF Given, GivenStages
<1>3. \A m : TextOf(m)' = TextOf(m)
  BY DEF TextOf, Grows
<1>4. InConflict(c) => InConflict(c)'
  BY <1>2, <1>3 DEF InConflict
<1> QED
  BY <1>1, <1>2, <1>3, <1>4 DEF Cause

\* A task that does not move stays what it is: an id that was seen is not forgotten.
LEMMA SiblingStays ==
  ASSUME Grows, library \in Libraries, NEW c \in Configs, NEW j \in DOMAIN tasks[c], TaskInv(c, j),
         tasks'[c][j] = tasks[c][j],
         \A x \in PluginIds : seenPluginIds[c][x] # Missing => seenPluginIds'[c][x] = seenPluginIds[c][x],
         resolving[c] = "rejected" => resolving'[c] = "rejected"
  PROVE  TaskInv(c, j)'
<1>1. PICK t, m : t = tasks[c][j] /\ m = t.module
  OBVIOUS
<1>2. PathOf(c, j)' = PathOf(c, j)
  BY DEF PathOf, Grows
<1>3. \A n : TextOf(n)' = TextOf(n)
  BY DEF TextOf, Grows
<1>4. m # Missing => m.version <= cacheVersion'
  <2>1. m # Missing => m.version \in Nat
    BY <1>1, PluginAssumption DEF TaskInv, Modules, Versions
  <2> QED
    BY <1>1, <2>1 DEF TaskInv, Grows
<1>5. m # Missing /\ t.stage # "importing" => Imported(m, PathOf(c, j))'
  BY <1>1, <1>2, ImportedStays DEF TaskInv
<1>6. ASSUME m # Missing, t.stage = "done", NEW x \in TextOf(m).ids
      PROVE  seenPluginIds'[c][x] = m.path
  <2>1. Imported(m, PathOf(c, j)) /\ seenPluginIds[c][x] = m.path
    BY <1>1, <1>6 DEF TaskInv
  <2>2. m \in Modules /\ m.path \in Paths /\ m.text \in TextsOf(m.path)
    BY <2>1 DEF Imported, Modules
  <2>3. x \in PluginIds
    BY <1>6, <2>2, TextTypes
  <2> QED
    BY <2>1, <2>2, <2>3, PluginTypes
<1> QED
  BY <1>1, <1>2, <1>3, <1>4, <1>5, <1>6 DEF TaskInv, Grows

\* The module arrives.
LEMMA ImportsKeeps ==
  ASSUME PluginInv, NEW c \in Configs, NEW i \in DOMAIN tasks[c], Imports(c, i)
  PROVE  PluginInv'
<1>1. PICK m, p, v, t :
        /\ m = tasks[c][i].module /\ p = m.path /\ v = m.version
        /\ t = IF imported[<<p, v>>] # Missing THEN imported[<<p, v>>]
               ELSE IF required[p] # Missing THEN required[p] ELSE edits[p]
        /\ imported' = [imported EXCEPT ![<<p, v>>] = t]
        /\ required' = IF p \in CommonJs /\ imported[<<p, v>>] = Missing
                       THEN [required EXCEPT ![p] = t] ELSE required
        /\ tasks' = Moved(c, i, [stage |-> "creating", module |-> [m EXCEPT !.text = t]])
  BY DEF Imports, Task
<1>2. /\ tasks[c][i].stage = "importing"
      /\ UNCHANGED <<library, named, edits, cacheVersion, pluginsCache, resolving, seenPluginIds,
                     instances, cleared, uncached>>
  BY DEF Imports, onceVars
<1>3. /\ m \in Modules /\ m # Missing /\ p \in Paths /\ v \in Versions /\ p = PathOf(c, i)
      /\ v <= cacheVersion /\ v \in Nat /\ cacheVersion \in Nat
  <2>1. TaskInv(c, i)
    BY DEF PluginInv, LoadInv
  <2>2. m \in Modules /\ m # Missing /\ m.path = PathOf(c, i) /\ m.version <= cacheVersion
    BY <1>1, <1>2, <2>1 DEF TaskInv
  <2>3. cacheVersion \in Nat /\ Versions \subseteq Nat
    BY PluginAssumption DEF PluginInv, NodeInv, Versions
  <2> QED
    BY <1>1, <2>2, <2>3 DEF Modules
<1>4. t \in TextsOf(p) /\ t \in Nat /\ (v = cacheVersion => Recent(p, t))
      /\ (imported[<<p, v>>] = Missing => Recent(p, t))
  <2>1. TextsOf(p) \subseteq Nat /\ Recent(p, edits[p]) /\ edits[p] \in TextsOf(p)
    BY <1>3 DEF PluginInv, NodeInv, TextsOf, Recent
  <2> QED
    BY <1>1, <1>3, <2>1 DEF PluginInv, NodeInv
<1>5. \A q \in Paths, w \in Versions :
        imported'[<<q, w>>] = IF q = p /\ w = v THEN t ELSE imported[<<q, w>>]
  BY <1>1, <1>3 DEF PluginInv, NodeInv
<1>6. Grows
  BY <1>1, <1>2, <1>3, <1>5 DEF Grows
<1>7. NodeInv'
  <2>1. imported' \in [Paths \X Versions -> Nat \cup {Missing}] /\ required' \in [Paths -> Nat \cup {Missing}]
    BY <1>1, <1>3, <1>4 DEF PluginInv, NodeInv
  <2>2. \A q \in Paths : TextsOf(q)' = TextsOf(q) /\ \A n : Recent(q, n)' <=> Recent(q, n)
    BY <1>2 DEF TextsOf, Recent
  <2>3. ASSUME NEW q \in Paths, required'[q] # Missing
        PROVE  required'[q] \in TextsOf(q) /\ q \in CommonJs /\ Recent(q, required'[q])
    BY <1>1, <1>3, <1>4, <2>3 DEF PluginInv, NodeInv
  <2>4. ASSUME NEW q \in Paths, NEW w \in Versions, imported'[<<q, w>>] # Missing
        PROVE  /\ imported'[<<q, w>>] \in TextsOf(q) /\ w <= cacheVersion
               /\ w = cacheVersion => Recent(q, imported'[<<q, w>>])
    BY <1>3, <1>4, <1>5, <2>4 DEF PluginInv, NodeInv
  <2> QED
    BY <1>2, <2>1, <2>2, <2>3, <2>4 DEF PluginInv, NodeInv
<1>8. CacheInv'
  BY <1>2, <1>6, CacheStays DEF PluginInv
<1>9. /\ DOMAIN tasks' = Configs /\ DOMAIN tasks'[c] = DOMAIN tasks[c]
      /\ tasks'[c][i] = [stage |-> "creating", module |-> [m EXCEPT !.text = t]]
      /\ \A j \in DOMAIN tasks[c] : j # i => tasks'[c][j] = tasks[c][j]
      /\ \A d \in Configs : d # c => tasks'[d] = tasks[d]
      /\ Cause(c) => Cause(c)'
  <2> DEFINE new == [stage |-> "creating", module |-> [m EXCEPT !.text = t]]
  <2>1. tasks' = Moved(c, i, new) /\ tasks[c][i].stage \notin GivenStages
    BY <1>1, <1>2 DEF GivenStages
  <2> HIDE DEF new
  <2>2. /\ DOMAIN tasks' = Configs /\ DOMAIN tasks'[c] = DOMAIN tasks[c]
        /\ tasks'[c][i] = new
        /\ \A j \in DOMAIN tasks[c] : j # i => tasks'[c][j] = tasks[c][j]
        /\ \A d \in Configs : d # c => tasks'[d] = tasks[d]
        /\ Cause(c) => Cause(c)'
    BY <1>6, <2>1, TaskMoves
  <2> QED
    BY <2>2 DEF new
<1>10. LoadType'
  BY <1>2, <1>9 DEF PluginInv, LoadType
<1>11. \A d \in Configs : d # c => LoadInv(d)'
  BY <1>2, <1>6, <1>9, <1>10, OthersStay DEF PluginInv
<1>12. TaskInv(c, i)'
  <2>1. PICK n : n = [m EXCEPT !.text = t]
    OBVIOUS
  <2>2. n \in Modules /\ n.path = p /\ n.version = v /\ n.text = t /\ n # Missing
    BY <1>1, <1>3, <1>4, <2>1, PluginTypes DEF Modules
  <2>3. Imported(n, p)'
    BY <1>2, <1>3, <1>4, <1>5, <2>2 DEF Imported, TextsOf
  <2>4. PathOf(c, i)' = p
    BY <1>2, <1>3 DEF PathOf
  <2>5. tasks'[c][i] = [stage |-> "creating", module |-> n]
    BY <1>9, <2>1
  <2> QED
    BY <1>2, <1>3, <2>2, <2>3, <2>4, <2>5 DEF TaskInv, TaskStages
<1>13. \A j \in DOMAIN tasks[c] : TaskInv(c, j)'
  BY <1>2, <1>6, <1>9, <1>12, SiblingStays DEF PluginInv, NodeInv, LoadInv
<1>14. \A x \in PluginIds : IdInv(c, x)'
  BY <1>2, <1>9 DEF PluginInv, LoadInv, IdInv, TextOf
<1>15. LoadInv(c)'
  BY <1>2, <1>9, <1>13, <1>14 DEF PluginInv, LoadInv, Cause
<1> QED
  BY <1>7, <1>8, <1>10, <1>11, <1>15 DEF PluginInv

\* What is known of a module that a task has.
LEMMA TaskHas ==
  ASSUME PluginInv, NEW c \in Configs, NEW i \in DOMAIN tasks[c],
         tasks[c][i].stage \in {"creating", "held"}
  PROVE  LET m == tasks[c][i].module
         IN /\ m # Missing /\ m \in Modules /\ m.path = PathOf(c, i) /\ m.path \in Paths
            /\ m.version <= cacheVersion /\ Imported(m, m.path) /\ TextOf(m).ids \subseteq PluginIds
            /\ tasks[c][i].stage = "held" => ~TextOf(m).fails
            /\ resolving[c] \in {"pending", "rejected"}
<1>1. PICK m : m = tasks[c][i].module
  OBVIOUS
<1>2. TaskInv(c, i)
  BY DEF PluginInv, LoadInv
<1>3. /\ m # Missing /\ m \in Modules /\ m.path = PathOf(c, i) /\ m.version <= cacheVersion
      /\ Imported(m, m.path) /\ (tasks[c][i].stage = "held" => ~TextOf(m).fails)
  BY <1>1, <1>2 DEF TaskInv
<1>4. m.path \in Paths
  BY <1>3 DEF Modules
<1>5. TextOf(m).ids \subseteq PluginIds
  BY <1>3, TextTypes DEF Imported, PluginInv, NodeInv
<1>6. resolving[c] \in {"pending", "rejected"}
  BY DEF PluginInv, LoadInv, LoadType
<1> QED
  BY <1>1, <1>3, <1>4, <1>5, <1>6

\* The plugins of a module are made, or cannot be.
LEMMA CreatesKeeps ==
  ASSUME PluginInv, NEW c \in Configs, NEW i \in DOMAIN tasks[c], Creates(c, i)
  PROVE  PluginInv'
<1>1. PICK m, p : m = tasks[c][i].module /\ p = m.path
  OBVIOUS
<1>2. /\ tasks[c][i].stage = "creating"
      /\ UNCHANGED <<library, named, edits, cacheVersion, imported, required, seenPluginIds,
                     instances, cleared, uncached>>
      /\ IF TextOf(m).fails
         THEN /\ tasks' = Moved(c, i, [stage |-> "failed", module |-> m])
              /\ resolving' = Rejected(c) /\ pluginsCache' = pluginsCache
         ELSE /\ pluginsCache' = [pluginsCache EXCEPT ![p] = m]
              /\ tasks' = Moved(c, i, [stage |-> "held", module |-> m]) /\ resolving' = resolving
  BY <1>1 DEF Creates, Task, onceVars, nodeVars
<1>3. /\ m # Missing /\ m \in Modules /\ p = PathOf(c, i) /\ p \in Paths
      /\ m.version <= cacheVersion /\ Imported(m, p) /\ resolving[c] \in {"pending", "rejected"}
  BY <1>1, <1>2, TaskHas
<1>4. NodeInv' /\ Grows
  BY <1>2, NodeStays DEF PluginInv
<1>5. Imported(m, p)' /\ TextOf(m)' = TextOf(m) /\ PathOf(c, i)' = p
  BY <1>2, <1>3, <1>4, ImportedStays DEF PathOf
<1>6. CacheInv'
  <2>1. CASE TextOf(m).fails
    BY <1>2, <1>4, <2>1, CacheStays DEF PluginInv
  <2>2. CASE ~TextOf(m).fails
    <3>1. ASSUME NEW q \in Paths, q # p, pluginsCache'[q] # Missing
          PROVE  Imported(pluginsCache[q], q)' /\ ~TextOf(pluginsCache[q])'.fails
      <4>1. PICK n : n = pluginsCache[q]
        OBVIOUS
      <4>2. pluginsCache'[q] = n
        BY <1>2, <2>2, <3>1, <4>1 DEF PluginInv, CacheInv
      <4>3. Imported(n, q)' /\ TextOf(n)' = TextOf(n) /\ ~TextOf(n).fails
        BY <1>4, <3>1, <4>1, <4>2, ImportedStays DEF PluginInv, CacheInv
      <4> QED
        BY <4>2, <4>3 DEF Imported, TextOf
    <3>2. pluginsCache'[p] = m /\ pluginsCache' \in [Paths -> Modules \cup {Missing}]
      BY <1>2, <1>3, <2>2 DEF PluginInv, CacheInv
    <3> QED
      BY <1>5, <2>2, <3>1, <3>2 DEF CacheInv, Imported, TextOf, TextsOf
  <2> QED
    BY <2>1, <2>2
<1>7. PICK to \in {"failed", "held"} :
        /\ tasks' = Moved(c, i, [stage |-> to, module |-> m])
        /\ (to = "failed") <=> TextOf(m).fails
  BY <1>2
<1>8. /\ DOMAIN tasks' = Configs /\ DOMAIN tasks'[c] = DOMAIN tasks[c]
      /\ tasks'[c][i] = [stage |-> to, module |-> m]
      /\ \A j \in DOMAIN tasks[c] : j # i => tasks'[c][j] = tasks[c][j]
      /\ \A d \in Configs : d # c => tasks'[d] = tasks[d]
      /\ Cause(c) => Cause(c)'
  <2>1. tasks[c][i].stage \notin GivenStages
    BY <1>2 DEF GivenStages
  <2>2. PICK new : new = [stage |-> to, module |-> m]
    OBVIOUS
  <2>3. tasks' = Moved(c, i, new)
    BY <1>7, <2>2
  <2> QED
    BY <1>4, <2>1, <2>2, <2>3, TaskMoves
<1>9. /\ resolving' \in [Configs -> {"none", "pending", "fulfilled", "rejected"}]
      /\ \A d \in Configs : d # c => resolving'[d] = resolving[d]
      /\ resolving'[c] \in {"pending", "rejected"}
      /\ resolving'[c] = "rejected" <=> (resolving[c] = "rejected" \/ to = "failed")
  BY <1>2, <1>3, <1>7 DEF Rejected, PluginInv, LoadType
<1>10. LoadType'
  BY <1>2, <1>8, <1>9 DEF PluginInv, LoadType
<1>11. \A d \in Configs : d # c => LoadInv(d)'
  BY <1>2, <1>4, <1>8, <1>9, <1>10, OthersStay
<1>12. TaskInv(c, i)'
  BY <1>3, <1>5, <1>7, <1>8, <1>9 DEF TaskInv, TaskStages, Imported
<1>13. \A j \in DOMAIN tasks[c] : TaskInv(c, j)'
  BY <1>2, <1>4, <1>8, <1>9, <1>12, SiblingStays DEF PluginInv, NodeInv, LoadInv
<1>14. ASSUME NEW x \in PluginIds, seenPluginIds'[c][x] # Missing PROVE IdInv(c, x)'
  <2>1. IdInv(c, x) /\ seenPluginIds[c][x] # Missing
    BY <1>2, <1>14 DEF PluginInv, LoadInv
  <2>2. PICK j \in DOMAIN tasks[c] :
          /\ tasks[c][j].stage \in {"done", "failed"} /\ tasks[c][j].module # Missing
          /\ tasks[c][j].module.path = seenPluginIds[c][x] /\ x \in TextOf(tasks[c][j].module).ids
    BY <2>1 DEF IdInv
  <2>3. j # i /\ tasks'[c][j] = tasks[c][j]
    BY <1>2, <1>8, <2>2
  <2> QED
    BY <1>2, <1>8, <1>9, <2>1, <2>2, <2>3 DEF IdInv, TextOf
<1>15. resolving'[c] = "rejected" => Cause(c)'
  <2>1. CASE to = "failed"
    <3>1. m \in Given(c)' /\ TextOf(m)'.fails
      BY <1>3, <1>5, <1>7, <1>8, <2>1 DEF Given
    <3> QED
      BY <3>1 DEF Cause, TextOf
  <2>2. CASE to # "failed"
    BY <1>8, <1>9, <2>2 DEF PluginInv, LoadInv, Cause
  <2> QED
    BY <2>1, <2>2
<1>16. LoadInv(c)'
  BY <1>2, <1>8, <1>9, <1>13, <1>14, <1>15 DEF PluginInv, LoadInv, IdInv, Cause
<1> QED
  BY <1>4, <1>6, <1>10, <1>11, <1>16 DEF PluginInv

\* The plugins of a module are taken: new ids are kept, a conflict rejects.
LEMMA TakesKeeps ==
  ASSUME PluginInv, NEW c \in Configs, NEW i \in DOMAIN tasks[c], TakesPlugins(c, i)
  PROVE  PluginInv'
<1>1. PICK m, p, ids, seen, fresh, conflict :
        /\ m = tasks[c][i].module /\ p = m.path /\ ids = TextOf(m).ids /\ seen = seenPluginIds[c]
        /\ fresh = {x \in ids : seen[x] = Missing}
        /\ conflict = \E x \in ids : seen[x] \notin {Missing, p}
  OBVIOUS
<1>2. /\ tasks[c][i].stage = "held"
      /\ seenPluginIds' = [seenPluginIds EXCEPT ![c] = [x \in PluginIds |-> IF x \in fresh THEN p ELSE @[x]]]
      /\ tasks' = Moved(c, i, [stage |-> IF conflict THEN "failed" ELSE "done", module |-> m])
      /\ resolving' = IF conflict THEN Rejected(c) ELSE resolving
      /\ instances' = IF conflict THEN instances
                      ELSE [instances EXCEPT ![c] = @ \cup {[task |-> i, id |-> x] : x \in fresh}]
      /\ UNCHANGED <<library, named, edits, cacheVersion, pluginsCache, imported, required, cleared, uncached>>
  BY <1>1 DEF TakesPlugins, Task, onceVars, nodeVars
<1>3. /\ m # Missing /\ m \in Modules /\ p = PathOf(c, i) /\ p \in Paths /\ p # Missing
      /\ m.version <= cacheVersion /\ Imported(m, p) /\ resolving[c] \in {"pending", "rejected"}
      /\ ids \subseteq PluginIds /\ fresh \subseteq PluginIds /\ ~TextOf(m).fails
  BY <1>1, <1>2, TaskHas, PluginTypes
<1>4. NodeInv' /\ Grows
  BY <1>2, NodeStays DEF PluginInv
<1>5. Imported(m, p)' /\ TextOf(m)' = TextOf(m) /\ PathOf(c, i)' = p
  BY <1>2, <1>3, <1>4, ImportedStays DEF PathOf
<1>6. CacheInv'
  BY <1>2, <1>4, CacheStays DEF PluginInv
<1>7. PICK to \in {"failed", "done"} :
        /\ tasks' = Moved(c, i, [stage |-> to, module |-> m])
        /\ (to = "failed") <=> conflict
  BY <1>1, <1>2
<1>8. /\ DOMAIN tasks' = Configs /\ DOMAIN tasks'[c] = DOMAIN tasks[c]
      /\ tasks'[c][i] = [stage |-> to, module |-> m]
      /\ \A j \in DOMAIN tasks[c] : j # i => tasks'[c][j] = tasks[c][j]
      /\ \A d \in Configs : d # c => tasks'[d] = tasks[d]
      /\ Cause(c) => Cause(c)'
  <2>1. PICK new : new = [stage |-> to, module |-> m]
    OBVIOUS
  <2>2. tasks' = Moved(c, i, new) /\ new.stage \in GivenStages /\ new.module = tasks[c][i].module
    BY <1>1, <1>7, <2>1 DEF GivenStages
  <2> QED
    BY <1>4, <2>1, <2>2, TaskMoves
<1>9. /\ resolving' \in [Configs -> {"none", "pending", "fulfilled", "rejected"}]
      /\ \A d \in Configs : d # c => resolving'[d] = resolving[d]
      /\ resolving'[c] \in {"pending", "rejected"}
      /\ resolving'[c] = "rejected" <=> (resolving[c] = "rejected" \/ to = "failed")
  BY <1>1, <1>2, <1>3, <1>7 DEF Rejected, PluginInv, LoadType
<1>10. /\ seenPluginIds' \in [Configs -> [PluginIds -> Paths \cup {Missing}]]
       /\ \A d \in Configs : d # c => seenPluginIds'[d] = seenPluginIds[d]
       /\ \A x \in PluginIds : seenPluginIds'[c][x] = IF x \in fresh THEN p ELSE seen[x]
  BY <1>1, <1>2, <1>3 DEF PluginInv, LoadType
<1>11. /\ DOMAIN instances' = Configs
       /\ \A d \in Configs : d # c => instances'[d] = instances[d]
       /\ instances'[c] = IF to = "failed" THEN instances[c]
                          ELSE instances[c] \cup {[task |-> i, id |-> x] : x \in fresh}
  BY <1>1, <1>2, <1>7 DEF PluginInv, LoadType
<1>12. LoadType'
  BY <1>8, <1>9, <1>10, <1>11 DEF LoadType
<1>13. \A d \in Configs : d # c => LoadInv(d)'
  BY <1>4, <1>8, <1>9, <1>10, <1>11, <1>12, OthersStay
<1>14. \A x \in PluginIds :
         seenPluginIds[c][x] # Missing => seenPluginIds'[c][x] = seenPluginIds[c][x]
  BY <1>1, <1>10
<1>15. to = "done" => \A x \in ids : seenPluginIds'[c][x] = p
  BY <1>1, <1>3, <1>7, <1>10
<1>16. TaskInv(c, i)'
  <2>1. TextOf(m)'.ids = ids /\ ~TextOf(m)'.fails
    BY <1>1, <1>3, <1>5
  <2>2. to = "failed" => resolving'[c] = "rejected"
    BY <1>9
  <2>3. m.version <= cacheVersion' /\ m.path = p
    BY <1>1, <1>2, <1>3
  <2> QED
    BY <1>3, <1>5, <1>8, <1>15, <2>1, <2>2, <2>3 DEF TaskInv, TaskStages, TextOf
<1>17. \A j \in DOMAIN tasks[c] : TaskInv(c, j)'
  <2>1. library \in Libraries /\ (resolving[c] = "rejected" => resolving'[c] = "rejected")
    BY <1>9 DEF PluginInv, NodeInv
  <2>2. \A j \in DOMAIN tasks[c] : TaskInv(c, j)
    BY DEF PluginInv, LoadInv
  <2> QED
    BY <1>4, <1>8, <1>14, <1>16, <2>1, <2>2, SiblingStays
<1>18. ASSUME NEW x \in PluginIds, seenPluginIds'[c][x] # Missing PROVE IdInv(c, x)'
  <2>1. CASE seen[x] # Missing
    <3>1. IdInv(c, x)
      BY DEF PluginInv, LoadInv
    <3>2. PICK j \in DOMAIN tasks[c] :
            /\ tasks[c][j].stage \in {"done", "failed"} /\ tasks[c][j].module # Missing
            /\ tasks[c][j].module.path = seen[x] /\ x \in TextOf(tasks[c][j].module).ids
      BY <1>1, <2>1, <3>1 DEF IdInv
    <3>3. j \in DOMAIN tasks'[c] /\ tasks'[c][j] = tasks[c][j] /\ seenPluginIds'[c][x] = seen[x]
      BY <1>1, <1>2, <1>8, <1>14, <2>1, <3>2
    <3>4. resolving'[c] # "rejected" => \E y \in instances'[c] : y.id = x
      BY <1>1, <1>9, <1>11, <2>1, <3>1 DEF IdInv
    <3>5. \A n : TextOf(n)' = TextOf(n)
      BY <1>2 DEF TextOf
    <3> QED
      BY <3>2, <3>3, <3>4, <3>5 DEF IdInv
  <2>2. CASE seen[x] = Missing
    <3>1. x \in fresh /\ x \in ids /\ seenPluginIds'[c][x] = p
      BY <1>1, <1>10, <1>18, <2>2
    <3>2. /\ tasks'[c][i].stage \in {"done", "failed"} /\ tasks'[c][i].module = m
          /\ x \in TextOf(m)'.ids
      BY <1>1, <1>5, <1>8, <3>1
    <3>3. resolving'[c] # "rejected" => \E y \in instances'[c] : y.id = x
      <4>1. SUFFICES ASSUME resolving'[c] # "rejected" PROVE \E y \in instances'[c] : y.id = x
        OBVIOUS
      <4>2. to # "failed"
        BY <1>9, <4>1
      <4>3. [task |-> i, id |-> x] \in instances'[c]
        BY <1>11, <3>1, <4>2
      <4> QED
        BY <4>3
    <3>4. i \in DOMAIN tasks'[c] /\ tasks'[c][i].module.path = p
      BY <1>1, <1>8
    <3> QED
      BY <1>3, <3>1, <3>2, <3>3, <3>4 DEF IdInv, TextOf
  <2> QED
    BY <2>1, <2>2
<1>19. /\ \A y \in instances'[c] : y.id \in PluginIds /\ seenPluginIds'[c][y.id] # Missing
       /\ \A y, z \in instances'[c] : y.id = z.id => y = z
  <2>1. /\ \A y \in instances[c] : y.id \in PluginIds /\ seen[y.id] # Missing
        /\ \A y, z \in instances[c] : y.id = z.id => y = z
    BY <1>1 DEF PluginInv, LoadInv
  <2>2. ASSUME NEW y \in instances'[c]
        PROVE  y \in instances[c] \/ (\E x \in fresh : y = [task |-> i, id |-> x])
    BY <1>11
  <2>3. \A x \in fresh : x \in PluginIds /\ seen[x] = Missing /\ seenPluginIds'[c][x] = p
    BY <1>1, <1>3, <1>10
  <2>4. ASSUME NEW y \in instances'[c]
        PROVE  y.id \in PluginIds /\ seenPluginIds'[c][y.id] # Missing
    <3>1. CASE y \in instances[c]
      BY <1>1, <1>14, <2>1, <3>1
    <3>2. CASE \E x \in fresh : y = [task |-> i, id |-> x]
      BY <1>3, <2>3, <3>2
    <3> QED
      BY <2>2, <2>4, <3>1, <3>2
  <2>5. ASSUME NEW y \in instances'[c], NEW z \in instances'[c], y.id = z.id
        PROVE  y = z
    BY <2>1, <2>2, <2>3, <2>5
  <2> QED
    BY <2>4, <2>5
<1>20. resolving'[c] = "rejected" => Cause(c)'
  <2>1. CASE to = "failed"
    <3>1. PICK x \in ids : seen[x] \notin {Missing, p}
      BY <1>1, <1>7, <2>1
    <3>2. x \in PluginIds /\ IdInv(c, x)
      BY <1>3 DEF PluginInv, LoadInv
    <3>3. PICK j \in DOMAIN tasks[c] :
            /\ tasks[c][j].stage \in {"done", "failed"} /\ tasks[c][j].module # Missing
            /\ tasks[c][j].module.path = seen[x] /\ x \in TextOf(tasks[c][j].module).ids
      BY <1>1, <3>1, <3>2 DEF IdInv
    <3>4. PICK n : n = tasks[c][j].module
      OBVIOUS
    <3>5. n \in Given(c)' /\ m \in Given(c)'
      BY <1>2, <1>3, <1>8, <2>1, <3>3, <3>4 DEF Given
    <3>6. n.path # m.path /\ x \in TextOf(n)'.ids \cap TextOf(m)'.ids
      BY <1>1, <1>2, <1>5, <3>1, <3>3, <3>4 DEF TextOf
    <3>7. InConflict(c)'
      BY <3>5, <3>6 DEF InConflict, TextOf
    <3> QED
      BY <3>7 DEF Cause
  <2>2. CASE to # "failed"
    BY <1>8, <1>9, <2>2 DEF PluginInv, LoadInv, Cause
  <2> QED
    BY <2>1, <2>2
<1>21. LoadInv(c)'
  BY <1>2, <1>8, <1>9, <1>17, <1>18, <1>19, <1>20 DEF PluginInv, LoadInv, IdInv, Cause
<1> QED
  BY <1>4, <1>6, <1>12, <1>13, <1>21 DEF PluginInv

------------------------------------------------------------------------------
(* The other steps. *)

LEMMA FulfilsKeeps == ASSUME PluginInv, NEW c \in Configs, Fulfils(c) PROVE PluginInv'
<1>1. /\ resolving[c] = "pending" /\ \A i \in DOMAIN tasks[c] : tasks[c][i].stage = "done"
      /\ resolving' = [resolving EXCEPT ![c] = "fulfilled"]
      /\ UNCHANGED <<library, named, edits, cacheVersion, pluginsCache, imported, required, tasks,
                     seenPluginIds, instances, cleared, uncached>>
  BY DEF Fulfils, onceVars, nodeVars
<1>2. NodeInv' /\ Grows
  BY <1>1, NodeStays DEF PluginInv
<1>3. CacheInv'
  BY <1>1, <1>2, CacheStays DEF PluginInv
<1>4. LoadType' /\ resolving'[c] = "fulfilled"
  BY <1>1 DEF PluginInv, LoadType
<1>5. \A d \in Configs : d # c => LoadInv(d)'
  BY <1>1, <1>2, <1>4, OthersStay DEF PluginInv, LoadType
<1>6. \A i \in DOMAIN tasks[c] : TaskInv(c, i)'
  BY <1>1, <1>2, <1>4, SiblingStays DEF PluginInv, NodeInv, LoadInv
<1>7. \A n : TextOf(n)' = TextOf(n)
  BY <1>1 DEF TextOf
<1>8. \A x \in PluginIds : IdInv(c, x)'
  BY <1>1, <1>4, <1>7 DEF PluginInv, LoadInv, IdInv
<1>9. LoadInv(c)'
  BY <1>1, <1>4, <1>6, <1>8 DEF PluginInv, LoadInv
<1> QED
  BY <1>2, <1>3, <1>4, <1>5, <1>9 DEF PluginInv

\* The next version is one that nothing was imported under; what stays in
\* require.cache is what was not cached.
LEMMA ClearsKeeps == ASSUME PluginInv, Clears PROVE PluginInv'
<1>1. /\ cacheVersion \in Nat /\ MaxVersion \in Nat /\ cacheVersion < MaxVersion
      /\ cacheVersion' = cacheVersion + 1 /\ cleared' = edits
      /\ uncached' = {p \in Paths : required[p] # Missing /\ pluginsCache[p] = Missing}
      /\ pluginsCache' = [p \in Paths |-> Missing]
      /\ required' = [p \in Paths |-> IF pluginsCache[p] = Missing THEN required[p] ELSE Missing]
      /\ UNCHANGED <<library, named, edits, imported, resolving, tasks, seenPluginIds, instances>>
  BY PluginAssumption DEF Clears, Uncached, PluginInv, NodeInv, Versions, onceVars, loadVars
<1>2. Grows
  BY <1>1 DEF Grows
<1>3. NodeInv'
  <2>1. cacheVersion' \in Versions /\ Versions \subseteq Nat
    BY <1>1 DEF Versions
  <2>2. \A p \in Paths : TextsOf(p)' = TextsOf(p) /\ TextsOf(p) \subseteq Nat
    BY <1>1 DEF TextsOf
  <2>3. required' \in [Paths -> Nat \cup {Missing}]
    BY <1>1 DEF PluginInv, NodeInv
  <2>4. ASSUME NEW p \in Paths
        PROVE  /\ edits[p] \in TextsOf(p) /\ cleared'[p] <= edits[p]
               /\ required'[p] # Missing =>
                    required'[p] \in TextsOf(p) /\ p \in CommonJs /\ Recent(p, required[p])'
    <3>1. edits[p] \in TextsOf(p) /\ edits[p] \in Nat
      BY <2>2 DEF PluginInv, NodeInv
    <3>2. required'[p] # Missing => required'[p] = required[p] /\ p \in uncached'
      BY <1>1
    <3> QED
      BY <1>1, <3>1, <3>2 DEF PluginInv, NodeInv, Recent
  <2>5. ASSUME NEW p \in Paths, NEW v \in Versions, imported[<<p, v>>] # Missing
        PROVE  imported[<<p, v>>] \in TextsOf(p) /\ v <= cacheVersion' /\ v # cacheVersion'
    <3>1. imported[<<p, v>>] \in TextsOf(p) /\ v <= cacheVersion /\ v \in Nat
      BY <2>1, <2>5 DEF PluginInv, NodeInv
    <3> QED
      BY <1>1, <3>1
  <2> QED
    BY <1>1, <2>1, <2>2, <2>3, <2>4, <2>5 DEF PluginInv, NodeInv
<1>4. CacheInv'
  BY <1>1 DEF CacheInv
<1>5. LoadType'
  BY <1>1 DEF PluginInv, LoadType
<1>6. \A c \in Configs : LoadInv(c)'
  BY <1>1, <1>2, LoadStays DEF PluginInv
<1> QED
  BY <1>3, <1>4, <1>5, <1>6 DEF PluginInv

LEMMA EditsKeeps == ASSUME PluginInv, NEW p \in Paths, Edits(p) PROVE PluginInv'
<1>1. /\ edits[p] < Len(library[p]) /\ edits' = [edits EXCEPT ![p] = @ + 1]
      /\ UNCHANGED <<library, named, cacheVersion, pluginsCache, imported, required, resolving,
                     tasks, seenPluginIds, instances, cleared, uncached>>
  BY DEF Edits, onceVars, nodeVars, loadVars
<1>2. Grows
  BY <1>1, PluginAssumption DEF Grows, PluginInv, NodeInv, Versions
<1>3. NodeInv'
  <2>1. \A q \in Paths : TextsOf(q)' = TextsOf(q) /\ \A n : Recent(q, n)' <=> Recent(q, n)
    BY <1>1 DEF TextsOf, Recent
  <2>2. edits' \in [Paths -> Nat] /\ cleared \in [Paths -> Nat]
    BY <1>1 DEF PluginInv, NodeInv
  <2>3. ASSUME NEW q \in Paths PROVE edits'[q] \in TextsOf(q) /\ cleared[q] <= edits'[q]
    <3>1. edits[q] \in TextsOf(q) /\ cleared[q] <= edits[q] /\ edits[q] \in Nat /\ cleared[q] \in Nat
      BY DEF PluginInv, NodeInv
    <3>2. Len(library[p]) \in Nat
      BY PluginTypes DEF PluginInv, NodeInv
    <3> QED
      BY <1>1, <3>1, <3>2 DEF PluginInv, NodeInv, TextsOf
  <2> QED
    BY <1>1, <2>1, <2>2, <2>3 DEF PluginInv, NodeInv
<1>4. CacheInv'
  BY <1>1, <1>2, CacheStays DEF PluginInv
<1>5. LoadType'
  BY <1>1 DEF PluginInv, LoadType
<1>6. \A c \in Configs : LoadInv(c)'
  BY <1>1, <1>2, LoadStays DEF PluginInv
<1> QED
  BY <1>3, <1>4, <1>5, <1>6 DEF PluginInv

LEMMA PluginAlways == PluginSpec => []PluginInv
<1>1. PluginInv /\ [PluginNext]_pluginVars => PluginInv'
  <2> SUFFICES ASSUME PluginInv, [PluginNext]_pluginVars PROVE PluginInv'
    OBVIOUS
  <2>1. CASE PluginNext
    BY <2>1, ResolvesKeeps, FulfilsKeeps, ImportsKeeps, CreatesKeeps, TakesKeeps, ClearsKeeps,
       EditsKeeps DEF PluginNext, LoadingGoesOn
  <2>2. CASE UNCHANGED pluginVars
    <3>1. UNCHANGED <<library, named, edits, cacheVersion, imported, required, cleared, uncached,
                      pluginsCache, resolving, tasks, seenPluginIds, instances>>
      BY <2>2 DEF pluginVars, nodeVars, loadVars
    <3>2. NodeInv' /\ Grows
      BY <3>1, NodeStays DEF PluginInv
    <3>3. CacheInv'
      BY <3>1, <3>2, CacheStays DEF PluginInv
    <3>4. \A c \in Configs : LoadInv(c)'
      BY <3>1, <3>2, LoadStays DEF PluginInv
    <3> QED
      BY <3>1, <3>2, <3>3, <3>4 DEF PluginInv, LoadType
  <2> QED
    BY <2>1, <2>2
<1> QED
  BY PluginStarts, <1>1, PTL DEF PluginSpec

------------------------------------------------------------------------------
(* The theorem. *)

\* Of the spellings of a plugin the first one is loaded.
LEMMA FirstIsLoaded ==
  ASSUME PluginInv, NEW c \in Configs, resolving[c] # "none", NEW i \in DOMAIN named[c]
  PROVE  \E j \in DOMAIN tasks[c] : tasks[c][j].module # Missing /\ PathOf(c, j) = PathOf(c, i)
<1> DEFINE same == {j \in DOMAIN named[c] : named[c][j] = named[c][i]}
           R == OpToRel(<, Nat)
<1>1. DOMAIN named[c] = 1 .. Len(named[c]) /\ DOMAIN tasks[c] = DOMAIN named[c]
  BY PluginTypes DEF PluginInv, NodeInv, LoadInv
<1>2. same \subseteq Nat /\ i \in same
  BY <1>1
<1>3. IsWellFoundedOn(R, Nat) /\ \A x, y \in Nat : y < x => <<y, x>> \in R
  BY NatLessThanWellFounded DEF OpToRel
<1>4. PICK j \in same : \A k \in same : <<k, j>> \notin R
  <2> HIDE DEF same, R
  <2> QED
    BY <1>2, <1>3, WFMin
<1>5. tasks[c][j].module # Missing
  <2>1. SUFFICES ASSUME tasks[c][j].module = Missing PROVE FALSE
    OBVIOUS
  <2>2. PICK k \in 1 .. j - 1 : named[c][k] = named[c][j]
    BY <1>1, <2>1 DEF PluginInv, LoadInv, TaskInv
  <2>3. k \in same /\ k \in Nat /\ j \in Nat /\ k < j
    BY <1>1, <2>2
  <2> QED
    BY <1>3, <1>4, <2>3
<1> QED
  BY <1>1, <1>4, <1>5 DEF PathOf

\* The modules a configuration was given are imported ones.
LEMMA GivenAre ==
  ASSUME PluginInv, NEW c \in Configs, NEW m \in Given(c)
  PROVE  \E i \in DOMAIN tasks[c] :
           /\ tasks[c][i].module = m /\ tasks[c][i].stage \in GivenStages
           /\ m # Missing /\ m.path = PathOf(c, i) /\ Imported(m, m.path) /\ m \in Modules
<1>1. PICK i \in DOMAIN tasks[c] :
        tasks[c][i].module = m /\ tasks[c][i].stage \in GivenStages /\ m # Missing
  BY DEF Given, GivenStages
<1>2. TaskInv(c, i)
  BY DEF PluginInv, LoadInv
<1> QED
  BY <1>1, <1>2 DEF TaskInv, GivenStages

LEMMA PluginsOnce == PluginInv => EachPluginOnce
<1> SUFFICES ASSUME PluginInv, NEW c \in Configs, resolving[c] = "fulfilled"
             PROVE  /\ {x.id : x \in instances[c]} = UNION {TextOf(m).ids : m \in Given(c)}
                    /\ {m.path : m \in Given(c)} = {PathOf(c, i) : i \in DOMAIN named[c]}
                    /\ \A x, y \in instances[c] : x.id = y.id => x = y
  BY DEF EachPluginOnce
<1>1. LoadInv(c) /\ DOMAIN tasks[c] = DOMAIN named[c]
  BY DEF PluginInv, LoadInv
<1>2. ASSUME NEW x \in instances[c] PROVE \E m \in Given(c) : x.id \in TextOf(m).ids
  <2>1. IdInv(c, x.id) /\ seenPluginIds[c][x.id] # Missing
    BY <1>1 DEF LoadInv
  <2>2. PICK i \in DOMAIN tasks[c] :
          /\ tasks[c][i].stage \in {"done", "failed"} /\ tasks[c][i].module # Missing
          /\ x.id \in TextOf(tasks[c][i].module).ids
    BY <2>1 DEF IdInv
  <2>3. tasks[c][i].module \in Given(c)
    BY <2>2 DEF Given
  <2> QED
    BY <2>2, <2>3
<1>3. ASSUME NEW m \in Given(c), NEW x \in TextOf(m).ids PROVE \E y \in instances[c] : y.id = x
  <2>1. PICK i \in DOMAIN tasks[c] :
          /\ tasks[c][i].module = m /\ m # Missing /\ Imported(m, m.path) /\ m \in Modules
    BY GivenAre
  <2>2. tasks[c][i].stage = "done" /\ TaskInv(c, i)
    BY <1>1 DEF LoadInv
  <2>3. seenPluginIds[c][x] = m.path /\ m.path # Missing
    BY <2>1, <2>2, PluginTypes DEF TaskInv, Modules
  <2>4. x \in PluginIds
    BY <2>1, TextTypes DEF Imported, PluginInv, NodeInv
  <2> QED
    BY <1>1, <2>3, <2>4 DEF LoadInv, IdInv
<1>4. \A m \in Given(c) : \E i \in DOMAIN named[c] : m.path = PathOf(c, i)
  BY <1>1, GivenAre
<1>5. ASSUME NEW i \in DOMAIN named[c] PROVE \E m \in Given(c) : m.path = PathOf(c, i)
  <2>1. PICK j \in DOMAIN tasks[c] : tasks[c][j].module # Missing /\ PathOf(c, j) = PathOf(c, i)
    BY FirstIsLoaded
  <2>2. tasks[c][j].module \in Given(c) /\ tasks[c][j].module.path = PathOf(c, j)
    BY <1>1, <2>1 DEF LoadInv, TaskInv, Given
  <2> QED
    BY <2>1, <2>2
<1>6. \A x, y \in instances[c] : x.id = y.id => x = y
  BY <1>1 DEF LoadInv
<1> QED
  BY <1>2, <1>3, <1>4, <1>5, <1>6

LEMMA RejectionsHaveCause == PluginInv => RejectedForCause
<1> SUFFICES ASSUME PluginInv, NEW c \in Configs
             PROVE  /\ resolving[c] = "rejected" => InConflict(c) \/ \E m \in Given(c) : TextOf(m).fails
                    /\ resolving[c] = "fulfilled" => ~InConflict(c) /\ \A m \in Given(c) : ~TextOf(m).fails
  BY DEF RejectedForCause
<1>1. resolving[c] = "rejected" => InConflict(c) \/ \E m \in Given(c) : TextOf(m).fails
  BY DEF PluginInv, LoadInv
<1>2. ASSUME resolving[c] = "fulfilled", NEW m \in Given(c)
      PROVE  ~TextOf(m).fails /\ \A x \in TextOf(m).ids : seenPluginIds[c][x] = m.path
  <2>1. PICK i \in DOMAIN tasks[c] : tasks[c][i].module = m /\ m # Missing
    BY GivenAre
  <2>2. tasks[c][i].stage = "done" /\ TaskInv(c, i)
    BY <1>2 DEF PluginInv, LoadInv
  <2> QED
    BY <2>1, <2>2 DEF TaskInv
<1>3. resolving[c] = "fulfilled" => ~InConflict(c)
  BY <1>2 DEF InConflict
<1> QED
  BY <1>1, <1>2, <1>3

LEMMA OneText == PluginInv => OneTextPerVersion
  BY GivenAre DEF OneTextPerVersion, Imported

LEMMA NothingStale == PluginInv => NothingStaleIsCached
<1> SUFFICES ASSUME PluginInv, NEW p \in Paths, pluginsCache[p] # Missing,
                    pluginsCache[p].text < cleared[p]
             PROVE  pluginsCache[p].version < cacheVersion \/ p \in CommonJs \cap uncached
  BY DEF NothingStaleIsCached
<1>1. PICK m : m = pluginsCache[p]
  OBVIOUS
<1>2. Imported(m, p) /\ m.text < cleared[p] /\ cleared[p] \in Nat /\ cacheVersion \in Nat
  BY <1>1, PluginAssumption DEF PluginInv, CacheInv, NodeInv, Versions
<1>3. m.version \in Versions /\ m.version \in Nat /\ m.text \in Nat /\ m.version <= cacheVersion
  BY <1>2, PluginAssumption DEF Imported, Modules, Versions
<1>4. m.version = cacheVersion => Recent(p, m.text)
  BY <1>2, <1>3, PluginTypes DEF PluginInv, NodeInv, Imported
<1> QED
  BY <1>1, <1>2, <1>3, <1>4 DEF Recent

\* However the loads of plugins by concurrent configurations, their failures, edits
\* of the files and clearPluginsCache interleave, each configuration gets each of
\* its plugins once or is rejected for a cause, one version of a file has one text,
\* and the cache keeps nothing stale but what node itself keeps.
THEOREM PluginsSound == PluginSpec => []PluginsAreSound
<1>1. PluginInv => PluginsAreSound
  BY PluginsOnce, RejectionsHaveCause, OneText, NothingStale DEF PluginsAreSound
<1> QED
  BY <1>1, PluginAlways, PTL

-------------------------------------------------------------------------------
(* Settings of rules (ConfigMerge). *)

\* A set of numbers up to n has a greatest one.
LEMMA Greatest ==
  ASSUME NEW n \in Nat, NEW T \in SUBSET (1..n), T # {}
  PROVE  \E i \in T : \A j \in T : j <= i
<1> DEFINE S == {m \in Nat : \A U \in SUBSET (1..m) : U # {} => \E i \in U : \A j \in U : j <= i}
<1>1. 0 \in S
  <2>1. 1..0 = {}
    OBVIOUS
  <2> QED
    BY <2>1
<1>2. ASSUME NEW m \in Nat, m \in S PROVE m + 1 \in S
  <2>1. ASSUME NEW U \in SUBSET (1..m + 1), U # {}
        PROVE  \E i \in U : \A j \in U : j <= i
    <3>1. CASE m + 1 \in U
      BY <3>1
    <3>2. CASE m + 1 \notin U
      <4>1. U \in SUBSET (1..m)
        BY <3>2
      <4> QED
        BY <1>2, <2>1, <4>1
    <3> QED
      BY <3>1, <3>2
  <2> QED
    BY <2>1
<1>3. \A m \in Nat : m \in S
  <2> HIDE DEF S
  <2> QED
    BY <1>1, <1>2, SetInduction
<1> QED
  BY <1>3

(* The last setting of a sequence of layers. *)

\* It is one of the layers' and no later layer has another.
LEMMA LastIs ==
  ASSUME NEW L \in Seq(Layers), NEW kept, Unset \notin kept
  PROVE  \/ LastAmong(L, kept) = Unset /\ \A i \in 1..Len(L) : OfFormat(L[i]) \notin kept
         \/ /\ LastAmong(L, kept) \in kept
            /\ \E i \in 1..Len(L) :
                 /\ LastAmong(L, kept) = OfFormat(L[i])
                 /\ \A j \in 1..Len(L) : j > i => OfFormat(L[j]) \notin kept
<1> DEFINE at == {i \in DOMAIN L : OfFormat(L[i]) \in kept}
           last == CHOOSE i \in at : \A j \in at : j <= i
<1>1. Len(L) \in Nat /\ DOMAIN L = 1..Len(L)
  BY LenProperties
<1>2. LastAmong(L, kept) = IF at = {} THEN Unset ELSE OfFormat(L[last])
  BY DEF LastAmong
<1>3. CASE at = {}
  BY <1>1, <1>2, <1>3
<1>4. CASE at # {}
  <2>1. \E i \in at : \A j \in at : j <= i
    <3>1. at \in SUBSET (1..Len(L))
      BY <1>1
    <3> HIDE DEF at
    <3> QED
      BY <1>1, <1>4, <3>1, Greatest
  <2>2. last \in at /\ \A j \in at : j <= last
    <3> HIDE DEF at
    <3> QED
      BY <2>1
  <2>3. \A j \in 1..Len(L) : j > last => OfFormat(L[j]) \notin kept
    <3> HIDE DEF last
    <3> QED
      BY <1>1, <2>2
  <2> HIDE DEF last
  <2> QED
    BY <1>1, <1>2, <1>4, <2>2, <2>3
<1> QED
  BY <1>3, <1>4

LEMMA LastOfBoth ==
  ASSUME NEW A \in Seq(Layers), NEW B \in Seq(Layers), NEW kept, Unset \notin kept
  PROVE  LastAmong(A \o B, kept) =
           IF LastAmong(B, kept) = Unset THEN LastAmong(A, kept) ELSE LastAmong(B, kept)
<1> DEFINE C == A \o B
           a == LastAmong(A, kept)
           b == LastAmong(B, kept)
           c == LastAmong(C, kept)
           In(L, s, i) == /\ s = OfFormat(L[i]) /\ s \in kept
                          /\ \A j \in 1..Len(L) : j > i => OfFormat(L[j]) \notin kept
           None(L, s) == s = Unset /\ \A i \in 1..Len(L) : OfFormat(L[i]) \notin kept
<1>1. /\ C \in Seq(Layers) /\ Len(C) = Len(A) + Len(B) /\ Len(A) \in Nat /\ Len(B) \in Nat
      /\ \A i \in 1..Len(C) : C[i] = IF i <= Len(A) THEN A[i] ELSE B[i - Len(A)]
  BY ConcatProperties, LenProperties
<1>2. /\ None(A, a) \/ \E i \in 1..Len(A) : In(A, a, i)
      /\ None(B, b) \/ \E i \in 1..Len(B) : In(B, b, i)
      /\ None(C, c) \/ \E i \in 1..Len(C) : In(C, c, i)
  <2>1. /\ None(A, a) \/ \E i \in 1..Len(A) : In(A, a, i)
    BY LastIs
  <2>2. /\ None(B, b) \/ \E i \in 1..Len(B) : In(B, b, i)
    BY LastIs
  <2>3. /\ None(C, c) \/ \E i \in 1..Len(C) : In(C, c, i)
    <3>1. C \in Seq(Layers)
      BY <1>1
    <3> HIDE DEF C
    <3> QED
      BY <3>1, LastIs
  <2> QED
    BY <2>1, <2>2, <2>3
<1> HIDE DEF C, a, b, c
<1>3. ASSUME NEW i \in 1..Len(B) PROVE Len(A) + i \in 1..Len(C) /\ C[Len(A) + i] = B[i]
  <2>1. Len(A) + i \in 1..Len(C) /\ ~(Len(A) + i <= Len(A)) /\ (Len(A) + i) - Len(A) = i
    BY <1>1
  <2> QED
    BY <1>1, <2>1
<1>4. ASSUME NEW k \in 1..Len(C), k > Len(A) PROVE k - Len(A) \in 1..Len(B) /\ C[k] = B[k - Len(A)]
  BY <1>1, <1>4
<1>5. CASE b = Unset
  <2>1. \A i \in 1..Len(B) : OfFormat(B[i]) \notin kept
    BY <1>2, <1>5
  <2>2. CASE None(C, c)
    <3>1. \A i \in 1..Len(A) : i \in 1..Len(C) /\ C[i] = A[i]
      BY <1>1
    <3> QED
      BY <1>2, <1>5, <2>2, <3>1 DEF a, b, c, C
  <2>3. CASE \E k \in 1..Len(C) : In(C, c, k)
    <3>1. PICK k \in 1..Len(C) : In(C, c, k)
      BY <2>3
    <3>2. k \in 1..Len(A) /\ C[k] = A[k]
      <4>1. ~(k > Len(A))
        BY <1>4, <2>1, <3>1
      <4> QED
        BY <1>1, <4>1
    <3>3. PICK i \in 1..Len(A) : In(A, a, i)
      BY <1>2, <3>1, <3>2
    <3>4. i \in 1..Len(C) /\ C[i] = A[i]
      BY <1>1
    <3>5. k = i
      BY <1>1, <3>1, <3>2, <3>3, <3>4
    <3> QED
      BY <1>5, <3>1, <3>2, <3>3, <3>5 DEF a, b, c, C
  <2> QED
    BY <1>2, <2>2, <2>3
<1>6. CASE b # Unset
  <2>1. PICK i \in 1..Len(B) : In(B, b, i)
    BY <1>2, <1>6
  <2>2. Len(A) + i \in 1..Len(C) /\ C[Len(A) + i] = B[i]
    BY <1>3
  <2>3. PICK k \in 1..Len(C) : In(C, c, k)
    BY <1>2, <2>1, <2>2
  <2>4. k >= Len(A) + i
    <3>1. OfFormat(C[Len(A) + i]) \in kept
      BY <2>1, <2>2
    <3>2. ~(Len(A) + i > k)
      BY <2>2, <2>3, <3>1
    <3> QED
      BY <1>1, <3>2
  <2>5. k - Len(A) \in 1..Len(B) /\ C[k] = B[k - Len(A)]
    BY <1>1, <1>4, <2>4
  <2>6. ~(k - Len(A) > i)
    BY <2>1, <2>3, <2>5
  <2>7. k = Len(A) + i
    <3>1. k \in Nat /\ i \in Nat /\ Len(A) \in Nat
      BY <1>1
    <3> QED
      BY <2>4, <2>6, <3>1
  <2> QED
    BY <1>6, <2>1, <2>2, <2>3, <2>7 DEF b, c, C
<1> QED
  BY <1>5, <1>6

LEMMA LastOfOne ==
  ASSUME NEW l \in Layers, NEW kept, Unset \notin kept
  PROVE  /\ LastAmong(<<l>>, kept) = IF OfFormat(l) \in kept THEN OfFormat(l) ELSE Unset
         /\ LastAmong(<<>>, kept) = Unset
<1>1. ASSUME NEW L \in Seq(Layers), Len(L) = 1
      PROVE  LastAmong(L, kept) = IF OfFormat(L[1]) \in kept THEN OfFormat(L[1]) ELSE Unset
  <2>1. 1..Len(L) = {1}
    BY <1>1
  <2> QED
    BY <2>1, LastIs
<1>2. <<l>> \in Seq(Layers) /\ Len(<<l>>) = 1 /\ <<l>>[1] = l
  OBVIOUS
<1>3. LastAmong(<<l>>, kept) = IF OfFormat(l) \in kept THEN OfFormat(l) ELSE Unset
  <2>1. PICK L : L = <<l>>
    OBVIOUS
  <2> QED
    BY <1>1, <1>2, <2>1
<1>4. ASSUME NEW L \in Seq(Layers), Len(L) = 0 PROVE LastAmong(L, kept) = Unset
  <2>1. 1..Len(L) = {}
    BY <1>4
  <2> QED
    BY <2>1, LastIs
<1>5. LastAmong(<<>>, kept) = Unset
  BY <1>4, EmptySeq
<1> QED
  BY <1>3, <1>5

(* One setting over another. *)

LEMMA SettingsAre ==
  ASSUME NEW s \in Settings
  PROVE  /\ s = [severity |-> s.severity, options |-> s.options] /\ s # Unset
         /\ s.severity \in {"error", "warn", "off", Unset} /\ s.options \in Options \cup {Unset}
         /\ s.severity = Unset => s.options # Unset
  BY ConfigAssumption DEF Settings

\* Of two settings the later decides; the options stay while no later setting has
\* some.
LEMMA AssignedIs ==
  ASSUME NEW old \in Settings \cup {Unset}, NEW new \in Settings \cup {Unset}
  PROVE  /\ Assigned(old, new) \in Settings \cup {Unset}
         /\ Assigned(old, new) = Unset <=> old = Unset /\ new = Unset
         /\ new = Unset => Assigned(old, new) = old
         /\ new # Unset =>
              /\ Assigned(old, new).severity = new.severity
              /\ Assigned(old, new).options =
                   IF IsFull(new) THEN new.options ELSE IF IsFull(old) THEN old.options ELSE Unset
<1>1. CASE new = Unset
  BY <1>1 DEF Assigned
<1>2. CASE new # Unset /\ IsFull(old) /\ ~IsFull(new)
  <2>1. /\ old = [severity |-> old.severity, options |-> old.options]
        /\ old.options \in Options /\ old.options # Unset
    BY <1>2, SettingsAre DEF IsFull
  <2>2. new.severity \in {"error", "warn", "off"} /\ new.severity # Unset
    BY <1>2, SettingsAre DEF IsFull
  <2>3. Assigned(old, new) = [severity |-> new.severity, options |-> old.options]
    BY <1>2, <2>1 DEF Assigned
  <2>4. Assigned(old, new) \in Settings
    BY <2>1, <2>2, <2>3 DEF Settings
  <2> QED
    BY <1>2, <2>3, <2>4, ConfigAssumption
<1>3. CASE new # Unset /\ ~(IsFull(old) /\ ~IsFull(new))
  <2>1. Assigned(old, new) = new
    BY <1>3 DEF Assigned
  <2>2. ~IsFull(new) => new.options = Unset
    BY <1>3 DEF IsFull
  <2> QED
    BY <1>3, <2>1, <2>2
<1> QED
  BY <1>1, <1>2, <1>3

LEMMA LayersAre ==
  ASSUME NEW l \in Layers
  PROVE  /\ l.rules \in Settings \cup {Unset} /\ l.versioned \in Settings \cup {Unset}
         /\ l = NoLayer <=> l.rules = Unset /\ l.versioned = Unset
         /\ OfFormat(l) \in Settings \cup {Unset} /\ (OfFormat(l) = Unset <=> l = NoLayer)
         /\ NoLayer \in Layers
<1>1. l = [rules |-> l.rules, versioned |-> l.versioned]
  BY DEF Layers
<1>2. l.rules \in Settings \cup {Unset} /\ l.versioned \in Settings \cup {Unset}
  BY DEF Layers
<1>3. l = NoLayer <=> l.rules = Unset /\ l.versioned = Unset
  BY <1>1 DEF NoLayer
<1> QED
  BY <1>2, <1>3 DEF OfFormat, NoLayer, Layers

LEMMA MergedIs ==
  ASSUME NEW a \in Layers, NEW b \in Layers
  PROVE  /\ Merged(a, b) \in Layers
         /\ Merged(a, b).rules = Assigned(a.rules, b.rules)
         /\ Merged(a, b).versioned = AssignedIfThere(Assigned(a.versioned, b.versioned), b.rules)
         /\ Merged(a, b) = NoLayer <=> a = NoLayer /\ b = NoLayer
<1>1. /\ Merged(a, b).rules = Assigned(a.rules, b.rules)
      /\ Merged(a, b).versioned = AssignedIfThere(Assigned(a.versioned, b.versioned), b.rules)
  BY DEF Merged
<1>2. /\ a.rules \in Settings \cup {Unset} /\ a.versioned \in Settings \cup {Unset}
      /\ b.rules \in Settings \cup {Unset} /\ b.versioned \in Settings \cup {Unset}
      /\ a = NoLayer <=> a.rules = Unset /\ a.versioned = Unset
      /\ b = NoLayer <=> b.rules = Unset /\ b.versioned = Unset
  BY LayersAre
<1>3. PICK v : v = Assigned(a.versioned, b.versioned)
  OBVIOUS
<1>4. v \in Settings \cup {Unset} /\ (v = Unset <=> a.versioned = Unset /\ b.versioned = Unset)
  BY <1>2, <1>3, AssignedIs
<1>5. PICK w : w = AssignedIfThere(v, b.rules)
  OBVIOUS
<1>6. w \in Settings \cup {Unset} /\ (w = Unset <=> v = Unset)
  BY <1>2, <1>4, <1>5, AssignedIs DEF AssignedIfThere
<1>7. PICK r : r = Assigned(a.rules, b.rules)
  OBVIOUS
<1>8. r \in Settings \cup {Unset} /\ (r = Unset <=> a.rules = Unset /\ b.rules = Unset)
  BY <1>2, <1>7, AssignedIs
<1>9. Merged(a, b) = [rules |-> r, versioned |-> w]
  BY <1>3, <1>5, <1>7 DEF Merged
<1>10. Merged(a, b) \in Layers
  BY <1>6, <1>8, <1>9 DEF Layers
<1>11. Merged(a, b) = NoLayer <=> r = Unset /\ w = Unset
  BY <1>9 DEF NoLayer
<1> QED
  BY <1>1, <1>2, <1>4, <1>6, <1>8, <1>10, <1>11

\* A setting sums up what layers say: it is there when one of them has one, with the
\* severity of the last and the options of the last that has options.
Sums(s, L) ==
  /\ s = Unset <=> LastSet(L) = Unset
  /\ s # Unset =>
       /\ s.severity = LastSet(L).severity
       /\ s.options = IF LastFull(L) = Unset THEN Unset ELSE LastFull(L).options

LEMMA SumsBoth ==
  ASSUME NEW s \in Settings \cup {Unset}, NEW t \in Settings \cup {Unset},
         NEW A \in Seq(Layers), NEW B \in Seq(Layers), Sums(s, A), Sums(t, B)
  PROVE  Sums(Assigned(s, t), A \o B)
<1> DEFINE full == {x \in Settings : IsFull(x)}
<1>1. Unset \notin Settings /\ Unset \notin full /\ full \subseteq Settings
  BY ConfigAssumption
<1>2. /\ LastSet(A \o B) = IF LastSet(B) = Unset THEN LastSet(A) ELSE LastSet(B)
      /\ LastFull(A \o B) = IF LastFull(B) = Unset THEN LastFull(A) ELSE LastFull(B)
  BY <1>1, LastOfBoth DEF LastSet, LastFull
<1>3. ASSUME NEW L \in Seq(Layers)
      PROVE  /\ LastFull(L) # Unset => LastSet(L) # Unset /\ LastFull(L).options # Unset
  <2>1. LastFull(L) # Unset => LastFull(L) \in full
    BY <1>1, LastIs DEF LastFull
  <2>2. LastFull(L) # Unset => LastSet(L) # Unset
    <3> HIDE DEF full
    <3>1. \/ LastFull(L) = Unset
          \/ \E i \in 1..Len(L) : OfFormat(L[i]) \in full
      <4>1. LastFull(L) = LastAmong(L, full)
        BY DEF LastFull, full
      <4> QED
        BY <1>1, <4>1, LastIs
    <3>2. \/ LastSet(L) \in Settings
          \/ \A i \in 1..Len(L) : OfFormat(L[i]) \notin Settings
      BY <1>1, LastIs DEF LastSet
    <3> QED
      BY <1>1, <3>1, <3>2
  <2> QED
    BY <2>1, <2>2 DEF IsFull
<1>4. /\ LastFull(A) # Unset => LastSet(A) # Unset /\ LastFull(A).options # Unset
      /\ LastFull(B) # Unset => LastSet(B) # Unset /\ LastFull(B).options # Unset
  BY <1>3
<1>5. CASE t = Unset
  <2>1. LastSet(B) = Unset /\ LastFull(B) = Unset
    BY <1>4, <1>5 DEF Sums
  <2>2. Assigned(s, t) = s
    BY <1>5, AssignedIs
  <2> QED
    BY <1>2, <2>1, <2>2 DEF Sums
<1>6. CASE t # Unset
  <2>1. /\ LastSet(B) # Unset /\ t.severity = LastSet(B).severity
        /\ t.options = IF LastFull(B) = Unset THEN Unset ELSE LastFull(B).options
    BY <1>6 DEF Sums
  <2>2. PICK u : u = Assigned(s, t)
    OBVIOUS
  <2>3. /\ u # Unset /\ u.severity = t.severity
        /\ u.options = IF IsFull(t) THEN t.options ELSE IF IsFull(s) THEN s.options ELSE Unset
    BY <1>6, <2>2, AssignedIs
  <2>4. u.options = IF LastFull(A \o B) = Unset THEN Unset ELSE LastFull(A \o B).options
    <3>1. CASE LastFull(B) # Unset
      BY <1>2, <1>4, <1>6, <2>1, <2>3, <3>1 DEF IsFull
    <3>2. CASE LastFull(B) = Unset
      <4>1. ~IsFull(t)
        BY <2>1, <3>2 DEF IsFull
      <4>2. CASE LastFull(A) = Unset
        <5>1. ~IsFull(s)
          BY <4>2 DEF IsFull, Sums
        <5> QED
          BY <1>2, <2>3, <3>2, <4>1, <4>2, <5>1
      <4>3. CASE LastFull(A) # Unset
        <5>1. IsFull(s) /\ s.options = LastFull(A).options
          BY <1>4, <4>3 DEF IsFull, Sums
        <5> QED
          BY <1>2, <2>3, <3>2, <4>1, <4>3, <5>1
      <4> QED
        BY <4>2, <4>3
    <3> QED
      BY <3>1, <3>2
  <2>5. LastSet(A \o B) = LastSet(B)
    BY <1>2, <2>1
  <2> QED
    BY <2>1, <2>2, <2>3, <2>4, <2>5 DEF Sums
<1> QED
  BY <1>5, <1>6

LEMMA SumsOne ==
  ASSUME NEW l \in Layers
  PROVE  Sums(OfFormat(l), <<l>>) /\ Sums(Unset, <<>>)
<1> DEFINE full == {x \in Settings : IsFull(x)}
<1>1. Unset \notin Settings /\ Unset \notin full /\ OfFormat(l) \in Settings \cup {Unset}
  BY ConfigAssumption, LayersAre
<1>2. /\ LastSet(<<l>>) = OfFormat(l) /\ LastSet(<<>>) = Unset
  BY <1>1, LastOfOne DEF LastSet
<1>3. /\ LastFull(<<l>>) = (IF OfFormat(l) \in full THEN OfFormat(l) ELSE Unset)
  BY <1>1, LastOfOne DEF LastFull
<1>4. OfFormat(l) # Unset /\ OfFormat(l) \notin full => OfFormat(l).options = Unset
  BY <1>1 DEF IsFull
<1> QED
  BY <1>1, <1>2, <1>3, <1>4 DEF Sums

(* What a merged layer says of the layers it is merged from. *)

Says(r, L) ==
  /\ r \in Layers /\ L \in Seq(Layers)
  /\ r = NoLayer <=> \A i \in DOMAIN L : L[i] \in {NoLayer}
  /\ General(L) => r.versioned = Unset
  /\ Specific(L) => r.rules = Unset
  /\ General(L) \/ Specific(L) => Sums(OfFormat(r), L)

LEMMA AllOfBoth ==
  ASSUME NEW A \in Seq(Layers), NEW B \in Seq(Layers), NEW S
  PROVE  (\A i \in DOMAIN (A \o B) : (A \o B)[i] \in S)
           <=> (\A i \in DOMAIN A : A[i] \in S) /\ (\A i \in DOMAIN B : B[i] \in S)
<1> DEFINE C == A \o B
<1>1. /\ C \in Seq(Layers) /\ Len(C) = Len(A) + Len(B) /\ Len(A) \in Nat /\ Len(B) \in Nat
      /\ \A i \in 1..Len(C) : C[i] = IF i <= Len(A) THEN A[i] ELSE B[i - Len(A)]
      /\ DOMAIN A = 1..Len(A) /\ DOMAIN B = 1..Len(B)
  BY ConcatProperties, LenProperties
<1>2. DOMAIN C = 1..Len(C)
  <2> HIDE DEF C
  <2> QED
    BY <1>1, LenProperties
<1> HIDE DEF C
<1>3. ASSUME \A i \in 1..Len(C) : C[i] \in S
      PROVE  (\A i \in 1..Len(A) : A[i] \in S) /\ (\A i \in 1..Len(B) : B[i] \in S)
  <2>1. ASSUME NEW i \in 1..Len(A) PROVE A[i] \in S
    <3>1. i \in 1..Len(C) /\ i <= Len(A)
      BY <1>1
    <3> QED
      BY <1>1, <1>3, <3>1
  <2>2. ASSUME NEW i \in 1..Len(B) PROVE B[i] \in S
    <3>1. Len(A) + i \in 1..Len(C) /\ ~(Len(A) + i <= Len(A)) /\ (Len(A) + i) - Len(A) = i
      BY <1>1
    <3> QED
      BY <1>1, <1>3, <3>1
  <2> QED
    BY <2>1, <2>2
<1>4. ASSUME \A i \in 1..Len(A) : A[i] \in S, \A i \in 1..Len(B) : B[i] \in S,
             NEW k \in 1..Len(C)
      PROVE  C[k] \in S
  <2>1. CASE k <= Len(A)
    BY <1>1, <1>4, <2>1
  <2>2. CASE ~(k <= Len(A))
    <3>1. k - Len(A) \in 1..Len(B)
      BY <1>1, <2>2
    <3> QED
      BY <1>1, <1>4, <2>2, <3>1
  <2> QED
    BY <2>1, <2>2
<1>5. (\A i \in DOMAIN C : C[i] \in S)
        <=> (\A i \in DOMAIN A : A[i] \in S) /\ (\A i \in DOMAIN B : B[i] \in S)
  BY <1>1, <1>2, <1>3, <1>4
<1> QED
  BY <1>5 DEF C

LEMMA SaysBoth ==
  ASSUME NEW a, NEW b, NEW A, NEW B, Says(a, A), Says(b, B)
  PROVE  Says(Merged(a, b), A \o B)
<1>1. /\ a \in Layers /\ b \in Layers /\ A \in Seq(Layers) /\ B \in Seq(Layers)
      /\ A \o B \in Seq(Layers)
  BY ConcatProperties DEF Says
<1>2. PICK r : r = Merged(a, b)
  OBVIOUS
<1>3. /\ r \in Layers /\ r.rules = Assigned(a.rules, b.rules)
      /\ r.versioned = AssignedIfThere(Assigned(a.versioned, b.versioned), b.rules)
      /\ r = NoLayer <=> a = NoLayer /\ b = NoLayer
  BY <1>1, <1>2, MergedIs
<1>4. /\ a.rules \in Settings \cup {Unset} /\ a.versioned \in Settings \cup {Unset}
      /\ b.rules \in Settings \cup {Unset} /\ b.versioned \in Settings \cup {Unset}
      /\ Assigned(Unset, Unset) = Unset
  BY <1>1, LayersAre, AssignedIs
<1>5. General(A \o B) <=> General(A) /\ General(B)
  <2> DEFINE S == {l \in Layers : l.versioned = Unset}
  <2>1. \A L \in Seq(Layers) : General(L) <=> \A i \in DOMAIN L : L[i] \in S
    BY LenProperties DEF General
  <2> HIDE DEF S
  <2> QED
    BY <1>1, <2>1, AllOfBoth
<1>6. Specific(A \o B) <=> Specific(A) /\ Specific(B)
  <2> DEFINE S == {l \in Layers : l.rules = Unset}
  <2>1. \A L \in Seq(Layers) : Specific(L) <=> \A i \in DOMAIN L : L[i] \in S
    BY LenProperties DEF Specific
  <2> HIDE DEF S
  <2> QED
    BY <1>1, <2>1, AllOfBoth
<1>7. r = NoLayer <=> \A i \in DOMAIN (A \o B) : (A \o B)[i] \in {NoLayer}
  BY <1>1, <1>3, AllOfBoth DEF Says
<1>8. ASSUME General(A \o B)
      PROVE  r.versioned = Unset /\ Sums(OfFormat(r), A \o B)
  <2>1. a.versioned = Unset /\ b.versioned = Unset
    BY <1>5, <1>8 DEF Says
  <2>2. r.versioned = Unset
    BY <1>3, <1>4, <2>1 DEF AssignedIfThere
  <2>3. OfFormat(r) = Assigned(a.rules, b.rules) /\ OfFormat(a) = a.rules /\ OfFormat(b) = b.rules
    BY <1>3, <2>1, <2>2 DEF OfFormat
  <2>4. Sums(a.rules, A) /\ Sums(b.rules, B)
    BY <1>5, <1>8, <2>3 DEF Says
  <2> QED
    BY <1>1, <1>4, <2>2, <2>3, <2>4, SumsBoth
<1>9. ASSUME Specific(A \o B)
      PROVE  r.rules = Unset /\ Sums(OfFormat(r), A \o B)
  <2>1. a.rules = Unset /\ b.rules = Unset
    BY <1>6, <1>9 DEF Says
  <2>2. r.rules = Unset
    BY <1>3, <1>4, <2>1
  <2>3. PICK v : v = Assigned(a.versioned, b.versioned)
    OBVIOUS
  <2>4. r.versioned = v
    <3>1. v \in Settings \cup {Unset}
      BY <1>4, <2>3, AssignedIs
    <3> QED
      BY <1>3, <2>1, <2>3, <3>1, AssignedIs DEF AssignedIfThere
  <2>5. OfFormat(r) = v /\ OfFormat(a) = a.versioned /\ OfFormat(b) = b.versioned
    BY <2>1, <2>2, <2>4 DEF OfFormat
  <2>6. Sums(a.versioned, A) /\ Sums(b.versioned, B)
    BY <1>6, <1>9, <2>5 DEF Says
  <2> QED
    BY <1>1, <1>4, <2>2, <2>3, <2>5, <2>6, SumsBoth
<1> QED
  BY <1>1, <1>2, <1>3, <1>7, <1>8, <1>9 DEF Says

LEMMA SaysOne ==
  ASSUME NEW l \in Layers
  PROVE  Says(l, <<l>>) /\ Says(NoLayer, <<>>)
<1>1. ASSUME NEW L, L = <<l>> PROVE L \in Seq(Layers) /\ DOMAIN L = {1} /\ L[1] = l
  BY <1>1
<1>2. Says(l, <<l>>)
  <2>1. PICK L : L = <<l>>
    OBVIOUS
  <2>2. L \in Seq(Layers) /\ DOMAIN L = {1} /\ L[1] = l /\ Sums(OfFormat(l), L)
    BY <1>1, <2>1, SumsOne
  <2> QED
    BY <2>1, <2>2 DEF Says, General, Specific
<1>3. Says(NoLayer, <<>>)
  <2>1. PICK L : L = <<>>
    OBVIOUS
  <2>2. L \in Seq(Layers) /\ DOMAIN L = {} /\ NoLayer \in Layers
    BY <2>1, LayersAre
  <2>3. Sums(OfFormat(NoLayer), L) /\ NoLayer.rules = Unset /\ NoLayer.versioned = Unset
    BY <2>1, SumsOne DEF OfFormat, NoLayer
  <2> QED
    BY <2>1, <2>2, <2>3 DEF Says
<1> QED
  BY <1>2, <1>3

\* What mergeExtends has after each layer.
LEMMA MergeExtendsIs ==
  ASSUME NEW parts \in Seq(Layers)
  PROVE  \E m : /\ m[0] = NoLayer /\ m[0] \in Layers /\ MergeExtends(parts) = m[Len(parts)]
                /\ \A i \in 1..Len(parts) : m[i] = Merged(m[i - 1], parts[i]) /\ m[i] \in Layers
<1> DEFINE Is(m, k) == m = [i \in 0..k |-> IF i = 0 THEN NoLayer ELSE Merged(m[i - 1], parts[i])]
           S == {k \in Nat : \E m : Is(m, k)}
<1>1. Len(parts) \in Nat /\ \A i \in 1..Len(parts) : parts[i] \in Layers
  BY LenProperties
<1>2. 0 \in S
  <2>1. Is([i \in 0..0 |-> NoLayer], 0)
    OBVIOUS
  <2> QED
    BY <2>1
<1>3. ASSUME NEW k \in Nat, k \in S PROVE k + 1 \in S
  <2>1. PICK m : Is(m, k)
    BY <1>3
  <2> DEFINE h == [i \in 0..k + 1 |-> IF i = 0 THEN NoLayer ELSE Merged(m[i - 1], parts[i])]
  <2>2. \A i \in 0..k : h[i] = m[i]
    <3> TAKE i \in 0..k
    <3>1. i \in 0..k + 1
      OBVIOUS
    <3>2. m[i] = IF i = 0 THEN NoLayer ELSE Merged(m[i - 1], parts[i])
      BY <2>1, Zenon
    <3> QED
      BY <3>1, <3>2
  <2>3. \A i \in 0..k + 1 : i # 0 => h[i - 1] = m[i - 1]
    <3> TAKE i \in 0..k + 1
    <3> HAVE i # 0
    <3>1. i - 1 \in 0..k
      OBVIOUS
    <3> QED
      BY <2>2, <3>1
  <2>4. h = [i \in 0..k + 1 |-> IF i = 0 THEN NoLayer ELSE Merged(h[i - 1], parts[i])]
    BY <2>3
  <2>5. \E f : Is(f, k + 1)
    <3> HIDE DEF h
    <3> QED
      BY <2>4, Zenon
  <2> HIDE DEF Is
  <2> QED
    BY <2>5
<1>4. Len(parts) \in S
  <2> HIDE DEF S
  <2>1. \A k \in Nat : k \in S
    BY <1>2, <1>3, SetInduction
  <2> QED
    BY <1>1, <2>1
<1> DEFINE merged == CHOOSE m : Is(m, Len(parts))
<1>5. Is(merged, Len(parts))
  BY <1>4
<1>6. MergeExtends(parts) = merged[Len(parts)]
  BY DEF MergeExtends
<1>7. PICK m : Is(m, Len(parts)) /\ MergeExtends(parts) = m[Len(parts)]
  BY <1>5, <1>6
<1>8. m[0] = NoLayer /\ \A i \in 1..Len(parts) : m[i] = Merged(m[i - 1], parts[i])
  <2>1. \A i \in 0..Len(parts) : m[i] = IF i = 0 THEN NoLayer ELSE Merged(m[i - 1], parts[i])
    BY <1>7
  <2>2. 0 \in 0..Len(parts) /\ \A i \in 1..Len(parts) : i \in 0..Len(parts) /\ i # 0
    BY <1>1
  <2> HIDE DEF Is
  <2> QED
    BY <2>1, <2>2
<1> HIDE DEF Is
<1>9. \A i \in Nat : i <= Len(parts) => m[i] \in Layers
  <2> DEFINE D == {i \in Nat : i <= Len(parts) => m[i] \in Layers}
  <2>1. 0 \in D
    BY <1>8 DEF NoLayer, Layers
  <2>2. ASSUME NEW i \in Nat, i \in D PROVE i + 1 \in D
    <3>1. CASE i + 1 <= Len(parts)
      <4>1. i + 1 \in 1..Len(parts) /\ (i + 1) - 1 = i /\ m[i] \in Layers
        BY <1>1, <2>2, <3>1
      <4>2. m[i + 1] = Merged(m[i], parts[i + 1])
        BY <1>8, <4>1
      <4> QED
        BY <1>1, <4>1, <4>2, MergedIs
    <3> QED
      BY <3>1
  <2> HIDE DEF D
  <2>3. \A i \in Nat : i \in D
    BY <2>1, <2>2, SetInduction
  <2> QED
    BY <2>3 DEF D
<1>10. \A i \in 1..Len(parts) : m[i] \in Layers
  BY <1>1, <1>9
<1> QED
  BY <1>7, <1>8, <1>10, LayersAre DEF NoLayer, Layers

\* If each part sums up some layers, what they are merged into sums up all of them.
LEMMA MergeSays ==
  ASSUME NEW parts \in Seq(Layers), NEW W, W[0] = <<>>,
         \A i \in 1..Len(parts) : \E w : Says(parts[i], w) /\ W[i] = W[i - 1] \o w
  PROVE  Says(MergeExtends(parts), W[Len(parts)])
<1>1. PICK m : /\ m[0] = NoLayer /\ MergeExtends(parts) = m[Len(parts)]
               /\ \A i \in 1..Len(parts) : m[i] = Merged(m[i - 1], parts[i])
  BY MergeExtendsIs
<1> DEFINE S == {i \in Nat : i <= Len(parts) => Says(m[i], W[i])}
<1>2. Len(parts) \in Nat
  BY LenProperties
<1>3. 0 \in S
  <2>1. NoLayer \in Layers
    BY DEF NoLayer, Layers
  <2>2. Says(NoLayer, <<>>)
    BY <2>1, SaysOne
  <2> QED
    BY <1>1, <2>2
<1>4. ASSUME NEW i \in Nat, i \in S PROVE i + 1 \in S
  <2>1. CASE i + 1 <= Len(parts)
    <3>1. i + 1 \in 1..Len(parts) /\ (i + 1) - 1 = i /\ Says(m[i], W[i])
      BY <1>2, <1>4, <2>1
    <3>2. PICK w : Says(parts[i + 1], w) /\ W[i + 1] = W[i] \o w
      BY <3>1
    <3>3. m[i + 1] = Merged(m[i], parts[i + 1])
      BY <1>1, <3>1
    <3>4. Says(m[i + 1], W[i + 1])
      BY <3>1, <3>2, <3>3, SaysBoth
    <3> QED
      BY <3>4
  <2> QED
    BY <2>1
<1> HIDE DEF S
<1>5. \A i \in Nat : i \in S
  BY <1>3, <1>4, SetInduction
<1>6. Says(m[Len(parts)], W[Len(parts)])
  BY <1>2, <1>5 DEF S
<1> QED
  BY <1>1, <1>6

\* The last part is merged over something.
LEMMA MergeLast ==
  ASSUME NEW parts \in Seq(Layers), NEW own \in Layers
  PROVE  \E x \in Layers : MergeExtends(Append(parts, own)) = Merged(x, own)
<1> DEFINE all == Append(parts, own)
<1>1. /\ all \in Seq(Layers) /\ Len(all) = Len(parts) + 1 /\ all[Len(parts) + 1] = own
      /\ Len(parts) \in Nat
  BY AppendProperties, LenProperties
<1> HIDE DEF all
<1>2. PICK m : /\ m[0] \in Layers /\ MergeExtends(all) = m[Len(all)]
               /\ \A i \in 1..Len(all) : m[i] = Merged(m[i - 1], all[i]) /\ m[i] \in Layers
  BY <1>1, MergeExtendsIs
<1>3. Len(all) \in 1..Len(all) /\ Len(all) - 1 = Len(parts)
  BY <1>1
<1>4. m[Len(all)] = Merged(m[Len(parts)], own)
  BY <1>1, <1>2, <1>3
<1>5. m[Len(parts)] \in Layers
  <2>1. Len(parts) = 0 \/ Len(parts) \in 1..Len(all)
    BY <1>1
  <2> QED
    BY <1>2, <2>1
<1> QED
  BY <1>2, <1>4, <1>5 DEF all

LEMMA MergeTwo ==
  ASSUME NEW a \in Layers, NEW b \in Layers
  PROVE  MergeExtends(<<a, b>>) = Merged(Merged(NoLayer, a), b) /\ Merged(NoLayer, a) \in Layers
<1> DEFINE both == <<a, b>>
<1>1. both \in Seq(Layers) /\ Len(both) = 2 /\ both[1] = a /\ both[2] = b
  OBVIOUS
<1> HIDE DEF both
<1>2. PICK m : /\ m[0] = NoLayer /\ MergeExtends(both) = m[Len(both)]
               /\ \A i \in 1..Len(both) : m[i] = Merged(m[i - 1], both[i]) /\ m[i] \in Layers
  BY <1>1, MergeExtendsIs
<1>3. m[1] = Merged(m[0], a) /\ m[2] = Merged(m[1], b) /\ m[1] \in Layers
  <2>1. 1 \in 1..Len(both) /\ 2 \in 1..Len(both) /\ 1 - 1 = 0 /\ 2 - 1 = 1
    BY <1>1
  <2> QED
    BY <1>1, <1>2, <2>1
<1> QED
  BY <1>1, <1>2, <1>3 DEF both

LEMMA ExtendedBySays ==
  ASSUME NEW presets \in Seq(Layers), NEW own \in Layers
  PROVE  Says(ExtendedBy(presets, own), Append(presets, own))
<1>1. CASE presets = <<>>
  <2>1. Append(presets, own) = <<own>>
    BY <1>1
  <2> QED
    BY <1>1, <2>1, SaysOne DEF ExtendedBy
<1>2. CASE presets # <<>>
  <2> DEFINE all == Append(presets, own)
             W == [i \in 0..Len(all) |-> [j \in 1..i |-> all[j]]]
  <2>1. /\ all \in Seq(Layers) /\ Len(all) \in Nat
        /\ \A i \in 1..Len(all) : all[i] \in Layers
    BY AppendProperties, LenProperties
  <2> HIDE DEF all
  <2>2. ASSUME NEW i \in 0..Len(all)
        PROVE  W[i] \in Seq(Layers) /\ Len(W[i]) = i /\ \A j \in 1..i : W[i][j] = all[j]
    <3>1. PICK w : w = [j \in 1..i |-> all[j]]
      OBVIOUS
    <3>2. w \in Seq(Layers)
      <4>1. \A j \in 1..i : all[j] \in Layers
        BY <2>1
      <4> QED
        BY <3>1, <4>1, IsASeq
    <3>3. Len(w) = i
      BY <3>1, <3>2, LenProperties
    <3> QED
      BY <3>1, <3>2, <3>3
  <2>3. W[0] = <<>>
    <3>1. 0 \in 0..Len(all)
      BY <2>1
    <3>2. W[0] \in Seq(Layers) /\ Len(W[0]) = 0
      BY <2>2, <3>1
    <3> HIDE DEF W
    <3> QED
      BY <3>2, EmptySeq
  <2>4. W[Len(all)] = all
    <3>1. Len(all) \in 0..Len(all)
      BY <2>1
    <3>2. W[Len(all)] \in Seq(Layers) /\ Len(W[Len(all)]) = Len(all)
          /\ \A j \in 1..Len(all) : W[Len(all)][j] = all[j]
      BY <2>2, <3>1
    <3> HIDE DEF W
    <3> QED
      BY <2>1, <3>2, SeqEqual
  <2>5. ASSUME NEW i \in 1..Len(all) PROVE W[i] = W[i - 1] \o <<all[i]>>
    <3>1. i \in 0..Len(all) /\ i - 1 \in 0..Len(all)
      BY <2>1
    <3>2. /\ W[i] \in Seq(Layers) /\ Len(W[i]) = i /\ \A j \in 1..i : W[i][j] = all[j]
          /\ W[i - 1] \in Seq(Layers) /\ Len(W[i - 1]) = i - 1
          /\ \A j \in 1..i - 1 : W[i - 1][j] = all[j]
      BY <2>2, <3>1
    <3> HIDE DEF W
    <3>3. PICK u, v, x : u = W[i] /\ v = W[i - 1] /\ x = all[i]
      OBVIOUS
    <3>4. /\ v \o <<x>> \in Seq(Layers) /\ Len(v \o <<x>>) = i
          /\ \A j \in 1..i : (v \o <<x>>)[j] = IF j <= i - 1 THEN v[j] ELSE x
      <4>1. <<x>> \in Seq(Layers) /\ Len(<<x>>) = 1 /\ <<x>>[1] = x
        BY <2>1, <3>3
      <4>2. PICK y : y = <<x>>
        OBVIOUS
      <4>3. /\ v \o y \in Seq(Layers) /\ Len(v \o y) = Len(v) + Len(y)
            /\ \A j \in 1..Len(v) + Len(y) : (v \o y)[j] = IF j <= Len(v) THEN v[j] ELSE y[j - Len(v)]
        BY <3>2, <3>3, <4>1, <4>2, ConcatProperties
      <4>4. \A j \in 1..i : ~(j <= i - 1) => j - (i - 1) = 1
        BY <3>1
      <4>5. Len(v) + Len(y) = i /\ Len(v) = i - 1
        BY <3>1, <3>2, <3>3, <4>1, <4>2
      <4> QED
        BY <4>1, <4>2, <4>3, <4>4, <4>5
    <3>5. \A j \in 1..i : u[j] = (v \o <<x>>)[j]
      <4>1. \A j \in 1..i : j <= i - 1 => j \in 1..i - 1
        OBVIOUS
      <4>2. \A j \in 1..i : ~(j <= i - 1) => j = i
        OBVIOUS
      <4> QED
        BY <3>2, <3>3, <3>4, <4>1, <4>2
    <3>6. u = v \o <<x>>
      BY <3>2, <3>3, <3>4, <3>5, SeqEqual
    <3> QED
      BY <3>3, <3>6
  <2>6. Says(MergeExtends(all), W[Len(all)])
    <3>1. \A i \in 1..Len(all) : \E w : Says(all[i], w) /\ W[i] = W[i - 1] \o w
      <4> HIDE DEF W
      <4> QED
        BY <2>1, <2>5, SaysOne
    <3> HIDE DEF W
    <3> QED
      BY <2>1, <2>3, <3>1, MergeSays
  <2> HIDE DEF W
  <2> QED
    BY <1>2, <2>4, <2>6 DEF ExtendedBy, all
<1> QED
  BY <1>1, <1>2

\* What has been written up to each preset.
LEMMA WrittenIs ==
  ASSUME NEW presets \in Seq(Presets)
  PROVE  \E m : /\ m[0] = <<>> /\ WrittenIn(presets) = m[Len(presets)]
                /\ \A i \in 1..Len(presets) : m[i] = m[i - 1] \o LayersIn(presets[i])
<1> DEFINE Is(m, k) ==
             m = [i \in 0..k |-> IF i = 0 THEN <<>> ELSE m[i - 1] \o LayersIn(presets[i])]
           S == {k \in Nat : \E m : Is(m, k)}
<1>1. Len(presets) \in Nat
  BY LenProperties
<1>2. 0 \in S
  <2>1. Is([i \in 0..0 |-> <<>>], 0)
    OBVIOUS
  <2> QED
    BY <2>1
<1>3. ASSUME NEW k \in Nat, k \in S PROVE k + 1 \in S
  <2>1. PICK m : Is(m, k)
    BY <1>3
  <2> DEFINE h == [i \in 0..k + 1 |-> IF i = 0 THEN <<>> ELSE m[i - 1] \o LayersIn(presets[i])]
  <2>2. \A i \in 0..k : h[i] = m[i]
    <3> TAKE i \in 0..k
    <3>1. i \in 0..k + 1
      OBVIOUS
    <3>2. m[i] = IF i = 0 THEN <<>> ELSE m[i - 1] \o LayersIn(presets[i])
      BY <2>1, Zenon
    <3> QED
      BY <3>1, <3>2
  <2>3. \A i \in 0..k + 1 : i # 0 => h[i - 1] = m[i - 1]
    <3> TAKE i \in 0..k + 1
    <3> HAVE i # 0
    <3>1. i - 1 \in 0..k
      OBVIOUS
    <3> QED
      BY <2>2, <3>1
  <2>4. h = [i \in 0..k + 1 |-> IF i = 0 THEN <<>> ELSE h[i - 1] \o LayersIn(presets[i])]
    BY <2>3
  <2>5. \E f : Is(f, k + 1)
    <3> HIDE DEF h
    <3> QED
      BY <2>4, Zenon
  <2> HIDE DEF Is
  <2> QED
    BY <2>5
<1>4. Len(presets) \in S
  <2> HIDE DEF S
  <2>1. \A k \in Nat : k \in S
    BY <1>2, <1>3, SetInduction
  <2> QED
    BY <1>1, <2>1
<1> DEFINE written == CHOOSE m : Is(m, Len(presets))
<1>5. Is(written, Len(presets))
  BY <1>4
<1>6. WrittenIn(presets) = written[Len(presets)]
  BY DEF WrittenIn
<1>7. PICK m : Is(m, Len(presets)) /\ WrittenIn(presets) = m[Len(presets)]
  BY <1>5, <1>6
<1>8. m[0] = <<>> /\ \A i \in 1..Len(presets) : m[i] = m[i - 1] \o LayersIn(presets[i])
  <2>1. \A i \in 0..Len(presets) : m[i] = IF i = 0 THEN <<>> ELSE m[i - 1] \o LayersIn(presets[i])
    BY <1>7
  <2>2. 0 \in 0..Len(presets) /\ \A i \in 1..Len(presets) : i \in 0..Len(presets) /\ i # 0
    BY <1>1
  <2> HIDE DEF Is
  <2> QED
    BY <2>1, <2>2
<1> QED
  BY <1>7, <1>8

\* What resolveConfig makes of a configuration.
RootOf == ExtendedBy(ExtendedAll(file.extends), file.own)
OwnApi == ExtendedBy(file.api.extends, file.api.own)
ApiOf == MergeExtends(<<RootOf, OwnApi>>)

LEMMA FileIs ==
  ASSUME file \in ConfigFiles
  PROVE  /\ file.extends \in Seq(Presets) /\ file.own \in Layers
         /\ file.api.extends \in Seq(Layers) /\ file.api.own \in Layers
         /\ \A p \in Presets : p.extends \in Seq(Layers) /\ p.own \in Layers
<1>1. \A p \in Presets : p.extends \in Seq(Layers) /\ p.own \in Layers
  BY ConfigAssumption
<1>2. file \in [extends : Seq(Presets), own : Layers, api : Presets]
  BY ConfigAssumption
<1> QED
  BY <1>1, <1>2

LEMMA RootSays == ASSUME file \in ConfigFiles PROVE Says(RootOf, OfRoot)
<1> DEFINE presets == file.extends
           own == file.own
           n == Len(presets)
<1>1. /\ presets \in Seq(Presets) /\ own \in Layers /\ n \in Nat /\ DOMAIN presets = 1..n
      /\ \A i \in 1..n : presets[i].extends \in Seq(Layers) /\ presets[i].own \in Layers
  BY FileIs, LenProperties
<1>2. RootOf = ExtendedBy(ExtendedAll(presets), own) /\ OfRoot = Append(WrittenIn(presets), own)
  BY DEF RootOf, OfRoot
<1> HIDE DEF presets, own
<1>3. PICK m : /\ m[0] = <<>> /\ WrittenIn(presets) = m[n]
               /\ \A i \in 1..n : m[i] = m[i - 1] \o LayersIn(presets[i])
  BY <1>1, WrittenIs
<1>4. PICK all : all = ExtendedAll(presets)
  OBVIOUS
<1>5. \A i \in 1..n : ExtendedBy(presets[i].extends, presets[i].own) \in Layers
  BY <1>1, ExtendedBySays DEF Says
<1>6. all \in Seq(Layers) /\ Len(all) = n
  <2>1. all = [i \in 1..n |-> ExtendedBy(presets[i].extends, presets[i].own)]
    BY <1>1, <1>4 DEF ExtendedAll
  <2>2. all \in Seq(Layers)
    BY <1>1, <1>5, <2>1, IsASeq
  <2> QED
    BY <1>1, <2>1, <2>2, LenProperties
<1>7. \A i \in 1..n : Says(all[i], LayersIn(presets[i]))
  BY <1>1, <1>4, ExtendedBySays DEF ExtendedAll, LayersIn
<1>8. CASE n = 0
  <2>1. all = <<>> /\ WrittenIn(presets) = <<>>
    BY <1>3, <1>6, <1>8, EmptySeq
  <2>2. RootOf = own /\ OfRoot = <<own>>
    BY <1>2, <1>4, <2>1 DEF ExtendedBy
  <2> QED
    BY <1>1, <2>2, SaysOne
<1>9. CASE n # 0
  <2>1. all # <<>>
    BY <1>6, <1>9, EmptySeq
  <2>2. PICK parts : parts = Append(all, own)
    OBVIOUS
  <2>3. /\ parts \in Seq(Layers) /\ Len(parts) = n + 1 /\ parts[n + 1] = own
        /\ \A i \in 1..n : parts[i] = all[i]
    BY <1>1, <1>6, <2>2, AppendProperties
  <2> DEFINE W == [i \in 0..n + 1 |-> IF i <= n THEN m[i] ELSE m[n] \o <<own>>]
  <2>4. W[0] = <<>> /\ W[n + 1] = m[n] \o <<own>> /\ \A i \in 0..n : W[i] = m[i]
    BY <1>1, <1>3
  <2> HIDE DEF W
  <2>5. ASSUME NEW i \in 1..Len(parts)
        PROVE  \E w : Says(parts[i], w) /\ W[i] = W[i - 1] \o w
    <3>1. CASE i <= n
      <4>1. i \in 1..n /\ i \in 0..n /\ i - 1 \in 0..n
        BY <1>1, <2>3, <3>1
      <4>2. W[i] = W[i - 1] \o LayersIn(presets[i]) /\ Says(parts[i], LayersIn(presets[i]))
        BY <1>3, <1>7, <2>3, <2>4, <4>1
      <4> QED
        BY <4>2
    <3>2. CASE ~(i <= n)
      <4>1. i = n + 1 /\ i - 1 = n /\ n \in 0..n
        BY <1>1, <2>3, <3>2
      <4>2. W[i] = W[i - 1] \o <<own>> /\ Says(parts[i], <<own>>)
        BY <1>1, <2>3, <2>4, <4>1, SaysOne
      <4> QED
        BY <4>2
    <3> QED
      BY <3>1, <3>2
  <2>6. Says(MergeExtends(parts), W[Len(parts)])
    BY <2>3, <2>4, <2>5, MergeSays
  <2>7. RootOf = MergeExtends(parts)
    BY <1>2, <1>4, <2>1, <2>2 DEF ExtendedBy
  <2>8. W[Len(parts)] = OfRoot
    <3>1. W[n] \in Seq(Layers)
      <4> DEFINE S == {i \in Nat : i <= n => m[i] \in Seq(Layers)}
      <4>1. 0 \in S
        BY <1>3, EmptySeq
      <4>2. ASSUME NEW i \in Nat, i \in S PROVE i + 1 \in S
        <5>1. CASE i + 1 <= n
          <6>1. i + 1 \in 1..n /\ (i + 1) - 1 = i /\ m[i] \in Seq(Layers)
            BY <1>1, <4>2, <5>1
          <6>2. LayersIn(presets[i + 1]) \in Seq(Layers)
            BY <1>7, <6>1 DEF Says
          <6>3. m[i + 1] = m[i] \o LayersIn(presets[i + 1])
            BY <1>3, <6>1
          <6>4. m[i + 1] \in Seq(Layers)
            BY <6>1, <6>2, <6>3, ConcatProperties
          <6> QED
            BY <6>4
        <5> QED
          BY <5>1
      <4>3. \A i \in Nat : i \in S
        <5> HIDE DEF S
        <5> QED
          BY <4>1, <4>2, SetInduction
      <4>4. m[n] \in Seq(Layers) /\ n \in 0..n
        BY <1>1, <4>3
      <4> QED
        BY <2>4, <4>4
    <3>2. m[n] = W[n]
      BY <1>1, <2>4
    <3>3. Append(m[n], own) = m[n] \o <<own>>
      <4>1. PICK s \in Seq(Layers) : s = m[n]
        BY <3>1, <3>2
      <4>2. Append(s, own) = s \o <<own>>
        BY <1>1, AppendIsConcat
      <4> QED
        BY <4>1, <4>2
    <3> QED
      BY <1>2, <1>3, <2>3, <2>4, <3>3
  <2> QED
    BY <2>6, <2>7, <2>8
<1> QED
  BY <1>8, <1>9

LEMMA ApiSays ==
  ASSUME file \in ConfigFiles
  PROVE  Says(ApiOf, OfApi) /\ Says(OwnApi, LayersIn(file.api))
<1>1. Says(RootOf, OfRoot) /\ Says(OwnApi, LayersIn(file.api))
  BY FileIs, RootSays, ExtendedBySays DEF OwnApi, LayersIn
<1>2. ApiOf = Merged(Merged(NoLayer, RootOf), OwnApi)
  BY <1>1, MergeTwo DEF Says, ApiOf
<1>3. Says(NoLayer, <<>>) /\ <<>> \o OfRoot = OfRoot
  BY <1>1, SaysOne, ConcatEmptySeq DEF Says
<1>4. Says(Merged(NoLayer, RootOf), OfRoot)
  BY <1>1, <1>3, SaysBoth
<1> QED
  BY <1>1, <1>2, <1>4, SaysBoth DEF OfApi

------------------------------------------------------------------------------
(* Who overrides whom. *)

LEMMA SeverityOfAssigned ==
  ASSUME NEW old \in Settings \cup {Unset}, NEW new \in Settings \cup {Unset}, new # Unset
  PROVE  Severity(Assigned(old, new)) = Severity(new) /\ Assigned(old, new) # Unset
  BY AssignedIs DEF Severity

\* A layer that says something overrides what it is merged over, its general setting
\* first.
LEMMA MergedWins ==
  ASSUME NEW x \in Layers, NEW l \in Layers, l # NoLayer
  PROVE  Severity(OfFormat(Merged(x, l))) = Severity(InLayer(l))
<1>1. PICK r : r = Merged(x, l)
  OBVIOUS
<1>2. PICK v : v = Assigned(x.versioned, l.versioned)
  OBVIOUS
<1>3. /\ x.rules \in Settings \cup {Unset} /\ l.rules \in Settings \cup {Unset}
      /\ x.versioned \in Settings \cup {Unset} /\ l.versioned \in Settings \cup {Unset}
      /\ l.rules # Unset \/ l.versioned # Unset
  BY LayersAre
<1>4. /\ r.rules = Assigned(x.rules, l.rules) /\ r.versioned = AssignedIfThere(v, l.rules)
      /\ v \in Settings \cup {Unset}
  BY <1>1, <1>2, <1>3, MergedIs, AssignedIs
<1>5. CASE l.rules # Unset
  <2>1. InLayer(l) = l.rules
    BY <1>5 DEF InLayer
  <2>2. CASE v = Unset
    <3>1. OfFormat(r) = Assigned(x.rules, l.rules)
      BY <1>4, <2>2 DEF AssignedIfThere, OfFormat
    <3> QED
      BY <1>1, <1>3, <1>5, <2>1, <3>1, SeverityOfAssigned
  <2>3. CASE v # Unset
    <3>1. r.versioned = Assigned(v, l.rules)
      BY <1>4, <2>3 DEF AssignedIfThere
    <3>2. Severity(Assigned(v, l.rules)) = Severity(l.rules) /\ Assigned(v, l.rules) # Unset
      BY <1>3, <1>4, <1>5, SeverityOfAssigned
    <3> QED
      BY <1>1, <2>1, <3>1, <3>2 DEF OfFormat
  <2> QED
    BY <2>2, <2>3
<1>6. CASE l.rules = Unset
  <2>1. InLayer(l) = l.versioned /\ l.versioned # Unset
    BY <1>3, <1>6 DEF InLayer
  <2>2. Severity(v) = Severity(l.versioned) /\ v # Unset
    BY <1>2, <1>3, <2>1, SeverityOfAssigned
  <2>3. r.versioned = v
    BY <1>4, <1>6, <2>2, AssignedIs DEF AssignedIfThere
  <2> QED
    BY <1>1, <2>1, <2>2, <2>3 DEF OfFormat
<1> QED
  BY <1>5, <1>6

\* What an API sets itself decides in what it is merged from.
LEMMA OwnApiIs ==
  ASSUME file \in ConfigFiles, IsNamed(file.api.own),
         (\E i \in DOMAIN file.api.extends : file.api.extends[i].rules # Unset)
           => file.api.own.rules # Unset
  PROVE  OwnApi # NoLayer /\ Severity(InLayer(OwnApi)) = Severity(InLayer(file.api.own))
<1> DEFINE own == file.api.own
           presets == file.api.extends
<1>1. presets \in Seq(Layers) /\ own \in Layers /\ own # NoLayer
  BY FileIs DEF IsNamed
<1>2. OwnApi = ExtendedBy(presets, own) /\ Says(OwnApi, Append(presets, own))
  BY <1>1, ExtendedBySays DEF OwnApi
<1>3. (\E i \in DOMAIN presets : presets[i].rules # Unset) => own.rules # Unset
  OBVIOUS
<1> HIDE DEF own, presets
<1>4. CASE presets = <<>>
  BY <1>1, <1>2, <1>4 DEF ExtendedBy, own
<1>5. CASE presets # <<>>
  <2>1. PICK x \in Layers : OwnApi = Merged(x, own)
    BY <1>1, <1>2, <1>5, MergeLast DEF ExtendedBy
  <2>2. /\ OwnApi.rules = Assigned(x.rules, own.rules)
        /\ OwnApi.versioned = AssignedIfThere(Assigned(x.versioned, own.versioned), own.rules)
        /\ OwnApi # NoLayer
    BY <1>1, <2>1, MergedIs
  <2>3. /\ x.rules \in Settings \cup {Unset} /\ own.rules \in Settings \cup {Unset}
        /\ x.versioned \in Settings \cup {Unset} /\ own.versioned \in Settings \cup {Unset}
        /\ own.rules # Unset \/ own.versioned # Unset
    BY <1>1, LayersAre
  <2>4. CASE own.rules # Unset
    BY <2>2, <2>3, <2>4, SeverityOfAssigned DEF InLayer, own
  <2>5. CASE own.rules = Unset
    <3>1. Specific(Append(presets, own))
      <4>1. /\ DOMAIN presets = 1..Len(presets) /\ Len(presets) \in Nat
            /\ DOMAIN Append(presets, own) = 1..Len(presets) + 1
            /\ Append(presets, own)[Len(presets) + 1] = own
            /\ \A i \in 1..Len(presets) : Append(presets, own)[i] = presets[i]
        BY <1>1, AppendProperties, LenProperties
      <4>2. ASSUME NEW i \in 1..Len(presets) + 1 PROVE Append(presets, own)[i].rules = Unset
        <5>1. CASE i = Len(presets) + 1
          BY <2>5, <4>1, <5>1
        <5>2. CASE i # Len(presets) + 1
          <6>1. i \in 1..Len(presets)
            BY <4>1, <5>2
          <6> QED
            BY <1>3, <2>5, <4>1, <6>1
        <5> QED
          BY <5>1, <5>2
      <4> QED
        BY <4>1, <4>2 DEF Specific
    <3>2. OwnApi.rules = Unset
      BY <1>2, <3>1 DEF Says
    <3>3. PICK v : v = Assigned(x.versioned, own.versioned)
      OBVIOUS
    <3>4. v # Unset /\ v \in Settings \cup {Unset} /\ Severity(v) = Severity(own.versioned)
      <4>1. own.versioned # Unset
        BY <2>3, <2>5
      <4>2. Assigned(x.versioned, own.versioned) \in Settings \cup {Unset}
        BY <2>3, AssignedIs
      <4>3. /\ Severity(Assigned(x.versioned, own.versioned)) = Severity(own.versioned)
            /\ Assigned(x.versioned, own.versioned) # Unset
        BY <2>3, <4>1, SeverityOfAssigned
      <4> QED
        BY <3>3, <4>2, <4>3
    <3>5. OwnApi.versioned = v
      BY <2>2, <2>5, <3>3, <3>4, AssignedIs DEF AssignedIfThere
    <3> QED
      BY <2>2, <2>5, <3>2, <3>4, <3>5 DEF InLayer, own
  <2> QED
    BY <2>4, <2>5
<1> QED
  BY <1>4, <1>5

------------------------------------------------------------------------------
(* The invariant: what is resolved and in force is what the file says. *)

ConfigInv ==
  /\ file \in ConfigFiles
  /\ resolved # Unset => resolved = [root |-> RootOf, api |-> ApiOf]
  /\ inForce # Unset =>
       /\ resolved # Unset /\ inForce.skips \in BOOLEAN
       /\ inForce.root = Skipping(OfFormat(RootOf), inForce.skips)
       /\ inForce.api = Skipping(OfFormat(ApiOf), inForce.skips)

LEMMA ConfigStarts == ConfigInit => ConfigInv
  BY DEF ConfigInit, ConfigStart, ConfigInv

LEMMA ConfigGoesOn == ConfigInv /\ [ConfigNext]_configVars => ConfigInv'
<1> SUFFICES ASSUME ConfigInv, [ConfigNext]_configVars PROVE ConfigInv'
  OBVIOUS
<1>1. file' = file
  BY DEF ConfigNext, Resolve, Construct, configVars
<1>2. RootOf' = RootOf /\ OwnApi' = OwnApi
  BY <1>1 DEF RootOf, OwnApi
<1>3. ApiOf' = ApiOf
  BY <1>2 DEF ApiOf
<1>4. CASE Resolve
  <2>1. resolved' = [root |-> RootOf, api |-> ApiOf] /\ inForce' = inForce /\ resolved = Unset
    BY <1>4 DEF Resolve, RootOf, ApiOf, OwnApi
  <2>2. inForce = Unset
    BY <2>1 DEF ConfigInv
  <2> QED
    BY <1>1, <1>2, <1>3, <2>1, <2>2 DEF ConfigInv
<1>5. ASSUME NEW b \in BOOLEAN, Construct(b) PROVE ConfigInv'
  <2>1. /\ resolved # Unset /\ resolved' = resolved
        /\ inForce' = [ root |-> Skipping(OfFormat(resolved.root), b),
                        api |-> Skipping(OfFormat(resolved.api), b), skips |-> b ]
    BY <1>5 DEF Construct
  <2>2. resolved.root = RootOf /\ resolved.api = ApiOf
    BY <2>1 DEF ConfigInv
  <2>3. /\ inForce'.skips = b /\ inForce'.root = Skipping(OfFormat(RootOf), b)
        /\ inForce'.api = Skipping(OfFormat(ApiOf), b)
    BY <2>1, <2>2
  <2> QED
    BY <1>1, <1>2, <1>3, <2>1, <2>3 DEF ConfigInv
<1>6. CASE UNCHANGED configVars
  BY <1>2, <1>3, <1>6 DEF ConfigInv, configVars
<1> QED
  BY <1>4, <1>5, <1>6 DEF ConfigNext

LEMMA ConfigSound == ASSUME ConfigInv PROVE ConfigIsSound
<1> SUFFICES ASSUME inForce # Unset
             PROVE  LastDecides /\ ApiOverrides /\ OwnOverrides /\ SilentApiFollowsRoot /\ SkippedIsOff
  BY DEF ConfigIsSound
<1>1. /\ file \in ConfigFiles /\ inForce.skips \in BOOLEAN
      /\ resolved.root = RootOf
      /\ inForce.root = Skipping(OfFormat(RootOf), inForce.skips)
      /\ inForce.api = Skipping(OfFormat(ApiOf), inForce.skips)
  BY DEF ConfigInv
<1>2. /\ Says(RootOf, OfRoot) /\ Says(ApiOf, OfApi) /\ Says(OwnApi, LayersIn(file.api))
      /\ ApiOf = Merged(Merged(NoLayer, RootOf), OwnApi) /\ Merged(NoLayer, RootOf) \in Layers
  <2>1. Says(RootOf, OfRoot) /\ Says(ApiOf, OfApi) /\ Says(OwnApi, LayersIn(file.api))
    BY <1>1, RootSays, ApiSays
  <2> QED
    BY <2>1, MergeTwo DEF Says, ApiOf
<1>3. RootOf \in Layers /\ ApiOf \in Layers /\ OwnApi \in Layers
  BY <1>2 DEF Says
<1>4. ASSUME NEW which \in {"root", "api"}
      PROVE  \E r : /\ Says(r, LayersOf(which)) /\ r \in Layers
                    /\ inForce[which] = Skipping(OfFormat(r), inForce.skips)
  <2>1. CASE which = "root"
    BY <1>1, <1>2, <1>3, <2>1 DEF LayersOf
  <2>2. CASE which = "api"
    BY <1>1, <1>2, <1>3, <2>2 DEF LayersOf
  <2> QED
    BY <2>1, <2>2
<1>5. ASSUME ~inForce.skips
      PROVE  inForce.root = OfFormat(RootOf) /\ inForce.api = OfFormat(ApiOf)
  BY <1>1, <1>5 DEF Skipping
<1>6. LastDecides
  <2> SUFFICES ASSUME NEW which \in {"root", "api"},
                      General(LayersOf(which)) \/ Specific(LayersOf(which)), ~inForce.skips
               PROVE  /\ Severity(inForce[which]) = Severity(LastSet(LayersOf(which)))
                      /\ inForce[which] # Unset =>
                           inForce[which].options =
                             IF LastFull(LayersOf(which)) = Unset THEN Unset
                             ELSE LastFull(LayersOf(which)).options
    BY DEF LastDecides
  <2>1. PICK r : /\ Says(r, LayersOf(which)) /\ r \in Layers
                 /\ inForce[which] = Skipping(OfFormat(r), inForce.skips)
    BY <1>4
  <2>2. inForce[which] = OfFormat(r)
    BY <2>1 DEF Skipping
  <2>3. Sums(inForce[which], LayersOf(which))
    BY <2>1, <2>2 DEF Says
  <2> QED
    BY <2>3 DEF Sums, Severity
<1>7. ApiOverrides
  <2> SUFFICES ASSUME IsNamed(file.api.own), ~inForce.skips,
                      (\E i \in DOMAIN file.api.extends : file.api.extends[i].rules # Unset)
                        => file.api.own.rules # Unset
               PROVE  Severity(inForce.api) = Severity(InLayer(file.api.own))
    BY DEF ApiOverrides
  <2>1. OwnApi # NoLayer /\ Severity(InLayer(OwnApi)) = Severity(InLayer(file.api.own))
    BY <1>1, OwnApiIs
  <2>2. Severity(OfFormat(ApiOf)) = Severity(InLayer(OwnApi))
    BY <1>2, <1>3, <2>1, MergedWins
  <2> QED
    BY <1>5, <2>1, <2>2
<1>8. OwnOverrides
  <2> SUFFICES ASSUME IsNamed(file.own), file.extends # <<>>, ~inForce.skips
               PROVE  Severity(inForce.root) = Severity(InLayer(file.own))
    BY DEF OwnOverrides
  <2>1. /\ file.extends \in Seq(Presets) /\ file.own \in Layers
        /\ \A p \in Presets : p.extends \in Seq(Layers) /\ p.own \in Layers
    BY <1>1, FileIs
  <2>2. PICK n : n = Len(file.extends)
    OBVIOUS
  <2>3. n \in Nat /\ DOMAIN file.extends = 1..n /\ n # 0
    BY <2>1, <2>2, LenProperties, EmptySeq
  <2>4. PICK all : all = ExtendedAll(file.extends)
    OBVIOUS
  <2>5. all = [i \in 1..n |-> ExtendedBy(file.extends[i].extends, file.extends[i].own)]
    BY <2>3, <2>4 DEF ExtendedAll
  <2>6. \A i \in 1..n : ExtendedBy(file.extends[i].extends, file.extends[i].own) \in Layers
    <3> TAKE i \in 1..n
    <3>1. file.extends[i] \in Presets
      BY <2>1, <2>2
    <3> QED
      BY <2>1, <3>1, ExtendedBySays DEF Says
  <2>7. all \in Seq(Layers)
    BY <2>3, <2>5, <2>6, IsASeq
  <2>8. all # <<>>
    <3>1. DOMAIN all = 1..n /\ DOMAIN all = 1..Len(all) /\ Len(all) \in Nat
      BY <2>5, <2>7, LenProperties
    <3>2. Len(all) # 0
      BY <2>3, <3>1
    <3> QED
      BY <3>2, EmptySeq
  <2>9. PICK x \in Layers : RootOf = Merged(x, file.own)
    BY <2>1, <2>4, <2>7, <2>8, MergeLast DEF RootOf, ExtendedBy
  <2> QED
    BY <1>5, <2>1, <2>9, MergedWins DEF IsNamed
<1>9. SilentApiFollowsRoot
  <2> SUFFICES ASSUME SaysNothing(file.api)
               PROVE  Severity(inForce.api) = Severity(inForce.root) \/
                        /\ resolved.root.rules # Unset /\ resolved.root.versioned # Unset
                        /\ Severity(inForce.api) = Severity(resolved.root.rules)
    BY DEF SilentApiFollowsRoot
  <2>1. OwnApi = NoLayer
    BY DEF OwnApi, SaysNothing, ExtendedBy
  <2>2. PICK r : r = RootOf
    OBVIOUS
  <2>3. /\ r \in Layers /\ r.rules \in Settings \cup {Unset} /\ r.versioned \in Settings \cup {Unset}
        /\ NoLayer \in Layers /\ NoLayer.rules = Unset /\ NoLayer.versioned = Unset
        /\ r = NoLayer <=> r.rules = Unset /\ r.versioned = Unset
    BY <1>3, <2>2, LayersAre DEF NoLayer
  <2>4. PICK w : w = Merged(NoLayer, r)
    OBVIOUS
  <2>5. w \in Layers /\ w.rules = r.rules /\ w.versioned = AssignedIfThere(r.versioned, r.rules)
    <3>1. Assigned(Unset, r.rules) = r.rules /\ Assigned(Unset, r.versioned) = r.versioned
      BY <2>3 DEF Assigned, IsFull
    <3> QED
      BY <2>3, <2>4, <3>1, MergedIs
  <2>6. ApiOf = w
    <3>1. /\ w = [rules |-> w.rules, versioned |-> w.versioned]
          /\ w.versioned \in Settings \cup {Unset}
      BY <2>5 DEF Layers
    <3>2. ApiOf = [rules |-> w.rules, versioned |-> AssignedIfThere(w.versioned, Unset)]
      BY <1>2, <2>1, <2>2, <2>3, <2>4 DEF Merged, Assigned
    <3>3. AssignedIfThere(w.versioned, Unset) = w.versioned
      BY <3>1 DEF AssignedIfThere, Assigned
    <3> QED
      BY <3>1, <3>2, <3>3
  <2>7. CASE inForce.skips
    <3>1. \A s : Severity(Skipping(s, inForce.skips)) = "off"
      BY <2>7, ConfigAssumption DEF Skipping, Severity, Off
    <3> QED
      BY <1>1, <3>1
  <2>8. CASE ~inForce.skips
    <3>1. inForce.root = OfFormat(r) /\ inForce.api = OfFormat(w)
      BY <1>5, <2>2, <2>6, <2>8
    <3>2. CASE r.rules = Unset \/ r.versioned = Unset
      <4>1. w.versioned = r.versioned
        BY <2>3, <2>5, <3>2 DEF AssignedIfThere, Assigned
      <4> QED
        BY <2>5, <3>1, <4>1 DEF OfFormat
    <3>3. CASE r.rules # Unset /\ r.versioned # Unset
      <4>1. w.versioned = Assigned(r.versioned, r.rules)
        BY <2>5, <3>3 DEF AssignedIfThere
      <4>2. Severity(w.versioned) = Severity(r.rules) /\ w.versioned # Unset
        BY <2>3, <3>3, <4>1, SeverityOfAssigned
      <4> QED
        BY <1>1, <2>2, <3>1, <3>3, <4>2 DEF OfFormat
    <3> QED
      BY <3>2, <3>3
  <2> QED
    BY <2>7, <2>8
<1>10. SkippedIsOff
  <2> SUFFICES ASSUME NEW which \in {"root", "api"}
               PROVE  /\ inForce.skips => Severity(inForce[which]) = "off"
                      /\ inForce[which] = Unset
                           <=> \A i \in DOMAIN LayersOf(which) : ~IsNamed(LayersOf(which)[i])
    BY DEF SkippedIsOff
  <2>1. PICK r : /\ Says(r, LayersOf(which)) /\ r \in Layers
                 /\ inForce[which] = Skipping(OfFormat(r), inForce.skips)
    BY <1>4
  <2>2. inForce.skips => Severity(inForce[which]) = "off"
    BY <2>1, ConfigAssumption DEF Skipping, Severity, Off
  <2>3. inForce[which] = Unset <=> OfFormat(r) = Unset
    <3>1. Off # Unset
      <4>1. Off \in Settings
        BY ConfigAssumption DEF Off, Settings
      <4> QED
        BY <4>1, ConfigAssumption
    <3> QED
      BY <2>1, <3>1 DEF Skipping
  <2>4. OfFormat(r) = Unset <=> r = NoLayer
    BY <2>1, LayersAre
  <2>5. r = NoLayer <=> \A i \in DOMAIN LayersOf(which) : ~IsNamed(LayersOf(which)[i])
    BY <2>1 DEF Says, IsNamed
  <2> QED
    BY <2>2, <2>3, <2>4, <2>5
<1> QED
  BY <1>6, <1>7, <1>8, <1>9, <1>10

\* The severity and the options that are in force for a rule, for the root and for
\* an API, are those that were written last, however many files are extended: what
\* mergeExtends, resolveConfig and Config make of a configuration.
THEOREM SettingsSound == ConfigSpec => []ConfigIsSound
<1>1. ConfigSpec => []ConfigInv
  BY ConfigStarts, ConfigGoesOn, PTL DEF ConfigSpec
<1>2. ConfigInv => ConfigIsSound
  BY ConfigSound
<1> QED
  BY <1>1, <1>2, PTL

------------------------------------------------------------------------------
(* The walk: the stacks of the contexts, and what pushing and popping does. *)

(* A document and rules: every kid is a node, the rules are finitely many *)
(* and the levels of a rule have different types.                          *)
GivenOK(d, rs) ==
  /\ d \in [Nodes -> Seq([node : Nodes, ref : BOOLEAN])]
  /\ IsFiniteSet(rs) /\ rs \subseteq Seq(Types)
  /\ \A r \in rs : \A i, j \in 1..Len(r) : r[i] = r[j] => i = j

WalkSpec ==
  /\ \E d, rs, ss : GivenOK(d, rs) /\ WalkerInit(d, rs, ss)
  /\ [][WalkNext]_walkerVars

(* What is used of the contexts K. *)
Levels(K) ==
  /\ IsFiniteSet(K)
  /\ \A c \in K :
       /\ c[1] \in Seq(Types) /\ c[2] \in 1..Len(c[1]) /\ c = <<c[1], c[2]>>
       /\ \A i \in 1..Len(c[1]) : <<c[1], i>> \in K
       /\ \A i, j \in 1..Len(c[1]) : c[1][i] = c[1][j] => i = j

Activations == [node : Nodes, within : Nodes \cup {Nobody}, next : Seq(Types), skipped : BOOLEAN]

AboveIn(K, C) == {d \in K : \E c \in C : d[1] = c[1] /\ d[2] < c[2]}
WithinOf(a, c) == IF c[2] = 1 THEN Nobody ELSE LastOf(a[Parent(c)]).node
SkippedIn(a, z, c, n) == (c[2] > 1 /\ LastOf(a[Parent(c)]).skipped) \/ <<c, n>> \in z
Pushed(K, z, a, C, n) ==
  [c \in K |->
     IF c \in C THEN Append(a[c], Activation(n, WithinOf(a, c), SkippedIn(a, z, c, n)))
     ELSE IF c \in AboveIn(K, C) THEN Append(ButLast(a[c]), [LastOf(a[c]) EXCEPT !.next = Append(@, Type[n])])
     ELSE a[c]]
Popped(K, a, C) ==
  [c \in K |->
     IF c \in C THEN ButLast(a[c])
     ELSE IF c \in AboveIn(K, C) THEN Append(ButLast(a[c]), [LastOf(a[c]) EXCEPT !.next = ButLast(@)])
     ELSE a[c]]
(* MayEnter of a nested context. *)
May(a, w, c, n) ==
  /\ a[Parent(c)] # <<>> /\ LastOf(a[Parent(c)]).node = w[TypeOf(Parent(c))]
  /\ a[c] # <<>> => LastOf(a[c]).within # LastOf(a[Parent(c)]).node
  /\ LastOf(a[Parent(c)]).next # <<>> => LastOf(LastOf(a[Parent(c)]).next) # Type[n]

StacksIn(K) == [K -> Seq(Activations)]
Chained(K, a) == \A c, d \in K : c[1] = d[1] /\ d[2] < c[2] /\ a[c] # <<>> => a[d] # <<>>

LEMMA LastAppended ==
  ASSUME NEW S, NEW s \in Seq(S), NEW e \in S
  PROVE  /\ Append(s, e) \in Seq(S) /\ Append(s, e) # <<>>
         /\ Len(Append(s, e)) = Len(s) + 1
         /\ LastOf(Append(s, e)) = e /\ ButLast(Append(s, e)) = s
         /\ \A i \in 1..Len(s) : Append(s, e)[i] = s[i]
         /\ Append(s, e)[Len(s) + 1] = e
<1>1. /\ Append(s, e) \in Seq(S) /\ Append(s, e) # <<>> /\ Len(Append(s, e)) = Len(s) + 1
      /\ \A i \in 1..Len(s) : Append(s, e)[i] = s[i]
      /\ Append(s, e)[Len(s) + 1] = e /\ Len(s) \in Nat
  OBVIOUS
<1>2. LastOf(Append(s, e)) = e
  BY <1>1 DEF LastOf
<1>3. SubSeq(Append(s, e), 1, Len(s)) = s
  OBVIOUS
<1> QED
  BY <1>1, <1>2, <1>3 DEF ButLast

LEMMA LastSplits ==
  ASSUME NEW S, NEW s \in Seq(S), s # <<>>
  PROVE  /\ LastOf(s) \in S /\ ButLast(s) \in Seq(S) /\ s = Append(ButLast(s), LastOf(s))
         /\ Len(s) \in Nat \ {0} /\ Len(ButLast(s)) = Len(s) - 1
         /\ \A i \in 1..(Len(s) - 1) : ButLast(s)[i] = s[i]
<1>1. Len(s) \in Nat \ {0} /\ s[Len(s)] \in S
  OBVIOUS
<1>2. LastOf(s) \in S
  BY <1>1 DEF LastOf
<1> DEFINE m == Len(s) - 1
<1>3. m \in 0..Len(s) /\ m \in Nat
  BY <1>1
<1> HIDE DEF m
<1>4. SubSeq(s, 1, m) \in Seq(S) /\ Len(SubSeq(s, 1, m)) = m /\ \A i \in 1..m : SubSeq(s, 1, m)[i] = s[i]
  BY <1>3
<1>5. ButLast(s) = SubSeq(s, 1, m)
  BY DEF ButLast, m
<1>6. ButLast(s) \in Seq(S) /\ Len(ButLast(s)) = Len(s) - 1 /\ \A i \in 1..(Len(s) - 1) : ButLast(s)[i] = s[i]
  BY <1>4, <1>5 DEF m
<1>7. s = Append(ButLast(s), LastOf(s))
  <2>1. Append(ButLast(s), LastOf(s)) \in Seq(S) /\ Len(Append(ButLast(s), LastOf(s))) = Len(s)
    BY <1>1, <1>2, <1>6
  <2>2. \A i \in 1..Len(s) : Append(ButLast(s), LastOf(s))[i] = s[i]
    BY <1>1, <1>2, <1>6 DEF LastOf
  <2> QED
    BY <2>1, <2>2, SeqEqual
<1> QED
  BY <1>1, <1>2, <1>6, <1>7

(* Only one context of a rule has a given type. *)
LEMMA OneOfARule ==
  ASSUME NEW K, Levels(K), NEW c \in K, NEW d \in K, c[1] = d[1], TypeOf(c) = TypeOf(d)
  PROVE  c = d
<1>1. /\ c = <<c[1], c[2]>> /\ d = <<d[1], d[2]>> /\ c[2] \in 1..Len(c[1]) /\ d[2] \in 1..Len(c[1])
      /\ \A i, j \in 1..Len(c[1]) : c[1][i] = c[1][j] => i = j
  BY DEF Levels
<1> QED
  BY <1>1 DEF TypeOf

LEMMA ParentIs ==
  ASSUME NEW K, Levels(K), NEW c \in K, c[2] > 1
  PROVE  /\ Parent(c) \in K /\ Parent(c)[1] = c[1] /\ Parent(c)[2] = c[2] - 1
         /\ TypeOf(Parent(c)) \in Types /\ TypeOf(c) \in Types /\ TypeOf(c) # TypeOf(Parent(c))
<1>1. /\ c[1] \in Seq(Types) /\ c[2] \in 1..Len(c[1]) /\ Len(c[1]) \in Nat
      /\ \A i \in 1..Len(c[1]) : <<c[1], i>> \in K
      /\ \A i, j \in 1..Len(c[1]) : c[1][i] = c[1][j] => i = j
  BY DEF Levels
<1>2. c[2] - 1 \in 1..Len(c[1]) /\ c[2] - 1 # c[2]
  BY <1>1
<1> QED
  BY <1>1, <1>2 DEF Parent, TypeOf

LEMMA ImageIsFinite ==
  ASSUME NEW S, IsFiniteSet(S), NEW T, NEW f \in [S -> T], \A y \in T : \E x \in S : f[x] = y
  PROVE  IsFiniteSet(T)
<1>1. f \in Surjection(S, T)
  BY DEF Surjection
<1> QED
  BY <1>1, FS_Surjection

LEMMA ContextsAreLevels ==
  ASSUME GivenOK(kids, rules)
  PROVE  Levels(Contexts)
<1>1. \A c \in Contexts : c[1] \in rules /\ c[2] \in 1..Len(c[1]) /\ c = <<c[1], c[2]>>
  BY DEF Contexts
<1>2. \A c \in Contexts : \A i \in 1..Len(c[1]) : <<c[1], i>> \in Contexts
  BY <1>1 DEF Contexts
<1>3. IsFiniteSet(Contexts)
  <2> DEFINE all == [r \in rules |-> {<<r, i>> : i \in 1..Len(r)}]
  <2>1. \A r \in rules : IsFiniteSet(all[r])
    <3> SUFFICES ASSUME NEW r \in rules PROVE IsFiniteSet(all[r])
      OBVIOUS
    <3>1. IsFiniteSet(1..Len(r))
      BY FS_Interval DEF GivenOK
    <3> DEFINE f == [i \in 1..Len(r) |-> <<r, i>>]
    <3>2. f \in [1..Len(r) -> all[r]] /\ \A y \in all[r] : \E i \in 1..Len(r) : f[i] = y
      OBVIOUS
    <3> HIDE DEF f, all
    <3> QED
      BY <3>1, <3>2, ImageIsFinite
  <2> DEFINE Sets == {all[r] : r \in rules}
  <2>2. all \in [rules -> Sets] /\ \A y \in Sets : \E r \in rules : all[r] = y
    OBVIOUS
  <2>3. IsFiniteSet(Sets)
    <3> HIDE DEF all, Sets
    <3> QED
      BY <2>2, ImageIsFinite DEF GivenOK
  <2>4. Contexts = UNION Sets
    BY DEF Contexts
  <2>5. \A T \in Sets : IsFiniteSet(T)
    BY <2>1
  <2> HIDE DEF all, Sets
  <2> QED
    BY <2>3, <2>4, <2>5, FS_UNION
<1> QED
  BY <1>1, <1>2, <1>3 DEF Levels, GivenOK

(* What entering n in the contexts C does to the stacks a. *)
PushFits(K, a, C, n) ==
  /\ a \in StacksIn(K) /\ Chained(K, a) /\ n \in Nodes /\ C \subseteq K
  /\ \A c \in C : TypeOf(c) = Type[n] /\ (c[2] > 1 => a[Parent(c)] # <<>>)

LEMMA AboveFacts ==
  ASSUME NEW K, Levels(K), NEW a, NEW C, NEW n, PushFits(K, a, C, n), NEW d \in AboveIn(K, C)
  PROVE  /\ d \in K /\ d \notin C /\ a[d] # <<>> /\ a[d] \in Seq(Activations)
<1>1. PICK c \in C : d[1] = c[1] /\ d[2] < c[2]
  BY DEF AboveIn
<1>2. d \in K /\ c \in K /\ c[2] \in Nat /\ d[2] \in Nat /\ d[2] >= 1
  BY <1>1 DEF PushFits, AboveIn, Levels
<1>3. d \notin C
  <2>1. ASSUME d \in C PROVE FALSE
    <3>1. TypeOf(d) = TypeOf(c)
      BY <1>1, <2>1 DEF PushFits
    <3>2. d = c
      BY <1>1, <1>2, <3>1, OneOfARule
    <3> QED
      BY <1>1, <1>2, <3>2
  <2> QED
    BY <2>1
<1>4. c[2] > 1
  BY <1>1, <1>2
<1>5. /\ Parent(c) \in K /\ Parent(c)[1] = c[1] /\ Parent(c)[2] = c[2] - 1 /\ a[Parent(c)] # <<>>
  BY <1>1, <1>2, <1>4, ParentIs DEF PushFits
<1>6. a[d] # <<>>
  <2>1. CASE d[2] = c[2] - 1
    <3>1. d = Parent(c)
      BY <1>1, <1>2, <2>1 DEF Parent, Levels
    <3> QED
      BY <1>5, <3>1
  <2>2. CASE d[2] < c[2] - 1
    BY <1>1, <1>2, <1>5, <2>2 DEF PushFits, Chained
  <2> QED
    BY <1>1, <1>2, <2>1, <2>2
<1> QED
  BY <1>2, <1>3, <1>6 DEF PushFits, StacksIn

LEMMA PushEnters ==
  ASSUME NEW K, Levels(K), NEW z, NEW a, NEW C, NEW n, PushFits(K, a, C, n), NEW c \in C
  PROVE  LET s == Pushed(K, z, a, C, n)[c]
         IN /\ s \in Seq(Activations) /\ s # <<>> /\ Len(s) = Len(a[c]) + 1 /\ ButLast(s) = a[c]
            /\ LastOf(s).node = n /\ LastOf(s).within = WithinOf(a, c) /\ LastOf(s).next = <<>>
            /\ \A i \in 1..Len(a[c]) : s[i] = a[c][i]
            /\ s[Len(a[c]) + 1].node = n /\ s[Len(a[c]) + 1].next = <<>>
<1> DEFINE e == Activation(n, WithinOf(a, c), SkippedIn(a, z, c, n))
<1>1. c \in K /\ a[c] \in Seq(Activations) /\ n \in Nodes
  BY DEF PushFits, StacksIn
<1>2. WithinOf(a, c) \in Nodes \cup {Nobody} /\ SkippedIn(a, z, c, n) \in BOOLEAN
  <2>1. CASE c[2] = 1
    BY <2>1 DEF WithinOf, SkippedIn
  <2>2. CASE c[2] # 1
    <3>1. c[2] > 1
      BY <1>1, <2>2 DEF Levels
    <3>2. a[Parent(c)] \in Seq(Activations) /\ a[Parent(c)] # <<>>
      BY <1>1, <3>1, ParentIs DEF PushFits, StacksIn
    <3>3. LastOf(a[Parent(c)]) \in Activations
      BY <3>2, LastSplits
    <3> QED
      BY <2>2, <3>3 DEF WithinOf, SkippedIn, Activations
  <2> QED
    BY <2>1, <2>2
<1>3. e \in Activations /\ e.node = n /\ e.within = WithinOf(a, c) /\ e.next = <<>>
  BY <1>1, <1>2 DEF Activation, Activations
<1>4. Pushed(K, z, a, C, n)[c] = Append(a[c], e)
  BY <1>1 DEF Pushed
<1> HIDE DEF e
<1>5. LET s == Append(a[c], e)
      IN /\ s \in Seq(Activations) /\ s # <<>> /\ Len(s) = Len(a[c]) + 1 /\ ButLast(s) = a[c]
         /\ LastOf(s) = e
         /\ \A i \in 1..Len(a[c]) : s[i] = a[c][i]
         /\ s[Len(a[c]) + 1] = e
  BY <1>1, <1>3, LastAppended
<1> QED
  BY <1>3, <1>4, <1>5

LEMMA PushTells ==
  ASSUME NEW K, Levels(K), NEW z, NEW a, NEW C, NEW n, PushFits(K, a, C, n), NEW c \in AboveIn(K, C)
  PROVE  LET s == Pushed(K, z, a, C, n)[c]
         IN /\ s \in Seq(Activations) /\ s # <<>> /\ Len(s) = Len(a[c]) /\ ButLast(s) = ButLast(a[c])
            /\ LastOf(s).node = LastOf(a[c]).node /\ LastOf(s).within = LastOf(a[c]).within
            /\ LastOf(s).next # <<>> /\ LastOf(LastOf(s).next) = Type[n]
            /\ \A i \in 1..Len(a[c]) : s[i].node = a[c][i].node
            /\ [LastOf(s) EXCEPT !.next = ButLast(@)] = LastOf(a[c])
            /\ s[Len(a[c])] = LastOf(s)
<1> DEFINE o == LastOf(a[c])
           e == [o EXCEPT !.next = Append(@, Type[n])]
<1>1. c \in K /\ c \notin C /\ a[c] # <<>> /\ a[c] \in Seq(Activations)
  BY AboveFacts
<1>2. /\ o \in Activations /\ ButLast(a[c]) \in Seq(Activations) /\ Len(a[c]) \in Nat \ {0}
      /\ Len(ButLast(a[c])) = Len(a[c]) - 1 /\ o = a[c][Len(a[c])]
      /\ \A i \in 1..(Len(a[c]) - 1) : ButLast(a[c])[i] = a[c][i]
  BY <1>1, LastSplits DEF LastOf
<1>3. Type[n] \in Types /\ o.next \in Seq(Types)
  BY <1>2 DEF PushFits, Types, Activations
<1>4. /\ Append(o.next, Type[n]) \in Seq(Types) /\ Append(o.next, Type[n]) # <<>>
      /\ LastOf(Append(o.next, Type[n])) = Type[n] /\ ButLast(Append(o.next, Type[n])) = o.next
  BY <1>3, LastAppended
<1>5. /\ e \in Activations /\ e.node = o.node /\ e.within = o.within /\ e.next = Append(o.next, Type[n])
      /\ [e EXCEPT !.next = o.next] = o
  BY <1>2, <1>4 DEF Activations
<1>6. Pushed(K, z, a, C, n)[c] = Append(ButLast(a[c]), e)
  BY <1>1 DEF Pushed
<1> DEFINE s == Append(ButLast(a[c]), e)
<1> HIDE DEF e, o
<1>7. /\ s \in Seq(Activations) /\ s # <<>> /\ Len(s) = Len(a[c]) /\ ButLast(s) = ButLast(a[c])
      /\ LastOf(s) = e
      /\ \A i \in 1..(Len(a[c]) - 1) : s[i] = ButLast(a[c])[i]
      /\ s[Len(a[c])] = e
  BY <1>2, <1>5, LastAppended
<1>8. \A i \in 1..Len(a[c]) : s[i].node = a[c][i].node
  BY <1>2, <1>5, <1>7
<1> QED
  BY <1>4, <1>5, <1>6, <1>7, <1>8 DEF o

LEMMA PushLeaves ==
  ASSUME NEW K, NEW z, NEW a, NEW C, NEW n, NEW c \in K, c \notin C, c \notin AboveIn(K, C)
  PROVE  Pushed(K, z, a, C, n)[c] = a[c]
BY DEF Pushed

LEMMA PushKeeps ==
  ASSUME NEW K, Levels(K), NEW z, NEW a, NEW C, NEW n, PushFits(K, a, C, n)
  PROVE  /\ Pushed(K, z, a, C, n) \in StacksIn(K) /\ Chained(K, Pushed(K, z, a, C, n))
         /\ Popped(K, Pushed(K, z, a, C, n), C) = a
<1> DEFINE b == Pushed(K, z, a, C, n)
<1>0. b = [c \in K |-> b[c]] /\ a = [c \in K |-> a[c]] /\ \A c \in K : a[c] \in Seq(Activations)
  BY DEF Pushed, PushFits, StacksIn
<1>1. \A c \in C : c \in K /\ b[c] \in Seq(Activations) /\ b[c] # <<>> /\ ButLast(b[c]) = a[c]
  BY PushEnters DEF PushFits
<1>2. \A c \in AboveIn(K, C) :
        /\ c \notin C /\ a[c] # <<>> /\ b[c] \in Seq(Activations) /\ b[c] # <<>>
        /\ ButLast(b[c]) = ButLast(a[c]) /\ [LastOf(b[c]) EXCEPT !.next = ButLast(@)] = LastOf(a[c])
        /\ a[c] = Append(ButLast(a[c]), LastOf(a[c]))
  <2> SUFFICES ASSUME NEW c \in AboveIn(K, C)
               PROVE  /\ c \notin C /\ a[c] # <<>> /\ b[c] \in Seq(Activations) /\ b[c] # <<>>
                      /\ ButLast(b[c]) = ButLast(a[c])
                      /\ [LastOf(b[c]) EXCEPT !.next = ButLast(@)] = LastOf(a[c])
                      /\ a[c] = Append(ButLast(a[c]), LastOf(a[c]))
    OBVIOUS
  <2>1. c \notin C /\ a[c] # <<>> /\ a[c] \in Seq(Activations)
    BY AboveFacts
  <2>2. a[c] = Append(ButLast(a[c]), LastOf(a[c]))
    BY <2>1, LastSplits
  <2>3. LET s == b[c]
        IN s \in Seq(Activations) /\ s # <<>> /\ ButLast(s) = ButLast(a[c])
           /\ [LastOf(s) EXCEPT !.next = ButLast(@)] = LastOf(a[c])
    BY PushTells
  <2> QED
    BY <2>1, <2>2, <2>3
<1>3. \A c \in K : c \notin C /\ c \notin AboveIn(K, C) => b[c] = a[c]
  BY PushLeaves
<1> HIDE DEF b
<1>4. b \in StacksIn(K)
  BY <1>0, <1>1, <1>2, <1>3 DEF StacksIn
<1>5. Chained(K, b)
  <2> SUFFICES ASSUME NEW c \in K, NEW d \in K, c[1] = d[1], d[2] < c[2], b[c] # <<>> PROVE b[d] # <<>>
    BY DEF Chained
  <2>1. CASE c \in C
    <3>1. d \in AboveIn(K, C)
      BY <2>1 DEF AboveIn
    <3> QED
      BY <3>1, <1>2
  <2>2. CASE c \notin C
    <3>1. a[c] # <<>>
      BY <1>2, <1>3, <2>2
    <3>2. a[d] # <<>>
      BY <3>1 DEF PushFits, Chained
    <3> QED
      BY <3>2, <1>1, <1>2, <1>3
  <2> QED
    BY <2>1, <2>2
<1>6. Popped(K, b, C) = a
  <2>1. \A c \in K : Popped(K, b, C)[c] = a[c]
    BY <1>1, <1>2, <1>3 DEF Popped
  <2>2. Popped(K, b, C) = [c \in K |-> Popped(K, b, C)[c]]
    BY DEF Popped
  <2> QED
    BY <2>1, <2>2, <1>0
<1> QED
  BY <1>4, <1>5, <1>6 DEF b

LEMMA PushTold ==
  ASSUME NEW K, Levels(K), NEW z, NEW a, NEW C, NEW n, PushFits(K, a, C, n), NEW c \in AboveIn(K, C)
  PROVE  LET s == Pushed(K, z, a, C, n)[c]
         IN /\ s \in Seq(Activations) /\ s # <<>> /\ Len(s) = Len(a[c]) /\ a[c] # <<>>
            /\ ButLast(s) = ButLast(a[c])
            /\ LastOf(s).node = LastOf(a[c]).node /\ LastOf(s).within = LastOf(a[c]).within
            /\ LastOf(s).next # <<>> /\ LastOf(LastOf(s).next) = Type[n]
            /\ \A i \in 1..Len(a[c]) : s[i].node = a[c][i].node
<1>1. a[c] # <<>>
  BY AboveFacts
<1>2. LET s == Pushed(K, z, a, C, n)[c]
      IN /\ s \in Seq(Activations) /\ s # <<>> /\ Len(s) = Len(a[c]) /\ ButLast(s) = ButLast(a[c])
         /\ LastOf(s).node = LastOf(a[c]).node /\ LastOf(s).within = LastOf(a[c]).within
         /\ LastOf(s).next # <<>> /\ LastOf(LastOf(s).next) = Type[n]
         /\ \A i \in 1..Len(a[c]) : s[i].node = a[c][i].node
         /\ [LastOf(s) EXCEPT !.next = ButLast(@)] = LastOf(a[c])
         /\ s[Len(a[c])] = LastOf(s)
  BY PushTells
<1> QED
  BY <1>1, <1>2

------------------------------------------------------------------------------
(* The stacks that the trail stands for. *)

(* Of the frames S of the trail, each a node and the contexts it opened: the *)
(* frames up to m that opened c, and those after i that opened a deeper level. *)
Mine(S, c, m) == {i \in 1..m : c \in S[i][2]}
Deeper(S, c, i, m) == {j \in (i + 1)..m : \E d \in S[j][2] : d[1] = c[1] /\ d[2] > c[2]}
Latest(S, c, m, i) == i \in 1..m /\ c \in S[i][2] /\ \A k \in (i + 1)..m : c \notin S[k][2]

(* The stacks a after m frames: how they match the frames, ... *)
Matches(K, S, a, m) ==
  \A c \in K :
    /\ Len(a[c]) = Cardinality(Mine(S, c, m))
    /\ \A i \in Mine(S, c, m) :
         LET k == Cardinality({j \in Mine(S, c, m) : j <= i})
         IN k \in 1..Len(a[c]) /\ a[c][k].node = S[i][1]
(* ... and what their tops are. *)
TopIs(S, A, c, m, i) ==
  LET top == LastOf(A[m][c])
  IN /\ top.node = S[i][1] /\ top.within = WithinOf(A[i - 1], c)
     /\ top.next = <<>> <=> Deeper(S, c, i, m) = {}
     /\ top.next # <<>> => \E j \in Deeper(S, c, i, m) : LastOf(top.next) = Type[S[j][1]]
Tops(K, S, A, m) ==
  \A c \in K :
    /\ A[m][c] = <<>> => \A i \in 1..m : c \notin S[i][2]
    /\ A[m][c] # <<>> => \E i \in 1..m : Latest(S, c, m, i)
    /\ \A i \in 1..m : Latest(S, c, m, i) => A[m][c] # <<>> /\ TopIs(S, A, c, m, i)
(* The innermost node of every type. *)
WalksAt(S, w, m) ==
  /\ w \in [Types -> Nodes \cup {Nobody}]
  /\ \A t \in Types :
       \/ w[t] = Nobody /\ \A i \in 1..m : Type[S[i][1]] # t
       \/ \E i \in 1..m : /\ Type[S[i][1]] = t /\ w[t] = S[i][1]
                          /\ \A k \in (i + 1)..m : Type[S[k][1]] # t
StateAt(K, S, A, W, m) ==
  /\ A[m] \in StacksIn(K) /\ Chained(K, A[m])
  /\ Matches(K, S, A[m], m) /\ Tops(K, S, A, m) /\ WalksAt(S, W[m], m)

(* Frame m was pushed as WalkNode does. *)
StepAt(K, z, S, A, W, m) ==
  /\ PushFits(K, A[m - 1], S[m][2], S[m][1])
  /\ \A c \in K : TypeOf(c) = Type[S[m][1]] /\ c[2] > 1 =>
       (c \in S[m][2] <=> May(A[m - 1], W[m - 1], c, S[m][1]))
  /\ A[m] = Pushed(K, z, A[m - 1], S[m][2], S[m][1])
  /\ W[m] = [W[m - 1] EXCEPT ![Type[S[m][1]]] = S[m][1]]
(* Where the contexts of a frame are nested. *)
NestedAt(S, m) ==
  \A c \in S[m][2] : c[2] > 1 =>
    \E i \in 1..(m - 1) :
      /\ \E h \in 1..i : Parent(c) \in S[h][2] /\ S[h][1] = S[i][1]
      /\ \A k \in (i + 1)..(m - 1) : Type[S[k][1]] \notin {TypeOf(c), TypeOf(Parent(c))}

Unrolled(K, z, S, A, W) ==
  /\ S \in Seq(Nodes \X SUBSET K)
  /\ A[0] = [c \in K |-> <<>>] /\ W[0] = [t \in Types |-> Nobody]
  /\ \A m \in 0..Len(S) : StateAt(K, S, A, W, m)
  /\ \A m \in 1..Len(S) : StepAt(K, z, S, A, W, m) /\ NestedAt(S, m)

LEMMA StateAgrees ==
  ASSUME NEW K, NEW S, NEW A, NEW W, NEW R, NEW B, NEW V, NEW m \in Nat,
         \A i \in 1..m : S[i] = R[i], \A i \in 0..m : A[i] = B[i] /\ W[i] = V[i],
         StateAt(K, S, A, W, m)
  PROVE  StateAt(K, R, B, V, m)
<1>1. A[m] = B[m] /\ W[m] = V[m]
  OBVIOUS
<1>2. \A c : Mine(S, c, m) = Mine(R, c, m)
  BY DEF Mine
<1>3. \A c : \A i \in 1..m : Deeper(S, c, i, m) = Deeper(R, c, i, m)
  BY DEF Deeper
<1>4. \A c, i : Latest(S, c, m, i) <=> Latest(R, c, m, i)
  BY DEF Latest
<1>5. Matches(K, R, B[m], m)
  <2> SUFFICES ASSUME NEW c \in K
               PROVE /\ Len(B[m][c]) = Cardinality(Mine(R, c, m))
                     /\ \A i \in Mine(R, c, m) :
                          LET k == Cardinality({j \in Mine(R, c, m) : j <= i})
                          IN k \in 1..Len(B[m][c]) /\ B[m][c][k].node = R[i][1]
    BY DEF Matches
  <2>1. \A i \in Mine(R, c, m) : R[i] = S[i]
    BY DEF Mine
  <2>2. /\ Len(A[m][c]) = Cardinality(Mine(S, c, m))
        /\ \A i \in Mine(S, c, m) :
             LET k == Cardinality({j \in Mine(S, c, m) : j <= i})
             IN k \in 1..Len(A[m][c]) /\ A[m][c][k].node = S[i][1]
    BY DEF StateAt, Matches
  <2> QED
    BY <1>1, <1>2, <2>1, <2>2
<1>6. \A c : \A i \in 1..m : TopIs(S, A, c, m, i) => TopIs(R, B, c, m, i)
  <2> SUFFICES ASSUME NEW c, NEW i \in 1..m, TopIs(S, A, c, m, i) PROVE TopIs(R, B, c, m, i)
    OBVIOUS
  <2>1. A[i - 1] = B[i - 1] /\ S[i] = R[i]
    OBVIOUS
  <2>2. Deeper(S, c, i, m) = Deeper(R, c, i, m)
    BY <1>3
  <2>3. \A j \in Deeper(S, c, i, m) : S[j] = R[j]
    BY DEF Deeper
  <2> QED
    BY <1>1, <2>1, <2>2, <2>3 DEF TopIs, WithinOf
<1>7. Tops(K, R, B, m)
  <2>1. \A i \in 1..m : S[i] = R[i]
    OBVIOUS
  <2> QED
    BY <1>1, <1>4, <1>6, <2>1 DEF StateAt, Tops
<1>8. WalksAt(R, V[m], m)
  BY <1>1 DEF StateAt, WalksAt
<1> QED
  BY <1>1, <1>5, <1>7, <1>8 DEF StateAt

LEMMA StepAgrees ==
  ASSUME NEW K, NEW z, NEW S, NEW A, NEW W, NEW R, NEW B, NEW V, NEW m \in Nat, m # 0,
         \A i \in 1..m : S[i] = R[i], \A i \in 0..m : A[i] = B[i] /\ W[i] = V[i],
         StepAt(K, z, S, A, W, m), NestedAt(S, m)
  PROVE  StepAt(K, z, R, B, V, m) /\ NestedAt(R, m)
<1>1. A[m] = B[m] /\ W[m] = V[m] /\ A[m - 1] = B[m - 1] /\ W[m - 1] = V[m - 1] /\ S[m] = R[m]
  OBVIOUS
<1>2. StepAt(K, z, R, B, V, m)
  BY <1>1 DEF StepAt
<1>3. NestedAt(R, m)
  <2> SUFFICES ASSUME NEW c \in R[m][2], c[2] > 1
               PROVE \E i \in 1..(m - 1) :
                 /\ \E h \in 1..i : Parent(c) \in R[h][2] /\ R[h][1] = R[i][1]
                 /\ \A k \in (i + 1)..(m - 1) : Type[R[k][1]] \notin {TypeOf(c), TypeOf(Parent(c))}
    BY DEF NestedAt
  <2>1. PICK i \in 1..(m - 1) :
                 /\ \E h \in 1..i : Parent(c) \in S[h][2] /\ S[h][1] = S[i][1]
                 /\ \A k \in (i + 1)..(m - 1) : Type[S[k][1]] \notin {TypeOf(c), TypeOf(Parent(c))}
    BY <1>1 DEF NestedAt
  <2>2. PICK h \in 1..i : Parent(c) \in S[h][2] /\ S[h][1] = S[i][1]
    BY <2>1
  <2>3. S[h] = R[h] /\ S[i] = R[i] /\ \A k \in (i + 1)..(m - 1) : S[k] = R[k]
    OBVIOUS
  <2> QED
    BY <2>1, <2>2, <2>3
<1> QED
  BY <1>2, <1>3

LEMMA UnrollBack ==
  ASSUME NEW K, NEW z, NEW S, NEW A, NEW W, Unrolled(K, z, S, A, W), S # <<>>
  PROVE  Unrolled(K, z, ButLast(S), A, W)
<1> DEFINE R == ButLast(S)
<1>1. /\ R \in Seq(Nodes \X SUBSET K) /\ Len(S) \in Nat \ {0} /\ Len(R) = Len(S) - 1
      /\ \A i \in 1..Len(R) : S[i] = R[i]
  BY LastSplits DEF Unrolled
<1> HIDE DEF R
<1>2. \A m \in 0..Len(R) : StateAt(K, R, A, W, m)
  <2> SUFFICES ASSUME NEW m \in 0..Len(R) PROVE StateAt(K, R, A, W, m)
    OBVIOUS
  <2>1. m \in Nat /\ StateAt(K, S, A, W, m) /\ \A i \in 1..m : S[i] = R[i]
    BY <1>1 DEF Unrolled
  <2> QED
    BY <2>1, StateAgrees
<1>3. \A m \in 1..Len(R) : StepAt(K, z, R, A, W, m) /\ NestedAt(R, m)
  <2> SUFFICES ASSUME NEW m \in 1..Len(R) PROVE StepAt(K, z, R, A, W, m) /\ NestedAt(R, m)
    OBVIOUS
  <2>1. m \in 1..Len(S) /\ \A i \in 1..m : S[i] = R[i]
    BY <1>1
  <2>2. StepAt(K, z, S, A, W, m) /\ NestedAt(S, m)
    BY <2>1 DEF Unrolled
  <2>3. m \in Nat /\ m # 0 /\ \A i \in 0..m : A[i] = A[i] /\ W[i] = W[i]
    BY <2>1
  <2>4. \A i \in 1..m : S[i] = R[i]
    BY <2>1
  <2> QED
    BY <2>2, <2>3, <2>4, StepAgrees, Zenon
<1> QED
  BY <1>1, <1>2, <1>3 DEF Unrolled, R

LEMMA StepsAgree ==
  ASSUME NEW K, NEW z, NEW S, NEW A, NEW W, NEW R, NEW B, NEW V, NEW m \in Nat,
         \A i \in 1..m : S[i] = R[i], \A i \in 0..m : A[i] = B[i] /\ W[i] = V[i],
         NEW k \in 1..m, StepAt(K, z, S, A, W, k), NestedAt(S, k)
  PROVE  StepAt(K, z, R, B, V, k) /\ NestedAt(R, k)
<1>1. k \in Nat /\ k # 0
  OBVIOUS
<1>2. (\A i \in 1..k : S[i] = R[i]) /\ \A i \in 0..k : A[i] = B[i] /\ W[i] = V[i]
  <2>1. \A i \in 1..k : i \in 1..m
    OBVIOUS
  <2>2. \A i \in 0..k : i \in 0..m
    OBVIOUS
  <2> QED
    BY <2>1, <2>2
<1>3. \A j \in Nat : /\ j # 0 /\ (\A i \in 1..j : S[i] = R[i]) /\ (\A i \in 0..j : A[i] = B[i] /\ W[i] = V[i])
                      /\ StepAt(K, z, S, A, W, j) /\ NestedAt(S, j)
                     => StepAt(K, z, R, B, V, j) /\ NestedAt(R, j)
  BY StepAgrees
<1>4. StepAt(K, z, S, A, W, k) /\ NestedAt(S, k)
  OBVIOUS
<1> QED
  BY <1>1, <1>2, <1>3, <1>4

------------------------------------------------------------------------------
(* One more frame keeps what its stacks are. *)

(* One frame further. *)
LEMMA MineGrows ==
  ASSUME NEW S, NEW c, NEW m \in Nat
  PROVE  /\ c \in S[m + 1][2] => Mine(S, c, m + 1) = Mine(S, c, m) \cup {m + 1}
         /\ c \notin S[m + 1][2] => Mine(S, c, m + 1) = Mine(S, c, m)
         /\ IsFiniteSet(Mine(S, c, m)) /\ m + 1 \notin Mine(S, c, m)
         /\ Cardinality(Mine(S, c, m)) \in Nat
         /\ Cardinality(Mine(S, c, m) \cup {m + 1}) = Cardinality(Mine(S, c, m)) + 1
<1>1. IsFiniteSet(1..m)
  BY FS_Interval
<1>2. Mine(S, c, m) \subseteq 1..m
  BY DEF Mine
<1>3. IsFiniteSet(Mine(S, c, m))
  BY <1>1, <1>2, FS_Subset
<1>4. m + 1 \notin Mine(S, c, m)
  BY <1>2
<1>5. c \in S[m + 1][2] => Mine(S, c, m + 1) = Mine(S, c, m) \cup {m + 1}
  BY DEF Mine
<1>6. c \notin S[m + 1][2] => Mine(S, c, m + 1) = Mine(S, c, m)
  BY DEF Mine
<1> QED
  BY <1>3, <1>4, <1>5, <1>6, FS_AddElement, FS_CardinalityType

LEMMA MatchesGrows ==
  ASSUME NEW K, Levels(K), NEW z, NEW S, NEW A, NEW W, NEW m \in Nat,
         StateAt(K, S, A, W, m), StepAt(K, z, S, A, W, m + 1)
  PROVE  Matches(K, S, A[m + 1], m + 1)
<1> DEFINE a == A[m]
           b == A[m + 1]
           n == S[m + 1][1]
           C == S[m + 1][2]
<1>1. PushFits(K, a, C, n) /\ b = Pushed(K, z, a, C, n) /\ Matches(K, S, a, m) /\ a \in StacksIn(K)
  BY DEF StepAt, StateAt
<1> SUFFICES ASSUME NEW c \in K
             PROVE  /\ Len(b[c]) = Cardinality(Mine(S, c, m + 1))
                    /\ \A i \in Mine(S, c, m + 1) :
                         LET k == Cardinality({j \in Mine(S, c, m + 1) : j <= i})
                         IN k \in 1..Len(b[c]) /\ b[c][k].node = S[i][1]
  BY DEF Matches
<1> DEFINE M == Mine(S, c, m)
           upto(i) == Cardinality({j \in M : j <= i})
<1>2. /\ Len(a[c]) = Cardinality(M) /\ Len(a[c]) \in Nat
      /\ \A i \in M : upto(i) \in 1..Len(a[c]) /\ a[c][upto(i)].node = S[i][1]
  BY <1>1 DEF Matches, StacksIn
<1>3. M \subseteq 1..m
  BY DEF Mine
<1>4. CASE c \in C
  <2>1. /\ Mine(S, c, m + 1) = M \cup {m + 1} /\ Cardinality(M \cup {m + 1}) = Cardinality(M) + 1
    BY <1>4, MineGrows
  <2>2. /\ Len(b[c]) = Len(a[c]) + 1
        /\ \A i \in 1..Len(a[c]) : b[c][i] = a[c][i]
        /\ b[c][Len(a[c]) + 1].node = n
    <3>1. LET s == Pushed(K, z, a, C, n)[c]
          IN /\ Len(s) = Len(a[c]) + 1
             /\ \A i \in 1..Len(a[c]) : s[i] = a[c][i]
             /\ s[Len(a[c]) + 1].node = n
      BY <1>1, <1>4, PushEnters
    <3> QED
      BY <1>1, <3>1
  <2>3. \A i \in M : {j \in M \cup {m + 1} : j <= i} = {j \in M : j <= i}
    BY <1>3
  <2>4. {j \in M \cup {m + 1} : j <= m + 1} = M \cup {m + 1}
    BY <1>3
  <2> HIDE DEF a, b, n, C, M
  <2>5. ASSUME NEW i \in M PROVE LET k == Cardinality({j \in M \cup {m + 1} : j <= i})
                                 IN k \in 1..Len(b[c]) /\ b[c][k].node = S[i][1]
    <3>1. Cardinality({j \in M \cup {m + 1} : j <= i}) = upto(i)
      BY <2>3
    <3>2. upto(i) \in 1..Len(a[c]) /\ a[c][upto(i)].node = S[i][1]
      BY <1>2
    <3> HIDE DEF upto
    <3> QED
      BY <1>2, <2>2, <3>1, <3>2
  <2>6. LET k == Cardinality({j \in M \cup {m + 1} : j <= m + 1})
        IN k \in 1..Len(b[c]) /\ b[c][k].node = S[m + 1][1]
    <3>1. /\ Cardinality({j \in M \cup {m + 1} : j <= m + 1}) = Len(a[c]) + 1
          /\ Len(a[c]) \in Nat /\ Len(b[c]) = Len(a[c]) + 1
      BY <1>2, <2>1, <2>2, <2>4
    <3>2. b[c][Len(a[c]) + 1].node = S[m + 1][1]
      BY <2>2 DEF n
    <3> QED
      BY <3>1, <3>2
  <2> QED
    BY <1>2, <2>1, <2>2, <2>5, <2>6 DEF M
<1>5. CASE c \notin C
  <2>1. Mine(S, c, m + 1) = M
    BY <1>5, MineGrows
  <2>2. Len(b[c]) = Len(a[c]) /\ \A i \in 1..Len(a[c]) : b[c][i].node = a[c][i].node
    <3>1. CASE c \in AboveIn(K, C)
      <4>1. LET s == Pushed(K, z, a, C, n)[c]
            IN Len(s) = Len(a[c]) /\ \A i \in 1..Len(a[c]) : s[i].node = a[c][i].node
        <5> HIDE DEF a, b, n, C
        <5> QED
          BY <1>1, <3>1, PushTold
      <4> QED
        BY <1>1, <4>1
    <3>2. CASE c \notin AboveIn(K, C)
      BY <1>1, <1>5, <3>2, PushLeaves
    <3> QED
      BY <3>1, <3>2
  <2> HIDE DEF a, b, n, C, M
  <2> QED
    BY <1>2, <2>1, <2>2
<1> QED
  BY <1>4, <1>5

LEMMA WalksGrows ==
  ASSUME NEW K, NEW z, NEW S, NEW A, NEW W, NEW m \in Nat,
         StateAt(K, S, A, W, m), StepAt(K, z, S, A, W, m + 1)
  PROVE  WalksAt(S, W[m + 1], m + 1)
<1> DEFINE n == S[m + 1][1]
<1>1. W[m + 1] = [W[m] EXCEPT ![Type[n]] = n] /\ WalksAt(S, W[m], m) /\ n \in Nodes
  BY DEF StepAt, StateAt, PushFits
<1>2. Type[n] \in Types
  BY <1>1 DEF Types
<1>0. W[m + 1] \in [Types -> Nodes \cup {Nobody}]
  BY <1>1, <1>2 DEF WalksAt
<1> SUFFICES ASSUME NEW t \in Types
             PROVE \/ W[m + 1][t] = Nobody /\ \A i \in 1..(m + 1) : Type[S[i][1]] # t
                   \/ \E i \in 1..(m + 1) : /\ Type[S[i][1]] = t /\ W[m + 1][t] = S[i][1]
                                            /\ \A k \in (i + 1)..(m + 1) : Type[S[k][1]] # t
  BY <1>0 DEF WalksAt
<1>3. CASE t = Type[n]
  <2>1. W[m + 1][t] = n
    BY <1>1, <1>2, <1>3 DEF WalksAt
  <2> QED
    BY <1>3, <2>1
<1>4. CASE t # Type[n]
  <2>1. W[m + 1][t] = W[m][t]
    BY <1>1, <1>2, <1>4 DEF WalksAt
  <2>2. CASE W[m][t] = Nobody /\ \A i \in 1..m : Type[S[i][1]] # t
    BY <1>4, <2>1, <2>2
  <2>3. ASSUME NEW i \in 1..m, Type[S[i][1]] = t, W[m][t] = S[i][1], \A k \in (i + 1)..m : Type[S[k][1]] # t
        PROVE \E j \in 1..(m + 1) : /\ Type[S[j][1]] = t /\ W[m + 1][t] = S[j][1]
                                    /\ \A k \in (j + 1)..(m + 1) : Type[S[k][1]] # t
    <3>1. \A k \in (i + 1)..(m + 1) : Type[S[k][1]] # t
      BY <1>4, <2>3
    <3> QED
      BY <2>1, <2>3, <3>1
  <2> QED
    BY <1>1, <2>2, <2>3 DEF WalksAt
<1> QED
  BY <1>3, <1>4

LEMMA LatestStays ==
  ASSUME NEW S, NEW c, NEW m \in Nat, c \notin S[m + 1][2], NEW i \in 1..(m + 1)
  PROVE  Latest(S, c, m + 1, i) <=> i \in 1..m /\ Latest(S, c, m, i)
BY DEF Latest

LEMMA DeeperGrows ==
  ASSUME NEW S, NEW c, NEW m \in Nat, NEW i \in 1..m
  PROVE  /\ Deeper(S, c, i, m) \subseteq Deeper(S, c, i, m + 1)
         /\ (\E d \in S[m + 1][2] : d[1] = c[1] /\ d[2] > c[2]) => m + 1 \in Deeper(S, c, i, m + 1)
         /\ (\A d \in S[m + 1][2] : ~(d[1] = c[1] /\ d[2] > c[2])) =>
              Deeper(S, c, i, m + 1) = Deeper(S, c, i, m)
<1>1. (i + 1)..m \subseteq (i + 1)..(m + 1) /\ m + 1 \in (i + 1)..(m + 1)
      /\ \A j \in (i + 1)..(m + 1) : j = m + 1 \/ j \in (i + 1)..m
  OBVIOUS
<1>2. Deeper(S, c, i, m) \subseteq Deeper(S, c, i, m + 1)
  BY <1>1 DEF Deeper
<1>3. (\E d \in S[m + 1][2] : d[1] = c[1] /\ d[2] > c[2]) => m + 1 \in Deeper(S, c, i, m + 1)
  BY <1>1 DEF Deeper
<1>4. ASSUME \A d \in S[m + 1][2] : ~(d[1] = c[1] /\ d[2] > c[2])
      PROVE  Deeper(S, c, i, m + 1) \subseteq Deeper(S, c, i, m)
  BY <1>1, <1>4 DEF Deeper
<1> QED
  BY <1>2, <1>3, <1>4

LEMMA TopsGrows ==
  ASSUME NEW K, Levels(K), NEW z, NEW S, NEW A, NEW W, NEW m \in Nat,
         StateAt(K, S, A, W, m), StepAt(K, z, S, A, W, m + 1)
  PROVE  Tops(K, S, A, m + 1)
<1> DEFINE a == A[m]
           b == A[m + 1]
           n == S[m + 1][1]
           C == S[m + 1][2]
<1>1. PushFits(K, a, C, n) /\ b = Pushed(K, z, a, C, n) /\ Tops(K, S, A, m)
  BY DEF StepAt, StateAt
<1> SUFFICES ASSUME NEW c \in K
             PROVE  /\ b[c] = <<>> => \A i \in 1..(m + 1) : c \notin S[i][2]
                    /\ b[c] # <<>> => \E i \in 1..(m + 1) : Latest(S, c, m + 1, i)
                    /\ \A i \in 1..(m + 1) : Latest(S, c, m + 1, i) => b[c] # <<>> /\ TopIs(S, A, c, m + 1, i)
  BY DEF Tops
<1>2. /\ a[c] = <<>> => \A i \in 1..m : c \notin S[i][2]
      /\ a[c] # <<>> => \E i \in 1..m : Latest(S, c, m, i)
      /\ \A i \in 1..m : Latest(S, c, m, i) => a[c] # <<>> /\ TopIs(S, A, c, m, i)
  BY <1>1 DEF Tops
<1>3. \A i \in 1..(m + 1) : i \in 1..m \/ i = m + 1
  OBVIOUS
<1>4. CASE c \in C
  <2>1. b[c] # <<>> /\ LastOf(b[c]).node = n /\ LastOf(b[c]).within = WithinOf(a, c) /\ LastOf(b[c]).next = <<>>
    <3>1. LET s == Pushed(K, z, a, C, n)[c]
          IN s # <<>> /\ LastOf(s).node = n /\ LastOf(s).within = WithinOf(a, c) /\ LastOf(s).next = <<>>
      BY <1>1, <1>4, PushEnters
    <3> QED
      BY <1>1, <3>1
  <2>2. Latest(S, c, m + 1, m + 1)
    BY <1>4 DEF Latest
  <2>3. \A i \in 1..(m + 1) : Latest(S, c, m + 1, i) => i = m + 1
    <3> SUFFICES ASSUME NEW i \in 1..m PROVE ~Latest(S, c, m + 1, i)
      BY <1>3
    <3>1. m + 1 \in (i + 1)..(m + 1)
      OBVIOUS
    <3> QED
      BY <1>4, <3>1 DEF Latest
  <2>4. TopIs(S, A, c, m + 1, m + 1)
    <3>1. Deeper(S, c, m + 1, m + 1) = {}
      BY DEF Deeper
    <3>2. A[(m + 1) - 1] = a
      OBVIOUS
    <3> QED
      BY <2>1, <3>1, <3>2 DEF TopIs
  <2>5. m + 1 \in 1..(m + 1)
    OBVIOUS
  <2> HIDE DEF b
  <2> QED
    BY <2>1, <2>2, <2>3, <2>4, <2>5
<1>5. CASE c \in AboveIn(K, C)
  <2>0. c \notin C
    BY <1>1, <1>5, AboveFacts
  <2>1. /\ b[c] # <<>> /\ a[c] # <<>> /\ LastOf(b[c]).node = LastOf(a[c]).node
        /\ LastOf(b[c]).within = LastOf(a[c]).within
        /\ LastOf(b[c]).next # <<>> /\ LastOf(LastOf(b[c]).next) = Type[n]
    <3>1. LET s == Pushed(K, z, a, C, n)[c]
          IN /\ s # <<>> /\ a[c] # <<>>
             /\ LastOf(s).node = LastOf(a[c]).node /\ LastOf(s).within = LastOf(a[c]).within
             /\ LastOf(s).next # <<>> /\ LastOf(LastOf(s).next) = Type[n]
      BY <1>1, <1>5, PushTold
    <3> QED
      BY <1>1, <3>1
  <2>2. \A i \in 1..(m + 1) : Latest(S, c, m + 1, i) <=> i \in 1..m /\ Latest(S, c, m, i)
    BY <2>0, LatestStays
  <2>3. ASSUME NEW i \in 1..m, Latest(S, c, m, i) PROVE TopIs(S, A, c, m + 1, i)
    <3>1. TopIs(S, A, c, m, i)
      BY <1>2, <2>3
    <3>2. m + 1 \in Deeper(S, c, i, m + 1)
      <4>1. \E d \in S[m + 1][2] : d[1] = c[1] /\ d[2] > c[2]
        <5>1. PICK d \in C : c[1] = d[1] /\ c[2] < d[2]
          BY <1>5 DEF AboveIn
        <5>2. d \in K /\ d[2] \in Nat /\ c[2] \in Nat
          BY <1>1 DEF PushFits, Levels
        <5> QED
          BY <5>1, <5>2
      <4> QED
        BY <4>1, DeeperGrows
    <3> QED
      BY <2>1, <3>1, <3>2 DEF TopIs
  <2>4. \E i \in 1..m : Latest(S, c, m, i)
    BY <1>2, <2>1
  <2>5. \A i \in 1..m : i \in 1..(m + 1)
    OBVIOUS
  <2> HIDE DEF b
  <2> QED
    BY <2>1, <2>2, <2>3, <2>4, <2>5
<1>6. CASE c \notin C /\ c \notin AboveIn(K, C)
  <2>1. b[c] = a[c]
    BY <1>1, <1>6, PushLeaves
  <2>2. \A i \in 1..(m + 1) : Latest(S, c, m + 1, i) <=> i \in 1..m /\ Latest(S, c, m, i)
    BY <1>6, LatestStays
  <2>3. ASSUME NEW i \in 1..m, Latest(S, c, m, i) PROVE TopIs(S, A, c, m + 1, i)
    <3>1. TopIs(S, A, c, m, i)
      BY <1>2, <2>3
    <3>2. Deeper(S, c, i, m + 1) = Deeper(S, c, i, m)
      <4>1. \A d \in S[m + 1][2] : ~(d[1] = c[1] /\ d[2] > c[2])
        <5> SUFFICES ASSUME NEW d \in C, d[1] = c[1], d[2] > c[2] PROVE FALSE
          OBVIOUS
        <5>1. d \in K /\ d[2] \in Nat /\ c[2] \in Nat
          BY <1>1 DEF PushFits, Levels
        <5>2. c \in AboveIn(K, C)
          BY <5>1 DEF AboveIn
        <5> QED
          BY <1>6, <5>2
      <4> QED
        BY <4>1, DeeperGrows
    <3> QED
      BY <2>1, <3>1, <3>2 DEF TopIs
  <2>4. \A i \in 1..m : i \in 1..(m + 1)
    OBVIOUS
  <2> HIDE DEF b
  <2> QED
    BY <1>2, <1>3, <1>6, <2>1, <2>2, <2>3, <2>4
<1> QED
  BY <1>4, <1>5, <1>6

LEMMA StateGrows ==
  ASSUME NEW K, Levels(K), NEW z, NEW S, NEW A, NEW W, NEW m \in Nat,
         StateAt(K, S, A, W, m), StepAt(K, z, S, A, W, m + 1)
  PROVE  StateAt(K, S, A, W, m + 1)
<1>1. A[m + 1] \in StacksIn(K) /\ Chained(K, A[m + 1])
  <2>1. /\ PushFits(K, A[m], S[m + 1][2], S[m + 1][1])
        /\ A[m + 1] = Pushed(K, z, A[m], S[m + 1][2], S[m + 1][1])
    BY DEF StepAt
  <2> QED
    BY <2>1, PushKeeps
<1> QED
  BY <1>1, MatchesGrows, TopsGrows, WalksGrows DEF StateAt

LEMMA NestedGrows ==
  ASSUME NEW K, Levels(K), NEW z, NEW S, NEW A, NEW W, NEW m \in Nat,
         \A k \in 0..m : StateAt(K, S, A, W, k), \A k \in 1..(m + 1) : StepAt(K, z, S, A, W, k)
  PROVE  NestedAt(S, m + 1)
<1> SUFFICES ASSUME NEW c \in S[m + 1][2], c[2] > 1
             PROVE \E i \in 1..m :
                     /\ \E h \in 1..i : Parent(c) \in S[h][2] /\ S[h][1] = S[i][1]
                     /\ \A k \in (i + 1)..m : Type[S[k][1]] \notin {TypeOf(c), TypeOf(Parent(c))}
  BY DEF NestedAt
<1> DEFINE p == Parent(c)
           a == A[m]
           o == LastOf(a[p]).node
<1>1. \A k \in 1..(m + 1) :
        /\ S[k][1] \in Nodes
        /\ \A d \in S[k][2] : d \in K /\ TypeOf(d) = Type[S[k][1]]
        /\ \A d \in K : TypeOf(d) = Type[S[k][1]] /\ d[2] > 1 =>
             (d \in S[k][2] <=> May(A[k - 1], W[k - 1], d, S[k][1]))
  BY DEF StepAt, PushFits
<1>2. m + 1 \in 1..(m + 1) /\ (m + 1) - 1 = m /\ m \in 0..m
  OBVIOUS
<1>3. c \in K /\ May(a, W[m], c, S[m + 1][1])
  BY <1>1, <1>2
<1>4. p \in K /\ p[1] = c[1] /\ TypeOf(p) \in Types /\ TypeOf(c) # TypeOf(p)
  BY <1>3, ParentIs
<1>5. /\ a[p] # <<>> /\ o = W[m][TypeOf(p)]
      /\ a[c] # <<>> => LastOf(a[c]).within # o
  BY <1>3 DEF May
<1>6. \A k \in 0..m : Tops(K, S, A, k) /\ WalksAt(S, W[k], k)
  BY DEF StateAt
<1> HIDE DEF a, p, o
<1>7. PICK h \in 1..m : Latest(S, p, m, h)
  BY <1>2, <1>4, <1>5, <1>6 DEF Tops, a
<1>8. p \in S[h][2] /\ h \in 1..(m + 1) /\ Type[S[h][1]] = TypeOf(p)
  BY <1>1, <1>7 DEF Latest
<1>9. o = S[h][1]
  BY <1>2, <1>4, <1>6, <1>7 DEF Tops, TopIs, a, o
(* From the entering of p on, p stays what it is. *)
<1>10. ASSUME NEW k \in h..m
       PROVE  Latest(S, p, k, h) /\ A[k][p] # <<>> /\ TopIs(S, A, p, k, h) /\ LastOf(A[k][p]).node = o
  <2>1. Latest(S, p, k, h) /\ k \in 0..m
    BY <1>7 DEF Latest
  <2>2. A[k][p] # <<>> /\ TopIs(S, A, p, k, h)
    BY <1>4, <1>6, <2>1 DEF Tops, Latest
  <2> QED
    BY <1>9, <2>1, <2>2 DEF TopIs
<1>11. ASSUME NEW j \in (h + 1)..m, c \in S[j][2] PROVE FALSE
  <2>1. a[c] # <<>>
    BY <1>2, <1>3, <1>6, <1>11 DEF Tops, a
  <2>2. PICK g \in 1..m : Latest(S, c, m, g)
    BY <1>2, <1>3, <1>6, <2>1 DEF Tops, a
  <2>3. g >= j /\ g - 1 \in h..m
    BY <1>7, <1>11, <2>2 DEF Latest
  <2>4. LastOf(a[c]).within = WithinOf(A[g - 1], c)
    BY <1>2, <1>3, <1>6, <2>2 DEF Tops, TopIs, a
  <2>5. LastOf(A[g - 1][p]).node = o
    BY <1>10, <2>3
  <2>6. WithinOf(A[g - 1], c) = o
    BY <2>5 DEF WithinOf, p
  <2> QED
    BY <1>5, <2>1, <2>4, <2>6
<1>12. PICK i \in 1..m : /\ Type[S[i][1]] = TypeOf(p) /\ o = S[i][1]
                         /\ \A k \in (i + 1)..m : Type[S[k][1]] # TypeOf(p)
  BY <1>2, <1>4, <1>5, <1>6, <1>7, <1>8 DEF WalksAt
<1>13. h \in 1..i
  BY <1>7, <1>8, <1>12
<1>14. ASSUME NEW k \in (i + 1)..m, Type[S[k][1]] = TypeOf(c) PROVE FALSE
  <2>0. k - 1 \in h..m /\ k - 1 \in 0..m /\ k \in 1..(m + 1) /\ k \in (h + 1)..m /\ k - 1 \in i..m /\ k \in Int
    BY <1>7, <1>12, <1>13, <1>14
  <2>1. A[k - 1][p] # <<>> /\ LastOf(A[k - 1][p]).node = o /\ TopIs(S, A, p, k - 1, h)
    BY <1>10, <2>0
  <2>2. W[k - 1][TypeOf(p)] = o
    <3>1. \/ W[k - 1][TypeOf(p)] = Nobody /\ \A x \in 1..(k - 1) : Type[S[x][1]] # TypeOf(p)
          \/ \E x \in 1..(k - 1) : /\ Type[S[x][1]] = TypeOf(p) /\ W[k - 1][TypeOf(p)] = S[x][1]
                                   /\ \A y \in (x + 1)..(k - 1) : Type[S[y][1]] # TypeOf(p)
      BY <1>4, <1>6, <2>0 DEF WalksAt
    <3>2. i \in 1..(k - 1)
      BY <1>12, <2>0
    <3>3. PICK x \in 1..(k - 1) : /\ Type[S[x][1]] = TypeOf(p) /\ W[k - 1][TypeOf(p)] = S[x][1]
                                  /\ \A y \in (x + 1)..(k - 1) : Type[S[y][1]] # TypeOf(p)
      BY <1>12, <3>1, <3>2
    <3>4. x = i
      <4>1. ~(x < i)
        BY <1>12, <3>2, <3>3
      <4>2. ~(x > i)
        BY <1>12, <2>0, <3>2, <3>3
      <4> QED
        BY <3>2, <4>1, <4>2
    <3> QED
      BY <1>12, <3>3, <3>4
  <2>3. ASSUME A[k - 1][c] # <<>> PROVE LastOf(A[k - 1][c]).within # o
    <3>1. PICK g \in 1..(k - 1) : Latest(S, c, k - 1, g)
      BY <1>3, <1>6, <2>0, <2>3 DEF Tops
    <3>2. TopIs(S, A, c, k - 1, g)
      BY <1>3, <1>6, <2>0, <3>1 DEF Tops
    <3>3. Latest(S, c, m, g) /\ g \in 1..m
      <4>1. \A x \in (g + 1)..m : x \in (g + 1)..(k - 1) \/ x \in (h + 1)..m
        BY <2>0, <3>1
      <4> QED
        BY <1>11, <2>0, <3>1, <4>1 DEF Latest
    <3>4. a[c] # <<>> /\ TopIs(S, A, c, m, g)
      BY <1>2, <1>3, <1>6, <3>3 DEF Tops, a
    <3>5. LastOf(A[k - 1][c]).within = LastOf(a[c]).within
      BY <3>2, <3>4 DEF TopIs, a
    <3> QED
      BY <1>5, <3>4, <3>5
  <2>4. ASSUME LastOf(A[k - 1][p]).next # <<>>, LastOf(LastOf(A[k - 1][p]).next) = TypeOf(c)
        PROVE  FALSE
    <3>1. PICK j \in Deeper(S, p, h, k - 1) : LastOf(LastOf(A[k - 1][p]).next) = Type[S[j][1]]
      BY <2>1, <2>4 DEF TopIs
    <3>2. PICK d \in S[j][2] : d[1] = p[1]
      BY <3>1 DEF Deeper
    <3>3. j \in (h + 1)..m /\ j \in 1..(m + 1)
      BY <1>7, <2>0, <3>1 DEF Deeper
    <3>4. d \in K /\ TypeOf(d) = TypeOf(c)
      BY <1>1, <2>4, <3>1, <3>2, <3>3
    <3>5. d = c
      BY <1>3, <1>4, <3>2, <3>4, OneOfARule
    <3> QED
      BY <1>11, <3>2, <3>3, <3>5
  <2>5. May(A[k - 1], W[k - 1], c, S[k][1])
    BY <1>14, <2>1, <2>2, <2>3, <2>4 DEF May, p
  <2>6. c \in S[k][2]
    BY <1>1, <1>3, <1>14, <2>0, <2>5
  <2> QED
    BY <1>11, <2>0, <2>6
<1>15. \A k \in (i + 1)..m : Type[S[k][1]] \notin {TypeOf(c), TypeOf(p)}
  BY <1>12, <1>14
<1>16. \E g \in 1..i : p \in S[g][2] /\ S[g][1] = S[i][1]
  BY <1>8, <1>9, <1>12, <1>13
<1> QED
  BY <1>15, <1>16 DEF p

LEMMA UnrollOn ==
  ASSUME NEW K, Levels(K), NEW z, NEW S, NEW A, NEW W, Unrolled(K, z, S, A, W),
         NEW n \in Nodes, NEW C \in SUBSET K, PushFits(K, A[Len(S)], C, n),
         \A c \in K : TypeOf(c) = Type[n] /\ c[2] > 1 => (c \in C <=> May(A[Len(S)], W[Len(S)], c, n))
  PROVE  \E B, V :
           /\ Unrolled(K, z, Append(S, <<n, C>>), B, V)
           /\ \A i \in 0..Len(S) : B[i] = A[i] /\ V[i] = W[i]
           /\ B[Len(S) + 1] = Pushed(K, z, A[Len(S)], C, n)
           /\ V[Len(S) + 1] = [W[Len(S)] EXCEPT ![Type[n]] = n]
<1> DEFINE m == Len(S)
           R == Append(S, <<n, C>>)
           B == [i \in 0..(m + 1) |-> IF i <= m THEN A[i] ELSE Pushed(K, z, A[m], C, n)]
           V == [i \in 0..(m + 1) |-> IF i <= m THEN W[i] ELSE [W[m] EXCEPT ![Type[n]] = n]]
<1>1. /\ m \in Nat /\ S \in Seq(Nodes \X SUBSET K) /\ R \in Seq(Nodes \X SUBSET K) /\ Len(R) = m + 1
      /\ \A i \in 1..m : S[i] = R[i]
      /\ R[m + 1] = <<n, C>>
  BY DEF Unrolled
<1>2. /\ \A i \in 0..m : A[i] = B[i] /\ W[i] = V[i]
      /\ B[m + 1] = Pushed(K, z, A[m], C, n) /\ V[m + 1] = [W[m] EXCEPT ![Type[n]] = n]
  BY <1>1
<1> HIDE DEF m, R, B, V
<1>3. \A k \in 0..m : StateAt(K, R, B, V, k)
  <2> SUFFICES ASSUME NEW k \in 0..m PROVE StateAt(K, R, B, V, k)
    OBVIOUS
  <2>1. StateAt(K, S, A, W, k)
    BY DEF Unrolled, m
  <2>2. k \in Nat
    BY <1>1
  <2>3. \A i \in 1..k : S[i] = R[i]
    <3> SUFFICES ASSUME NEW i \in 1..k PROVE i \in 1..m
      BY <1>1
    <3> QED
      BY <1>1
  <2>4. \A i \in 0..k : A[i] = B[i] /\ W[i] = V[i]
    <3> SUFFICES ASSUME NEW i \in 0..k PROVE i \in 0..m
      BY <1>2
    <3> QED
      BY <1>1
  <2> QED
    BY <2>1, <2>2, <2>3, <2>4, StateAgrees
<1>4. \A k \in 1..m : StepAt(K, z, R, B, V, k) /\ NestedAt(R, k)
  <2> SUFFICES ASSUME NEW k \in 1..m PROVE StepAt(K, z, R, B, V, k) /\ NestedAt(R, k)
    OBVIOUS
  <2>1. StepAt(K, z, S, A, W, k) /\ NestedAt(S, k)
    BY DEF Unrolled, m
  <2> QED
    BY <1>1, <1>2, <2>1, StepsAgree, Zenon
<1>5. StepAt(K, z, R, B, V, m + 1)
  <2>1. (m + 1) - 1 = m /\ B[m] = A[m] /\ V[m] = W[m]
    BY <1>1, <1>2
  <2>2. R[m + 1][1] = n /\ R[m + 1][2] = C
    BY <1>1
  <2> QED
    BY <1>2, <2>1, <2>2 DEF StepAt, m
<1>6. \A k \in 1..(m + 1) : StepAt(K, z, R, B, V, k)
  BY <1>1, <1>4, <1>5
<1>7. NestedAt(R, m + 1)
  BY <1>1, <1>3, <1>6, NestedGrows, Zenon
<1>8. StateAt(K, R, B, V, m + 1)
  <2>1. StateAt(K, R, B, V, m)
    BY <1>1, <1>3
  <2> QED
    BY <1>1, <1>5, <2>1, StateGrows, Zenon
<1>9. Unrolled(K, z, R, B, V)
  <2>1. B[0] = [c \in K |-> <<>>] /\ V[0] = [t \in Types |-> Nobody]
    BY <1>1, <1>2 DEF Unrolled
  <2>2. \A k \in 0..Len(R) : StateAt(K, R, B, V, k)
    BY <1>1, <1>3, <1>8
  <2>3. \A k \in 1..Len(R) : StepAt(K, z, R, B, V, k) /\ NestedAt(R, k)
    BY <1>1, <1>4, <1>5, <1>7
  <2> QED
    BY <1>1, <2>1, <2>2, <2>3 DEF Unrolled
<1> QED
  BY <1>2, <1>9 DEF m, R

------------------------------------------------------------------------------
(* The history of the calls. *)

Of(q, kind, c, n) == {i \in DOMAIN q : q[i].kind = kind /\ q[i].context = c /\ q[i].node = n}
Visited == [kind : {"enter", "leave"}, context : Contexts, node : Nodes, within : Nodes \cup {Nobody}]

LEMMA CalledOnce ==
  ASSUME NEW kind, NEW C, IsFiniteSet(C), NEW n
  PROVE  LET s == Called(kind, C, n)
         IN /\ Cardinality(C) \in Nat /\ s \in [1..Cardinality(C) -> {Call(kind, c, n) : c \in C}]
            /\ \A c \in C : \E i \in DOMAIN s : s[i] = Call(kind, c, n)
            /\ \A i, j \in DOMAIN s : s[i].context = s[j].context => i = j
<1> DEFINE D == {Call(kind, c, n) : c \in C}
           I == 1..Cardinality(C)
           ok(s) == s \in [I -> D] /\ \A c \in C : \E i \in DOMAIN s : s[i] = Call(kind, c, n)
<1>1. Cardinality(C) \in Nat /\ ExistsBijection(I, C) /\ IsFiniteSet(I) /\ Cardinality(I) = Cardinality(C)
  BY FS_CardinalityType, FS_Interval
<1>2. PICK f : f \in [I -> C] /\ \A c \in C : \E i \in I : f[i] = c
  BY <1>1 DEF ExistsBijection, Bijection, Surjection
<1>3. \E s : ok(s)
  <2>1. ok([i \in I |-> Call(kind, f[i], n)])
    BY <1>2
  <2> QED
    BY <2>1
<1>4. Called(kind, C, n) = CHOOSE s \in [I -> D] : \A c \in C : \E i \in DOMAIN s : s[i] = Call(kind, c, n)
  BY DEF Called
<1>5. PICK s : s = Called(kind, C, n)
  OBVIOUS
<1>6. ok(s)
  BY <1>3, <1>4, <1>5
<1>7. \A c, d \in C : Call(kind, c, n).context = c /\ (Call(kind, c, n) = Call(kind, d, n) => c = d)
  BY DEF Call
<1>8. IsFiniteSet(D) /\ Cardinality(D) = Cardinality(C)
  <2> DEFINE g == [c \in C |-> Call(kind, c, n)]
  <2>1. g \in [C -> D] /\ (\A y \in D : \E c \in C : g[c] = y) /\ \A c, d \in C : g[c] = g[d] => c = d
    BY <1>7
  <2> HIDE DEF g, D
  <2>2. g \in Bijection(C, D)
    BY <2>1 DEF Bijection, Injection, Surjection, IsInjective
  <2> QED
    BY <2>2, FS_Bijection DEF ExistsBijection
<1> HIDE DEF D, I
<1>9. s \in Surjection(I, D)
  <2>1. \A y \in D : \E i \in I : s[i] = y
    BY <1>6 DEF D
  <2> QED
    BY <1>6, <2>1 DEF Surjection
<1>10. s \in Injection(I, D)
  BY <1>1, <1>8, <1>9, FS_Surjection
<1>11. \A i, j \in I : s[i] = s[j] => i = j
  BY <1>6, <1>10 DEF Injection, IsInjective
<1>12. \A i, j \in I : s[i].context = s[j].context => i = j
  <2> SUFFICES ASSUME NEW i \in I, NEW j \in I, s[i].context = s[j].context PROVE s[i] = s[j]
    BY <1>11
  <2>1. s[i] \in D /\ s[j] \in D
    BY <1>6
  <2>2. PICK c \in C, d \in C : s[i] = Call(kind, c, n) /\ s[j] = Call(kind, d, n)
    BY <2>1 DEF D
  <2> QED
    BY <1>7, <2>2
<1> QED
  BY <1>1, <1>5, <1>6, <1>12 DEF D, I

TrailFrames ==
  [ node : Nodes, next : Nat \ {0}, entered : SUBSET Contexts, opened : SUBSET Contexts,
    passed : SUBSET Weak, before : Nodes \cup {Nobody} ]
Spine(T) == [i \in DOMAIN T |-> <<T[i].node, T[i].opened>>]
Open(T, c, n) == {i \in DOMAIN T : c \in T[i].entered /\ T[i].node = n}

WalkTyped ==
  /\ GivenOK(kids, rules)
  /\ trail \in Seq(TrailFrames)
  /\ \A i \in DOMAIN trail :
       trail[i].entered \subseteq trail[i].opened /\ trail[i].next <= Len(kids[trail[i].node]) + 1
  /\ seenNodes \subseteq Nodes
  /\ calls \in Seq(Visited)
  /\ \A i \in DOMAIN calls : calls[i].context[2] = 1 => calls[i].within = Nobody

WithinsIn(K, a) ==
  \A c \in K : \A i \in DOMAIN a[c] : a[c][i].within \in (IF c[2] = 1 THEN {Nobody} ELSE Nodes)

StacksKept ==
  \E A, W :
    /\ Unrolled(Contexts, skips, Spine(trail), A, W)
    /\ active = A[Len(trail)] /\ walking = W[Len(trail)]
    /\ \A i \in DOMAIN trail : trail[i].before = W[i - 1][Type[trail[i].node]]
    /\ \A m \in 0..Len(trail) : WithinsIn(Contexts, A[m])

(* Of every entering the leaving has come or will come, and a top level *)
(* context enters what was seen, once.                                  *)
CountsKept ==
  \A c \in Contexts, n \in Nodes :
    /\ Cardinality(Of(calls, "enter", c, n)) =
         Cardinality(Of(calls, "leave", c, n)) + Cardinality(Open(trail, c, n))
    /\ c[2] = 1 /\ TypeOf(c) = Type[n] =>
         Cardinality(Of(calls, "enter", c, n)) =
           (IF n \in seenNodes /\ <<c, n>> \notin skips THEN 1 ELSE 0)

(* The kids of what was seen were seen or come next. *)
SeenKept ==
  /\ seenNodes # {} => Root \in seenNodes
  /\ seenNodes = {} => trail = <<>>
  /\ \A i \in DOMAIN trail : trail[i].node \in seenNodes
  /\ \A S \in SUBSET Nodes :
       Root \in S /\ (\A n \in S : \A j \in DOMAIN kids[n] : kids[n][j].node \in S) => seenNodes \subseteq S
  /\ \A n \in seenNodes :
       \/ \A j \in DOMAIN kids[n] : kids[n][j].node \in seenNodes
       \/ \E i \in DOMAIN trail :
            /\ trail[i].node = n
            /\ \A j \in DOMAIN kids[n] : j < trail[i].next => kids[n][j].node \in seenNodes

WalkKept == WalkTyped /\ StacksKept /\ CountsKept /\ SeenKept

LEMMA CallCounts ==
  ASSUME NEW q \in Seq(Visited), NEW kind, NEW C, IsFiniteSet(C), NEW n
  PROVE  /\ \A i \in DOMAIN (q \o Called(kind, C, n)) :
              (i \in DOMAIN q /\ (q \o Called(kind, C, n))[i] = q[i])
                \/ \E c \in C : (q \o Called(kind, C, n))[i] = Call(kind, c, n)
         /\ \A k, c, x :
              /\ Cardinality(Of(q, k, c, x)) \in Nat
              /\ Cardinality(Of(q \o Called(kind, C, n), k, c, x)) =
                   Cardinality(Of(q, k, c, x)) + (IF k = kind /\ c \in C /\ x = n THEN 1 ELSE 0)
         /\ (\A c \in C : Call(kind, c, n) \in Visited) => q \o Called(kind, C, n) \in Seq(Visited)
<1> DEFINE N == Cardinality(C)
           D == {Call(kind, c, n) : c \in C}
           L == Len(q)
<1>1. PICK s : s = Called(kind, C, n)
  OBVIOUS
<1>2. /\ N \in Nat /\ s \in [1..N -> D]
      /\ \A c \in C : \E i \in 1..N : s[i] = Call(kind, c, n)
      /\ \A i, j \in 1..N : s[i].context = s[j].context => i = j
  <2>1. LET t == Called(kind, C, n)
        IN /\ N \in Nat /\ t \in [1..N -> D]
           /\ \A c \in C : \E i \in DOMAIN t : t[i] = Call(kind, c, n)
           /\ \A i, j \in DOMAIN t : t[i].context = t[j].context => i = j
    BY CalledOnce, Zenon
  <2>2. /\ N \in Nat /\ s \in [1..N -> D]
        /\ \A c \in C : \E i \in DOMAIN s : s[i] = Call(kind, c, n)
        /\ \A i, j \in DOMAIN s : s[i].context = s[j].context => i = j
    BY <1>1, <2>1
  <2>3. DOMAIN s = 1..N
    BY <2>2
  <2> QED
    BY <2>2, <2>3
<1>3. PICK p : p = q \o s
  OBVIOUS
<1>4. s \in Seq(D) /\ Len(s) = N /\ L \in Nat
  BY <1>2
<1>5. s \in Seq(Visited \cup D) /\ q \in Seq(Visited \cup D)
  BY <1>4
<1>6. /\ Len(p) = L + N /\ DOMAIN p = 1..(L + N) /\ DOMAIN q = 1..L
      /\ \A i \in 1..(L + N) : p[i] = IF i <= L THEN q[i] ELSE s[i - L]
  <2>1. Len(q \o s) = Len(q) + Len(s) /\ q \o s \in Seq(Visited \cup D)
    BY <1>5, ConcatProperties
  <2>2. \A i \in 1..(Len(q) + Len(s)) : (q \o s)[i] = IF i <= Len(q) THEN q[i] ELSE s[i - Len(q)]
    BY <1>5, ConcatProperties
  <2>3. Len(p) = L + N /\ p \in Seq(Visited \cup D)
    BY <1>3, <1>4, <2>1
  <2> QED
    BY <1>3, <1>4, <2>2, <2>3
<1>7. \A c \in C : Call(kind, c, n).kind = kind /\ Call(kind, c, n).context = c /\ Call(kind, c, n).node = n
  BY DEF Call
<1>8. \A i \in 1..N : \E c \in C : s[i] = Call(kind, c, n)
  BY <1>2
<1>9. \A i \in DOMAIN p : (i \in DOMAIN q /\ p[i] = q[i]) \/ \E c \in C : p[i] = Call(kind, c, n)
  <2> SUFFICES ASSUME NEW i \in 1..(L + N)
               PROVE (i \in 1..L /\ p[i] = q[i]) \/ \E c \in C : p[i] = Call(kind, c, n)
    BY <1>6
  <2>1. CASE i <= L
    BY <1>4, <1>6, <2>1
  <2>2. CASE ~(i <= L)
    <3>1. i - L \in 1..N /\ p[i] = s[i - L]
      BY <1>2, <1>4, <1>6, <2>2
    <3> QED
      BY <1>8, <3>1
  <2> QED
    BY <2>1, <2>2
<1>10. (\A c \in C : Call(kind, c, n) \in Visited) => p \in Seq(Visited)
  <2> SUFFICES ASSUME \A c \in C : Call(kind, c, n) \in Visited PROVE p \in Seq(Visited)
    OBVIOUS
  <2>1. s \in Seq(Visited)
    BY <1>2, <1>4
  <2> QED
    BY <1>3, <2>1, ConcatProperties
<1>11. ASSUME NEW k, NEW c, NEW x
       PROVE  /\ Cardinality(Of(q, k, c, x)) \in Nat
              /\ Cardinality(Of(p, k, c, x)) =
                   Cardinality(Of(q, k, c, x)) + (IF k = kind /\ c \in C /\ x = n THEN 1 ELSE 0)
  <2> DEFINE Q == Of(q, k, c, x)
             P == Of(p, k, c, x)
  <2>1. IsFiniteSet(Q) /\ Q \subseteq 1..L /\ Cardinality(Q) \in Nat
    <3>1. Q \subseteq 1..L
      BY <1>6 DEF Of
    <3>2. IsFiniteSet(1..L)
      BY <1>4, FS_Interval
    <3> QED
      BY <3>1, <3>2, FS_Subset, FS_CardinalityType
  <2>2. \A i \in 1..L : i \in P <=> i \in Q
    BY <1>2, <1>4, <1>6 DEF Of
  <2>3. \A i \in 1..N : i + L \in P <=> s[i].kind = k /\ s[i].context = c /\ s[i].node = x
    <3> SUFFICES ASSUME NEW i \in 1..N PROVE i + L \in P <=> s[i].kind = k /\ s[i].context = c /\ s[i].node = x
      OBVIOUS
    <3>1. i + L \in 1..(L + N) /\ ~(i + L <= L) /\ (i + L) - L = i
      BY <1>2, <1>4
    <3>2. p[i + L] = s[i]
      BY <1>6, <3>1
    <3> QED
      BY <1>6, <3>1, <3>2 DEF Of
  <2>4. \A i \in P : i \in 1..L \/ \E j \in 1..N : i = j + L
    <3> SUFFICES ASSUME NEW i \in P, i \notin 1..L PROVE \E j \in 1..N : i = j + L
      OBVIOUS
    <3>1. i \in 1..(L + N)
      BY <1>6 DEF Of
    <3>2. i - L \in 1..N /\ i = (i - L) + L
      BY <1>2, <1>4, <3>1
    <3> QED
      BY <3>2
  <2> HIDE DEF P, Q
  <2>5. ASSUME k = kind /\ c \in C /\ x = n PROVE Cardinality(P) = Cardinality(Q) + 1
    <3>1. PICK i \in 1..N : s[i] = Call(kind, c, n)
      BY <1>2, <2>5
    <3>2. \A j \in 1..N : j + L \in P <=> j = i
      <4> SUFFICES ASSUME NEW j \in 1..N PROVE j + L \in P <=> j = i
        OBVIOUS
      <4>1. j + L \in P => s[j].context = s[i].context
        BY <1>7, <2>3, <2>5, <3>1
      <4>2. i + L \in P
        BY <1>7, <2>3, <2>5, <3>1
      <4> QED
        BY <1>2, <4>1, <4>2
    <3>3. P = Q \cup {i + L} /\ i + L \notin Q
      <4>1. i + L \in Nat /\ i + L > L
        BY <1>4
      <4>2. i + L \notin Q
        BY <1>4, <2>1, <4>1
      <4>3. \A j : j \in P <=> j \in Q \/ j = i + L
        BY <2>1, <2>2, <2>4, <3>2
      <4> QED
        BY <4>2, <4>3
    <3> QED
      BY <2>1, <2>5, <3>3, FS_AddElement
  <2>6. ASSUME ~(k = kind /\ c \in C /\ x = n) PROVE P = Q
    <3>1. \A j \in 1..N : j + L \notin P
      <4> SUFFICES ASSUME NEW j \in 1..N, j + L \in P PROVE FALSE
        OBVIOUS
      <4>1. PICK d \in C : s[j] = Call(kind, d, n)
        BY <1>8
      <4>2. k = kind /\ c = d /\ x = n
        BY <1>7, <2>3, <4>1
      <4> QED
        BY <2>6, <4>2
    <3> QED
      BY <2>1, <2>2, <2>4, <3>1
  <2>7. /\ Cardinality(Q) \in Nat
        /\ Cardinality(P) = Cardinality(Q) + (IF k = kind /\ c \in C /\ x = n THEN 1 ELSE 0)
    BY <2>1, <2>5, <2>6
  <2> QED
    BY <2>7 DEF P, Q
<1> QED
  BY <1>1, <1>3, <1>9, <1>10, <1>11

------------------------------------------------------------------------------
(* The steps of the walk. *)

(* The frames of R are those of T, where more kids of theirs may have come up. *)
Alike(R, T) ==
  /\ R \in Seq(TrailFrames) /\ Len(R) = Len(T)
  /\ \A i \in DOMAIN T :
       /\ R[i].node = T[i].node /\ R[i].entered = T[i].entered
       /\ R[i].opened = T[i].opened /\ R[i].before = T[i].before
       /\ R[i].next >= T[i].next /\ R[i].next <= Len(kids[T[i].node]) + 1

LEMMA SpineGrows ==
  ASSUME NEW R \in Seq(TrailFrames), NEW f \in TrailFrames
  PROVE  /\ Spine(R) \in Seq(Nodes \X SUBSET Contexts) /\ Len(Spine(R)) = Len(R)
         /\ Spine(Append(R, f)) = Append(Spine(R), <<f.node, f.opened>>)
         /\ R # <<>> => ButLast(Spine(R)) = Spine(ButLast(R))
<1>1. \A T \in Seq(TrailFrames) :
        /\ Spine(T) \in Seq(Nodes \X SUBSET Contexts) /\ Len(Spine(T)) = Len(T)
        /\ \A i \in 1..Len(T) : Spine(T)[i] = <<T[i].node, T[i].opened>>
  <2> SUFFICES ASSUME NEW T \in Seq(TrailFrames)
               PROVE /\ Spine(T) \in Seq(Nodes \X SUBSET Contexts) /\ Len(Spine(T)) = Len(T)
                     /\ \A i \in 1..Len(T) : Spine(T)[i] = <<T[i].node, T[i].opened>>
    OBVIOUS
  <2>1. DOMAIN T = 1..Len(T) /\ Len(T) \in Nat /\ \A i \in 1..Len(T) : T[i] \in TrailFrames
    OBVIOUS
  <2>2. \A i \in 1..Len(T) : <<T[i].node, T[i].opened>> \in Nodes \X SUBSET Contexts
    BY <2>1 DEF TrailFrames
  <2> QED
    BY <2>1, <2>2 DEF Spine
<1>2. Spine(Append(R, f)) = Append(Spine(R), <<f.node, f.opened>>)
  <2>1. Append(R, f) \in Seq(TrailFrames)
    OBVIOUS
  <2>2. <<f.node, f.opened>> \in Nodes \X SUBSET Contexts
    BY DEF TrailFrames
  <2>3. /\ Len(Append(R, f)) = Len(R) + 1 /\ Append(R, f)[Len(R) + 1] = f /\ Len(R) \in Nat
        /\ \A i \in 1..Len(R) : Append(R, f)[i] = R[i]
    OBVIOUS
  <2>4. /\ Spine(Append(R, f)) \in Seq(Nodes \X SUBSET Contexts)
        /\ Len(Spine(Append(R, f))) = Len(R) + 1
    BY <1>1, <2>1, <2>3
  <2>5. PICK t : t = Spine(R)
    OBVIOUS
  <2>6. t \in Seq(Nodes \X SUBSET Contexts) /\ Len(t) = Len(R)
    BY <1>1, <2>5
  <2>7. PICK e : e = <<f.node, f.opened>>
    OBVIOUS
  <2>8. /\ Append(t, e) \in Seq(Nodes \X SUBSET Contexts)
        /\ Len(Append(t, e)) = Len(R) + 1
        /\ Append(t, e)[Len(R) + 1] = e
        /\ \A i \in 1..Len(R) : Append(t, e)[i] = t[i]
    BY <2>2, <2>3, <2>6, <2>7
  <2>9. \A i \in 1..(Len(R) + 1) : Spine(Append(R, f))[i] = Append(t, e)[i]
    <3> SUFFICES ASSUME NEW i \in 1..(Len(R) + 1) PROVE Spine(Append(R, f))[i] = Append(t, e)[i]
      OBVIOUS
    <3>1. Spine(Append(R, f))[i] = <<Append(R, f)[i].node, Append(R, f)[i].opened>>
      BY <1>1, <2>1, <2>3
    <3>2. CASE i = Len(R) + 1
      BY <2>3, <2>7, <2>8, <3>1, <3>2
    <3>3. CASE i # Len(R) + 1
      <4>1. i \in 1..Len(R)
        BY <2>3, <3>3
      <4> QED
        BY <1>1, <2>3, <2>5, <2>8, <3>1, <4>1
    <3> QED
      BY <3>2, <3>3
  <2> QED
    BY <2>4, <2>5, <2>7, <2>8, <2>9, SeqEqual
<1>3. R # <<>> => ButLast(Spine(R)) = Spine(ButLast(R))
  <2> SUFFICES ASSUME R # <<>> PROVE ButLast(Spine(R)) = Spine(ButLast(R))
    OBVIOUS
  <2>1. /\ ButLast(R) \in Seq(TrailFrames) /\ Len(R) \in Nat \ {0} /\ Len(ButLast(R)) = Len(R) - 1
        /\ \A i \in 1..(Len(R) - 1) : ButLast(R)[i] = R[i]
    BY LastSplits
  <2>2. Spine(R) # <<>>
    BY <1>1, <2>1
  <2>3. /\ ButLast(Spine(R)) \in Seq(Nodes \X SUBSET Contexts) /\ Len(ButLast(Spine(R))) = Len(R) - 1
        /\ \A i \in 1..(Len(R) - 1) : ButLast(Spine(R))[i] = Spine(R)[i]
    BY <1>1, <2>2, LastSplits
  <2>4. \A i \in 1..(Len(R) - 1) : ButLast(Spine(R))[i] = Spine(ButLast(R))[i]
    <3> SUFFICES ASSUME NEW i \in 1..(Len(R) - 1) PROVE ButLast(Spine(R))[i] = Spine(ButLast(R))[i]
      OBVIOUS
    <3>1. i \in 1..Len(R) /\ i \in 1..Len(ButLast(R))
      BY <2>1
    <3> QED
      BY <1>1, <2>1, <2>3, <3>1
  <2> QED
    BY <1>1, <2>1, <2>3, <2>4, SeqEqual
<1> QED
  BY <1>1, <1>2, <1>3

LEMMA SpineAlike ==
  ASSUME NEW R, NEW T \in Seq(TrailFrames), Alike(R, T)
  PROVE  Spine(R) = Spine(T)
<1>1. DOMAIN R = DOMAIN T
  BY DEF Alike
<1> QED
  BY <1>1 DEF Alike, Spine

LEMMA PushWithins ==
  ASSUME NEW K, Levels(K), NEW z, NEW a, NEW C, NEW n, PushFits(K, a, C, n), WithinsIn(K, a)
  PROVE  WithinsIn(K, Pushed(K, z, a, C, n))
<1> DEFINE b == Pushed(K, z, a, C, n)
<1> SUFFICES ASSUME NEW c \in K, NEW i \in DOMAIN b[c]
             PROVE b[c][i].within \in (IF c[2] = 1 THEN {Nobody} ELSE Nodes)
  BY DEF WithinsIn
<1>1. a[c] \in Seq(Activations) /\ \A j \in 1..Len(a[c]) : a[c][j].within \in (IF c[2] = 1 THEN {Nobody} ELSE Nodes)
  BY DEF PushFits, StacksIn, WithinsIn
<1>2. PICK s : s = b[c]
  OBVIOUS
<1> HIDE DEF b
<1>3. CASE c \in C
  <2>1. /\ s \in Seq(Activations) /\ s # <<>> /\ Len(s) = Len(a[c]) + 1
        /\ LastOf(s).within = WithinOf(a, c)
        /\ \A j \in 1..Len(a[c]) : s[j] = a[c][j]
    BY <1>2, <1>3, PushEnters DEF b
  <2>2. WithinOf(a, c) \in (IF c[2] = 1 THEN {Nobody} ELSE Nodes)
    <3>1. c[2] # 1 => a[Parent(c)] # <<>> /\ a[Parent(c)] \in Seq(Activations)
      <4> SUFFICES ASSUME c[2] # 1 PROVE a[Parent(c)] # <<>> /\ a[Parent(c)] \in Seq(Activations)
        OBVIOUS
      <4>1. c[2] > 1
        BY DEF Levels
      <4> QED
        BY <1>3, <4>1, ParentIs DEF PushFits, StacksIn
    <3>2. c[2] # 1 => LastOf(a[Parent(c)]) \in Activations
      BY <3>1, LastSplits
    <3> QED
      BY <3>2 DEF WithinOf, Activations
  <2>3. i \in 1..(Len(a[c]) + 1) /\ Len(a[c]) \in Nat
    BY <1>1, <1>2, <2>1
  <2>4. CASE i \in 1..Len(a[c])
    BY <1>1, <1>2, <2>1, <2>4
  <2>5. CASE i = Len(s)
    <3>1. s[i].within = WithinOf(a, c)
      BY <2>1, <2>5 DEF LastOf
    <3> QED
      BY <1>2, <2>2, <3>1
  <2> QED
    BY <2>1, <2>3, <2>4, <2>5
<1>4. CASE c \in AboveIn(K, C)
  <2>1. /\ s \in Seq(Activations) /\ s # <<>> /\ Len(s) = Len(a[c]) /\ ButLast(s) = ButLast(a[c])
        /\ LastOf(s).within = LastOf(a[c]).within
    BY <1>2, <1>4, PushTold DEF b
  <2>2. a[c] # <<>>
    BY <1>4, AboveFacts
  <2>3. /\ \A j \in 1..(Len(s) - 1) : s[j] = ButLast(s)[j]
        /\ \A j \in 1..(Len(a[c]) - 1) : a[c][j] = ButLast(a[c])[j]
    BY <1>1, <2>1, <2>2, LastSplits
  <2>4. i \in 1..Len(s) /\ Len(s) \in Nat
    BY <1>2, <2>1
  <2>5. s[i].within = a[c][i].within
    <3>1. CASE i = Len(s)
      BY <2>1, <3>1 DEF LastOf
    <3>2. CASE i # Len(s)
      BY <2>1, <2>3, <2>4, <3>2
    <3> QED
      BY <3>1, <3>2
  <2> QED
    BY <1>1, <1>2, <2>1, <2>4, <2>5
<1>5. CASE c \notin C /\ c \notin AboveIn(K, C)
  <2>1. b[c] = a[c]
    BY <1>5, PushLeaves DEF b
  <2> QED
    BY <1>1, <2>1
<1> QED
  BY <1>3, <1>4, <1>5

LEMMA GivenStays ==
  ASSUME UNCHANGED walkGiven
  PROVE  /\ kids' = kids /\ rules' = rules /\ skips' = skips
         /\ Contexts' = Contexts /\ Weak' = Weak /\ TrailFrames' = TrailFrames /\ Visited' = Visited
<1>1. kids' = kids /\ rules' = rules /\ skips' = skips
  BY DEF walkGiven
<1>2. Contexts' = Contexts
  BY <1>1 DEF Contexts
<1>3. Weak' = Weak
  BY <1>2 DEF Weak
<1> QED
  BY <1>1, <1>2, <1>3 DEF TrailFrames, Visited

(* What the invariants say of the stacks and the innermost nodes. *)
LEMMA StacksAre ==
  ASSUME WalkTyped, StacksKept
  PROVE  /\ Levels(Contexts) /\ IsFiniteSet(Contexts) /\ active \in StacksIn(Contexts)
         /\ Chained(Contexts, active) /\ WithinsIn(Contexts, active)
         /\ walking \in [Types -> Nodes \cup {Nobody}]
<1>1. Levels(Contexts) /\ IsFiniteSet(Contexts)
  BY ContextsAreLevels DEF WalkTyped, Levels
<1>2. PICK A, W : /\ Unrolled(Contexts, skips, Spine(trail), A, W)
                  /\ active = A[Len(trail)] /\ walking = W[Len(trail)]
                  /\ \A m \in 0..Len(trail) : WithinsIn(Contexts, A[m])
  BY DEF StacksKept
<1>3. trail \in Seq(TrailFrames) /\ Len(trail) \in 0..Len(trail) /\ Len(Spine(trail)) = Len(trail)
  <2>1. trail \in Seq(TrailFrames) /\ Len(trail) \in 0..Len(trail) /\ DOMAIN trail = 1..Len(trail)
    BY DEF WalkTyped
  <2> QED
    BY <2>1 DEF Spine
<1>4. StateAt(Contexts, Spine(trail), A, W, Len(trail))
  BY <1>2, <1>3 DEF Unrolled
<1> QED
  BY <1>1, <1>2, <1>3, <1>4 DEF StateAt, WalksAt

LEMMA Enters ==
  ASSUME WalkTyped, StacksKept, NEW n \in Nodes
  PROVE  /\ Entering(n) \subseteq Contexts /\ IsFiniteSet(Entering(n))
         /\ PushFits(Contexts, active, Entering(n), n)
         /\ Entered(Entering(n), n) = Pushed(Contexts, skips, active, Entering(n), n)
         /\ \A c \in Contexts : TypeOf(c) = Type[n] /\ c[2] > 1 =>
              (c \in Entering(n) <=> May(active, walking, c, n))
         /\ \A c \in Entering(n) : \A kind \in {"enter", "leave"} :
              /\ Call(kind, c, n) \in Visited
              /\ c[2] = 1 => Call(kind, c, n).within = Nobody
<1>1. /\ Levels(Contexts) /\ IsFiniteSet(Contexts) /\ active \in StacksIn(Contexts)
      /\ Chained(Contexts, active) /\ WithinsIn(Contexts, active)
      /\ walking \in [Types -> Nodes \cup {Nobody}]
  BY StacksAre
<1>2. /\ Entering(n) \subseteq Contexts
      /\ \A c \in Entering(n) : TypeOf(c) = Type[n] /\ MayEnter(c, n)
      /\ \A c \in Contexts : TypeOf(c) = Type[n] => (c \in Entering(n) <=> MayEnter(c, n))
  BY DEF Entering, EnterOf
<1>3. IsFiniteSet(Entering(n))
  BY <1>1, <1>2, FS_Subset
<1>4. \A c \in Contexts : c[2] \in Nat /\ c[2] >= 1
  BY <1>1 DEF Levels
<1>5. \A c \in Contexts : c[2] > 1 => (MayEnter(c, n) <=> May(active, walking, c, n))
  BY <1>4 DEF MayEnter, May, TopOf
<1>6. PushFits(Contexts, active, Entering(n), n)
  <2>1. \A c \in Entering(n) : c[2] > 1 => active[Parent(c)] # <<>>
    BY <1>2, <1>5 DEF May
  <2> QED
    BY <1>1, <1>2, <2>1 DEF PushFits
<1>7. Entered(Entering(n), n) = Pushed(Contexts, skips, active, Entering(n), n)
  <2>1. \A c : Within(c) = WithinOf(active, c) /\ Skipped(c, n) = SkippedIn(active, skips, c, n)
    BY DEF Within, WithinOf, Skipped, SkippedIn, TopOf
  <2>2. Above(Entering(n)) = AboveIn(Contexts, Entering(n))
    BY DEF Above, AboveIn
  <2> QED
    BY <2>1, <2>2 DEF Entered, Pushed, TopOf
<1>8. ASSUME NEW c \in Entering(n), NEW kind \in {"enter", "leave"}
      PROVE  Call(kind, c, n) \in Visited /\ (c[2] = 1 => Call(kind, c, n).within = Nobody)
  <2>1. Within(c) \in Nodes \cup {Nobody} /\ (c[2] = 1 => Within(c) = Nobody)
    <3>1. CASE c[2] = 1
      BY <3>1 DEF Within
    <3>2. CASE c[2] # 1
      <4>1. c \in Contexts /\ c[2] > 1 /\ active[Parent(c)] # <<>>
        BY <1>2, <1>4, <1>6, <3>2 DEF PushFits
      <4>2. active[Parent(c)] \in Seq(Activations)
        BY <1>1, <4>1, ParentIs DEF StacksIn
      <4>3. TopOf(Parent(c)) \in Activations
        BY <4>1, <4>2, LastSplits DEF TopOf
      <4> QED
        BY <3>2, <4>3 DEF Within, Activations
    <3> QED
      BY <3>1, <3>2
  <2> QED
    BY <1>2, <2>1 DEF Call, Visited
<1> QED
  BY <1>2, <1>3, <1>5, <1>6, <1>7, <1>8

(* The frame that WalkNode appends. *)
FrameOf(object, n) ==
  LET C == Entering(n)
      visited == {c \in C : ~Skipped(c, n)}
      W == Passing(object, n, C)
      goesOn == visited # {} \/ W # {} \/ n \notin seenNodes
  IN [ node |-> n, next |-> IF goesOn THEN 1 ELSE Len(kids[n]) + 1,
       entered |-> visited, opened |-> C, passed |-> W, before |-> walking[Type[n]] ]

LEMMA WalkNodeIs ==
  ASSUME WalkTyped, StacksKept, NEW n \in Nodes, NEW object, NEW rest, WalkNode(object, n, rest)
  PROVE  /\ trail' = Append(rest, FrameOf(object, n)) /\ FrameOf(object, n) \in TrailFrames
         /\ FrameOf(object, n).node = n /\ FrameOf(object, n).opened = Entering(n)
         /\ FrameOf(object, n).entered = {c \in Entering(n) : ~Skipped(c, n)}
         /\ FrameOf(object, n).before = walking[Type[n]]
         /\ FrameOf(object, n).next <= Len(kids[n]) + 1
         /\ n \notin seenNodes => FrameOf(object, n).next = 1
         /\ active' = Pushed(Contexts, skips, active, Entering(n), n)
         /\ walking' = [walking EXCEPT ![Type[n]] = n]
         /\ seenNodes' = seenNodes \cup {n}
         /\ calls' = calls \o Called("enter", {c \in Entering(n) : ~Skipped(c, n)}, n)
         /\ UNCHANGED walkGiven
<1>1. Entering(n) \subseteq Contexts /\ Entered(Entering(n), n) = Pushed(Contexts, skips, active, Entering(n), n)
  BY Enters
<1>2. Passing(object, n, Entering(n)) \subseteq Weak
  BY DEF Passing, WeakOf
<1>3. walking[Type[n]] \in Nodes \cup {Nobody}
  BY StacksAre DEF Types
<1>4. Len(kids[n]) \in Nat
  BY DEF WalkTyped, GivenOK
<1>5. FrameOf(object, n) \in TrailFrames
  BY <1>1, <1>2, <1>3, <1>4 DEF FrameOf, TrailFrames
<1>6. /\ FrameOf(object, n).node = n /\ FrameOf(object, n).opened = Entering(n)
      /\ FrameOf(object, n).entered = {c \in Entering(n) : ~Skipped(c, n)}
      /\ FrameOf(object, n).before = walking[Type[n]]
      /\ FrameOf(object, n).next <= Len(kids[n]) + 1
      /\ n \notin seenNodes => FrameOf(object, n).next = 1
  BY <1>4 DEF FrameOf
<1>7. trail' = Append(rest, FrameOf(object, n))
  BY DEF WalkNode, FrameOf
<1>8. /\ active' = Entered(Entering(n), n)
      /\ walking' = [walking EXCEPT ![Type[n]] = n]
      /\ seenNodes' = seenNodes \cup {n}
      /\ calls' = calls \o Called("enter", {c \in Entering(n) : ~Skipped(c, n)}, n)
      /\ UNCHANGED walkGiven
  BY DEF WalkNode
<1> QED
  BY <1>1, <1>5, <1>6, <1>7, <1>8

LEMMA WalkNodeTyped ==
  ASSUME WalkTyped, StacksKept, NEW n \in Nodes, NEW object, NEW rest, Alike(rest, trail),
         WalkNode(object, n, rest)
  PROVE  WalkTyped'
<1>1. PICK f : f = FrameOf(object, n)
  OBVIOUS
<1>2. /\ trail' = Append(rest, f) /\ f \in TrailFrames
      /\ f.node = n /\ f.opened = Entering(n)
      /\ f.entered = {c \in Entering(n) : ~Skipped(c, n)} /\ f.next <= Len(kids[n]) + 1
      /\ seenNodes' = seenNodes \cup {n}
      /\ calls' = calls \o Called("enter", {c \in Entering(n) : ~Skipped(c, n)}, n)
      /\ UNCHANGED walkGiven
  BY <1>1, WalkNodeIs
<1>3. /\ kids' = kids /\ rules' = rules
      /\ TrailFrames' = TrailFrames /\ Visited' = Visited
  BY <1>2, GivenStays
<1>4. /\ rest \in Seq(TrailFrames) /\ DOMAIN rest = 1..Len(rest) /\ Len(rest) \in Nat /\ DOMAIN trail = 1..Len(rest)
      /\ \A i \in 1..Len(rest) : /\ rest[i].entered \subseteq rest[i].opened
                                 /\ rest[i].next <= Len(kids[rest[i].node]) + 1
  <2>1. trail \in Seq(TrailFrames) /\ DOMAIN trail = 1..Len(trail)
    BY DEF WalkTyped
  <2>2. rest \in Seq(TrailFrames) /\ Len(rest) = Len(trail)
    BY DEF Alike
  <2>3. \A i \in DOMAIN trail : /\ rest[i].entered \subseteq rest[i].opened
                                /\ rest[i].next <= Len(kids[rest[i].node]) + 1
    BY DEF Alike, WalkTyped
  <2> QED
    BY <2>1, <2>2, <2>3
<1>5. /\ Append(rest, f) \in Seq(TrailFrames) /\ DOMAIN Append(rest, f) = 1..(Len(rest) + 1)
      /\ \A i \in 1..Len(rest) : Append(rest, f)[i] = rest[i]
      /\ Append(rest, f)[Len(rest) + 1] = f
  BY <1>2, <1>4
<1>6. \A i \in DOMAIN Append(rest, f) :
        /\ Append(rest, f)[i].entered \subseteq Append(rest, f)[i].opened
        /\ Append(rest, f)[i].next <= Len(kids[Append(rest, f)[i].node]) + 1
  <2> SUFFICES ASSUME NEW i \in 1..(Len(rest) + 1)
               PROVE /\ Append(rest, f)[i].entered \subseteq Append(rest, f)[i].opened
                     /\ Append(rest, f)[i].next <= Len(kids[Append(rest, f)[i].node]) + 1
    BY <1>5
  <2>1. CASE i = Len(rest) + 1
    BY <1>2, <1>5, <2>1
  <2>2. CASE i # Len(rest) + 1
    <3>1. i \in 1..Len(rest)
      BY <1>4, <2>2
    <3> QED
      BY <1>4, <1>5, <3>1
  <2> QED
    BY <2>1, <2>2
<1>7. calls' \in Seq(Visited) /\ \A i \in DOMAIN calls' : calls'[i].context[2] = 1 => calls'[i].within = Nobody
  <2> DEFINE C == {c \in Entering(n) : ~Skipped(c, n)}
             q == calls \o Called("enter", C, n)
  <2>1. IsFiniteSet(C) /\ calls \in Seq(Visited)
    BY Enters, FS_Subset DEF WalkTyped
  <2>2. \A c \in C : /\ Call("enter", c, n) \in Visited
                     /\ c[2] = 1 => Call("enter", c, n).within = Nobody
                     /\ Call("enter", c, n).context = c
    BY Enters DEF Call
  <2> HIDE DEF C
  <2>3. /\ \A i \in DOMAIN q : (i \in DOMAIN calls /\ q[i] = calls[i]) \/ \E c \in C : q[i] = Call("enter", c, n)
        /\ q \in Seq(Visited)
    <3>1. PICK p, D : p = calls /\ D = C
      OBVIOUS
    <3>2. p \in Seq(Visited) /\ IsFiniteSet(D)
      BY <2>1, <3>1
    <3>3. /\ \A i \in DOMAIN (p \o Called("enter", D, n)) :
                (i \in DOMAIN p /\ (p \o Called("enter", D, n))[i] = p[i])
                  \/ \E c \in D : (p \o Called("enter", D, n))[i] = Call("enter", c, n)
          /\ \A k, c, x :
               /\ Cardinality(Of(p, k, c, x)) \in Nat
               /\ Cardinality(Of(p \o Called("enter", D, n), k, c, x)) =
                    Cardinality(Of(p, k, c, x)) + (IF k = "enter" /\ c \in D /\ x = n THEN 1 ELSE 0)
          /\ (\A c \in D : Call("enter", c, n) \in Visited) => p \o Called("enter", D, n) \in Seq(Visited)
      BY <3>2, CallCounts
    <3> QED
      BY <2>2, <3>1, <3>3
  <2>4. calls' = q
    BY <1>2 DEF C
  <2> HIDE DEF q
  <2>5. \A i \in DOMAIN q : q[i].context[2] = 1 => q[i].within = Nobody
    BY <2>2, <2>3 DEF WalkTyped
  <2> QED
    BY <2>3, <2>4, <2>5
<1>8. seenNodes' \subseteq Nodes
  BY <1>2 DEF WalkTyped
<1>9. GivenOK(kids', rules')
  BY <1>3 DEF WalkTyped
<1>10. trail' = Append(rest, f)
  BY <1>2
<1> QED
  BY <1>3, <1>5, <1>6, <1>7, <1>8, <1>9, <1>10 DEF WalkTyped

LEMMA WalkNodeStacks ==
  ASSUME WalkTyped, StacksKept, NEW n \in Nodes, NEW object, NEW rest, Alike(rest, trail),
         WalkNode(object, n, rest)
  PROVE  StacksKept'
<1>1. PICK f : f = FrameOf(object, n)
  OBVIOUS
<1>2. PICK K, z, C, T, m, a, w : /\ K = Contexts /\ z = skips /\ C = Entering(n) /\ T = trail
                                /\ m = Len(trail) /\ a = active /\ w = walking
  OBVIOUS
<1>3. /\ trail' = Append(rest, f) /\ f \in TrailFrames /\ f.node = n /\ f.opened = C /\ f.before = w[Type[n]]
      /\ active' = Pushed(K, z, a, C, n) /\ walking' = [w EXCEPT ![Type[n]] = n]
      /\ Contexts' = K /\ skips' = z
  <2>1. /\ trail' = Append(rest, f) /\ f \in TrailFrames /\ f.node = n /\ f.opened = Entering(n)
        /\ f.before = walking[Type[n]]
        /\ active' = Pushed(Contexts, skips, active, Entering(n), n)
        /\ walking' = [walking EXCEPT ![Type[n]] = n] /\ UNCHANGED walkGiven
    BY <1>1, WalkNodeIs
  <2>2. Contexts' = Contexts /\ skips' = skips
    BY <2>1, GivenStays
  <2> QED
    BY <1>2, <2>1, <2>2, Zenon
<1>4. /\ T \in Seq(TrailFrames) /\ rest \in Seq(TrailFrames) /\ m \in Nat /\ Len(rest) = m
      /\ DOMAIN rest = 1..m /\ DOMAIN T = 1..m
      /\ Spine(rest) = Spine(T) /\ Spine(T) \in Seq(Nodes \X SUBSET K) /\ Len(Spine(T)) = m
      /\ Spine(Append(rest, f)) = Append(Spine(T), <<n, C>>)
  <2>1. T \in Seq(TrailFrames) /\ m = Len(T)
    BY <1>2 DEF WalkTyped
  <2>2. rest \in Seq(TrailFrames) /\ Len(rest) = m /\ Spine(rest) = Spine(T)
    BY <1>2, <2>1, SpineAlike DEF Alike
  <2>3. Spine(T) \in Seq(Nodes \X SUBSET K) /\ Len(Spine(T)) = m
    BY <1>2, <1>3, <2>1, SpineGrows
  <2>4. Spine(Append(rest, f)) = Append(Spine(rest), <<f.node, f.opened>>)
    BY <1>3, <2>2, SpineGrows
  <2> QED
    BY <1>3, <2>1, <2>2, <2>3, <2>4
<1>5. PICK A, W : /\ Unrolled(K, z, Spine(T), A, W)
                  /\ a = A[m] /\ w = W[m]
                  /\ \A i \in DOMAIN T : T[i].before = W[i - 1][Type[T[i].node]]
                  /\ \A i \in 0..m : WithinsIn(K, A[i])
  BY <1>2 DEF StacksKept
<1>6. /\ Levels(K) /\ PushFits(K, a, C, n) /\ C \in SUBSET K
      /\ \A c \in K : TypeOf(c) = Type[n] /\ c[2] > 1 => (c \in C <=> May(a, w, c, n))
  BY <1>2, Enters, StacksAre
<1>7. PICK B, V : /\ Unrolled(K, z, Append(Spine(T), <<n, C>>), B, V)
                  /\ \A i \in 0..m : B[i] = A[i] /\ V[i] = W[i]
                  /\ B[m + 1] = Pushed(K, z, A[m], C, n)
                  /\ V[m + 1] = [W[m] EXCEPT ![Type[n]] = n]
  <2>1. PICK S : S = Spine(T)
    OBVIOUS
  <2>2. /\ Levels(K) /\ Unrolled(K, z, S, A, W) /\ PushFits(K, A[Len(S)], C, n)
        /\ \A c \in K : TypeOf(c) = Type[n] /\ c[2] > 1 => (c \in C <=> May(A[Len(S)], W[Len(S)], c, n))
    BY <1>4, <1>5, <1>6, <2>1
  <2>3. \E B, V :
           /\ Unrolled(K, z, Append(S, <<n, C>>), B, V)
           /\ \A i \in 0..Len(S) : B[i] = A[i] /\ V[i] = W[i]
           /\ B[Len(S) + 1] = Pushed(K, z, A[Len(S)], C, n)
           /\ V[Len(S) + 1] = [W[Len(S)] EXCEPT ![Type[n]] = n]
    BY <1>6, <2>2, UnrollOn
  <2>4. Len(S) = m
    BY <1>4, <2>1
  <2> QED
    BY <2>1, <2>3, <2>4
<1>8. /\ Unrolled(K, z, Spine(Append(rest, f)), B, V)
      /\ active' = B[m + 1] /\ walking' = V[m + 1]
  BY <1>3, <1>4, <1>5, <1>7
<1>9. /\ Len(Append(rest, f)) = m + 1 /\ DOMAIN Append(rest, f) = 1..(m + 1)
      /\ Append(rest, f)[m + 1] = f /\ \A i \in 1..m : Append(rest, f)[i] = rest[i]
  BY <1>3, <1>4
<1>10. \A i \in 1..(m + 1) : Append(rest, f)[i].before = V[i - 1][Type[Append(rest, f)[i].node]]
  <2> SUFFICES ASSUME NEW i \in 1..(m + 1)
               PROVE Append(rest, f)[i].before = V[i - 1][Type[Append(rest, f)[i].node]]
    OBVIOUS
  <2>1. CASE i = m + 1
    <3>0. m \in Nat
      BY <1>4
    <3>1. i - 1 = m /\ V[m] = W[m]
      <4>1. i - 1 = m /\ m \in 0..m
        BY ONLY <2>1, <3>0
      <4> QED
        BY <1>7, <4>1, Zenon
    <3>2. Append(rest, f)[i] = f
      BY <1>9, <2>1
    <3>3. f.before = V[m][Type[f.node]]
      BY <1>3, <1>5, <3>1
    <3> QED
      BY <3>1, <3>2, <3>3
  <2>2. CASE i # m + 1
    <3>1. i \in 1..m /\ i - 1 \in 0..m
      BY <1>4, <2>2
    <3>2. rest[i].before = T[i].before /\ rest[i].node = T[i].node
      BY <1>2, <1>4, <3>1 DEF Alike
    <3>3. Append(rest, f)[i] = rest[i]
      BY <1>9, <3>1
    <3>4. T[i].before = W[i - 1][Type[T[i].node]]
      BY <1>4, <1>5, <3>1
    <3>5. V[i - 1] = W[i - 1]
      BY <1>7, <3>1
    <3> QED
      BY <3>2, <3>3, <3>4, <3>5
  <2> QED
    BY <2>1, <2>2
<1>11. \A i \in 0..(m + 1) : WithinsIn(K, B[i])
  <2>1. WithinsIn(K, B[m + 1])
    <3>1. WithinsIn(K, a)
      BY <1>4, <1>5
    <3> QED
      BY <1>5, <1>6, <1>7, <3>1, PushWithins
  <2> QED
    BY <1>4, <1>5, <1>7, <2>1
<1>12. Len(trail') = m + 1 /\ DOMAIN trail' = 1..(m + 1) /\ trail' = Append(rest, f)
  BY <1>3, <1>9
<1>13. /\ Unrolled(Contexts', skips', Spine(trail'), B, V)
       /\ active' = B[Len(trail')] /\ walking' = V[Len(trail')]
       /\ \A i \in DOMAIN trail' : trail'[i].before = V[i - 1][Type[trail'[i].node]]
       /\ \A i \in 0..Len(trail') : WithinsIn(Contexts', B[i])
  BY <1>3, <1>8, <1>10, <1>11, <1>12
<1> QED
  BY <1>13 DEF StacksKept

LEMMA OpenGrows ==
  ASSUME NEW T \in Seq(TrailFrames), NEW R, Alike(R, T), NEW f \in TrailFrames, NEW c, NEW n
  PROVE  /\ Cardinality(Open(T, c, n)) \in Nat
         /\ Cardinality(Open(Append(R, f), c, n)) =
              Cardinality(Open(T, c, n)) + (IF c \in f.entered /\ f.node = n THEN 1 ELSE 0)
<1> DEFINE m == Len(T)
           O == Open(T, c, n)
           P == Open(Append(R, f), c, n)
<1>1. m \in Nat /\ DOMAIN T = 1..m /\ R \in Seq(TrailFrames) /\ Len(R) = m
  BY DEF Alike
<1>2. /\ DOMAIN Append(R, f) = 1..(m + 1) /\ Append(R, f)[m + 1] = f
      /\ \A i \in 1..m : Append(R, f)[i] = R[i]
  BY <1>1
<1>3. \A i \in 1..m : R[i].entered = T[i].entered /\ R[i].node = T[i].node
  BY <1>1 DEF Alike
<1>4. O \subseteq 1..m /\ IsFiniteSet(O) /\ Cardinality(O) \in Nat /\ m + 1 \notin O
  <2>1. O \subseteq 1..m
    BY <1>1 DEF Open
  <2>2. IsFiniteSet(1..m) /\ m + 1 \notin 1..m
    BY <1>1, FS_Interval
  <2> QED
    BY <2>1, <2>2, FS_Subset, FS_CardinalityType
<1>5. \A i \in 1..m : i \in P <=> i \in O
  <2> SUFFICES ASSUME NEW i \in 1..m PROVE i \in P <=> i \in O
    OBVIOUS
  <2>1. i \in 1..(m + 1)
    BY <1>1
  <2> QED
    BY <1>1, <1>2, <1>3, <2>1 DEF Open
<1>6. \A i \in P : i \in 1..m \/ i = m + 1
  <2>1. P \subseteq 1..(m + 1)
    BY <1>2 DEF Open
  <2> QED
    BY <1>1, <2>1
<1>7. m + 1 \in P <=> c \in f.entered /\ f.node = n
  <2>1. m + 1 \in 1..(m + 1)
    BY <1>1
  <2> QED
    BY <1>2, <2>1 DEF Open
<1> HIDE DEF O, P, m
<1>8. ASSUME c \in f.entered /\ f.node = n PROVE Cardinality(P) = Cardinality(O) + 1
  <2>1. \A i : i \in P <=> i \in O \/ i = m + 1
    BY <1>4, <1>5, <1>6, <1>7, <1>8
  <2>2. P = O \cup {m + 1}
    BY <2>1
  <2> QED
    BY <1>4, <2>2, FS_AddElement
<1>9. ASSUME ~(c \in f.entered /\ f.node = n) PROVE P = O
  BY <1>4, <1>5, <1>6, <1>7, <1>9
<1>10. /\ Cardinality(O) \in Nat
       /\ Cardinality(P) = Cardinality(O) + (IF c \in f.entered /\ f.node = n THEN 1 ELSE 0)
  BY <1>4, <1>8, <1>9
<1> QED
  BY <1>10 DEF O, P

LEMMA WalkNodeCounts ==
  ASSUME WalkTyped, StacksKept, CountsKept, NEW n \in Nodes, NEW object, NEW rest, Alike(rest, trail),
         WalkNode(object, n, rest)
  PROVE  CountsKept'
<1>1. PICK f, T, q, C, sk, seen : /\ f = FrameOf(object, n) /\ T = trail /\ q = calls
                                 /\ C = {c \in Entering(n) : ~Skipped(c, n)} /\ sk = skips /\ seen = seenNodes
  OBVIOUS
<1>2. /\ trail' = Append(rest, f) /\ f \in TrailFrames /\ f.node = n /\ f.entered = C
      /\ calls' = q \o Called("enter", C, n) /\ seenNodes' = seen \cup {n}
      /\ Contexts' = Contexts /\ skips' = sk
  <2>1. /\ trail' = Append(rest, f) /\ f \in TrailFrames /\ f.node = n /\ f.entered = C
        /\ calls' = calls \o Called("enter", {c \in Entering(n) : ~Skipped(c, n)}, n)
        /\ seenNodes' = seenNodes \cup {n} /\ UNCHANGED walkGiven
    BY <1>1, WalkNodeIs
  <2> QED
    BY <1>1, <2>1, GivenStays
<1>3. q \in Seq(Visited) /\ IsFiniteSet(C) /\ T \in Seq(TrailFrames) /\ Alike(rest, T)
  <2>1. IsFiniteSet(Entering(n))
    BY Enters
  <2>2. C \subseteq Entering(n)
    BY <1>1
  <2> QED
    BY <1>1, <2>1, <2>2, FS_Subset DEF WalkTyped
<1>4. PICK s : s = Called("enter", C, n)
  OBVIOUS
<1>5. \A k, c, x :
        /\ Cardinality(Of(q, k, c, x)) \in Nat
        /\ Cardinality(Of(q \o s, k, c, x)) =
             Cardinality(Of(q, k, c, x)) + (IF k = "enter" /\ c \in C /\ x = n THEN 1 ELSE 0)
  <2>1. /\ \A i \in DOMAIN (q \o Called("enter", C, n)) :
              (i \in DOMAIN q /\ (q \o Called("enter", C, n))[i] = q[i])
                \/ \E c \in C : (q \o Called("enter", C, n))[i] = Call("enter", c, n)
        /\ \A k, c, x :
             /\ Cardinality(Of(q, k, c, x)) \in Nat
             /\ Cardinality(Of(q \o Called("enter", C, n), k, c, x)) =
                  Cardinality(Of(q, k, c, x)) + (IF k = "enter" /\ c \in C /\ x = n THEN 1 ELSE 0)
        /\ (\A c \in C : Call("enter", c, n) \in Visited) => q \o Called("enter", C, n) \in Seq(Visited)
    BY <1>3, CallCounts
  <2> QED
    BY <1>4, <2>1
<1>6. \A c \in Contexts : c[2] = 1 =>
        (c \in C <=> TypeOf(c) = Type[n] /\ n \notin seen /\ <<c, n>> \notin sk)
  <2> SUFFICES ASSUME NEW c \in Contexts, c[2] = 1
               PROVE c \in C <=> TypeOf(c) = Type[n] /\ n \notin seen /\ <<c, n>> \notin sk
    OBVIOUS
  <2>1. c \in Entering(n) <=> TypeOf(c) = Type[n] /\ n \notin seen
    BY <1>1 DEF Entering, EnterOf, MayEnter
  <2>2. Skipped(c, n) <=> <<c, n>> \in sk
    BY <1>1 DEF Skipped
  <2> QED
    BY <1>1, <2>1, <2>2
<1>7. ASSUME NEW c \in Contexts, NEW x \in Nodes
      PROVE  /\ Cardinality(Of(q \o s, "enter", c, x)) =
                  Cardinality(Of(q \o s, "leave", c, x)) + Cardinality(Open(Append(rest, f), c, x))
             /\ c[2] = 1 /\ TypeOf(c) = Type[x] =>
                  Cardinality(Of(q \o s, "enter", c, x)) =
                    (IF x \in seen \cup {n} /\ <<c, x>> \notin sk THEN 1 ELSE 0)
  <2>1. PICK e, l, o, e1, l1, o1 :
          /\ e = Cardinality(Of(q, "enter", c, x)) /\ l = Cardinality(Of(q, "leave", c, x))
          /\ o = Cardinality(Open(T, c, x))
          /\ e1 = Cardinality(Of(q \o s, "enter", c, x)) /\ l1 = Cardinality(Of(q \o s, "leave", c, x))
          /\ o1 = Cardinality(Open(Append(rest, f), c, x))
    OBVIOUS
  <2>2. /\ e \in Nat /\ l \in Nat /\ l1 = l + 0
        /\ e1 = e + (IF c \in C /\ x = n THEN 1 ELSE 0)
    BY <1>5, <2>1
  <2>3. o \in Nat /\ o1 = o + (IF c \in C /\ x = n THEN 1 ELSE 0)
    <3>1. /\ Cardinality(Open(T, c, x)) \in Nat
          /\ Cardinality(Open(Append(rest, f), c, x)) =
               Cardinality(Open(T, c, x)) + (IF c \in f.entered /\ f.node = x THEN 1 ELSE 0)
      BY <1>2, <1>3, OpenGrows
    <3> QED
      BY <1>2, <2>1, <3>1
  <2>4. /\ e = l + o
        /\ c[2] = 1 /\ TypeOf(c) = Type[x] => e = (IF x \in seen /\ <<c, x>> \notin sk THEN 1 ELSE 0)
    BY <1>1, <2>1 DEF CountsKept
  <2>5. e1 = l1 + o1
    BY <2>2, <2>3, <2>4
  <2>6. c[2] = 1 /\ TypeOf(c) = Type[x] => e1 = (IF x \in seen \cup {n} /\ <<c, x>> \notin sk THEN 1 ELSE 0)
    <3>1. CASE x = n
      BY <1>6, <2>2, <2>4, <3>1
    <3>2. CASE x # n
      BY <2>2, <2>4, <3>2
    <3> QED
      BY <3>1, <3>2
  <2> QED
    BY <2>1, <2>5, <2>6
<1>8. \A c \in Contexts', x \in Nodes :
        /\ Cardinality(Of(calls', "enter", c, x)) =
             Cardinality(Of(calls', "leave", c, x)) + Cardinality(Open(trail', c, x))
        /\ c[2] = 1 /\ TypeOf(c) = Type[x] =>
             Cardinality(Of(calls', "enter", c, x)) =
               (IF x \in seenNodes' /\ <<c, x>> \notin skips' THEN 1 ELSE 0)
  BY <1>2, <1>4, <1>7
<1> QED
  BY <1>8 DEF CountsKept

LEMMA WalkNodeSeen ==
  ASSUME WalkTyped, StacksKept, SeenKept, NEW n \in Nodes, NEW object, NEW rest, Alike(rest, trail),
         WalkNode(object, n, rest),
         seenNodes = {} => n = Root,
         \A S \in SUBSET Nodes :
           Root \in S /\ (\A k \in S : \A j \in DOMAIN kids[k] : kids[k][j].node \in S) => n \in S,
         \A i \in DOMAIN trail : \A j \in DOMAIN kids[trail[i].node] :
           j < rest[i].next => j < trail[i].next \/ kids[trail[i].node][j].node = n
  PROVE  SeenKept'
<1>1. PICK f, T, d, seen : f = FrameOf(object, n) /\ T = trail /\ d = kids /\ seen = seenNodes
  OBVIOUS
<1>2. /\ trail' = Append(rest, f) /\ f \in TrailFrames /\ f.node = n
      /\ n \notin seen => f.next = 1
      /\ seenNodes' = seen \cup {n} /\ kids' = d
  <2>1. /\ trail' = Append(rest, f) /\ f \in TrailFrames /\ f.node = n
        /\ n \notin seenNodes => f.next = 1
        /\ seenNodes' = seenNodes \cup {n} /\ UNCHANGED walkGiven
    BY <1>1, WalkNodeIs
  <2> QED
    BY <1>1, <2>1, GivenStays
<1>3. /\ Len(T) \in Nat /\ DOMAIN T = 1..Len(T) /\ rest \in Seq(TrailFrames) /\ Len(rest) = Len(T)
      /\ \A i \in 1..Len(T) : rest[i].node = T[i].node
  BY <1>1 DEF Alike, WalkTyped
<1>4. /\ DOMAIN Append(rest, f) = 1..(Len(T) + 1) /\ Append(rest, f)[Len(T) + 1] = f
      /\ \A i \in 1..Len(T) : Append(rest, f)[i] = rest[i]
  BY <1>2, <1>3
<1>5. Root \in seen \cup {n} /\ seen \cup {n} # {}
  BY <1>1 DEF SeenKept
<1>6. \A i \in 1..(Len(T) + 1) : Append(rest, f)[i].node \in seen \cup {n}
  <2> SUFFICES ASSUME NEW i \in 1..(Len(T) + 1) PROVE Append(rest, f)[i].node \in seen \cup {n}
    OBVIOUS
  <2>1. CASE i = Len(T) + 1
    BY <1>2, <1>4, <2>1
  <2>2. CASE i # Len(T) + 1
    <3>1. i \in 1..Len(T)
      BY <1>3, <2>2
    <3>2. T[i].node \in seen
      BY <1>1, <1>3, <3>1 DEF SeenKept
    <3> QED
      BY <1>3, <1>4, <3>1, <3>2
  <2> QED
    BY <2>1, <2>2
<1>7. \A S \in SUBSET Nodes :
        Root \in S /\ (\A k \in S : \A j \in DOMAIN d[k] : d[k][j].node \in S) => seen \cup {n} \subseteq S
  BY <1>1 DEF SeenKept
<1>8. ASSUME NEW k \in seen \cup {n}
      PROVE  \/ \A j \in DOMAIN d[k] : d[k][j].node \in seen \cup {n}
             \/ \E i \in DOMAIN Append(rest, f) :
                  /\ Append(rest, f)[i].node = k
                  /\ \A j \in DOMAIN d[k] : j < Append(rest, f)[i].next => d[k][j].node \in seen \cup {n}
  <2>1. CASE k \in seen
    <3>1. CASE \A j \in DOMAIN d[k] : d[k][j].node \in seen
      BY <3>1
    <3>2. CASE \E i \in DOMAIN T :
                 T[i].node = k /\ \A j \in DOMAIN d[k] : j < T[i].next => d[k][j].node \in seen
      <4>1. PICK i \in 1..Len(T) :
              T[i].node = k /\ \A j \in DOMAIN d[k] : j < T[i].next => d[k][j].node \in seen
        BY <1>3, <3>2
      <4>2. \A j \in DOMAIN d[k] : j < rest[i].next => j < T[i].next \/ d[k][j].node = n
        BY <1>1, <1>3, <4>1
      <4>3. i \in DOMAIN Append(rest, f) /\ Append(rest, f)[i] = rest[i] /\ rest[i].node = k
        BY <1>3, <1>4, <4>1
      <4> QED
        BY <4>1, <4>2, <4>3
    <3> QED
      BY <1>1, <2>1, <3>1, <3>2 DEF SeenKept
  <2>2. CASE k \notin seen
    <3>1. k = n /\ f.next = 1
      BY <1>2, <2>2
    <3>2. \A j \in DOMAIN d[k] : ~(j < 1)
      <4>1. d[k] \in Seq([node : Nodes, ref : BOOLEAN])
        BY <1>1, <3>1 DEF WalkTyped, GivenOK
      <4> QED
        BY <4>1
    <3>3. Len(T) + 1 \in DOMAIN Append(rest, f)
      BY <1>3, <1>4
    <3> QED
      BY <1>2, <1>4, <3>1, <3>2, <3>3
  <2> QED
    BY <2>1, <2>2
<1>9. /\ seenNodes' # {} => Root \in seenNodes'
      /\ seenNodes' = {} => trail' = <<>>
      /\ \A i \in DOMAIN trail' : trail'[i].node \in seenNodes'
      /\ \A S \in SUBSET Nodes :
           Root \in S /\ (\A k \in S : \A j \in DOMAIN kids'[k] : kids'[k][j].node \in S) => seenNodes' \subseteq S
      /\ \A k \in seenNodes' :
           \/ \A j \in DOMAIN kids'[k] : kids'[k][j].node \in seenNodes'
           \/ \E i \in DOMAIN trail' :
                /\ trail'[i].node = k
                /\ \A j \in DOMAIN kids'[k] : j < trail'[i].next => kids'[k][j].node \in seenNodes'
  BY <1>2, <1>4, <1>5, <1>6, <1>7, <1>8
<1> QED
  BY <1>9 DEF SeenKept

LEMMA BeginsKeeps ==
  ASSUME WalkKept, BeginsWalk
  PROVE  WalkKept'
<1>1. PICK rest, n, object : rest = <<>> /\ n = Root /\ object = InPlace(Root)
  OBVIOUS
<1>2. /\ WalkTyped /\ StacksKept /\ CountsKept /\ SeenKept
      /\ trail = <<>> /\ n \in Nodes /\ WalkNode(object, n, rest)
  BY <1>1, WalkerAssumption DEF WalkKept, SeenKept, BeginsWalk
<1>3. Alike(rest, trail)
  BY <1>1, <1>2 DEF Alike
<1>4. \A S \in SUBSET Nodes :
        Root \in S /\ (\A k \in S : \A j \in DOMAIN kids[k] : kids[k][j].node \in S) => n \in S
  BY <1>1
<1>5. \A i \in DOMAIN trail : \A j \in DOMAIN kids[trail[i].node] :
        j < rest[i].next => j < trail[i].next \/ kids[trail[i].node][j].node = n
  BY <1>2
<1>6. SeenKept'
  BY <1>1, <1>2, <1>3, <1>4, <1>5, WalkNodeSeen
<1>7. WalkTyped' /\ StacksKept' /\ CountsKept'
  BY <1>2, <1>3, WalkNodeTyped, WalkNodeStacks, WalkNodeCounts
<1> QED
  BY <1>6, <1>7 DEF WalkKept

LEMMA GoesDownKeeps ==
  ASSUME WalkKept, GoesDown
  PROVE  WalkKept'
<1>1. PICK T, d, f, rest, n, object :
        /\ T = trail /\ d = kids /\ f = LastOf(trail)
        /\ rest = Append(ButLast(trail), [LastOf(trail) EXCEPT !.next = @ + 1])
        /\ n = kids[LastOf(trail).node][LastOf(trail).next].node
        /\ object = Object(LastOf(trail).node, LastOf(trail).next)
  OBVIOUS
<1>2. WalkTyped /\ StacksKept /\ CountsKept /\ SeenKept /\ WalkNode(object, n, rest)
  BY <1>1 DEF WalkKept, GoesDown, Here
<1>3. /\ T \in Seq(TrailFrames) /\ T # <<>> /\ Len(T) \in Nat \ {0} /\ DOMAIN T = 1..Len(T)
      /\ f \in TrailFrames /\ f = T[Len(T)]
      /\ ButLast(T) \in Seq(TrailFrames) /\ Len(ButLast(T)) = Len(T) - 1
      /\ \A i \in 1..(Len(T) - 1) : ButLast(T)[i] = T[i]
  BY <1>1, <1>2, LastSplits DEF WalkTyped, GoesDown, LastOf
<1>4. /\ f.node \in Nodes /\ f.next \in Nat \ {0} /\ f.next <= Len(d[f.node])
      /\ d \in [Nodes -> Seq([node : Nodes, ref : BOOLEAN])]
  BY <1>1, <1>2, <1>3 DEF TrailFrames, GoesDown, Here, WalkTyped, GivenOK
<1>5. f.next \in DOMAIN d[f.node] /\ n \in Nodes /\ n = d[f.node][f.next].node
  <2>1. d[f.node] \in Seq([node : Nodes, ref : BOOLEAN])
    BY <1>4
  <2>2. f.next \in 1..Len(d[f.node])
    BY <1>4, <2>1
  <2>3. d[f.node][f.next] \in [node : Nodes, ref : BOOLEAN]
    <3>1. PICK s, i : s = d[f.node] /\ i = f.next
      OBVIOUS
    <3>2. s \in Seq([node : Nodes, ref : BOOLEAN]) /\ i \in 1..Len(s)
      BY <2>1, <2>2, <3>1
    <3>3. s[i] \in [node : Nodes, ref : BOOLEAN]
      BY <3>2, ElementOfSeq, Zenon
    <3> QED
      BY <3>1, <3>3
  <2>4. n = d[f.node][f.next].node
    BY <1>1
  <2> QED
    BY <2>1, <2>2, <2>3, <2>4
<1>6. PICK g : g = [f EXCEPT !.next = @ + 1]
  OBVIOUS
<1>7. /\ g \in TrailFrames /\ g.node = f.node /\ g.entered = f.entered /\ g.opened = f.opened
      /\ g.before = f.before /\ g.next = f.next + 1
  <2>1. f \in [ node : Nodes, next : Nat \ {0}, entered : SUBSET Contexts, opened : SUBSET Contexts,
                passed : SUBSET Weak, before : Nodes \cup {Nobody} ]
    BY <1>3 DEF TrailFrames
  <2>2. PICK K, Z : K = SUBSET Contexts /\ Z = SUBSET Weak
    OBVIOUS
  <2>3. f \in [node : Nodes, next : Nat \ {0}, entered : K, opened : K, passed : Z, before : Nodes \cup {Nobody}]
    BY <2>1, <2>2
  <2>4. f.next + 1 \in Nat \ {0}
    BY <1>4
  <2>5. /\ g \in [node : Nodes, next : Nat \ {0}, entered : K, opened : K, passed : Z, before : Nodes \cup {Nobody}]
        /\ g.node = f.node /\ g.entered = f.entered /\ g.opened = f.opened
        /\ g.before = f.before /\ g.next = f.next + 1
    BY <1>6, <2>3, <2>4
  <2> QED
    BY <2>2, <2>5 DEF TrailFrames
<1>8. /\ rest \in Seq(TrailFrames) /\ Len(rest) = Len(T) /\ rest[Len(T)] = g
      /\ \A i \in 1..(Len(T) - 1) : rest[i] = T[i]
  <2>1. rest = Append(ButLast(T), g)
    BY <1>1, <1>6
  <2>2. PICK b : b = ButLast(T)
    OBVIOUS
  <2>3. /\ Append(b, g) \in Seq(TrailFrames) /\ Len(Append(b, g)) = Len(b) + 1
        /\ \A i \in 1..Len(b) : Append(b, g)[i] = b[i]
        /\ Append(b, g)[Len(b) + 1] = g
    BY <1>3, <1>7, <2>2
  <2>4. Len(b) + 1 = Len(T)
    <3>1. Len(T) \in Int
      BY <1>3
    <3>2. Len(b) = Len(T) - 1
      BY <1>3, <2>2, Zenon
    <3> QED
      BY <3>1, <3>2
  <2> QED
    BY <1>3, <2>1, <2>2, <2>3, <2>4
<1>9. \A i \in 1..Len(T) : T[i].next \in Nat /\ T[i].next <= Len(d[T[i].node]) + 1
  <2>1. \A i \in 1..Len(T) : T[i].next <= Len(d[T[i].node]) + 1
    BY <1>1, <1>2, <1>3 DEF WalkTyped
  <2>2. \A i \in 1..Len(T) : T[i] \in TrailFrames
    BY <1>3
  <2>3. \A i \in 1..Len(T) : T[i].next \in Nat
    BY <2>2 DEF TrailFrames
  <2> QED
    BY <2>1, <2>3
<1>10. Alike(rest, trail)
  <2>1. ASSUME NEW i \in 1..Len(T)
        PROVE  /\ rest[i].node = T[i].node /\ rest[i].entered = T[i].entered
               /\ rest[i].opened = T[i].opened /\ rest[i].before = T[i].before
               /\ rest[i].next >= T[i].next /\ rest[i].next <= Len(d[T[i].node]) + 1
    <3>1. CASE i = Len(T)
      <4>1. rest[i] = g /\ T[i] = f
        BY <1>3, <1>8, <3>1
      <4>2. Len(d[f.node]) \in Nat
        BY <1>4
      <4>3. g.next >= f.next /\ g.next <= Len(d[f.node]) + 1
        BY <1>4, <1>7, <4>2
      <4> QED
        BY <1>7, <4>1, <4>3
    <3>2. CASE i # Len(T)
      <4>1. i \in 1..(Len(T) - 1)
        <5>1. Len(T) \in Int
          BY <1>3
        <5> QED
          BY <3>2, <5>1
      <4>2. rest[i] = T[i]
        BY <1>8, <4>1
      <4> QED
        BY <1>9, <4>2
    <3> QED
      BY <3>1, <3>2
  <2> QED
    BY <1>1, <1>3, <1>8, <2>1 DEF Alike
<1>11. f.node \in seenNodes /\ seenNodes # {}
  BY <1>1, <1>2, <1>3 DEF SeenKept
<1>12. \A S \in SUBSET Nodes :
         Root \in S /\ (\A k \in S : \A j \in DOMAIN kids[k] : kids[k][j].node \in S) => n \in S
  BY <1>1, <1>2, <1>5, <1>11 DEF SeenKept
<1>13. \A i \in DOMAIN trail : \A j \in DOMAIN kids[trail[i].node] :
         j < rest[i].next => j < trail[i].next \/ kids[trail[i].node][j].node = n
  <2> SUFFICES ASSUME NEW i \in 1..Len(T), NEW j \in DOMAIN d[T[i].node], j < rest[i].next
               PROVE j < T[i].next \/ d[T[i].node][j].node = n
    BY <1>1, <1>3
  <2>1. CASE i = Len(T)
    <3>1. rest[i] = g /\ T[i] = f
      BY <1>3, <1>8, <2>1
    <3>2. j \in Nat
      BY <1>4, <3>1
    <3>3. j < f.next \/ j = f.next
      BY <1>4, <1>7, <3>1, <3>2
    <3> QED
      BY <1>5, <3>1, <3>3
  <2>2. CASE i # Len(T)
    <3>1. i \in 1..(Len(T) - 1)
      <4>1. Len(T) \in Int
        BY <1>3
      <4> QED
        BY <2>2, <4>1
    <3>2. rest[i] = T[i]
      BY <1>8, <3>1
    <3> QED
      BY <3>2
  <2> QED
    BY <2>1, <2>2
<1>14. SeenKept'
  BY <1>2, <1>5, <1>10, <1>11, <1>12, <1>13, WalkNodeSeen
<1>15. WalkTyped' /\ StacksKept' /\ CountsKept'
  BY <1>2, <1>5, <1>10, WalkNodeTyped, WalkNodeStacks, WalkNodeCounts
<1> QED
  BY <1>14, <1>15 DEF WalkKept

(* What LeavesNode does: the last frame f goes, of the node n. *)
LEMMA LeavesIs ==
  ASSUME WalkTyped, trail # <<>>
  PROVE  /\ Len(trail) \in Nat \ {0} /\ LastOf(trail) = trail[Len(trail)] /\ LastOf(trail) \in TrailFrames
         /\ trail = Append(ButLast(trail), LastOf(trail))
         /\ ButLast(trail) \in Seq(TrailFrames) /\ Len(ButLast(trail)) = Len(trail) - 1
         /\ DOMAIN ButLast(trail) = 1..(Len(trail) - 1) /\ DOMAIN trail = 1..Len(trail)
         /\ \A i \in 1..(Len(trail) - 1) : ButLast(trail)[i] = trail[i]
<1>1. trail \in Seq(TrailFrames)
  BY DEF WalkTyped
<1>2. /\ LastOf(trail) \in TrailFrames /\ ButLast(trail) \in Seq(TrailFrames)
      /\ trail = Append(ButLast(trail), LastOf(trail))
      /\ Len(trail) \in Nat \ {0} /\ Len(ButLast(trail)) = Len(trail) - 1
      /\ \A i \in 1..(Len(trail) - 1) : ButLast(trail)[i] = trail[i]
  BY <1>1, LastSplits
<1>3. DOMAIN ButLast(trail) = 1..Len(ButLast(trail)) /\ DOMAIN trail = 1..Len(trail)
  BY <1>1, <1>2
<1>4. LastOf(trail) = trail[Len(trail)]
  BY DEF LastOf
<1> QED
  BY <1>2, <1>3, <1>4, Zenon

(* The contexts of the last frame are active, and so is what is above them. *)
LEMMA LastIsActive ==
  ASSUME WalkTyped, StacksKept, trail # <<>>, NEW c \in LastOf(trail).opened
  PROVE  /\ c \in Contexts /\ active[c] # <<>>
         /\ c[2] > 1 => active[Parent(c)] # <<>>
<1>1. PICK A, W : Unrolled(Contexts, skips, Spine(trail), A, W) /\ active = A[Len(trail)]
  BY DEF StacksKept
<1>2. PICK m, S : m = Len(trail) /\ S = Spine(trail)
  OBVIOUS
<1>3. m \in Nat \ {0} /\ Len(S) = m /\ S[m] = <<LastOf(trail).node, LastOf(trail).opened>>
  <2>1. DOMAIN trail = 1..m /\ m \in Nat \ {0} /\ LastOf(trail) = trail[m]
    BY <1>2, LeavesIs
  <2>2. S = [i \in 1..m |-> <<trail[i].node, trail[i].opened>>] /\ m \in 1..m
    BY <1>2, <2>1 DEF Spine
  <2> QED
    BY <2>1, <2>2
<1>4. StateAt(Contexts, S, A, W, m)
  BY <1>1, <1>2, <1>3 DEF Unrolled
<1>5. c \in Contexts
  BY LeavesIs DEF TrailFrames
<1>6. Latest(S, c, m, m)
  BY <1>3 DEF Latest
<1>7. active[c] # <<>>
  BY <1>1, <1>2, <1>3, <1>4, <1>5, <1>6 DEF StateAt, Tops
<1>8. c[2] > 1 => active[Parent(c)] # <<>>
  <2> SUFFICES ASSUME c[2] > 1 PROVE active[Parent(c)] # <<>>
    OBVIOUS
  <2>1. /\ Parent(c) \in Contexts /\ Parent(c)[1] = c[1] /\ Parent(c)[2] = c[2] - 1
        /\ c[2] \in Nat /\ Chained(Contexts, active)
    BY <1>5, ParentIs, StacksAre DEF Levels
  <2>2. Parent(c)[2] < c[2]
    BY <2>1
  <2> QED
    BY <1>5, <1>7, <2>1, <2>2 DEF Chained
<1> QED
  BY <1>5, <1>7, <1>8

LEMMA LeavesTyped ==
  ASSUME WalkTyped, StacksKept, LeavesNode
  PROVE  WalkTyped'
<1>1. PICK R, C, n : R = ButLast(trail) /\ C = LastOf(trail).entered /\ n = LastOf(trail).node
  OBVIOUS
<1>2. /\ trail # <<>> /\ trail' = R /\ calls' = calls \o Called("leave", C, n)
      /\ seenNodes' = seenNodes /\ UNCHANGED walkGiven
  BY <1>1 DEF LeavesNode, Here
<1>3. kids' = kids /\ rules' = rules /\ TrailFrames' = TrailFrames /\ Visited' = Visited
  BY <1>2, GivenStays
<1>4. /\ Len(trail) \in Nat \ {0} /\ LastOf(trail) = trail[Len(trail)] /\ LastOf(trail) \in TrailFrames
      /\ DOMAIN trail = 1..Len(trail) /\ R \in Seq(TrailFrames) /\ DOMAIN R = 1..(Len(trail) - 1)
      /\ \A i \in 1..(Len(trail) - 1) : R[i] = trail[i]
  BY <1>1, <1>2, LeavesIs
<1>5. C \subseteq LastOf(trail).opened /\ C \subseteq Contexts /\ n \in Nodes /\ IsFiniteSet(C)
  <2>1. C \subseteq LastOf(trail).opened
    BY <1>1, <1>4 DEF WalkTyped
  <2>2. C \subseteq Contexts /\ n \in Nodes
    BY <1>1, <1>4 DEF TrailFrames
  <2> QED
    BY <2>1, <2>2, StacksAre, FS_Subset
<1>6. ASSUME NEW c \in C
      PROVE  /\ Call("leave", c, n) \in Visited /\ Call("leave", c, n).context = c
             /\ c[2] = 1 => Call("leave", c, n).within = Nobody
  <2>1. c \in Contexts /\ (c[2] > 1 => active[Parent(c)] # <<>>)
    BY <1>2, <1>5, LastIsActive
  <2>2. Within(c) \in Nodes \cup {Nobody} /\ (c[2] = 1 => Within(c) = Nobody)
    <3>1. CASE c[2] = 1
      BY <3>1 DEF Within
    <3>2. CASE c[2] # 1
      <4>1. /\ Levels(Contexts) /\ active \in StacksIn(Contexts) /\ c[2] > 1
        BY <2>1, <3>2, StacksAre DEF Levels
      <4>2. active[Parent(c)] \in Seq(Activations) /\ active[Parent(c)] # <<>>
        BY <2>1, <4>1, ParentIs DEF StacksIn
      <4>3. TopOf(Parent(c)) \in Activations
        BY <4>2, LastSplits DEF TopOf
      <4> QED
        BY <3>2, <4>3 DEF Within, Activations
    <3> QED
      BY <3>1, <3>2
  <2> QED
    BY <1>5, <2>1, <2>2 DEF Call, Visited
<1>7. calls' \in Seq(Visited) /\ \A i \in DOMAIN calls' : calls'[i].context[2] = 1 => calls'[i].within = Nobody
  <2>1. PICK p, q : p = calls /\ q = p \o Called("leave", C, n)
    OBVIOUS
  <2>2. p \in Seq(Visited)
    BY <2>1 DEF WalkTyped
  <2>3. /\ \A i \in DOMAIN (p \o Called("leave", C, n)) :
              (i \in DOMAIN p /\ (p \o Called("leave", C, n))[i] = p[i])
                \/ \E c \in C : (p \o Called("leave", C, n))[i] = Call("leave", c, n)
        /\ \A k, c, x :
             /\ Cardinality(Of(p, k, c, x)) \in Nat
             /\ Cardinality(Of(p \o Called("leave", C, n), k, c, x)) =
                  Cardinality(Of(p, k, c, x)) + (IF k = "leave" /\ c \in C /\ x = n THEN 1 ELSE 0)
        /\ (\A c \in C : Call("leave", c, n) \in Visited) => p \o Called("leave", C, n) \in Seq(Visited)
    BY <1>5, <2>2, CallCounts
  <2>4. /\ \A i \in DOMAIN q : (i \in DOMAIN p /\ q[i] = p[i]) \/ \E c \in C : q[i] = Call("leave", c, n)
        /\ q \in Seq(Visited)
    BY <1>6, <2>1, <2>3
  <2>5. \A i \in DOMAIN q : q[i].context[2] = 1 => q[i].within = Nobody
    BY <1>6, <2>1, <2>4 DEF WalkTyped
  <2> QED
    BY <1>2, <2>1, <2>4, <2>5
<1>8. \A i \in DOMAIN R : R[i].entered \subseteq R[i].opened /\ R[i].next <= Len(kids[R[i].node]) + 1
  <2>1. \A i \in DOMAIN R : i \in DOMAIN trail /\ R[i] = trail[i]
    BY <1>4
  <2> QED
    BY <2>1 DEF WalkTyped
<1>9. GivenOK(kids', rules') /\ seenNodes' \subseteq Nodes
  BY <1>2, <1>3 DEF WalkTyped
<1> QED
  BY <1>2, <1>3, <1>4, <1>7, <1>8, <1>9 DEF WalkTyped

LEMMA LeavesStacks ==
  ASSUME WalkTyped, StacksKept, LeavesNode
  PROVE  StacksKept'
<1>1. PICK K, z, T, f, m, S, R : /\ K = Contexts /\ z = skips /\ T = trail /\ f = LastOf(trail)
                                /\ m = Len(trail) /\ S = Spine(trail) /\ R = ButLast(trail)
  OBVIOUS
<1>2. /\ trail # <<>> /\ trail' = R /\ active' = Left(f.opened)
      /\ walking' = [walking EXCEPT ![Type[f.node]] = f.before] /\ UNCHANGED walkGiven
  BY <1>1 DEF LeavesNode, Here
<1>3. Contexts' = K /\ skips' = z
  BY <1>1, <1>2, GivenStays
<1>4. /\ m \in Nat \ {0} /\ f = T[m] /\ f \in TrailFrames /\ T = Append(R, f) /\ R \in Seq(TrailFrames)
      /\ DOMAIN T = 1..m /\ DOMAIN R = 1..(m - 1) /\ Len(R) = m - 1
      /\ \A i \in 1..(m - 1) : R[i] = T[i]
  BY <1>1, <1>2, LeavesIs
<1>5. PICK A, W : /\ Unrolled(K, z, S, A, W)
                  /\ active = A[m] /\ walking = W[m]
                  /\ \A i \in DOMAIN T : T[i].before = W[i - 1][Type[T[i].node]]
                  /\ \A i \in 0..m : WithinsIn(K, A[i])
  BY <1>1 DEF StacksKept
<1>6. /\ S \in Seq(Nodes \X SUBSET K) /\ Len(S) = m /\ S # <<>> /\ ButLast(S) = Spine(R)
      /\ S[m] = <<f.node, f.opened>>
  <2>1. S = [i \in 1..m |-> <<T[i].node, T[i].opened>>] /\ m \in 1..m
    <3>1. S = Spine(T) /\ DOMAIN T = 1..m
      BY <1>1, <1>4
    <3>2. m \in 1..m
      BY <1>4
    <3> QED
      BY <3>1, <3>2, Zenon DEF Spine
  <2>2. S[m] = <<f.node, f.opened>>
    BY <1>4, <2>1
  <2>3. T \in Seq(TrailFrames) /\ T # <<>>
    BY <1>1, <1>2 DEF WalkTyped
  <2>4. S \in Seq(Nodes \X SUBSET K) /\ Len(S) = m /\ ButLast(S) = Spine(R)
    BY <1>1, <1>4, <2>3, SpineGrows
  <2>5. S # <<>>
    BY <1>4, <2>4
  <2> QED
    BY <2>2, <2>4, <2>5
<1>7. Unrolled(K, z, Spine(R), A, W)
  BY <1>5, <1>6, UnrollBack
<1>8. /\ PushFits(K, A[m - 1], f.opened, f.node)
      /\ A[m] = Pushed(K, z, A[m - 1], f.opened, f.node)
      /\ W[m] = [W[m - 1] EXCEPT ![Type[f.node]] = f.node]
  <2>1. StepAt(K, z, S, A, W, m)
    BY <1>4, <1>5, <1>6 DEF Unrolled
  <2>2. S[m][1] = f.node /\ S[m][2] = f.opened
    BY <1>6
  <2> QED
    BY <2>1, <2>2 DEF StepAt
<1>9. active' = A[m - 1]
  <2>1. Popped(K, A[m], f.opened) = A[m - 1]
    BY <1>1, <1>8, PushKeeps, StacksAre
  <2>2. Left(f.opened) = Popped(K, active, f.opened)
    BY <1>1 DEF Left, Popped, Above, AboveIn, TopOf
  <2> QED
    BY <1>2, <1>5, <2>1, <2>2
<1>10. walking' = W[m - 1]
  <2>1. W[m - 1] \in [Types -> Nodes \cup {Nobody}]
    <3>1. StateAt(K, Spine(R), A, W, m - 1)
      <4>1. Len(Spine(R)) = m - 1 /\ m - 1 \in 0..(m - 1)
        BY <1>4 DEF Spine
      <4> QED
        BY <1>7, <4>1 DEF Unrolled
    <3> QED
      BY <3>1 DEF StateAt, WalksAt
  <2>2. f.before = W[m - 1][Type[f.node]]
    BY <1>4, <1>5
  <2>3. walking' = [W[m] EXCEPT ![Type[f.node]] = f.before]
    BY <1>2, <1>5
  <2>4. PICK w, t, x : w = W[m - 1] /\ t = Type[f.node] /\ x = f.node
    OBVIOUS
  <2>5. walking' = [[w EXCEPT ![t] = x] EXCEPT ![t] = w[t]] /\ w \in [Types -> Nodes \cup {Nobody}]
    BY <1>8, <2>1, <2>2, <2>3, <2>4
  <2>6. [[w EXCEPT ![t] = x] EXCEPT ![t] = w[t]] = w
    BY <2>5
  <2> QED
    BY <2>4, <2>5, <2>6
<1>11. /\ \A i \in DOMAIN R : R[i].before = W[i - 1][Type[R[i].node]]
       /\ \A i \in 0..Len(R) : WithinsIn(K, A[i])
  <2>1. \A i \in DOMAIN R : i \in DOMAIN T /\ R[i] = T[i]
    BY <1>4
  <2>2. \A i \in 0..Len(R) : i \in 0..m
    BY <1>4
  <2> QED
    BY <1>5, <2>1, <2>2
<1>12. /\ Unrolled(Contexts', skips', Spine(trail'), A, W)
       /\ active' = A[Len(trail')] /\ walking' = W[Len(trail')]
       /\ \A i \in DOMAIN trail' : trail'[i].before = W[i - 1][Type[trail'[i].node]]
       /\ \A i \in 0..Len(trail') : WithinsIn(Contexts', A[i])
  BY <1>2, <1>3, <1>4, <1>7, <1>9, <1>10, <1>11
<1> QED
  BY <1>12 DEF StacksKept

LEMMA LeavesCounts ==
  ASSUME WalkTyped, StacksKept, CountsKept, LeavesNode
  PROVE  CountsKept'
<1>1. PICK T, R, f, C, n, q : /\ T = trail /\ R = ButLast(trail) /\ f = LastOf(trail)
                             /\ C = LastOf(trail).entered /\ n = LastOf(trail).node /\ q = calls
  OBVIOUS
<1>2. /\ trail # <<>> /\ trail' = R /\ calls' = q \o Called("leave", C, n)
      /\ seenNodes' = seenNodes /\ UNCHANGED walkGiven
  BY <1>1 DEF LeavesNode, Here
<1>3. Contexts' = Contexts /\ skips' = skips
  BY <1>2, GivenStays
<1>4. f \in TrailFrames /\ R \in Seq(TrailFrames) /\ T = Append(R, f) /\ f.entered = C /\ f.node = n
  BY <1>1, <1>2, LeavesIs
<1>5. q \in Seq(Visited) /\ IsFiniteSet(C)
  <2>1. C \subseteq Contexts
    BY <1>1, <1>4 DEF TrailFrames
  <2> QED
    BY <1>1, <2>1, StacksAre, FS_Subset DEF WalkTyped
<1>6. Alike(R, R)
  <2>1. \A i \in DOMAIN R : R[i].next \in Nat /\ R[i].next <= Len(kids[R[i].node]) + 1
    <3>1. \A i \in DOMAIN R : i \in DOMAIN T /\ R[i] = T[i]
      BY <1>1, <1>2, LeavesIs
    <3>2. \A i \in DOMAIN R : R[i] \in TrailFrames
      BY <1>4
    <3>3. \A i \in DOMAIN T : T[i].next <= Len(kids[T[i].node]) + 1
      BY <1>1 DEF WalkTyped
    <3>4. \A i \in DOMAIN R : R[i].next \in Nat
      BY <3>2 DEF TrailFrames
    <3> QED
      BY <3>1, <3>3, <3>4
  <2> QED
    BY <1>4, <2>1 DEF Alike
<1>7. PICK s : s = Called("leave", C, n)
  OBVIOUS
<1>8. \A k, c, x :
        /\ Cardinality(Of(q, k, c, x)) \in Nat
        /\ Cardinality(Of(q \o s, k, c, x)) =
             Cardinality(Of(q, k, c, x)) + (IF k = "leave" /\ c \in C /\ x = n THEN 1 ELSE 0)
  <2>1. /\ \A i \in DOMAIN (q \o Called("leave", C, n)) :
              (i \in DOMAIN q /\ (q \o Called("leave", C, n))[i] = q[i])
                \/ \E c \in C : (q \o Called("leave", C, n))[i] = Call("leave", c, n)
        /\ \A k, c, x :
             /\ Cardinality(Of(q, k, c, x)) \in Nat
             /\ Cardinality(Of(q \o Called("leave", C, n), k, c, x)) =
                  Cardinality(Of(q, k, c, x)) + (IF k = "leave" /\ c \in C /\ x = n THEN 1 ELSE 0)
        /\ (\A c \in C : Call("leave", c, n) \in Visited) => q \o Called("leave", C, n) \in Seq(Visited)
    BY <1>5, CallCounts
  <2> QED
    BY <1>7, <2>1
<1>9. ASSUME NEW c \in Contexts, NEW x \in Nodes
      PROVE  /\ Cardinality(Of(q \o s, "enter", c, x)) =
                  Cardinality(Of(q \o s, "leave", c, x)) + Cardinality(Open(R, c, x))
             /\ Cardinality(Of(q \o s, "enter", c, x)) = Cardinality(Of(q, "enter", c, x))
  <2>1. PICK e, l, o, e1, l1, o1 :
          /\ e = Cardinality(Of(q, "enter", c, x)) /\ l = Cardinality(Of(q, "leave", c, x))
          /\ o = Cardinality(Open(T, c, x))
          /\ e1 = Cardinality(Of(q \o s, "enter", c, x)) /\ l1 = Cardinality(Of(q \o s, "leave", c, x))
          /\ o1 = Cardinality(Open(R, c, x))
    OBVIOUS
  <2>2. PICK b : b = (IF c \in C /\ x = n THEN 1 ELSE 0)
    OBVIOUS
  <2>3. e \in Nat /\ l \in Nat /\ e1 = e /\ l1 = l + b /\ b \in Nat
    BY <1>8, <2>1, <2>2
  <2>4. o1 \in Nat /\ o = o1 + b
    <3>1. /\ Cardinality(Open(R, c, x)) \in Nat
          /\ Cardinality(Open(Append(R, f), c, x)) =
               Cardinality(Open(R, c, x)) + (IF c \in f.entered /\ f.node = x THEN 1 ELSE 0)
      BY <1>4, <1>6, OpenGrows
    <3> QED
      BY <1>4, <2>1, <2>2, <3>1
  <2>5. e = l + o
    BY <1>1, <2>1 DEF CountsKept
  <2>6. e1 = l1 + o1
    BY <2>3, <2>4, <2>5
  <2> QED
    BY <2>1, <2>3, <2>6
<1>10. \A c \in Contexts', x \in Nodes :
         /\ Cardinality(Of(calls', "enter", c, x)) =
              Cardinality(Of(calls', "leave", c, x)) + Cardinality(Open(trail', c, x))
         /\ c[2] = 1 /\ TypeOf(c) = Type[x] =>
              Cardinality(Of(calls', "enter", c, x)) =
                (IF x \in seenNodes' /\ <<c, x>> \notin skips' THEN 1 ELSE 0)
  <2> SUFFICES ASSUME NEW c \in Contexts, NEW x \in Nodes
               PROVE /\ Cardinality(Of(q \o s, "enter", c, x)) =
                          Cardinality(Of(q \o s, "leave", c, x)) + Cardinality(Open(R, c, x))
                     /\ c[2] = 1 /\ TypeOf(c) = Type[x] =>
                          Cardinality(Of(q \o s, "enter", c, x)) =
                            (IF x \in seenNodes /\ <<c, x>> \notin skips THEN 1 ELSE 0)
    BY <1>2, <1>3, <1>7
  <2>1. c[2] = 1 /\ TypeOf(c) = Type[x] =>
          Cardinality(Of(q, "enter", c, x)) = (IF x \in seenNodes /\ <<c, x>> \notin skips THEN 1 ELSE 0)
    BY <1>1 DEF CountsKept
  <2> QED
    BY <1>9, <2>1
<1> QED
  BY <1>10 DEF CountsKept

LEMMA LeavesSeen ==
  ASSUME WalkTyped, SeenKept, LeavesNode
  PROVE  SeenKept'
<1>1. PICK T, R, m, d : T = trail /\ R = ButLast(trail) /\ m = Len(trail) /\ d = kids
  OBVIOUS
<1>2. /\ trail # <<>> /\ trail' = R /\ seenNodes' = seenNodes /\ UNCHANGED walkGiven
      /\ T[m].next > Len(d[T[m].node])
  BY <1>1 DEF LeavesNode, Here, LastOf
<1>3. kids' = d
  BY <1>1, <1>2, GivenStays
<1>4. /\ m \in Nat \ {0} /\ DOMAIN T = 1..m /\ DOMAIN R = 1..(m - 1) /\ T[m] \in TrailFrames
      /\ \A i \in 1..(m - 1) : R[i] = T[i]
  BY <1>1, <1>2, LeavesIs
<1>5. /\ seenNodes # {} /\ Root \in seenNodes
      /\ \A i \in DOMAIN R : R[i].node \in seenNodes
      /\ \A S \in SUBSET Nodes :
           Root \in S /\ (\A k \in S : \A j \in DOMAIN d[k] : d[k][j].node \in S) => seenNodes \subseteq S
  <2>1. \A i \in DOMAIN R : i \in DOMAIN T /\ R[i] = T[i]
    BY <1>4
  <2> QED
    BY <1>1, <1>2, <2>1 DEF SeenKept
<1>6. ASSUME NEW k \in seenNodes
      PROVE  \/ \A j \in DOMAIN d[k] : d[k][j].node \in seenNodes
             \/ \E i \in DOMAIN R :
                  R[i].node = k /\ \A j \in DOMAIN d[k] : j < R[i].next => d[k][j].node \in seenNodes
  <2>1. CASE \A j \in DOMAIN d[k] : d[k][j].node \in seenNodes
    BY <2>1
  <2>2. CASE \E i \in DOMAIN T :
               T[i].node = k /\ \A j \in DOMAIN d[k] : j < T[i].next => d[k][j].node \in seenNodes
    <3>1. PICK i \in 1..m :
            T[i].node = k /\ \A j \in DOMAIN d[k] : j < T[i].next => d[k][j].node \in seenNodes
      BY <1>4, <2>2
    <3>2. CASE i = m
      <4>1. d[k] \in Seq([node : Nodes, ref : BOOLEAN]) /\ T[m].next \in Nat
        BY <1>1, <1>4 DEF WalkTyped, GivenOK, TrailFrames
      <4>2. \A j \in DOMAIN d[k] : j < T[m].next
        BY <1>2, <3>1, <3>2, <4>1
      <4> QED
        BY <3>1, <3>2, <4>2
    <3>3. CASE i # m
      <4>1. i \in 1..(m - 1)
        BY <1>4, <3>3
      <4>2. i \in DOMAIN R /\ R[i] = T[i]
        BY <1>4, <4>1
      <4> QED
        BY <3>1, <4>2
    <3> QED
      BY <3>2, <3>3
  <2> QED
    BY <1>1, <2>1, <2>2 DEF SeenKept
<1>7. /\ seenNodes' # {} => Root \in seenNodes'
      /\ seenNodes' = {} => trail' = <<>>
      /\ \A i \in DOMAIN trail' : trail'[i].node \in seenNodes'
      /\ \A S \in SUBSET Nodes :
           Root \in S /\ (\A k \in S : \A j \in DOMAIN kids'[k] : kids'[k][j].node \in S) => seenNodes' \subseteq S
      /\ \A k \in seenNodes' :
           \/ \A j \in DOMAIN kids'[k] : kids'[k][j].node \in seenNodes'
           \/ \E i \in DOMAIN trail' :
                /\ trail'[i].node = k
                /\ \A j \in DOMAIN kids'[k] : j < trail'[i].next => kids'[k][j].node \in seenNodes'
  BY <1>2, <1>3, <1>5, <1>6
<1> QED
  BY <1>7 DEF SeenKept

LEMMA LeavesKeeps ==
  ASSUME WalkKept, LeavesNode
  PROVE  WalkKept'
BY LeavesTyped, LeavesStacks, LeavesCounts, LeavesSeen DEF WalkKept

LEMMA WalkBegins ==
  ASSUME NEW d, NEW rs, NEW ss, GivenOK(d, rs), WalkerInit(d, rs, ss)
  PROVE  WalkKept
<1>1. /\ GivenOK(kids, rules) /\ active = [c \in Contexts |-> <<>>] /\ seenNodes = {}
      /\ walking = [t \in Types |-> Nobody] /\ trail = <<>> /\ calls = <<>>
  BY DEF WalkerInit
<1>2. WalkTyped
  BY <1>1 DEF WalkTyped
<1>3. SeenKept
  BY <1>1 DEF SeenKept
<1>4. \A c, n, k : Of(calls, k, c, n) = {} /\ Open(trail, c, n) = {}
  BY <1>1 DEF Of, Open
<1>5. CountsKept
  <2>1. Cardinality({}) = 0
    BY FS_EmptySet
  <2>2. \A c, n, k : Cardinality(Of(calls, k, c, n)) = 0 /\ Cardinality(Open(trail, c, n)) = 0
    BY <1>4, <2>1, Zenon
  <2> QED
    BY <1>1, <2>2 DEF CountsKept
<1>6. StacksKept
  <2> DEFINE A == [m \in {0} |-> active]
             W == [m \in {0} |-> walking]
             S == Spine(trail)
  <2>1. S = <<>> /\ Len(S) = 0 /\ S \in Seq(Nodes \X SUBSET Contexts)
    BY <1>1 DEF Spine
  <2>2. A[0] = active /\ W[0] = walking
    OBVIOUS
  <2> HIDE DEF A, W, S
  <2>3. StateAt(Contexts, S, A, W, 0)
    <3>1. active \in StacksIn(Contexts) /\ Chained(Contexts, active)
      BY <1>1 DEF StacksIn, Chained
    <3>2. Matches(Contexts, S, active, 0)
      <4>1. \A c : Mine(S, c, 0) = {}
        BY DEF Mine
      <4>2. \A c \in Contexts : Len(active[c]) = 0
        BY <1>1
      <4> QED
        BY <4>1, <4>2, FS_EmptySet DEF Matches
    <3>3. Tops(Contexts, S, A, 0)
      BY <1>1, <2>2 DEF Tops
    <3>4. WalksAt(S, walking, 0)
      BY <1>1 DEF WalksAt
    <3> QED
      BY <2>2, <3>1, <3>2, <3>3, <3>4 DEF StateAt
  <2>4. Unrolled(Contexts, skips, S, A, W)
    BY <1>1, <2>1, <2>2, <2>3 DEF Unrolled
  <2>5. WithinsIn(Contexts, A[0])
    BY <1>1, <2>2 DEF WithinsIn
  <2> QED
    BY <1>1, <2>2, <2>4, <2>5 DEF StacksKept, S
<1> QED
  BY <1>2, <1>3, <1>5, <1>6 DEF WalkKept

LEMMA WalkStays ==
  ASSUME WalkKept, UNCHANGED walkerVars
  PROVE  WalkKept'
<1>1. /\ kids' = kids /\ rules' = rules /\ skips' = skips /\ active' = active /\ seenNodes' = seenNodes
      /\ walking' = walking /\ trail' = trail /\ calls' = calls /\ UNCHANGED walkGiven
  BY DEF walkerVars, walkGiven
<1>2. Contexts' = Contexts /\ TrailFrames' = TrailFrames /\ Visited' = Visited
  BY <1>1, GivenStays
<1>3. WalkTyped'
  BY <1>1, <1>2 DEF WalkKept, WalkTyped
<1>4. StacksKept'
  BY <1>1, <1>2 DEF WalkKept, StacksKept
<1>5. CountsKept'
  BY <1>1, <1>2 DEF WalkKept, CountsKept
<1>6. SeenKept'
  BY <1>1 DEF WalkKept, SeenKept
<1> QED
  BY <1>3, <1>4, <1>5, <1>6 DEF WalkKept

(* When the walk is over, what was seen is what can be reached. *)
LEMMA AllSeen ==
  ASSUME WalkKept, WalkOver
  PROVE  Reached = seenNodes
<1>1. /\ seenNodes \subseteq Nodes /\ Root \in seenNodes /\ trail = <<>>
      /\ \A S \in SUBSET Nodes :
           Root \in S /\ (\A n \in S : \A j \in DOMAIN kids[n] : kids[n][j].node \in S) => seenNodes \subseteq S
      /\ \A n \in seenNodes : \A j \in DOMAIN kids[n] : kids[n][j].node \in seenNodes
  BY DEF WalkKept, WalkTyped, SeenKept, WalkOver
<1> QED
  BY <1>1 DEF Reached

LEMMA VisitsAre ==
  ASSUME WalkTyped, NEW kind, NEW c \in Contexts, c[2] = 1, NEW n
  PROVE  Visits(kind, c, n, Nobody) = Of(calls, kind, c, n)
<1> SUFFICES ASSUME NEW i \in DOMAIN calls
             PROVE calls[i] = [kind |-> kind, context |-> c, node |-> n, within |-> Nobody]
                     <=> calls[i].kind = kind /\ calls[i].context = c /\ calls[i].node = n
  BY DEF Visits, Of
<1>1. calls[i] \in Visited /\ (calls[i].context[2] = 1 => calls[i].within = Nobody)
  BY DEF WalkTyped
<1>2. PICK x : x = calls[i]
  OBVIOUS
<1>3. x = [kind |-> x.kind, context |-> x.context, node |-> x.node, within |-> x.within]
  BY <1>1, <1>2 DEF Visited
<1> QED
  BY <1>1, <1>2, <1>3

LEMMA KeptIsSound ==
  ASSUME WalkKept
  PROVE  WalkIsSound
<1> USE DEF WalkKept
<1>1. PICK A, W, S, m, K :
        /\ Unrolled(K, skips, S, A, W) /\ K = Contexts /\ S = Spine(trail) /\ m = Len(trail)
        /\ active = A[m] /\ walking = W[m] /\ \A i \in 0..m : WithinsIn(K, A[i])
  BY DEF StacksKept
<1>2. /\ trail \in Seq(TrailFrames) /\ m \in Nat /\ DOMAIN trail = 1..m /\ Len(S) = m
      /\ \A i \in 1..m : S[i][1] = trail[i].node /\ S[i][2] = trail[i].opened
  BY <1>1 DEF WalkTyped, Spine
<1>3. StateAt(K, S, A, W, m)
  BY <1>1, <1>2 DEF Unrolled
<1>4. WalkerTypeOK
  <2>1. active \in StacksIn(Contexts) /\ WithinsIn(Contexts, active) /\ walking \in [Types -> Nodes \cup {Nobody}]
    BY StacksAre
  <2>2. \A c \in Contexts : \A i \in DOMAIN active[c] :
          active[c][i].node \in Nodes /\ active[c][i].within \in (IF c[2] = 1 THEN {Nobody} ELSE Nodes)
    <3> SUFFICES ASSUME NEW c \in Contexts, NEW i \in DOMAIN active[c]
                 PROVE active[c][i].node \in Nodes /\ active[c][i].within \in (IF c[2] = 1 THEN {Nobody} ELSE Nodes)
      OBVIOUS
    <3>1. active[c] \in Seq(Activations)
      BY <2>1 DEF StacksIn
    <3>2. active[c][i] \in Activations
      BY <3>1
    <3>3. active[c][i].node \in Nodes
      BY <3>2 DEF Activations
    <3> QED
      BY <2>1, <3>3, Zenon DEF WithinsIn
  <2>3. \A i \in DOMAIN trail : trail[i].node \in Nodes /\ trail[i].next \in 1..(Len(kids[trail[i].node]) + 1)
    <3> SUFFICES ASSUME NEW i \in DOMAIN trail
                 PROVE trail[i].node \in Nodes /\ trail[i].next \in 1..(Len(kids[trail[i].node]) + 1)
      OBVIOUS
    <3>1. trail[i] \in TrailFrames
      BY <1>2
    <3>2. trail[i].node \in Nodes /\ trail[i].next \in Nat \ {0} /\ trail[i].next <= Len(kids[trail[i].node]) + 1
      BY <3>1 DEF TrailFrames, WalkTyped
    <3>3. Len(kids[trail[i].node]) \in Nat
      BY <3>2 DEF WalkTyped, GivenOK
    <3> QED
      BY <3>2, <3>3
  <2> QED
    BY <2>1, <2>2, <2>3 DEF WalkerTypeOK, WalkTyped
<1>5. TopLevelOnce
  <2> SUFFICES ASSUME NEW c \in Contexts, c[2] = 1, NEW n \in Nodes, Type[n] = TypeOf(c)
               PROVE /\ Cardinality(Visits("enter", c, n, Nobody)) <= 1
                     /\ WalkOver =>
                          \A kind \in {"enter", "leave"} :
                            Cardinality(Visits(kind, c, n, Nobody)) =
                              (IF n \in Reached /\ <<c, n>> \notin skips THEN 1 ELSE 0)
    BY DEF TopLevelOnce
  <2>1. PICK e, l, o : /\ e = Cardinality(Visits("enter", c, n, Nobody))
                       /\ l = Cardinality(Visits("leave", c, n, Nobody))
                       /\ o = Cardinality(Open(trail, c, n))
    OBVIOUS
  <2>2. /\ e = Cardinality(Of(calls, "enter", c, n)) /\ l = Cardinality(Of(calls, "leave", c, n))
    BY <2>1, VisitsAre
  <2>3. e = (IF n \in seenNodes /\ <<c, n>> \notin skips THEN 1 ELSE 0) /\ e = l + o
    BY <2>1, <2>2 DEF CountsKept
  <2>4. ASSUME WalkOver PROVE o = 0 /\ l \in Nat /\ Reached = seenNodes
    <3>1. Open(trail, c, n) = {}
      BY <2>4 DEF Open, WalkOver
    <3>2. l \in Nat
      <4>1. calls \in Seq(Visited)
        BY DEF WalkTyped
      <4>2. DOMAIN calls = 1..Len(calls) /\ Len(calls) \in Nat
        BY <4>1
      <4>3. Of(calls, "leave", c, n) \subseteq 1..Len(calls) /\ IsFiniteSet(1..Len(calls))
        BY <4>2, FS_Interval DEF Of
      <4> QED
        BY <2>2, <4>3, FS_Subset, FS_CardinalityType
    <3> QED
      BY <2>1, <2>4, <3>1, <3>2, AllSeen, FS_EmptySet
  <2>5. e <= 1
    BY <2>3
  <2>6. ASSUME WalkOver
        PROVE /\ e = (IF n \in Reached /\ <<c, n>> \notin skips THEN 1 ELSE 0)
              /\ l = (IF n \in Reached /\ <<c, n>> \notin skips THEN 1 ELSE 0)
    <3>1. o = 0 /\ l \in Nat /\ Reached = seenNodes
      BY <2>4, <2>6
    <3>2. l = e
      BY <2>3, <3>1
    <3> QED
      BY <2>3, <3>1, <3>2
  <2> QED
    BY <2>1, <2>5, <2>6
<1>6. StacksMatchTheTrail
  <2> SUFFICES ASSUME NEW c \in K
               PROVE LET mine == {i \in DOMAIN trail : c \in trail[i].opened}
                         deeper(i) == {j \in DOMAIN trail : j > i /\ \E d \in trail[j].opened : d[1] = c[1] /\ d[2] > c[2]}
                     IN /\ Len(active[c]) = Cardinality(mine)
                        /\ \A i \in mine :
                             LET k == Cardinality({j \in mine : j <= i})
                             IN /\ active[c][k].node = trail[i].node
                                /\ k = Len(active[c]) => (active[c][k].next = <<>> <=> deeper(i) = {})
    BY <1>1, Zenon DEF StacksMatchTheTrail
  <2> DEFINE mine == {i \in DOMAIN trail : c \in trail[i].opened}
             deeper(i) == {j \in DOMAIN trail : j > i /\ \E d \in trail[j].opened : d[1] = c[1] /\ d[2] > c[2]}
  <2>1. mine = Mine(S, c, m)
    BY <1>2 DEF Mine
  <2>2. /\ Len(active[c]) = Cardinality(mine)
        /\ \A i \in mine :
             LET k == Cardinality({j \in mine : j <= i})
             IN k \in 1..Len(active[c]) /\ active[c][k].node = S[i][1]
    <3>1. Matches(K, S, active, m)
      BY <1>1, <1>3 DEF StateAt
    <3>2. /\ Len(active[c]) = Cardinality(Mine(S, c, m))
          /\ \A i \in Mine(S, c, m) :
               LET k == Cardinality({j \in Mine(S, c, m) : j <= i})
               IN k \in 1..Len(active[c]) /\ active[c][k].node = S[i][1]
      BY <3>1 DEF Matches
    <3> HIDE DEF mine
    <3> QED
      BY <2>1, <3>2, Zenon
  <2>3. ASSUME NEW i \in mine, Cardinality({j \in mine : j <= i}) = Len(active[c])
        PROVE  LastOf(active[c]).next = <<>> <=> deeper(i) = {}
    <3>1. i \in 1..m /\ c \in S[i][2] /\ IsFiniteSet(mine)
      <4>1. mine \subseteq 1..m /\ IsFiniteSet(1..m)
        BY <1>2, FS_Interval
      <4> QED
        BY <1>2, <4>1, FS_Subset
    <3>2. {j \in mine : j <= i} = mine
      BY <2>2, <2>3, <3>1, FS_Subset
    <3>3. Latest(S, c, m, i)
      <4> SUFFICES ASSUME NEW k \in (i + 1)..m, c \in S[k][2] PROVE FALSE
        BY <3>1 DEF Latest
      <4>1. k \in 1..m /\ ~(k <= i)
        BY <1>2, <3>1
      <4>2. k \in mine
        BY <1>2, <4>1
      <4> QED
        BY <3>2, <4>1, <4>2
    <3>4. TopIs(S, A, c, m, i)
      BY <1>3, <3>1, <3>3 DEF StateAt, Tops
    <3>5. Deeper(S, c, i, m) = deeper(i)
      <4>1. \A j : j \in (i + 1)..m <=> j \in 1..m /\ j > i
        BY <1>2, <3>1
      <4>2. \A j \in 1..m : S[j][2] = trail[j].opened
        BY <1>2
      <4> QED
        BY <1>2, <4>1, <4>2 DEF Deeper
    <3>6. LastOf(active[c]).next = <<>> <=> Deeper(S, c, i, m) = {}
      BY <1>1, <3>4 DEF TopIs
    <3> QED
      BY <3>5, <3>6
  <2>4. \A i \in mine :
          LET k == Cardinality({j \in mine : j <= i})
          IN /\ active[c][k].node = trail[i].node
             /\ k = Len(active[c]) => (active[c][k].next = <<>> <=> deeper(i) = {})
    <3> SUFFICES ASSUME NEW i \in mine
                 PROVE LET k == Cardinality({j \in mine : j <= i})
                       IN /\ active[c][k].node = trail[i].node
                          /\ k = Len(active[c]) => (active[c][k].next = <<>> <=> deeper(i) = {})
      OBVIOUS
    <3>1. PICK k : k = Cardinality({j \in mine : j <= i})
      OBVIOUS
    <3>2. active[c][k].node = trail[i].node
      BY <1>2, <2>2, <3>1
    <3>3. k = Len(active[c]) => (active[c][k].next = <<>> <=> deeper(i) = {})
      BY <2>3, <3>1 DEF LastOf
    <3> QED
      BY <3>1, <3>2, <3>3, Zenon
  <2> QED
    BY <2>2, <2>4, Zenon
<1>7. FirstLevelOnly
  <2> SUFFICES ASSUME NEW j \in DOMAIN trail, NEW c \in trail[j].entered, c[2] > 1
               PROVE \E i \in 1..(j - 1) :
                       /\ \E h \in 1..i : Parent(c) \in trail[h].opened /\ trail[h].node = trail[i].node
                       /\ \A k \in (i + 1)..(j - 1) :
                            Type[trail[k].node] \notin {TypeOf(c), TypeOf(Parent(c))}
    BY DEF FirstLevelOnly
  <2>1. j \in 1..m /\ c \in S[j][2] /\ NestedAt(S, j)
    BY <1>1, <1>2 DEF Unrolled, WalkTyped
  <2>2. PICK i \in 1..(j - 1) :
          /\ \E h \in 1..i : Parent(c) \in S[h][2] /\ S[h][1] = S[i][1]
          /\ \A k \in (i + 1)..(j - 1) : Type[S[k][1]] \notin {TypeOf(c), TypeOf(Parent(c))}
    BY <2>1 DEF NestedAt
  <2>3. i \in 1..m /\ (\A h \in 1..i : h \in 1..m) /\ \A k \in (i + 1)..(j - 1) : k \in 1..m
    BY <1>2, <2>1
  <2> QED
    BY <1>2, <2>2, <2>3
<1>8. NothingIsLeftOpen
  <2> SUFFICES ASSUME WalkOver
               PROVE /\ \A c \in Contexts : active[c] = <<>>
                     /\ \A t \in Types : walking[t] = Nobody
                     /\ \A c \in Contexts, n \in Nodes :
                          Cardinality({i \in DOMAIN calls : calls[i].kind = "enter" /\ calls[i].context = c /\ calls[i].node = n})
                            = Cardinality({i \in DOMAIN calls : calls[i].kind = "leave" /\ calls[i].context = c /\ calls[i].node = n})
    BY DEF NothingIsLeftOpen
  <2>1. trail = <<>> /\ m = 0
    BY <1>1 DEF WalkOver
  <2>2. active = [c \in Contexts |-> <<>>] /\ walking = [t \in Types |-> Nobody]
    BY <1>1, <2>1 DEF Unrolled
  <2>3. ASSUME NEW c \in Contexts, NEW n \in Nodes
        PROVE Cardinality(Of(calls, "enter", c, n)) = Cardinality(Of(calls, "leave", c, n))
    <3>1. Open(trail, c, n) = {}
      BY <2>1 DEF Open
    <3>2. Cardinality(Of(calls, "leave", c, n)) \in Nat
      <4>1. calls \in Seq(Visited)
        BY DEF WalkTyped
      <4>2. DOMAIN calls = 1..Len(calls) /\ Len(calls) \in Nat
        BY <4>1
      <4>3. Of(calls, "leave", c, n) \subseteq 1..Len(calls) /\ IsFiniteSet(1..Len(calls))
        BY <4>2, FS_Interval DEF Of
      <4> QED
        BY <4>3, FS_Subset, FS_CardinalityType
    <3>3. Cardinality(Open(trail, c, n)) = 0
      BY <3>1, FS_EmptySet
    <3>4. Cardinality(Of(calls, "enter", c, n)) =
            Cardinality(Of(calls, "leave", c, n)) + Cardinality(Open(trail, c, n))
      BY DEF CountsKept
    <3> QED
      BY <3>2, <3>3, <3>4
  <2> QED
    BY <2>2, <2>3 DEF Of
<1> QED
  BY <1>4, <1>5, <1>6, <1>7, <1>8 DEF WalkIsSound

(* Of every document, every set of rules and whatever they skip. *)
THEOREM WalkSound == WalkSpec => []WalkIsSound
<1>1. (\E d, rs, ss : GivenOK(d, rs) /\ WalkerInit(d, rs, ss)) => WalkKept
  BY WalkBegins
<1>2. WalkKept /\ [WalkNext]_walkerVars => WalkKept'
  BY BeginsKeeps, GoesDownKeeps, LeavesKeeps, WalkStays DEF WalkNext
<1>3. WalkKept => WalkIsSound
  BY KeptIsSound
<1> QED
  BY <1>1, <1>2, <1>3, PTL DEF WalkSpec

==============================================================================
