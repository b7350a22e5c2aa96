-------------------------------- MODULE Walker --------------------------------
(***************************************************************************)
(* walkDocument with visitors that normalizeVisitors made of rules: a rule *)
(* is a path of node types, <<"Schema">> for a visitor of every schema and *)
(* <<"Op", "Schema">> for one of the schemas within an operation.  Each    *)
(* level of a rule is a context, with a stack of activations; the types    *)
(* between two levels are `weak` contexts (isSkippedLevel), which keep the *)
(* walk going into what other rules have seen.  The levels of a rule have  *)
(* different types.                                                        *)
(* Visitors nested side by side in one visitor share its context object    *)
(* (visitors.ts:671-679); here each is a rule with a path of its own, and  *)
(* so has a copy of the contexts above it.                                 *)
(*                                                                         *)
(* The document is a graph: a kid of a node is another node, in place or   *)
(* through a $ref.  The object of a $ref is identified by its owner and    *)
(* its place.  Nodes in place have one owner.                              *)
(***************************************************************************)
EXTENDS Naturals, Sequences, FiniteSets

CONSTANTS
  Nodes, Root,   (* the nodes and the one the walk begins with             *)
  Type,          (* the type of every node                                 *)
  Between,       (* of two types: those on a way from one to the other that
                    is not through the other (addWeakNodes)                *)
  Nobody         (* no node                                                *)

Types == {Type[n] : n \in Nodes}

ASSUME WalkerAssumption ==
  /\ Root \in Nodes /\ Nobody \notin Nodes /\ DOMAIN Type = Nodes
  /\ Between \in [Types \X Types -> SUBSET Types]

VARIABLES
  kids,      (* of every node: its kids in order, [node, ref]               *)
  rules,     (* the rules                                                  *)
  skips,     (* the contexts and nodes whose skip predicate says so        *)
  active,    (* activatedOn of every context, innermost last               *)
  weakSeen,  (* `seen` of the weak contexts                                *)
  seenNodes, (* seenNodesPerType                                           *)
  walking,   (* walkingNodeByType                                          *)
  trail,     (* the calls of walkNode that are under way                   *)
  calls      (* history: the visits, in order                              *)

walkGiven == <<kids, rules, skips>>
walkerVars == <<walkGiven, active, weakSeen, seenNodes, walking, trail, calls>>

\* A context is a rule and a level of it; level 1 is the top.
Contexts == UNION {{<<r, i>> : i \in 1..Len(r)} : r \in rules}
Parent(c) == <<c[1], c[2] - 1>>
TypeOf(c) == c[1][c[2]]
EnterOf(t) == {c \in Contexts : TypeOf(c) = t}

\* Weak contexts belong to the level above them.
Weak == {<<c, t>> : c \in {d \in Contexts : d[2] < Len(d[1])}, t \in Types}
WeakOf(t) ==
  {w \in Weak : w[2] = t /\ t \in Between[TypeOf(w[1]), w[1][1][w[1][2] + 1]]}

LastOf(s) == s[Len(s)]
ButLast(s) == SubSeq(s, 1, Len(s) - 1)

Kid(n, ref) == [node |-> n, ref |-> ref]
InPlace(n) == <<n, 0>>
Object(owner, i) == IF kids[owner][i].ref THEN <<owner, i>> ELSE InPlace(kids[owner][i].node)

WalkerInit(d, rs, ss) ==
  /\ kids = d /\ rules = rs /\ skips = ss
  /\ active = [c \in Contexts |-> <<>>] /\ weakSeen = [w \in Weak |-> {}]
  /\ seenNodes = {} /\ walking = [t \in Types |-> Nobody]
  /\ trail = <<>> /\ calls = <<>>

------------------------------------------------------------------------------
(* Entering a node. *)

TopOf(c) == LastOf(active[c])
Activation(n, within, skipped) == [node |-> n, within |-> within, next |-> <<>>, skipped |-> skipped]

\* Faulty: a nested visitor enters again below a node that it is at, ...
MayEnterDeeper(c, n) ==
  IF c[2] = 1 THEN n \notin seenNodes
  ELSE /\ active[Parent(c)] # <<>> /\ TopOf(Parent(c)).node = walking[TypeOf(Parent(c))]
       /\ \A i \in DOMAIN active[c] : active[c][i].node # n
\* Faulty: ... or once for each node, like the others.
MayEnterOnce(c, n) ==
  IF c[2] = 1 THEN n \notin seenNodes
  ELSE /\ n \notin seenNodes /\ active[Parent(c)] # <<>>
       /\ TopOf(Parent(c)).node = walking[TypeOf(Parent(c))]
       /\ TopOf(Parent(c)).next # <<>> => LastOf(TopOf(Parent(c)).next) # Type[n]
\* A top level context enters a node that was not seen; a nested one when the
\* node it is nested in is the innermost of its type, and neither it nor a deeper
\* context has entered on the way.
MayEnter(c, n) ==
  IF c[2] = 1 THEN n \notin seenNodes
  ELSE /\ active[Parent(c)] # <<>> /\ TopOf(Parent(c)).node = walking[TypeOf(Parent(c))]
       /\ active[c] # <<>> => TopOf(c).within # TopOf(Parent(c)).node
       /\ TopOf(Parent(c)).next # <<>> => LastOf(TopOf(Parent(c)).next) # Type[n]

Entering(n) == {c \in EnterOf(Type[n]) : MayEnter(c, n)}

\* Faulty: a visitor of the second level does not know the node it is within.
WithinDeeper(c) == IF c[2] <= 2 THEN Nobody ELSE TopOf(Parent(c)).node
Within(c) == IF c[2] = 1 THEN Nobody ELSE TopOf(Parent(c)).node
Skipped(c, n) == (c[2] > 1 /\ TopOf(Parent(c)).skipped) \/ <<c, n>> \in skips

\* The contexts above those in C.
Above(C) == {d \in Contexts : \E c \in C : d[1] = c[1] /\ d[2] < c[2]}

\* The stacks of the contexts when those in C have entered n.
Entered(C, n) ==
  [c \in Contexts |->
     IF c \in C THEN Append(active[c], Activation(n, Within(c), Skipped(c, n)))
     ELSE IF c \in Above(C) THEN Append(ButLast(active[c]), [TopOf(c) EXCEPT !.next = Append(@, Type[n])])
     ELSE active[c]]

\* The weak contexts that pass through n: the level above is active, nothing below
\* it is, and they are not passing through the object already.
Passing(object, n, C) ==
  {w \in WeakOf(Type[n]) :
     active[w[1]] # <<>> /\ LastOf(Entered(C, n)[w[1]]).next = <<>> /\ object \notin weakSeen[w]}

Call(kind, c, n) == [kind |-> kind, context |-> c, node |-> n, within |-> Within(c)]

\* The calls of the visitors of C, in some order.
Called(kind, C, n) ==
  CHOOSE s \in [1..Cardinality(C) -> {Call(kind, c, n) : c \in C}] :
    \A c \in C : \E i \in DOMAIN s : s[i] = Call(kind, c, n)

\* walkNode up to the kids: they are walked unless the node was seen and nothing
\* visits it.
WalkNode(object, n, rest) ==
  LET C == Entering(n)
      visited == {c \in C : ~Skipped(c, n)}
      W == Passing(object, n, C)
      goesOn == visited # {} \/ W # {} \/ n \notin seenNodes
  IN /\ active' = Entered(C, n)
     /\ weakSeen' = [w \in Weak |-> weakSeen[w] \cup (IF w \in W THEN {object} ELSE {})]
     /\ walking' = [walking EXCEPT ![Type[n]] = n]
     /\ seenNodes' = seenNodes \cup {n}
     /\ calls' = calls \o Called("enter", visited, n)
     /\ trail' = Append(rest,
          [ node |-> n, next |-> IF goesOn THEN 1 ELSE Len(kids[n]) + 1,
            entered |-> visited, opened |-> C, passed |-> W, before |-> walking[Type[n]] ])
     /\ UNCHANGED walkGiven

BeginsWalk == seenNodes = {} /\ WalkNode(InPlace(Root), Root, <<>>)

Here == LastOf(trail)

\* Faulty: the place among the kids is not kept.
GoesDownAgain ==
  /\ trail # <<>> /\ Here.next <= Len(kids[Here.node])
  /\ WalkNode(Object(Here.node, Here.next), kids[Here.node][Here.next].node, trail)

\* The next kid, in place or through its $ref.
GoesDown ==
  /\ trail # <<>> /\ Here.next <= Len(kids[Here.node])
  /\ WalkNode(Object(Here.node, Here.next), kids[Here.node][Here.next].node,
              Append(ButLast(trail), [Here EXCEPT !.next = @ + 1]))

------------------------------------------------------------------------------
(* Leaving it. *)

\* Faulty: the levels above are not told.
LeftAlone(C) ==
  [c \in Contexts |-> IF c \in C THEN ButLast(active[c]) ELSE active[c]]

\* The stacks when the contexts in C have left.
Left(C) ==
  [c \in Contexts |->
     IF c \in C THEN ButLast(active[c])
     ELSE IF c \in Above(C) THEN Append(ButLast(active[c]), [TopOf(c) EXCEPT !.next = ButLast(@)])
     ELSE active[c]]

\* Faulty: every visitor of the type is told of the leaving.
LeavesAll ==
  /\ trail # <<>> /\ Here.next > Len(kids[Here.node])
  /\ active' = Left(Here.opened)
  /\ weakSeen' = [w \in Weak |-> weakSeen[w] \ (IF w \in Here.passed THEN {InPlace(Here.node)} ELSE {})]
  /\ walking' = [walking EXCEPT ![Type[Here.node]] = Here.before]
  /\ calls' = calls \o Called("leave", {c \in EnterOf(Type[Here.node]) : c[2] = 1}, Here.node)
  /\ trail' = ButLast(trail)
  /\ UNCHANGED <<walkGiven, seenNodes>>

\* walkNode after the kids.  A weak context forgets the node, where it has
\* remembered the object that led to it.
LeavesNode ==
  /\ trail # <<>> /\ Here.next > Len(kids[Here.node])
  /\ active' = Left(Here.opened)
  /\ weakSeen' = [w \in Weak |-> weakSeen[w] \ (IF w \in Here.passed THEN {InPlace(Here.node)} ELSE {})]
  /\ walking' = [walking EXCEPT ![Type[Here.node]] = Here.before]
  /\ calls' = calls \o Called("leave", Here.entered, Here.node)
  /\ trail' = ButLast(trail)
  /\ UNCHANGED <<walkGiven, seenNodes>>

WalkNext == BeginsWalk \/ GoesDown \/ LeavesNode

WalkOver == seenNodes # {} /\ trail = <<>>

------------------------------------------------------------------------------
(* Properties. *)

WalkerTypeOK ==
  /\ \A c \in Contexts : \A i \in DOMAIN active[c] :
       active[c][i].node \in Nodes /\ active[c][i].within \in (IF c[2] = 1 THEN {Nobody} ELSE Nodes)
  /\ seenNodes \subseteq Nodes /\ walking \in [Types -> Nodes \cup {Nobody}]
  /\ \A i \in DOMAIN trail : trail[i].node \in Nodes /\ trail[i].next \in 1..(Len(kids[trail[i].node]) + 1)

\* The visits of a context to n within o.
Visits(kind, c, n, o) ==
  {i \in DOMAIN calls : calls[i] = [kind |-> kind, context |-> c, node |-> n, within |-> o]}

\* The least set of nodes with the root and the kids of its members.
Reached ==
  LET closed(S) == \A n \in S : \A j \in DOMAIN kids[n] : kids[n][j].node \in S
  IN {n \in Nodes : \A S \in SUBSET Nodes : Root \in S /\ closed(S) => n \in S}

\* A top level visitor is called once for every node of its type, on the way in
\* and on the way out, however many $refs lead there (docs/custom-plugins/visitor.md:45).
TopLevelOnce ==
  \A c \in Contexts : c[2] = 1 =>
    \A n \in Nodes : Type[n] = TypeOf(c) =>
      /\ Cardinality(Visits("enter", c, n, Nobody)) <= 1
      /\ WalkOver =>
           \A kind \in {"enter", "leave"} :
             Cardinality(Visits(kind, c, n, Nobody)) =
               (IF n \in Reached /\ <<c, n>> \notin skips THEN 1 ELSE 0)

\* The stacks of the contexts are what the trail says: a context is active at the
\* nodes of the trail that it entered, innermost last, and knows the types that
\* the levels below it have entered since.
StacksMatchTheTrail ==
  \A c \in Contexts :
    LET mine == {i \in DOMAIN trail : c \in trail[i].opened}
        deeper(i) == {j \in DOMAIN trail : j > i /\ \E d \in trail[j].opened : d[1] = c[1] /\ d[2] > c[2]}
    IN /\ Len(active[c]) = Cardinality(mine)
       /\ \A i \in mine :
            LET k == Cardinality({j \in mine : j <= i})
            IN /\ active[c][k].node = trail[i].node
               /\ k = Len(active[c]) => (active[c][k].next = <<>> <=> deeper(i) = {})

\* A nested visitor is called below a node of the type above it that its rule has
\* entered, there or where the walk came to that node before, with no other node of
\* its own type or of the type above it in between.
FirstLevelOnly ==
  \A j \in DOMAIN trail : \A c \in trail[j].entered : c[2] > 1 =>
    \E i \in 1..(j - 1) :
      /\ \E h \in 1..i : Parent(c) \in trail[h].opened /\ trail[h].node = trail[i].node
      /\ \A k \in (i + 1)..(j - 1) :
           Type[trail[k].node] \notin {TypeOf(c), TypeOf(Parent(c))}

\* The steps from a node to a kid through types between two levels.
Ways(c, direct) ==
  LET t == TypeOf(c)
      u == TypeOf(Parent(c))
      mid == {n \in Nodes : Type[n] \in Between[u, t]}
      step(o, n) == \E i \in DOMAIN kids[o] :
                      kids[o][i].node = n /\ (direct /\ n \in mid /\ Type[o] # u => ~kids[o][i].ref)
      ends == {n \in Nodes : Type[n] = t}
      far[i \in 0..Cardinality(mid)] ==
        IF i = 0 THEN {p \in {n \in Nodes : Type[n] = u} \X (mid \cup ends) : step(p[1], p[2])}
        ELSE far[i - 1] \cup
               {p \in {n \in Nodes : Type[n] = u} \X (mid \cup ends) :
                  \E m \in mid : <<p[1], m>> \in far[i - 1] /\ step(m, p[2])}
  IN {p \in far[Cardinality(mid)] : p[2] \in ends}

VisitedWithin(c) ==
  \A p \in Ways(c, FALSE) : p[1] \in Reached => Visits("enter", c, p[2], p[1]) # {}

\* A nested visitor is called for every node of its type that the walk comes to
\* while the node it is nested in is entered, whatever other rules or nodes came
\* there before (docs/custom-plugins/visitor.md:71).
NestedSeeAll ==
  WalkOver /\ skips = {} => \A c \in Contexts : c[2] = 2 => VisitedWithin(c)

\* ... where a $ref that is no further than the entered node itself leads out of
\* it; see the run of NestedSeeAll for the others.
NestedSeeTheirOwn ==
  WalkOver /\ skips = {} =>
    \A c \in Contexts : c[2] = 2 =>
      \A p \in Ways(c, TRUE) : p[1] \in Reached => Visits("enter", c, p[2], p[1]) # {}

\* When the walk is over nothing of it is left: every node that a visitor entered it
\* left, and all stacks are empty.
NothingIsLeftOpen ==
  WalkOver =>
    /\ \A c \in Contexts : active[c] = <<>>
    /\ \A t \in Types : walking[t] = Nobody
    /\ \A c \in Contexts, n \in Nodes :
         Cardinality({i \in DOMAIN calls : calls[i].kind = "enter" /\ calls[i].context = c /\ calls[i].node = n})
           = Cardinality({i \in DOMAIN calls : calls[i].kind = "leave" /\ calls[i].context = c /\ calls[i].node = n})

\* What visitors may rely on: each node once at the top level, nested visitors only
\* where their rule says, stacks in step with the walk, everything left again.
WalkIsSound ==
  WalkerTypeOK /\ TopLevelOnce /\ StacksMatchTheTrail /\ FirstLevelOnly /\ NothingIsLeftOpen
==============================================================================
