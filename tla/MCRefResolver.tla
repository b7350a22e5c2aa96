---------------------------- MODULE MCRefResolver ----------------------------
(* Small documents for RefResolver and the sequential meaning of a $ref.     *)
EXTENDS RefResolver

Node(d, p) == <<d, p>>
Relative == UNION { [1 .. k -> Segs] : k \in 0 .. 2 }
NoAnchor == [ n \in Nodes |-> None ]
OneType  == [ t \in Types |-> [ p \in Relative |-> t ] ]

\* Two types: what lies under "a" in a T is a U, under "b" a T; in a U only
\* "b" is walked.
TwoTypes ==
  [ t \in Types |-> [ p \in Relative |->
      IF Len(p) = 0 THEN t
      ELSE IF t = "U" /\ p[1] = "a" THEN None
      ELSE LET mid == IF t = "T" /\ p[1] = "a" THEN "U" ELSE "T"
           IN IF Len(p) = 1 THEN mid
              ELSE IF mid = "U" /\ p[2] = "a" THEN None
              ELSE IF mid = "T" /\ p[2] = "a" THEN "U" ELSE "T" ] ]

Pointer(u, p) == [uri |-> u, path |-> p, anchor |-> None]
Plain(a) == [uri |-> None, path |-> <<>>, anchor |-> a]

\* Every reference graph over a root document with two references and another
\* with two, one inside the other.
Tree == { Node("root", p) : p \in { <<>>, <<"a">>, <<"b">> } }
   \cup { Node("ext", p) : p \in { <<>>, <<"a">>, <<"a", "b">> } }
WithSiblings == { Node("root", <<"b">>), Node("ext", <<"a">>) }
Pointers == { <<>>, <<"a">>, <<"a", "b">> }
AllPointers == { Pointer(u, p) : u \in Docs \cup {None}, p \in Pointers }
NotTo(d) == { r \in RefStrs : r.uri # d } \cup {None}
AnyGraph ==
  { g \in [Nodes -> RefStrs \cup {None}] :
      /\ \A d \in Docs : g[Node(d, <<>>)] = None
      /\ g[Node("root", <<"a">>)] # None
      /\ g[Node("root", <<"b">>)] \in NotTo("root")
      /\ g[Node("ext", <<"a", "b">>)] \in NotTo("ext") }

\* References across a remote root, a remote document, a file of an overlay and
\* a file that is nobody's business: each holds one, the root two.  Or those by
\* name and by pointer within the root, to and around two nodes with anchors,
\* one of them with a key below it.
MixedTree == { Node(d, p) : d \in Docs, p \in { <<>>, <<"a">> } }
               \cup { Node("root", p) : p \in { <<"b">>, <<"c">>, <<"c", "a">> } }
NamedAt ==
  [ n \in Nodes |-> IF n = Node("root", <<"c">>) THEN "n" ELSE IF n = Node("root", <<"b">>) THEN "m" ELSE None ]
RemotePointers == { Pointer(d, <<"a">>) : d \in Docs }
NamedRefs == { Plain("n"), Plain("m") } \cup { Pointer(None, p) : p \in {<<"a">>, <<"c", "a">>} }
MixedRefs == RemotePointers \cup NamedRefs
OnlyAt(holders, refs) ==
  { [ n \in Nodes |-> IF n \in holders THEN g[n] ELSE None ] : g \in [holders -> refs \cup {None}] }
RemoteGraph ==
  { g \in OnlyAt({ Node(d, <<"a">>) : d \in Docs } \cup { Node("root", <<"b">>) }, RemotePointers) :
      /\ g[Node("root", <<"a">>)] # None
      /\ g[Node("root", <<"b">>)] \in {None, Pointer("overlay", <<"a">>)}
      /\ g[Node("overlay", <<"a">>)] \in {None, Pointer("file", <<"a">>), Pointer("root", <<"a">>)}
      /\ g[Node("file", <<"a">>)] \in {None, Pointer("root", <<"a">>)} }
NamedGraph ==
  { g \in OnlyAt({ Node("root", p) : p \in { <<"a">>, <<"c">>, <<"c", "a">> } }, NamedRefs) :
      g[Node("root", <<"a">>)] # None /\ g[Node("root", <<"c">>)] \in {None, Plain("m")} }
MixedGraph == RemoteGraph \cup NamedGraph

\* a refers to c by name, b to what lies below a.
NamedTree == { Node("root", p) : p \in { <<>>, <<"a">>, <<"b">>, <<"c">>, <<"c", "a">> } }
AnchorRefs == { Plain("n"), Pointer(None, <<"a", "a">>) }
AnchorGraph ==
  { [ n \in Nodes |-> IF n = Node("root", <<"a">>) THEN Plain("n")
                      ELSE IF n = Node("root", <<"b">>) THEN Pointer(None, <<"a", "a">>)
                      ELSE None ] }
==============================================================================
