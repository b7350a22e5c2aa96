------------------------- MODULE RefResolver_proofs -------------------------
(***************************************************************************)
(* Proofs about RefResolver, for any documents, types and reference graphs.*)
(*                                                                         *)
(* In three parts.  The types, the cache, the completion loop and the      *)
(* walks rest on IInv, the shape of the call stacks, and on WInv, what has *)
(* been walked.  RemoteReadsNoFiles rests on WebInv: nothing in hand leads *)
(* out of the web.  What entries say, EntriesAreStable and AsIfSequential, *)
(* is proved where no $ref is by name: what a $ref denotes is the least    *)
(* set of facts Known; it tells one thing only and grows with the          *)
(* documents; each call is chained to its caller by such a fact (ToldInv), *)
(* and so is the circle of a rejected one (DoomInv).                       *)
(***************************************************************************)
EXTENDS RefResolver, SequenceTheorems, FiniteSetTheorems, WellFoundedInduction, TLAPS

\* The shape of a call stack: every call is at a node that holds a $ref, and a
\* call that awaits the $ref on its way has segments left.
GoodStack(s) ==
  \A i \in 1 .. Len(s) : /\ ref[s[i].ref.node] # None
                         /\ s[i].stage = "inner" => s[i].rest # <<>>

\* A running task is in some call, a call that returned left its entry, and a
\* task sees anchored places only.
GoodTask(x) ==
  /\ \A p \in scope[x] : AnchorOf[p.node] # None
  /\ GoodStack(stack[x])
  /\ status[x] = "running" => stack[x] # <<>>
  /\ InStage(x, "returned") => ret[x] \in Entries

IInv == TypeOK /\ \A x \in Ids : GoodTask(x)

------------------------------------------------------------------------------
(* Facts about places and pointers. *)

\* A place belongs to a document of the model.
LEMMA DocOfType == \A p \in Places : DocOf(p) \in Docs
  BY Documents DEF DocOf, Places, Vias

LEMMA RootType_ == \A d \in Docs : Root(d) \in Places
  BY Documents DEF Root, Places, Vias

\* What a place's $ref says, when it has one.
LEMMA RefAtType ==
  ASSUME ref \in RefGraphs, NEW p \in Places, RefAt(p) # None
  PROVE  /\ RefAt(p) \in RefStrs
         /\ RefAt(p).path \in Seq(Segs)
         /\ RefAt(p).uri \in Docs \cup {None}
         /\ RefAt(p).anchor \in Anchors \cup {None}
         /\ RefId(p) \in RefIds
         /\ TargetDoc(p) \in Docs
  <1>1. p.node \in Nodes
    BY DEF Places
  <1>2. ref \in [Nodes -> RefStrs \cup {None}]
    BY Graphs
  <1>3. RefAt(p) \in RefStrs
    BY <1>1, <1>2 DEF RefAt
  <1>4. RefAt(p) \in [uri : Docs \cup {None}, path : Seq(Segs), anchor : Anchors \cup {None}]
    BY <1>3, Graphs
  <1>5. QED
    BY <1>3, <1>4, DocOfType DEF RefId, RefIds, TargetDoc, IsRemote

\* Going down from a place to a node of the model gives a place.
LEMMA BelowType ==
  ASSUME NEW p \in Places, NEW path, Below(p, path).node \in Nodes
  PROVE  Below(p, path) \in Places
  BY DEF Below, Places

LEMMA CoveredType ==
  ASSUME NEW t, NEW p, NEW met
  PROVE  Covered(t, p, met) \subseteq Ids
  BY DEF Covered

\* A walk starts tasks among the nodes it meets and shows them places only.
LEMMA WalkType ==
  ASSUME NEW t, NEW places, NEW met
  PROVE  /\ Walk(t, places, met).fresh \subseteq Ids
         /\ Walk(t, places, met).starting \subseteq Walk(t, places, met).fresh
         /\ \A x \in Walk(t, places, met).starting :
               /\ RefAt(x[2]) # None
               /\ Walk(t, places, met).scope[x] \in SUBSET Places
               /\ \A p \in Walk(t, places, met).scope[x] : AnchorOf[p.node] # None
  <1> DEFINE cover(i) == Covered(t, places[i], met)
                           \ UNION { Covered(t, places[j], met) : j \in 1 .. i - 1 }
             fresh    == UNION { Covered(t, places[i], met) : i \in DOMAIN places }
             walk(x)  == CHOOSE i \in DOMAIN places : x \in cover(i)
             scopes   == [ x \in fresh |-> Anchored(cover(walk(x))) ]
  <1>1. \A i : cover(i) \subseteq Ids
    BY CoveredType
  <1>2. fresh \subseteq Ids
    BY CoveredType
  <1>3. \A ids \in SUBSET Ids : /\ Anchored(ids) \in SUBSET Places
                                /\ \A p \in Anchored(ids) : AnchorOf[p.node] # None
    BY DEF Anchored, Ids
  <1>4. \A x \in fresh : /\ scopes[x] \in SUBSET Places
                         /\ \A p \in scopes[x] : AnchorOf[p.node] # None
    BY <1>1, <1>3
  <1> HIDE DEF cover, fresh, walk, scopes
  <1>5. Walk(t, places, met) = [ fresh |-> fresh, starting |-> { x \in fresh : RefAt(x[2]) # None },
                                 scope |-> scopes ]
    BY DEF Walk, cover, fresh, walk, scopes
  <1>6. QED
    BY <1>2, <1>4, <1>5
------------------------------------------------------------------------------
(* What the operators of followRef do to a task. *)

\* One task moves inside its calls: only its stack, its entry and the map
\* change, and they keep their shape.
Moves(x) ==
  /\ \E s \in Seq(Frames), r \in Entries \cup {None} :
       /\ s # <<>> /\ GoodStack(s)
       /\ s[Len(s)].stage = "returned" => r \in Entries
       /\ stack' = [ stack EXCEPT ![x] = s ]
       /\ ret'   = [ ret EXCEPT ![x] = r ]
  /\ map' \in [RefIds -> Entries \cup {None}]

LEMMA FrontProperties ==
  ASSUME NEW S, NEW s \in Seq(S), s # <<>>
  PROVE  /\ Front(s) \in Seq(S) /\ Len(Front(s)) = Len(s) - 1
         /\ \A i \in 1 .. Len(s) - 1 : Front(s)[i] = s[i]
  <1> DEFINE n == Len(s) - 1
  <1>1. Len(s) \in Nat /\ n \in Int /\ n >= 0 /\ n <= Len(s)
    OBVIOUS
  <1>2. \A k \in Int : k >= 0 /\ k <= Len(s) =>
          /\ SubSeq(s, 1, k) \in Seq(S) /\ Len(SubSeq(s, 1, k)) = k
          /\ \A i \in 1 .. k : SubSeq(s, 1, k)[i] = s[i]
    OBVIOUS
  <1>3. Front(s) = SubSeq(s, 1, n)
    BY DEF Front
  <1> HIDE DEF n
  <1>4. /\ SubSeq(s, 1, n) \in Seq(S) /\ Len(SubSeq(s, 1, n)) = n
        /\ \A i \in 1 .. n : SubSeq(s, 1, n)[i] = s[i]
    BY <1>1, <1>2
  <1>5. QED
    BY <1>3, <1>4 DEF n

LEMMA FrontType ==
  ASSUME NEW s \in Seq(Frames), s # <<>>, GoodStack(s)
  PROVE  /\ Front(s) \in Seq(Frames) /\ GoodStack(Front(s))
         /\ Last(s) \in Frames /\ ref[Last(s).ref.node] # None
         /\ Last(s) = s[Len(s)]
         /\ Last(s).stage = "inner" => Last(s).rest # <<>>
         /\ Len(Front(s)) = Len(s) - 1
         /\ \A i \in 1 .. Len(s) - 1 : Front(s)[i] = s[i]
  <1>1. Len(s) \in Nat /\ Len(s) >= 1
    OBVIOUS
  <1>2. /\ Front(s) \in Seq(Frames) /\ Len(Front(s)) = Len(s) - 1
        /\ \A i \in 1 .. Len(s) - 1 : Front(s)[i] = s[i]
    BY FrontProperties
  <1>3. Last(s) = s[Len(s)] /\ Last(s) \in Frames
    BY <1>1 DEF Last
  <1>4. GoodStack(Front(s))
    BY <1>1, <1>2 DEF GoodStack
  <1>5. QED
    BY <1>1, <1>2, <1>3, <1>4 DEF GoodStack

LEMMA AppendGood ==
  ASSUME NEW s \in Seq(Frames), GoodStack(s), NEW f \in Frames,
         ref[f.ref.node] # None, f.stage = "inner" => f.rest # <<>>
  PROVE  /\ Append(s, f) \in Seq(Frames) /\ Append(s, f) # <<>> /\ GoodStack(Append(s, f))
         /\ Append(s, f)[Len(Append(s, f))] = f
  BY DEF GoodStack

LEMMA CallType ==
  ASSUME NEW p \in Places
  PROVE  Call(p) \in Frames /\ Call(p).ref = p /\ Call(p).stage = "enter"
  BY DEF Call, Frames, Stages

LEMMA AtType ==
  ASSUME NEW f \in Frames, NEW st \in Stages, NEW path \in Seq(Segs)
  PROVE  /\ At(f, st, path) \in Frames /\ At(f, st, path).ref = f.ref
         /\ At(f, st, path).stage = st /\ At(f, st, path).rest = path
  BY DEF At, Frames

\* A stack below the call, the call and the map entry it may share.
Calling(under, frame, shared) ==
  /\ under \in Seq(Frames) /\ GoodStack(under)
  /\ frame \in Frames /\ ref[frame.ref.node] # None
  /\ shared \in RefIds \cup {None}
  /\ shared # None => map[shared] # None

LEMMA WaitMoves ==
  ASSUME TypeOK, NEW x \in Ids, NEW under \in Seq(Frames), GoodStack(under),
         NEW frame \in Frames, ref[frame.ref.node] # None,
         frame.stage \notin {"inner", "returned"},
         Wait(x, under, frame), UNCHANGED <<map, ret>>
  PROVE  Moves(x)
  <1>1. /\ Append(under, frame) \in Seq(Frames) /\ Append(under, frame) # <<>>
        /\ GoodStack(Append(under, frame))
        /\ Append(under, frame)[Len(Append(under, frame))] = frame
    BY AppendGood
  <1>2. ret' = [ ret EXCEPT ![x] = ret[x] ] /\ ret[x] \in Entries \cup {None}
    BY DEF TypeOK
  <1>3. map' \in [RefIds -> Entries \cup {None}]
    BY DEF TypeOK
  <1>4. stack' = [ stack EXCEPT ![x] = Append(under, frame) ]
    BY DEF Wait
  <1>5. frame.stage # "returned"
    OBVIOUS
  <1>6. QED
    BY <1>1, <1>2, <1>3, <1>4, <1>5 DEF Moves

LEMMA NestMoves ==
  ASSUME TypeOK, NEW x \in Ids, NEW under, NEW frame, NEW shared, NEW place \in Places,
         Calling(under, frame, shared), ref[place.node] # None,
         frame.stage = "inner" => frame.rest # <<>>,
         Nest(x, under, frame, place), ret' = ret, map' \in [RefIds -> Entries \cup {None}]
  PROVE  Moves(x)
  <1> DEFINE s1 == Append(under, frame)
             s2 == Append(s1, Call(place))
  <1>1. s1 \in Seq(Frames) /\ GoodStack(s1)
    BY AppendGood DEF Calling
  <1>2. /\ s2 \in Seq(Frames) /\ s2 # <<>> /\ GoodStack(s2)
        /\ s2[Len(s2)] = Call(place) /\ Call(place).stage = "enter"
    <2>1. Call(place) \in Frames /\ ref[Call(place).ref.node] # None /\ Call(place).stage = "enter"
      BY CallType
    <2>2. QED
      BY <1>1, <2>1, AppendGood
  <1>3. under \o <<frame, Call(place)>> = s2
    BY CallType DEF Calling
  <1>4. stack' = [ stack EXCEPT ![x] = s2 ]
    BY <1>3 DEF Nest
  <1>5. ret' = [ ret EXCEPT ![x] = ret[x] ] /\ ret[x] \in Entries \cup {None}
    BY DEF TypeOK
  <1>6. QED
    BY <1>2, <1>4, <1>5 DEF Moves

LEMMA ReturnMoves ==
  ASSUME TypeOK, NEW x \in Ids, NEW under, NEW frame, NEW shared, Calling(under, frame, shared),
         NEW m \in [RefIds -> Entries \cup {None}], NEW entry \in Entries,
         Return(x, under, frame, m, entry)
  PROVE  Moves(x)
  <1> DEFINE f == At(frame, "returned", <<>>)
             s == Append(under, f)
  <1>1. f \in Frames /\ ref[f.ref.node] # None /\ f.stage = "returned"
    <2>1. <<>> \in Seq(Segs) /\ "returned" \in Stages
      BY DEF Stages
    <2>2. f \in Frames /\ f.ref = frame.ref /\ f.stage = "returned"
      BY <2>1 DEF Calling, At, Frames
    <2>3. QED
      BY <2>2 DEF Calling
  <1>2. s \in Seq(Frames) /\ s # <<>> /\ GoodStack(s) /\ s[Len(s)] = f
    BY <1>1, AppendGood DEF Calling
  <1>3. stack' = [ stack EXCEPT ![x] = s ] /\ ret' = [ ret EXCEPT ![x] = entry ]
    BY DEF Return, Wait
  <1>4. map' \in [RefIds -> Entries \cup {None}]
    BY DEF Return
  <1>5. entry \in Entries \cup {None}
    OBVIOUS
  <1>6. QED
    BY <1>2, <1>3, <1>4, <1>5 DEF Moves

LEMMA WriteType ==
  ASSUME TypeOK, NEW shared \in RefIds \cup {None}, shared # None => map[shared] # None,
         NEW place \in Places \cup {None}
  PROVE  Write(shared, place) \in [RefIds -> Entries \cup {None}]
  <1>1. CASE shared = None
    BY <1>1 DEF Write, TypeOK
  <1>2. CASE shared # None
    <2>1. map \in [RefIds -> Entries \cup {None}] /\ map[shared] \in Entries
      BY <1>2 DEF TypeOK
    <2>2. [map[shared] EXCEPT !.at = place] \in Entries
      BY <2>1 DEF Entries
    <2>3. Write(shared, place) = [map EXCEPT ![shared] = [map[shared] EXCEPT !.at = place]]
      BY <1>2, <2>1 DEF Write
    <2>4. QED
      BY <2>1, <2>2, <2>3
  <1>3. QED
    BY <1>1, <1>2

LEMMA EntryType ==
  ASSUME NEW ok \in BOOLEAN, NEW place \in Places \cup {None}, NEW hops \in Seq(Places),
         NEW owner \in Ids \cup {None}
  PROVE  Entry(ok, place, hops, owner) \in Entries
  BY DEF Entry, Entries

\* An entry that no hop of a chain belongs to.
LEMMA LeafType ==
  ASSUME NEW ok \in BOOLEAN, NEW place \in Places \cup {None}, NEW owner \in Ids \cup {None}
  PROVE  Entry(ok, place, <<>>, owner) \in Entries
  <1>1. <<>> \in Seq(Places)
    OBVIOUS
  <1>2. QED
    BY <1>1, EntryType

LEMMA FinishMoves ==
  ASSUME TypeOK, NEW x \in Ids, NEW under, NEW frame, NEW shared, NEW place \in Places,
         Calling(under, frame, shared), Finish(x, under, frame, shared, place)
  PROVE  Moves(x)
  <1> DEFINE m == Write(shared, place)
             f == At(frame, "tail", <<>>)
  <1>1. m \in [RefIds -> Entries \cup {None}]
    BY WriteType DEF Calling
  <1>2. CASE RefAt(place) # None
    <2>1. Nest(x, under, f, place) /\ map' = m /\ ret' = ret
      BY <1>2 DEF Finish
    <2>2. f \in Frames /\ f.ref = frame.ref /\ f.stage = "tail"
      <3>1. <<>> \in Seq(Segs) /\ "tail" \in Stages
        BY DEF Stages
      <3>2. QED
        BY <3>1 DEF Calling, At, Frames
    <2>3. Calling(under, f, shared) /\ ref[place.node] # None
      BY <1>2, <2>2 DEF Calling, RefAt
    <2>4. QED
      BY <1>1, <2>1, <2>2, <2>3, NestMoves
  <1>3. CASE RefAt(place) = None
    <2>1. Return(x, under, frame, m, Entry(TRUE, place, <<>>, None))
      BY <1>3 DEF Finish
    <2>2. Entry(TRUE, place, <<>>, None) \in Entries
      BY LeafType
    <2>3. QED
      BY <1>1, <2>1, <2>2, ReturnMoves
  <1>4. QED
    BY <1>2, <1>3

LEMMA TraverseMoves ==
  ASSUME TypeOK, NEW x \in Ids, NEW under, NEW frame, NEW shared, NEW place \in Places,
         NEW path \in Seq(Segs),
         Calling(under, frame, shared), Traverse(x, under, frame, shared, place, path)
  PROVE  Moves(x)
  <1> DEFINE here(k) == Below(place, SubSeq(path, 1, k))
             rest(k) == SubSeq(path, k + 1, Len(path))
  <1>1. PICK k \in 0 .. Len(path) :
          /\ here(k).node \in Nodes
          /\ \/ k = Len(path) /\ Finish(x, under, frame, shared, here(k))
             \/ /\ k < Len(path) /\ RefAt(here(k)) # None
                /\ Nest(x, under, At(frame, "inner", rest(k)), here(k))
                /\ UNCHANGED <<map, ret>>
             \/ /\ k < Len(path) /\ RefAt(here(k)) = None
                /\ Return(x, under, frame, Write(shared, None), Entry(TRUE, None, <<>>, None))
    BY DEF Traverse
  <1>2. here(k) \in Places
    BY <1>1, BelowType
  <1> HIDE DEF here
  <1>3. CASE Finish(x, under, frame, shared, here(k))
    BY <1>2, <1>3, FinishMoves
  <1>4. CASE /\ k < Len(path) /\ RefAt(here(k)) # None
             /\ Nest(x, under, At(frame, "inner", rest(k)), here(k))
             /\ UNCHANGED <<map, ret>>
    <2>1. rest(k) \in Seq(Segs) /\ rest(k) # <<>>
      <3>1. k \in Nat /\ k < Len(path)
        BY <1>1, <1>4
      <3>2. Len(path) \in Nat /\ 1 <= k + 1 /\ k + 1 <= Len(path)
        BY <3>1
      <3>3. \A i, j \in Nat : 1 <= i /\ i <= j /\ j <= Len(path) =>
              SubSeq(path, i, j) \in Seq(Segs) /\ SubSeq(path, i, j) # <<>>
        <4> SUFFICES ASSUME NEW i \in Nat, NEW j \in Nat, 1 <= i, i <= j, j <= Len(path)
                     PROVE  SubSeq(path, i, j) \in Seq(Segs) /\ SubSeq(path, i, j) # <<>>
          OBVIOUS
        <4>1. Len(SubSeq(path, i, j)) = j - i + 1
          OBVIOUS
        <4>2. \A n \in 1 .. j - i + 1 : SubSeq(path, i, j)[n] = path[i + n - 1] /\ path[i + n - 1] \in Segs
          OBVIOUS
        <4>3. QED
          BY <4>1, <4>2
      <3> DEFINE i == k + 1
                 j == Len(path)
      <3>4. i \in Nat /\ j \in Nat /\ 1 <= i /\ i <= j /\ j <= Len(path)
        BY <3>1, <3>2
      <3>5. rest(k) = SubSeq(path, i, j)
        OBVIOUS
      <3> HIDE DEF i, j, rest
      <3>6. SubSeq(path, i, j) \in Seq(Segs) /\ SubSeq(path, i, j) # <<>>
        BY <3>3, <3>4
      <3>7. QED
        BY <3>5, <3>6
    <2> DEFINE f == At(frame, "inner", rest(k))
    <2> HIDE DEF rest
    <2>2. f \in Frames /\ f.ref = frame.ref /\ f.rest # <<>>
      BY <2>1 DEF Calling, At, Frames, Stages
    <2>3. Calling(under, f, shared) /\ ref[here(k).node] # None
      BY <1>4, <2>2 DEF Calling, RefAt
    <2>4. map' \in [RefIds -> Entries \cup {None}]
      BY <1>4 DEF TypeOK
    <2>5. Nest(x, under, f, here(k)) /\ ret' = ret
      BY <1>4
    <2> HIDE DEF f
    <2>6. QED
      BY <1>2, <2>2, <2>3, <2>4, <2>5, NestMoves
  <1>5. CASE Return(x, under, frame, Write(shared, None), Entry(TRUE, None, <<>>, None))
    <2>1. Write(shared, None) \in [RefIds -> Entries \cup {None}]
      BY WriteType DEF Calling
    <2>2. Entry(TRUE, None, <<>>, None) \in Entries
      BY LeafType
    <2>3. QED
      BY <1>5, <2>1, <2>2, ReturnMoves
  <1>6. QED
    BY <1>1, <1>3, <1>4, <1>5

------------------------------------------------------------------------------
(* A running task and the calls it is in. *)

LEMMA Running ==
  ASSUME IInv, NEW x \in Ids, status[x] = "running"
  PROVE  /\ stack[x] \in Seq(Frames) /\ stack[x] # <<>> /\ GoodStack(stack[x])
         /\ Calling(Under(x), Top(x), None)
         /\ Top(x).ref \in Places /\ RefAt(Top(x).ref) # None
         /\ Top(x).stage = "inner" => Top(x).rest # <<>>
         /\ Top(x).rest \in Seq(Segs)
         /\ Top(x).stage = "returned" => ret[x] \in Entries
  <1>1. stack[x] \in Seq(Frames) /\ stack[x] # <<>> /\ GoodStack(stack[x])
    BY DEF IInv, GoodTask, TypeOK
  <1>2. /\ Front(stack[x]) \in Seq(Frames) /\ GoodStack(Front(stack[x]))
        /\ Last(stack[x]) \in Frames /\ ref[Last(stack[x]).ref.node] # None
        /\ Last(stack[x]).stage = "inner" => Last(stack[x]).rest # <<>>
    BY <1>1, FrontType
  <1>3. Top(x).stage = "returned" => ret[x] \in Entries
    BY DEF IInv, GoodTask, InStage
  <1>4. QED
    BY <1>1, <1>2, <1>3 DEF Calling, Top, Under, RefAt, Frames

LEMMA Nested ==
  ASSUME IInv, NEW x \in Ids, status[x] = "running", Len(stack[x]) > 1,
         NEW shared \in RefIds \cup {None}, shared # None => map[shared] # None
  PROVE  /\ Calling(Front(Under(x)), Caller(x), shared)
         /\ Caller(x).stage = "inner" => Caller(x).rest # <<>>
         /\ Caller(x).rest \in Seq(Segs)
  <1>1. stack[x] \in Seq(Frames) /\ stack[x] # <<>> /\ GoodStack(stack[x])
    BY Running
  <1> DEFINE u == Under(x)
  <1>2. /\ u \in Seq(Frames) /\ GoodStack(u) /\ Len(u) = Len(stack[x]) - 1
        /\ \A i \in 1 .. Len(stack[x]) - 1 : u[i] = stack[x][i]
    BY <1>1, FrontType DEF Under
  <1>3. Len(u) \in Nat /\ Len(u) >= 1 /\ u # <<>>
    BY <1>1, <1>2
  <1>4. Last(u) = u[Len(u)]
    BY <1>2, <1>3, FrontType
  <1>5. Caller(x) = Last(u)
    BY <1>1, <1>2, <1>3, <1>4 DEF Caller
  <1> HIDE DEF u
  <1>6. /\ Front(u) \in Seq(Frames) /\ GoodStack(Front(u))
        /\ Last(u) \in Frames /\ ref[Last(u).ref.node] # None
        /\ Last(u).stage = "inner" => Last(u).rest # <<>>
    BY <1>2, <1>3, FrontType
  <1>7. QED
    BY <1>5, <1>6 DEF Calling, Frames, u

\* A step that lets one running task move and, at most, request a document.
Advances(x) ==
  /\ status[x] = "running" /\ Moves(x)
  /\ UNCHANGED <<ref, seen, scope, status, phase, snap>>
  /\ cache' \in [Docs -> {"absent", "loading", "loaded", "failed"}]
  /\ loads' \in [Docs -> Nat]

\* Such a step keeps the invariant.
LEMMA AdvanceKeeps ==
  ASSUME IInv, NEW x \in Ids, Advances(x)
  PROVE  IInv'
  <1> USE DEF Advances
  <1>1. PICK s \in Seq(Frames), r \in Entries \cup {None} :
          /\ s # <<>> /\ GoodStack(s)
          /\ s[Len(s)].stage = "returned" => r \in Entries
          /\ stack' = [ stack EXCEPT ![x] = s ]
          /\ ret'   = [ ret EXCEPT ![x] = r ]
    BY DEF Moves
  <1>2. stack \in [Ids -> Seq(Frames)] /\ ret \in [Ids -> Entries \cup {None}]
    BY DEF IInv, TypeOK
  <1>3. TypeOK'
    BY <1>1, <1>2 DEF IInv, TypeOK, Moves
  <1>4. ASSUME NEW y \in Ids PROVE GoodTask(y)'
    <2>1. CASE y = x
      <3>1. stack'[y] = s /\ ret'[y] = r
        BY <1>1, <1>2, <2>1
      <3>2. GoodStack(s)'
        BY <1>1 DEF GoodStack
      <3>3. Last(s) = s[Len(s)]
        BY DEF Last
      <3>4. (\A p \in scope[y] : AnchorOf[p.node] # None)'
        BY DEF IInv, GoodTask
      <3>5. QED
        BY <1>1, <3>1, <3>2, <3>3, <3>4 DEF GoodTask, InStage, Top
    <2>2. CASE y # x
      <3>1. stack'[y] = stack[y] /\ ret'[y] = ret[y] /\ status' = status /\ ref' = ref
        BY <1>1, <1>2, <2>2
      <3>2. GoodTask(y)
        BY DEF IInv
      <3>3. QED
        BY <3>1, <3>2 DEF GoodTask, InStage, Top, GoodStack
    <2>3. QED
      BY <2>1, <2>2
  <1>5. QED
    BY <1>3, <1>4 DEF IInv

------------------------------------------------------------------------------
(* Each action keeps the invariant. *)

LEMMA InitGood == Init => IInv
  <1> SUFFICES ASSUME Init PROVE IInv
    OBVIOUS
  <1> DEFINE w == Walk(RootType, <<Root(RootDoc)>>, {})
  <1>1. ref \in RefGraphs
    BY DEF Init
  <1>2. /\ w.fresh \subseteq Ids /\ w.starting \subseteq w.fresh
        /\ \A x \in w.starting : /\ RefAt(x[2]) # None
                                 /\ w.scope[x] \in SUBSET Places
                                 /\ \A p \in w.scope[x] : AnchorOf[p.node] # None
    BY WalkType
  <1>3. /\ seen   = w.fresh
        /\ status = [ x \in Ids |-> IF x \in w.starting THEN "running" ELSE "idle" ]
        /\ stack  = [ x \in Ids |-> IF x \in w.starting THEN <<Call(x[2])>> ELSE <<>> ]
        /\ scope  = [ x \in Ids |-> IF x \in w.starting THEN w.scope[x] ELSE {} ]
        /\ snap   = w.starting
    BY DEF Init
  <1> HIDE DEF w
  <1>4. \A x \in Ids : Call(x[2]) \in Frames /\ Call(x[2]).ref = x[2] /\ Call(x[2]).stage = "enter"
    BY CallType DEF Ids
  <1>5. TypeOK
    <2>1. /\ cache \in [Docs -> {"absent", "loading", "loaded", "failed"}]
          /\ loads \in [Docs -> Nat]
          /\ ret \in [Ids -> Entries \cup {None}]
          /\ map \in [RefIds -> Entries \cup {None}]
          /\ phase \in {"awaiting", "done", "failed"}
      BY DEF Init
    <2>2. stack \in [Ids -> Seq(Frames)]
      BY <1>3, <1>4
    <2>3. scope \in [Ids -> SUBSET Places]
      BY <1>2, <1>3
    <2>4. QED
      BY <1>1, <1>2, <1>3, <2>1, <2>2, <2>3 DEF TypeOK
  <1>6. ASSUME NEW x \in Ids PROVE GoodTask(x)
    <2>1. CASE x \in w.starting
      <3>1. stack[x] = <<Call(x[2])>> /\ scope[x] = w.scope[x]
        BY <1>3, <2>1
      <3>2. Last(stack[x]) = Call(x[2])
        BY <3>1 DEF Last
      <3>3. QED
        BY <1>2, <1>4, <2>1, <3>1, <3>2 DEF GoodTask, GoodStack, InStage, Top, RefAt
    <2>2. CASE x \notin w.starting
      <3>1. stack[x] = <<>> /\ scope[x] = {} /\ status[x] = "idle"
        BY <1>3, <2>2
      <3>2. QED
        BY <3>1 DEF GoodTask, GoodStack, InStage
    <2>3. QED
      BY <2>1, <2>2
  <1>7. QED
    BY <1>5, <1>6 DEF IInv

LEMMA EnterCircularGood == ASSUME IInv, NEW x \in Ids, EnterCircular(x) PROVE IInv'
  <1>1. /\ status' = [ status EXCEPT ![x] = "rejected" ]
        /\ stack'  = [ stack EXCEPT ![x] = <<>> ]
        /\ UNCHANGED <<ref, cache, loads, seen, scope, ret, map, phase, snap>>
    BY DEF EnterCircular
  <1>2. TypeOK /\ TypeOK'
    BY <1>1 DEF IInv, TypeOK
  <1>3. ASSUME NEW y \in Ids PROVE GoodTask(y)'
    <2>1. GoodTask(y)
      BY DEF IInv
    <2>2. CASE y = x
      BY <1>1, <1>2, <2>1, <2>2 DEF GoodTask, GoodStack, InStage, TypeOK
    <2>3. CASE y # x
      <3>1. stack'[y] = stack[y] /\ status'[y] = status[y]
        BY <1>1, <1>2, <2>3 DEF TypeOK
      <3>2. QED
        BY <1>1, <2>1, <3>1 DEF GoodTask, GoodStack, InStage, Top
    <2>4. QED
      BY <2>2, <2>3
  <1>4. QED
    BY <1>2, <1>3 DEF IInv

LEMMA EnterAnchorAdvances == ASSUME IInv, NEW x \in Ids, EnterAnchor(x) PROVE Advances(x)
  <1>1. /\ status[x] = "running" /\ Wait(x, Under(x), At(Top(x), "tick", <<>>))
        /\ UNCHANGED <<ref, cache, loads, seen, scope, status, ret, map, phase, snap>>
    BY DEF EnterAnchor, Entering, InStage
  <1>2. Calling(Under(x), Top(x), None)
    BY <1>1, Running
  <1>3. /\ At(Top(x), "tick", <<>>) \in Frames
        /\ At(Top(x), "tick", <<>>).ref = Top(x).ref /\ At(Top(x), "tick", <<>>).stage = "tick"
    <2>1. <<>> \in Seq(Segs) /\ "tick" \in Stages
      BY DEF Stages
    <2>2. QED
      BY <1>2, <2>1 DEF Calling, At, Frames
  <1>4. Moves(x)
    BY <1>1, <1>2, <1>3, WaitMoves DEF Calling, IInv
  <1>5. QED
    BY <1>1, <1>4 DEF Advances, IInv, TypeOK

LEMMA EnterLocalAdvances == ASSUME IInv, NEW x \in Ids, EnterLocal(x) PROVE Advances(x)
  <1>1. /\ status[x] = "running"
        /\ Traverse(x, Under(x), Top(x), None, Root(DocOf(Top(x).ref)), RefAt(Top(x).ref).path)
        /\ UNCHANGED <<ref, cache, loads, seen, scope, status, phase, snap>>
    BY DEF EnterLocal, Entering, InStage
  <1>2. Calling(Under(x), Top(x), None) /\ Top(x).ref \in Places /\ RefAt(Top(x).ref) # None
    BY <1>1, Running
  <1>3. RefAt(Top(x).ref).path \in Seq(Segs)
    BY <1>2, RefAtType DEF IInv, TypeOK
  <1>4. Root(DocOf(Top(x).ref)) \in Places
    BY <1>2, DocOfType, RootType_
  <1>5. Moves(x)
    BY <1>1, <1>2, <1>3, <1>4, TraverseMoves DEF IInv
  <1>6. QED
    BY <1>1, <1>5 DEF Advances, IInv, TypeOK

LEMMA EnterRemoteAdvances == ASSUME IInv, NEW x \in Ids, EnterRemote(x) PROVE Advances(x)
  <1>1. /\ status[x] = "running" /\ Wait(x, Under(x), At(Top(x), "load", <<>>))
        /\ UNCHANGED <<ref, seen, scope, status, ret, map, phase, snap>>
    BY DEF EnterRemote, Entering, InStage
  <1>2. Calling(Under(x), Top(x), None)
    BY <1>1, Running
  <1>3. /\ At(Top(x), "load", <<>>) \in Frames
        /\ At(Top(x), "load", <<>>).ref = Top(x).ref /\ At(Top(x), "load", <<>>).stage = "load"
    <2>1. <<>> \in Seq(Segs) /\ "load" \in Stages
      BY DEF Stages
    <2>2. QED
      BY <1>2, <2>1 DEF Calling, At, Frames
  <1>4. Moves(x)
    BY <1>1, <1>2, <1>3, WaitMoves DEF Calling, IInv
  <1>5. /\ cache' \in [Docs -> {"absent", "loading", "loaded", "failed"}]
        /\ loads' \in [Docs -> Nat]
    <2> DEFINE d == TargetDoc(Top(x).ref)
    <2>1. d \in Docs
      BY <1>1, Running, RefAtType DEF IInv, TypeOK
    <2>2. \/ /\ cache' = [ cache EXCEPT ![d] = "loading" ]
             /\ loads' = [ loads EXCEPT ![d] = @ + 1 ]
          \/ cache' = cache /\ loads' = loads
      BY DEF EnterRemote
    <2> HIDE DEF d
    <2>3. cache \in [Docs -> {"absent", "loading", "loaded", "failed"}] /\ loads \in [Docs -> Nat]
      BY DEF IInv, TypeOK
    <2>4. QED
      BY <2>1, <2>2, <2>3
  <1>6. QED
    BY <1>1, <1>4, <1>5 DEF Advances

LEMMA FailAdvances == ASSUME IInv, NEW x \in Ids, status[x] = "running", Fail(x) PROVE Advances(x)
  <1>1. /\ Return(x, Under(x), Top(x), map, Entry(FALSE, None, <<>>, x))
        /\ UNCHANGED <<ref, cache, loads, seen, scope, status, phase, snap>>
    BY DEF Fail
  <1>2. Calling(Under(x), Top(x), None)
    BY Running
  <1>3. Entry(FALSE, None, <<>>, x) \in Entries
    BY LeafType
  <1>4. Moves(x)
    BY <1>1, <1>2, <1>3, ReturnMoves DEF IInv, TypeOK
  <1>5. QED
    BY <1>1, <1>4 DEF Advances, IInv, TypeOK

LEMMA GotDocumentAdvances == ASSUME IInv, NEW x \in Ids, GotDocument(x) PROVE Advances(x)
  <1>1. /\ status[x] = "running"
        /\ Traverse(x, Under(x), Top(x), None, Root(TargetDoc(Top(x).ref)), RefAt(Top(x).ref).path)
        /\ UNCHANGED <<ref, cache, loads, seen, scope, status, phase, snap>>
    BY DEF GotDocument, InStage
  <1>2. Calling(Under(x), Top(x), None) /\ Top(x).ref \in Places /\ RefAt(Top(x).ref) # None
    BY <1>1, Running
  <1>3. RefAt(Top(x).ref).path \in Seq(Segs) /\ TargetDoc(Top(x).ref) \in Docs
    BY <1>2, RefAtType DEF IInv, TypeOK
  <1>4. Root(TargetDoc(Top(x).ref)) \in Places
    BY <1>3, RootType_
  <1>5. Moves(x)
    BY <1>1, <1>2, <1>3, <1>4, TraverseMoves DEF IInv
  <1>6. QED
    BY <1>1, <1>5 DEF Advances, IInv, TypeOK

LEMMA GotTickAdvances == ASSUME IInv, NEW x \in Ids, GotTick(x) PROVE Advances(x)
  <1> DEFINE a    == RefAt(Top(x).ref).anchor
             hits == { p \in scope[x] : AnchorOf[p.node] = a }
             at   == IF hits = {} THEN None
                     ELSE [via |-> <<DocOf(Top(x).ref), a>>, node |-> (CHOOSE p \in hits : TRUE).node]
  <1>1. /\ status[x] = "running" /\ Return(x, Under(x), Top(x), map, Entry(TRUE, at, <<>>, x))
        /\ UNCHANGED <<ref, cache, loads, seen, scope, status, phase, snap>>
    BY DEF GotTick, InStage
  <1>2. Calling(Under(x), Top(x), None) /\ Top(x).ref \in Places /\ RefAt(Top(x).ref) # None
    BY <1>1, Running
  <1>3. at \in Places \cup {None}
    <2>1. a \in Anchors \cup {None} /\ DocOf(Top(x).ref) \in Docs
      BY <1>2, RefAtType, DocOfType DEF IInv, TypeOK
    <2>2. \A p \in scope[x] : p \in Places /\ AnchorOf[p.node] # None
      BY DEF IInv, TypeOK, GoodTask
    <2> HIDE DEF a
    <2>3. CASE hits = {}
      BY <2>3
    <2>4. CASE hits # {}
      <3>1. PICK q : q = (CHOOSE p \in hits : TRUE)
        OBVIOUS
      <3>2. q \in hits
        BY <2>4, <3>1
      <3>3. q.node \in Nodes /\ a # None
        BY <2>2, <3>2 DEF Places
      <3>4. at = [via |-> <<DocOf(Top(x).ref), a>>, node |-> q.node]
        BY <2>4, <3>1
      <3>5. QED
        BY <2>1, <3>3, <3>4 DEF Places, Vias
    <2>5. QED
      BY <2>3, <2>4
  <1> HIDE DEF at
  <1>4. Entry(TRUE, at, <<>>, x) \in Entries
    BY <1>3, LeafType
  <1>5. Moves(x)
    BY <1>1, <1>2, <1>4, ReturnMoves DEF IInv, TypeOK
  <1>6. QED
    BY <1>1, <1>5 DEF Advances, IInv, TypeOK

\* The entry a nested call left, and the map entry it may be one object with.
LEMMA BackType ==
  ASSUME IInv, NEW x \in Ids, NEW s, Back(x, s)
  PROVE  /\ status[x] = "running" /\ Len(stack[x]) > 1 /\ Caller(x).stage = s
         /\ ret[x] \in Entries /\ Top(x).ref \in Places /\ RefId(Top(x).ref) \in RefIds
  <1>1. status[x] = "running" /\ Top(x).stage = "returned" /\ Len(stack[x]) > 1 /\ Caller(x).stage = s
    BY DEF Back, InStage
  <1>2. ret[x] \in Entries /\ Top(x).ref \in Places /\ RefAt(Top(x).ref) # None
    BY <1>1, Running
  <1>3. QED
    BY <1>1, <1>2, RefAtType DEF IInv, TypeOK

LEMMA HeadTail ==
  ASSUME NEW S, NEW s \in Seq(S), s # <<>>
  PROVE  Head(s) \in S /\ Tail(s) \in Seq(S)
  OBVIOUS

LEMMA ResumeInnerAdvances == ASSUME IInv, NEW x \in Ids, ResumeInner(x) PROVE Advances(x)
  <1> DEFINE id     == RefId(Top(x).ref)
             shared == IF ret[x].by = x /\ map[id] # None /\ map[id].by = x THEN id ELSE None
             under  == Front(Under(x))
             path   == Caller(x).rest
             next   == Below(ret[x].at, <<Head(path)>>)
  <1>1. /\ Back(x, "inner")
        /\ IF ret[x].at # None /\ next.node \in Nodes
           THEN Traverse(x, under, Caller(x), shared, next, Tail(path))
           ELSE Return(x, under, Caller(x), Write(shared, None),
                       Entry(ret[x].resolved, None, <<>>, None))
        /\ UNCHANGED <<ref, cache, loads, seen, scope, status, phase, snap>>
    BY DEF ResumeInner
  <1>2. /\ status[x] = "running" /\ Len(stack[x]) > 1 /\ Caller(x).stage = "inner"
        /\ ret[x] \in Entries /\ id \in RefIds
    BY <1>1, BackType
  <1>3. shared \in RefIds \cup {None} /\ (shared # None => map[shared] # None)
    BY <1>2
  <1> HIDE DEF shared
  <1>4. Calling(under, Caller(x), shared) /\ path # <<>> /\ path \in Seq(Segs)
    BY <1>2, <1>3, Nested
  <1>5. CASE ret[x].at # None /\ next.node \in Nodes
    <2>1. ret[x].at \in Places
      BY <1>2, <1>5 DEF Entries
    <2>2. next \in Places
      BY <1>5, <2>1, BelowType
    <2>3. Tail(path) \in Seq(Segs)
      BY <1>4, HeadTail
    <2>4. Traverse(x, under, Caller(x), shared, next, Tail(path))
      BY <1>1, <1>5
    <2> HIDE DEF next, under, path
    <2>5. Moves(x)
      BY <1>4, <2>2, <2>3, <2>4, TraverseMoves DEF IInv
    <2>6. QED
      BY <1>1, <1>2, <2>5 DEF Advances, IInv, TypeOK
  <1>6. CASE ~(ret[x].at # None /\ next.node \in Nodes)
    <2>1. Return(x, under, Caller(x), Write(shared, None), Entry(ret[x].resolved, None, <<>>, None))
      BY <1>1, <1>6
    <2>2. Write(shared, None) \in [RefIds -> Entries \cup {None}]
      BY <1>3, WriteType DEF IInv
    <2>3. ret[x].resolved \in BOOLEAN
      BY <1>2 DEF Entries
    <2>4. Entry(ret[x].resolved, None, <<>>, None) \in Entries
      BY <2>3, LeafType
    <2>5. Moves(x)
      BY <1>4, <2>1, <2>2, <2>4, ReturnMoves DEF IInv
    <2>6. QED
      BY <1>1, <1>2, <2>5 DEF Advances, IInv, TypeOK
  <1>7. QED
    BY <1>5, <1>6

LEMMA ResumeTailAdvances == ASSUME IInv, NEW x \in Ids, ResumeTail(x) PROVE Advances(x)
  <1> DEFINE hop   == Top(x).ref
             chain == IF hop.node \in Siblings /\ ret[x].resolved
                      THEN <<hop>> \o ret[x].chain ELSE ret[x].chain
             entry == Entry(ret[x].resolved, ret[x].at, chain, None)
  <1>1. /\ Back(x, "tail")
        /\ Return(x, Front(Under(x)), Caller(x), map, entry)
        /\ UNCHANGED <<ref, cache, loads, seen, scope, status, phase, snap>>
    BY DEF ResumeTail
  <1>2. /\ status[x] = "running" /\ Len(stack[x]) > 1
        /\ ret[x] \in Entries /\ hop \in Places
    BY <1>1, BackType
  <1>3. Calling(Front(Under(x)), Caller(x), None)
    BY <1>2, Nested
  <1>4. /\ ret[x].resolved \in BOOLEAN /\ ret[x].at \in Places \cup {None}
        /\ ret[x].chain \in Seq(Places)
    BY <1>2 DEF Entries
  <1>5. chain \in Seq(Places)
    BY <1>2, <1>4
  <1>6. entry \in Entries
    BY <1>4, <1>5, EntryType
  <1>7. Moves(x)
    BY <1>1, <1>3, <1>6, ReturnMoves DEF IInv, TypeOK
  <1>8. QED
    BY <1>1, <1>2, <1>7 DEF Advances, IInv, TypeOK

LEMMA SettleGood == ASSUME IInv, NEW x \in Ids, Settle(x) PROVE IInv'
  <1> DEFINE w == Walk(x[1], Found(x), seen)
  <1>1. /\ seen'   = seen \cup w.fresh
        /\ scope'  = [ y \in Ids |-> IF y \in w.starting THEN w.scope[y] ELSE scope[y] ]
        /\ status' = [ y \in Ids |-> IF y \in w.starting THEN "running"
                                     ELSE IF y = x THEN "settled" ELSE status[y] ]
        /\ stack'  = [ y \in Ids |-> IF y \in w.starting THEN <<Call(y[2])>>
                                     ELSE IF y = x THEN <<>> ELSE stack[y] ]
        /\ UNCHANGED <<ref, cache, loads, ret, map, phase, snap>>
    BY DEF Settle
  <1>2. /\ w.fresh \subseteq Ids /\ w.starting \subseteq w.fresh
        /\ \A y \in w.starting : /\ RefAt(y[2]) # None
                                 /\ w.scope[y] \in SUBSET Places
                                 /\ \A p \in w.scope[y] : AnchorOf[p.node] # None
    BY WalkType
  <1> HIDE DEF w
  <1>3. \A y \in Ids : Call(y[2]) \in Frames /\ Call(y[2]).ref = y[2] /\ Call(y[2]).stage = "enter"
    BY CallType DEF Ids
  <1>4. TypeOK
    BY DEF IInv
  <1>5. TypeOK'
    <2>1. stack' \in [Ids -> Seq(Frames)]
      BY <1>1, <1>3, <1>4 DEF TypeOK
    <2>2. scope' \in [Ids -> SUBSET Places]
      BY <1>1, <1>2, <1>4 DEF TypeOK
    <2>3. status' \in [Ids -> {"idle", "running", "settled", "rejected"}] /\ seen' \subseteq Ids
      BY <1>1, <1>2, <1>4 DEF TypeOK
    <2>4. QED
      BY <1>1, <1>4, <2>1, <2>2, <2>3 DEF TypeOK
  <1>6. ASSUME NEW y \in Ids PROVE GoodTask(y)'
    <2>1. CASE y \in w.starting
      <3>1. stack'[y] = <<Call(y[2])>> /\ scope'[y] = w.scope[y]
        BY <1>1, <2>1
      <3>2. Last(stack'[y]) = Call(y[2])
        BY <3>1 DEF Last
      <3>3. QED
        BY <1>1, <1>2, <1>3, <2>1, <3>1, <3>2 DEF GoodTask, GoodStack, InStage, Top, RefAt
    <2>2. CASE y \notin w.starting
      <3>1. GoodTask(y)
        BY DEF IInv
      <3>2. scope'[y] = scope[y] /\ ret'[y] = ret[y] /\ ref' = ref
        BY <1>1, <2>2
      <3>3. CASE y = x
        BY <1>1, <2>2, <3>1, <3>2, <3>3 DEF GoodTask, GoodStack, InStage
      <3>4. CASE y # x
        <4>1. stack'[y] = stack[y] /\ status'[y] = status[y]
          BY <1>1, <2>2, <3>4
        <4>2. QED
          BY <3>1, <3>2, <4>1 DEF GoodTask, GoodStack, InStage, Top
      <3>5. QED
        BY <3>3, <3>4
    <2>3. QED
      BY <2>1, <2>2
  <1>7. QED
    BY <1>5, <1>6 DEF IInv

\* The other steps move no task.
LEMMA OtherGood ==
  ASSUME IInv, \/ \E d \in Docs : Load(d)
               \/ AwaitAll
               \/ AwaitRejected
               \/ UNCHANGED vars
  PROVE  IInv'
  <1>1. UNCHANGED <<ref, loads, seen, scope, status, stack, ret, map>>
    BY DEF Load, AwaitAll, AwaitRejected, vars
  <1>2. /\ cache' \in [Docs -> {"absent", "loading", "loaded", "failed"}]
        /\ phase' \in {"awaiting", "done", "failed"} /\ snap' \subseteq Ids
    <2>1. ASSUME NEW d \in Docs, Load(d) PROVE cache' \in [Docs -> {"absent", "loading", "loaded", "failed"}]
      BY <2>1 DEF Load, IInv, TypeOK
    <2>2. QED
      BY <2>1 DEF Load, AwaitAll, AwaitRejected, Started, vars, IInv, TypeOK
  <1>3. TypeOK'
    BY <1>1, <1>2 DEF IInv, TypeOK
  <1>4. ASSUME NEW y \in Ids PROVE GoodTask(y)'
    <2>1. GoodTask(y)
      BY DEF IInv
    <2>2. QED
      BY <1>1, <2>1 DEF GoodTask, GoodStack, InStage, Top
  <1>5. QED
    BY <1>3, <1>4 DEF IInv

\* What a step of a task can be.
LEMMA TaskSteps ==
  ASSUME IInv, NEW x \in Ids, Enter(x) \/ Continue(x)
  PROVE  Advances(x) \/ EnterCircular(x) \/ Settle(x)
  <1>1. CASE EnterAnchor(x)
    BY <1>1, EnterAnchorAdvances
  <1>2. CASE EnterLocal(x)
    BY <1>2, EnterLocalAdvances
  <1>3. CASE EnterRemote(x)
    BY <1>3, EnterRemoteAdvances
  <1>4. CASE EnterForbidden(x)
    BY <1>4, FailAdvances DEF EnterForbidden, Entering, InStage
  <1>5. CASE GotDocument(x)
    BY <1>5, GotDocumentAdvances
  <1>6. CASE GotError(x)
    BY <1>6, FailAdvances DEF GotError, InStage
  <1>7. CASE GotTick(x)
    BY <1>7, GotTickAdvances
  <1>8. CASE ResumeInner(x)
    BY <1>8, ResumeInnerAdvances
  <1>9. CASE ResumeTail(x)
    BY <1>9, ResumeTailAdvances
  <1>10. QED
    BY <1>1, <1>2, <1>3, <1>4, <1>5, <1>6, <1>7, <1>8, <1>9 DEF Enter, Continue

LEMMA NextGood == IInv /\ [Next]_vars => IInv'
  <1> SUFFICES ASSUME IInv, [Next]_vars PROVE IInv'
    OBVIOUS
  <1>1. ASSUME NEW x \in Ids, Enter(x) \/ Continue(x) PROVE IInv'
    <2>1. CASE Advances(x)
      BY <2>1, AdvanceKeeps
    <2>2. CASE EnterCircular(x)
      BY <2>2, EnterCircularGood
    <2>3. CASE Settle(x)
      BY <2>3, SettleGood
    <2>4. QED
      BY <1>1, <2>1, <2>2, <2>3, TaskSteps
  <1>2. CASE Loads \/ Loop \/ Over \/ UNCHANGED vars
    BY <1>2, OtherGood DEF Loads, Loop, Over
  <1>3. QED
    BY <1>1, <1>2 DEF Next, Tasks

------------------------------------------------------------------------------
\* Every variable keeps its type, whatever the documents refer to and in
\* whatever order they arrive.
THEOREM TypeCorrect == Spec => []TypeOK
  <1>1. Init => IInv
    BY InitGood
  <1>2. IInv /\ [Next]_vars => IInv'
    BY NextGood
  <1>3. IInv => TypeOK
    BY DEF IInv
  <1>4. QED
    BY <1>1, <1>2, <1>3, PTL DEF Spec

LEMMA Invariance == Spec => []IInv
  BY InitGood, NextGood, PTL DEF Spec

\* No document is read twice, however many references race for it.
THEOREM ReadAtMostOnce == Spec => []LoadedOnce
  <1>1. Init => LoadedOnce
    BY DEF Init, LoadedOnce
  <1>2. IInv /\ LoadedOnce /\ [Next]_vars => LoadedOnce'
    <2> SUFFICES ASSUME IInv, LoadedOnce, [Next]_vars PROVE LoadedOnce'
      OBVIOUS
    <2>1. cache \in [Docs -> {"absent", "loading", "loaded", "failed"}] /\ loads \in [Docs -> Nat]
      BY DEF IInv, TypeOK
    <2>2. CASE UNCHANGED <<cache, loads>>
      BY <2>2 DEF LoadedOnce
    <2>3. ASSUME NEW d \in Docs, Load(d) PROVE LoadedOnce'
      <3>1. PICK outcome \in {"loaded", "failed"} : cache' = [ cache EXCEPT ![d] = outcome ]
        BY <2>3 DEF Load
      <3>2. cache[d] = "loading" /\ loads' = loads
        BY <2>3 DEF Load
      <3>3. QED
        BY <2>1, <3>1, <3>2 DEF LoadedOnce
    <2>4. ASSUME NEW x \in Ids, EnterRemote(x) PROVE LoadedOnce'
      <3>1. PICK d : \/ /\ cache[d] = "absent"
                        /\ cache' = [ cache EXCEPT ![d] = "loading" ]
                        /\ loads' = [ loads EXCEPT ![d] = @ + 1 ]
                     \/ UNCHANGED <<cache, loads>>
        BY <2>4 DEF EnterRemote
      <3>2. CASE UNCHANGED <<cache, loads>>
        BY <2>2, <3>2
      <3>3. CASE /\ cache[d] = "absent"
                 /\ cache' = [ cache EXCEPT ![d] = "loading" ]
                 /\ loads' = [ loads EXCEPT ![d] = @ + 1 ]
        BY <2>1, <3>3 DEF LoadedOnce
      <3>4. QED
        BY <3>1, <3>2, <3>3
    <2>5. ASSUME NEW x \in Ids, Enter(x) \/ Continue(x), ~EnterRemote(x)
          PROVE  UNCHANGED <<cache, loads>>
      BY <2>5 DEF Enter, Continue, EnterCircular, EnterAnchor, EnterLocal, EnterForbidden, Fail,
                  GotDocument, GotError, GotTick, ResumeInner, ResumeTail, Settle
    <2>6. Loop \/ Over \/ UNCHANGED vars => UNCHANGED <<cache, loads>>
      BY DEF Loop, Over, AwaitAll, AwaitRejected, vars
    <2>7. QED
      BY <2>2, <2>3, <2>4, <2>5, <2>6 DEF Next, Tasks, Loads
  <1>3. QED
    BY <1>1, <1>2, Invariance, PTL DEF Spec

------------------------------------------------------------------------------
(* The completion loop and the walks. *)

\* A pointer that starts with another is that one and what Rel says is left.
LEMMA RelSplits ==
  ASSUME NEW p, NEW q, p.node[2] \in Seq(Segs), q.node[2] \in Seq(Segs),
         IsPrefix(p.node[2], q.node[2])
  PROVE  /\ Rel(p, q) \in Seq(Segs) /\ p.node[2] \o Rel(p, q) = q.node[2]
         /\ SubSeq(Rel(p, q), 1, Len(Rel(p, q))) = Rel(p, q)
  <1> DEFINE S == Segs
             a == p.node[2]
             b == q.node[2]
             r == Rel(p, q)
  <1>0. a \in Seq(S) /\ b \in Seq(S) /\ IsPrefix(a, b) /\ r = SubSeq(b, Len(a) + 1, Len(b))
    BY DEF Rel
  <1> HIDE DEF S, a, b, r
  <1>1. /\ Len(a) \in Nat /\ Len(b) \in Nat /\ Len(a) <= Len(b)
        /\ \A i \in 1 .. Len(a) : a[i] = b[i]
    <2>1. Len(a) <= Len(b) /\ SubSeq(a, 1, Len(a)) = SubSeq(b, 1, Len(a))
      BY <1>0 DEF IsPrefix
    <2>2. \A i \in 1 .. Len(a) : SubSeq(a, 1, Len(a))[i] = a[i] /\ SubSeq(b, 1, Len(a))[i] = b[i]
      BY <1>0, <2>1
    <2>3. QED
      BY <2>1, <2>2
  <1>2. /\ r \in Seq(S) /\ Len(r) = Len(b) - Len(a)
        /\ \A i \in 1 .. Len(r) : r[i] = b[Len(a) + i]
    BY <1>0, <1>1
  <1>3. a \o r = b
    <2>1. a \o r \in Seq(S) /\ Len(a \o r) = Len(b)
      BY <1>0, <1>1, <1>2
    <2>2. ASSUME NEW i \in 1 .. Len(b) PROVE (a \o r)[i] = b[i]
      <3>1. CASE i <= Len(a)
        BY <1>0, <1>1, <1>2, <3>1
      <3>2. CASE i > Len(a)
        <4>1. (a \o r)[i] = r[i - Len(a)] /\ i - Len(a) \in 1 .. Len(r)
          BY <1>0, <1>1, <1>2, <3>2
        <4>2. r[i - Len(a)] = b[Len(a) + (i - Len(a))] /\ Len(a) + (i - Len(a)) = i
          BY <1>0, <1>1, <1>2, <4>1
        <4>3. QED
          BY <4>1, <4>2
      <3>3. i \in Int /\ Len(a) \in Int
        BY <1>1
      <3>4. i <= Len(a) \/ i > Len(a)
        BY <3>3
      <3>5. QED
        BY <3>1, <3>2, <3>4
    <2>3. QED
      BY <1>0, <2>1, <2>2, SeqEqual
  <1>4. SubSeq(r, 1, Len(r)) = r
    <2>1. Len(SubSeq(r, 1, Len(r))) = Len(r) /\ SubSeq(r, 1, Len(r)) \in Seq(S)
      BY <1>2
    <2>2. \A i \in 1 .. Len(r) : SubSeq(r, 1, Len(r))[i] = r[i]
      BY <1>2
    <2>3. QED
      BY <1>2, <2>1, <2>2, SeqEqual
  <1>5. QED
    BY <1>2, <1>3, <1>4 DEF S, a, b, r

\* A walked place has nothing left to walk.
LEMMA CoveredOnce ==
  ASSUME NEW t, NEW p \in Places, NEW met, NEW more,
         Covered(t, p, met) \subseteq more
  PROVE  Covered(t, p, met \cup more) = {}
  <1> SUFFICES ASSUME NEW x \in Covered(t, p, met \cup more) PROVE FALSE
    OBVIOUS
  <1> DEFINE rel == Rel(p, x[2])
  <1>1. /\ x \in Ids /\ x[2].via = p.via /\ x[2].node[1] = p.node[1]
        /\ IsPrefix(p.node[2], x[2].node[2]) /\ x[1] = TypeAt[t][rel]
        /\ \A k \in 0 .. Len(rel) : <<TypeAt[t][SubSeq(rel, 1, k)], Below(p, SubSeq(rel, 1, k))>>
                                       \notin met \cup more
    BY DEF Covered
  <1>2. x \in Covered(t, p, met)
    BY <1>1 DEF Covered
  <1>3. /\ p.node[2] \in Seq(Segs) /\ x[2].node[2] \in Seq(Segs)
        /\ p.node = <<p.node[1], p.node[2]>> /\ x[2].node = <<x[2].node[1], x[2].node[2]>>
    BY <1>1, Documents DEF Ids, Places
  <1>4. /\ rel \in Seq(Segs) /\ SubSeq(rel, 1, Len(rel)) = rel /\ Len(rel) \in 0 .. Len(rel)
        /\ p.node[2] \o rel = x[2].node[2]
    <2>1. /\ rel \in Seq(Segs) /\ p.node[2] \o rel = x[2].node[2]
          /\ SubSeq(rel, 1, Len(rel)) = rel
      BY <1>1, <1>3, RelSplits
    <2> HIDE DEF rel
    <2>2. Len(rel) \in Nat
      BY <2>1
    <2>3. QED
      BY <2>1, <2>2
  <1>5. Below(p, rel) = x[2]
    BY <1>1, <1>3, <1>4 DEF Below, Ids, Places
  <1>6. x = <<x[1], x[2]>>
    BY <1>1 DEF Ids
  <1>7. QED
    BY <1>1, <1>2, <1>4, <1>5, <1>6

\* What was walked stays walked.
LEMMA CoveredMonotone ==
  ASSUME NEW t, NEW p, NEW met, NEW more, Covered(t, p, met) = {}
  PROVE  Covered(t, p, met \cup more) = {}
  <1>1. Covered(t, p, met \cup more) \subseteq Covered(t, p, met)
    BY DEF Covered
  <1>2. QED
    BY <1>1

\* A walk covers every place it is given.
LEMMA WalkCovers ==
  ASSUME NEW t, NEW places \in Seq(Places), NEW met, NEW i \in DOMAIN places
  PROVE  Covered(t, places[i], met \cup Walk(t, places, met).fresh) = {}
  <1>1. Walk(t, places, met).fresh = UNION { Covered(t, places[k], met) : k \in DOMAIN places }
    BY DEF Walk
  <1>2. Covered(t, places[i], met) \subseteq Walk(t, places, met).fresh
    BY <1>1
  <1>3. places[i] \in Places
    OBVIOUS
  <1>4. QED
    BY <1>2, <1>3, CoveredOnce

\* Every $ref that was met is being followed or was; a settled task's finds are
\* walked; the loop ends when all that started is settled.
Walked(x) == \A i \in DOMAIN Found(x) : Covered(x[1], Found(x)[i], seen) = {}
WInv ==
  /\ \A x \in seen : RefAt(x[2]) # None => status[x] # "idle"
  /\ \A x \in Ids : status[x] = "settled" => ret[x] \in Entries /\ Walked(x)
  /\ phase = "done" => snap = Started /\ \A x \in snap : status[x] = "settled"

LEMMA InitWalked == Init => WInv
  <1> SUFFICES ASSUME Init PROVE WInv
    OBVIOUS
  <1> DEFINE w == Walk(RootType, <<Root(RootDoc)>>, {})
  <1>1. w.fresh \subseteq Ids
    BY WalkType
  <1>2. w.starting = { x \in w.fresh : RefAt(x[2]) # None }
    BY DEF Walk
  <1>3. /\ seen   = w.fresh
        /\ status = [ x \in Ids |-> IF x \in w.starting THEN "running" ELSE "idle" ]
        /\ phase = "awaiting"
    BY DEF Init
  <1> HIDE DEF w
  <1>4. QED
    BY <1>1, <1>2, <1>3 DEF WInv

\* While some task runs, the loop is not done.
LEMMA NotDone ==
  ASSUME WInv, NEW x \in Ids, status[x] = "running"
  PROVE  phase # "done"
  BY DEF WInv, Started

\* A step that starts and settles no task and walks nothing keeps it.
LEMMA QuietKeepsWalked ==
  ASSUME WInv, TypeOK, ref' = ref, seen' = seen, phase' = phase,
         \A x \in Ids : /\ status[x] # "idle" => status'[x] # "idle"
                        /\ status'[x] = "settled" => status[x] = "settled" /\ ret'[x] = ret[x],
         phase # "done" \/ (snap' = snap /\ status' = status)
  PROVE  WInv'
  <1>1. (\A x \in seen : RefAt(x[2]) # None => status[x] # "idle")'
    BY DEF WInv, TypeOK, RefAt
  <1>2. ASSUME NEW x \in Ids, status'[x] = "settled" PROVE ret'[x] \in Entries /\ Walked(x)'
    <2>1. ret'[x] = ret[x] /\ ret[x] \in Entries /\ Walked(x)
      BY <1>2 DEF WInv
    <2>2. Found(x)' = Found(x)
      BY <2>1 DEF Found
    <2>3. QED
      BY <2>1, <2>2 DEF Walked, Covered
  <1>3. (phase = "done" => snap = Started /\ \A x \in snap : status[x] = "settled")'
    BY DEF WInv, Started
  <1>4. QED
    BY <1>1, <1>2, <1>3 DEF WInv

LEMMA SettleWalked == ASSUME IInv, WInv, NEW x \in Ids, Settle(x) PROVE WInv'
  <1> DEFINE w == Walk(x[1], Found(x), seen)
  <1>1. /\ seen'   = seen \cup w.fresh
        /\ status' = [ y \in Ids |-> IF y \in w.starting THEN "running"
                                     ELSE IF y = x THEN "settled" ELSE status[y] ]
        /\ UNCHANGED <<ref, ret, phase, snap>>
    BY DEF Settle
  <1>2. status[x] = "running" /\ ret[x] \in Entries
    BY DEF Settle, InStage, IInv, GoodTask
  <1>3. phase' # "done"
    BY <1>1, <1>2, NotDone
  <1>4. w.fresh \subseteq Ids
    BY WalkType
  <1>5. w.starting = { y \in w.fresh : RefAt(y[2]) # None }
    BY DEF Walk
  <1>6. Found(x) \in Seq(Places)
    BY <1>2 DEF Found, Entries
  <1>7. \A i \in DOMAIN Found(x) : Covered(x[1], Found(x)[i], seen \cup w.fresh) = {}
    BY <1>6, WalkCovers
  <1> HIDE DEF w
  <1>8. (\A y \in seen : RefAt(y[2]) # None => status[y] # "idle")'
    BY <1>1, <1>4, <1>5 DEF WInv, IInv, TypeOK, RefAt
  <1>9. ASSUME NEW y \in Ids, status'[y] = "settled" PROVE ret'[y] \in Entries /\ Walked(y)'
    <2>1. Found(y)' = Found(y)
      BY <1>1 DEF Found
    <2>2. CASE y = x
      <3>1. \A i \in DOMAIN Found(y) : Covered(y[1], Found(y)[i], seen \cup w.fresh) = {}
        BY <1>7, <2>2
      <3>2. QED
        BY <1>1, <1>2, <2>1, <2>2, <3>1 DEF Walked, Covered
    <2>3. CASE y # x
      <3>1. ret[y] \in Entries /\ Walked(y)
        BY <1>1, <1>9, <2>3 DEF WInv
      <3>2. \A i \in DOMAIN Found(y) : Covered(y[1], Found(y)[i], seen \cup w.fresh) = {}
        BY <3>1, CoveredMonotone DEF Walked
      <3>3. QED
        BY <1>1, <2>1, <3>1, <3>2 DEF Walked, Covered
    <2>4. QED
      BY <2>2, <2>3
  <1>10. QED
    BY <1>3, <1>8, <1>9 DEF WInv

LEMMA NextWalked == IInv /\ WInv /\ [Next]_vars => WInv'
  <1> SUFFICES ASSUME IInv, WInv, [Next]_vars PROVE WInv'
    OBVIOUS
  <1>0. TypeOK
    BY DEF IInv
  <1>1. ASSUME NEW x \in Ids, Enter(x) \/ Continue(x) PROVE WInv'
    <2>1. CASE Advances(x)
      <3>1. phase # "done" /\ status[x] = "running"
        BY <2>1, NotDone DEF Advances
      <3>2. PICK r : ret' = [ ret EXCEPT ![x] = r ]
        BY <2>1 DEF Advances, Moves
      <3>3. \A y \in Ids : status[y] = "settled" => ret'[y] = ret[y]
        BY <1>0, <3>1, <3>2 DEF TypeOK
      <3>4. QED
        BY <1>0, <2>1, <3>1, <3>3, QuietKeepsWalked DEF Advances
    <2>2. CASE EnterCircular(x)
      <3>1. phase # "done"
        BY <2>2, NotDone DEF EnterCircular, InStage
      <3>2. /\ status' = [ status EXCEPT ![x] = "rejected" ]
            /\ ref' = ref /\ seen' = seen /\ phase' = phase /\ ret' = ret
        BY <2>2 DEF EnterCircular
      <3>3. \A y \in Ids : /\ status[y] # "idle" => status'[y] # "idle"
                           /\ status'[y] = "settled" => status[y] = "settled"
        BY <1>0, <3>2 DEF TypeOK
      <3>4. QED
        BY <1>0, <3>1, <3>2, <3>3, QuietKeepsWalked
    <2>3. CASE Settle(x)
      BY <2>3, SettleWalked
    <2>4. QED
      BY <1>1, <2>1, <2>2, <2>3, TaskSteps
  <1>2. ASSUME NEW d \in Docs, Load(d) PROVE WInv'
    BY <1>0, <1>2, QuietKeepsWalked DEF Load
  <1>3. CASE AwaitAll
    <2>1. UNCHANGED <<ref, seen, status, ret>>
      BY <1>3 DEF AwaitAll
    <2>2. \A x \in Ids : Walked(x)' = Walked(x)
      BY <2>1 DEF Walked, Found, Covered
    <2>3. (phase = "done" => snap = Started /\ \A x \in snap : status[x] = "settled")'
      BY <1>3 DEF AwaitAll, Started
    <2>4. QED
      BY <2>1, <2>2, <2>3 DEF WInv, RefAt
  <1>4. CASE AwaitRejected
    <2>1. UNCHANGED <<ref, seen, status, ret>> /\ phase' = "failed"
      BY <1>4 DEF AwaitRejected
    <2>2. \A x \in Ids : Walked(x)' = Walked(x)
      BY <2>1 DEF Walked, Found, Covered
    <2>3. QED
      BY <2>1, <2>2 DEF WInv, RefAt
  <1>5. CASE Over \/ UNCHANGED vars
    BY <1>0, <1>5, QuietKeepsWalked DEF Over, vars
  <1>6. QED
    BY <1>1, <1>2, <1>3, <1>4, <1>5 DEF Next, Tasks, Loads, Loop

LEMMA WalkedInvariance == Spec => [](IInv /\ WInv)
  <1>1. Init => WInv
    BY InitWalked
  <1>2. QED
    BY <1>1, InitGood, NextGood, NextWalked, PTL DEF Spec

\* resolveDocument returns only when nothing it started is unsettled.
THEOREM CompletionMissesNothing == Spec => []DoneMeansSettled
  <1>1. WInv => DoneMeansSettled
    BY DEF WInv, DoneMeansSettled
  <1>2. QED
    BY <1>1, WalkedInvariance, PTL

\* When resolveDocument returns, every $ref it met was followed to the end and
\* all that was found was walked, whatever the graph of references is.
THEOREM WalksAreComplete == Spec => []FoundIsWalked
  <1>1. IInv /\ WInv => FoundIsWalked
    <2> SUFFICES ASSUME IInv, WInv, phase = "done", NEW x \in seen, RefAt(x[2]) # None
                 PROVE  status[x] = "settled" /\ Walked(x)
      BY DEF FoundIsWalked, Walked
    <2>1. x \in Ids /\ status[x] # "idle"
      BY DEF IInv, TypeOK, WInv
    <2>2. status[x] = "settled"
      BY <2>1 DEF WInv, Started
    <2>3. QED
      BY <2>1, <2>2 DEF WInv
  <1>2. QED
    BY <1>1, WalkedInvariance, PTL

\* resolveDocument returns with nothing left to settle and nothing left to walk.
THEOREM ReturnsComplete == Spec => []NothingIsMissed
  <1>1. DoneMeansSettled /\ FoundIsWalked => NothingIsMissed
    BY DEF NothingIsMissed
  <1>2. QED
    BY <1>1, CompletionMissesNothing, WalksAreComplete, PTL

------------------------------------------------------------------------------
(* A remote description stays on the web: while no file of an overlay is in, *)
(* every place a task deals with is in a remote document.                    *)

OnWeb(p)    == p.node[1] \in HttpDocs /\ DocOf(p) \in HttpDocs
WebStack(s) == \A i \in 1 .. Len(s) : OnWeb(s[i].ref)
WebEntry(e) == (e.at # None => OnWeb(e.at)) /\ \A i \in 1 .. Len(e.chain) : OnWeb(e.chain[i])
WebTask(x)  == /\ WebStack(stack[x])
               /\ \A p \in scope[x] : OnWeb(p)
               /\ ret[x] # None => WebEntry(ret[x])

\* The run started from a remote description and no overlay's file is in.
Sealed == RootDoc \in HttpDocs /\ \A d \in OverlayFiles : cache[d] # "loaded"
OnlyWebRead == \A d \in Docs : cache[d] # "absent" => d \in HttpDocs \cup OverlayFiles
WebInv == Sealed => OnlyWebRead /\ \A x \in Ids : WebTask(x)

\* What lies below a place on the web is on the web.
LEMMA WebBelow ==
  ASSUME NEW p \in Places, NEW path, OnWeb(p)
  PROVE  OnWeb(Below(p, path))
  BY DEF OnWeb, Below, DocOf, Places

LEMMA WebRoot ==
  ASSUME NEW d \in HttpDocs
  PROVE  OnWeb(Root(d))
  BY DEF OnWeb, Root, DocOf

\* The first of some sets that has an element.
LEMMA FirstOfSets ==
  ASSUME NEW n \in Nat, NEW C, NEW x, NEW k \in 1 .. n, x \in C[k]
  PROVE  \E i \in 1 .. n : x \in C[i] /\ \A j \in 1 .. i - 1 : x \notin C[j]
  <1> DEFINE hits == { i \in 1 .. n : x \in C[i] }
             R    == OpToRel(<, Nat)
  <1>1. hits \subseteq Nat /\ k \in hits
    OBVIOUS
  <1>2. IsWellFoundedOn(R, Nat) /\ \A a, b \in Nat : b < a => <<b, a>> \in R
    BY NatLessThanWellFounded DEF OpToRel
  <1>3. PICK i \in hits : \A j \in hits : <<j, i>> \notin R
    <2> HIDE DEF hits, R
    <2> QED
      BY <1>1, <1>2, WFMin
  <1>4. i \in 1 .. n /\ x \in C[i]
    BY <1>3
  <1>5. \A j \in 1 .. i - 1 : j \in 1 .. n /\ j \in Nat /\ j < i /\ i \in Nat
    BY <1>4
  <1>6. \A j \in 1 .. i - 1 : x \notin C[j]
    BY <1>2, <1>3, <1>5
  <1> QED
    BY <1>4, <1>6

\* What a walk of places on the web meets, and the anchors it shows to the
\* tasks it starts, are on the web.
LEMMA WebWalk ==
  ASSUME NEW t, NEW places \in Seq(Places), NEW met, \A i \in DOMAIN places : OnWeb(places[i])
  PROVE  \A x \in Walk(t, places, met).starting :
            OnWeb(x[2]) /\ \A p \in Walk(t, places, met).scope[x] : OnWeb(p)
  <1> DEFINE part(i)  == Covered(t, places[i], met)
             cover(i) == part(i) \ UNION { part(j) : j \in 1 .. i - 1 }
             fresh    == UNION { part(i) : i \in DOMAIN places }
             walk(x)  == CHOOSE i \in DOMAIN places : x \in cover(i)
             scopes   == [ x \in fresh |-> Anchored(cover(walk(x))) ]
  <1>1. ASSUME NEW i \in DOMAIN places, NEW x \in part(i) PROVE OnWeb(x[2])
    <2>1. x[2].via = places[i].via /\ x[2].node[1] = places[i].node[1] /\ OnWeb(places[i])
      BY <1>1 DEF Covered
    <2>2. QED
      BY <2>1 DEF OnWeb, DocOf
  <1>2. Walk(t, places, met) = [ fresh |-> fresh, starting |-> { x \in fresh : RefAt(x[2]) # None },
                                 scope |-> scopes ]
    BY DEF Walk
  <1> HIDE DEF part
  <1>3. \A x \in fresh : OnWeb(x[2])
    BY <1>1
  <1>4. ASSUME NEW x \in fresh PROVE walk(x) \in DOMAIN places
    <2> DEFINE n == Len(places)
               C == [i \in 1 .. n |-> part(i)]
    <2>1. n \in Nat /\ DOMAIN places = 1 .. n
      OBVIOUS
    <2> HIDE DEF n
    <2>2. PICK k \in 1 .. n : x \in C[k]
      BY <2>1
    <2>3. PICK i \in 1 .. n : x \in C[i] /\ \A j \in 1 .. i - 1 : x \notin C[j]
      <3> HIDE DEF C
      <3> QED
        BY <2>1, <2>2, FirstOfSets
    <2>4. \A j \in 1 .. i - 1 : j \in 1 .. n
      BY <2>1
    <2>5. x \in cover(i)
      BY <2>3, <2>4
    <2> HIDE DEF cover
    <2>6. QED
      BY <2>1, <2>5
  <1>5. ASSUME NEW x \in fresh, NEW p \in scopes[x] PROVE OnWeb(p)
    <2>1. p \in Anchored(cover(walk(x)))
      BY <1>5
    <2>2. PICK y \in cover(walk(x)) : p = y[2]
      BY <2>1 DEF Anchored
    <2> HIDE DEF walk
    <2>3. y \in part(walk(x))
      BY <2>2
    <2>4. QED
      BY <1>1, <1>4, <2>2, <2>3
  <1> HIDE DEF fresh, scopes, walk, cover
  <1>6. QED
    BY <1>2, <1>3, <1>5
\* A task moves inside its calls and stays on the web.
WebMoves(x) ==
  \E s, r : /\ WebStack(s) /\ (r # None => WebEntry(r))
            /\ stack' = [ stack EXCEPT ![x] = s ]
            /\ ret'   = [ ret EXCEPT ![x] = r ]

\* The calls below, the call itself and what it last got are on the web.
WebCalling(x, under, frame) ==
  /\ under \in Seq(Frames) /\ WebStack(under)
  /\ frame \in Frames /\ OnWeb(frame.ref)
  /\ ret[x] # None => WebEntry(ret[x])

LEMMA WebAppend ==
  ASSUME NEW s \in Seq(Frames), WebStack(s), NEW f \in Frames, OnWeb(f.ref)
  PROVE  Append(s, f) \in Seq(Frames) /\ WebStack(Append(s, f))
  <1>1. /\ Append(s, f) \in Seq(Frames) /\ Len(Append(s, f)) = Len(s) + 1 /\ Len(s) \in Nat
        /\ \A i \in 1 .. Len(s) + 1 : Append(s, f)[i] = IF i <= Len(s) THEN s[i] ELSE f
    OBVIOUS
  <1>2. ASSUME NEW i \in 1 .. Len(s) + 1 PROVE OnWeb(Append(s, f)[i].ref)
    BY <1>1 DEF WebStack
  <1>3. QED
    BY <1>1, <1>2 DEF WebStack

LEMMA WebFront ==
  ASSUME NEW s \in Seq(Frames), s # <<>>, WebStack(s)
  PROVE  Front(s) \in Seq(Frames) /\ WebStack(Front(s)) /\ OnWeb(Last(s).ref) /\ Last(s) \in Frames
  <1>1. /\ Front(s) \in Seq(Frames) /\ Len(Front(s)) = Len(s) - 1
        /\ \A i \in 1 .. Len(s) - 1 : Front(s)[i] = s[i]
    BY FrontProperties
  <1>2. Len(s) \in Nat /\ Len(s) >= 1 /\ Last(s) = s[Len(s)] /\ Last(s) \in Frames
    BY DEF Last
  <1>3. QED
    BY <1>1, <1>2 DEF WebStack

LEMMA WebWait ==
  ASSUME NEW x \in Ids, ret \in [Ids -> Entries \cup {None}], NEW under, NEW frame,
         WebCalling(x, under, frame), Wait(x, under, frame), ret' = ret
  PROVE  WebMoves(x)
  <1>1. WebStack(Append(under, frame)) /\ (ret[x] # None => WebEntry(ret[x]))
    BY WebAppend DEF WebCalling
  <1>2. stack' = [ stack EXCEPT ![x] = Append(under, frame) ] /\ ret' = [ ret EXCEPT ![x] = ret[x] ]
    BY DEF Wait
  <1>3. QED
    BY <1>1, <1>2 DEF WebMoves

LEMMA WebNest ==
  ASSUME NEW x \in Ids, ret \in [Ids -> Entries \cup {None}], NEW under, NEW frame,
         WebCalling(x, under, frame), NEW place \in Places, OnWeb(place),
         Nest(x, under, frame, place), ret' = ret
  PROVE  WebMoves(x)
  <1> DEFINE s1 == Append(under, frame)
             s2 == Append(s1, Call(place))
  <1>1. s1 \in Seq(Frames) /\ WebStack(s1)
    BY WebAppend DEF WebCalling
  <1>2. Call(place) \in Frames /\ OnWeb(Call(place).ref)
    BY CallType
  <1>3. WebStack(s2)
    <2> HIDE DEF s1
    <2> QED
      BY <1>1, <1>2, WebAppend
  <1>4. under \o <<frame, Call(place)>> = s2
    BY <1>2 DEF WebCalling
  <1>5. stack' = [ stack EXCEPT ![x] = s2 ] /\ ret' = [ ret EXCEPT ![x] = ret[x] ]
    BY <1>4 DEF Nest
  <1>6. QED
    BY <1>3, <1>5 DEF WebMoves, WebCalling

LEMMA WebReturn ==
  ASSUME NEW x \in Ids, NEW under, NEW frame, WebCalling(x, under, frame), NEW m,
         NEW entry, WebEntry(entry), Return(x, under, frame, m, entry)
  PROVE  WebMoves(x)
  <1> DEFINE f == At(frame, "returned", <<>>)
  <1>1. f \in Frames /\ f.ref = frame.ref
    <2>1. <<>> \in Seq(Segs) /\ "returned" \in Stages
      BY DEF Stages
    <2>2. QED
      BY <2>1 DEF WebCalling, At, Frames
  <1>2. stack' = [ stack EXCEPT ![x] = Append(under, f) ] /\ ret' = [ ret EXCEPT ![x] = entry ]
    BY DEF Return, Wait
  <1> HIDE DEF f
  <1>3. WebStack(Append(under, f))
    BY <1>1, WebAppend DEF WebCalling
  <1>4. QED
    BY <1>2, <1>3 DEF WebMoves

\* An entry without hops, at a place on the web or at none.
LEMMA WebLeaf ==
  ASSUME NEW ok, NEW place, place # None => OnWeb(place), NEW owner
  PROVE  WebEntry(Entry(ok, place, <<>>, owner))
  BY DEF WebEntry, Entry

LEMMA WebTraverse ==
  ASSUME NEW x \in Ids, ret \in [Ids -> Entries \cup {None}], NEW under, NEW frame,
         WebCalling(x, under, frame), NEW shared, NEW place \in Places, OnWeb(place),
         NEW path \in Seq(Segs), Traverse(x, under, frame, shared, place, path)
  PROVE  WebMoves(x)
  <1> DEFINE here(k) == Below(place, SubSeq(path, 1, k))
             rest(k) == SubSeq(path, k + 1, Len(path))
  <1>1. PICK k \in 0 .. Len(path) :
          /\ here(k).node \in Nodes
          /\ \/ k = Len(path) /\ Finish(x, under, frame, shared, here(k))
             \/ /\ k < Len(path) /\ RefAt(here(k)) # None
                /\ Nest(x, under, At(frame, "inner", rest(k)), here(k))
                /\ UNCHANGED <<map, ret>>
             \/ /\ k < Len(path) /\ RefAt(here(k)) = None
                /\ Return(x, under, frame, Write(shared, None), Entry(TRUE, None, <<>>, None))
    BY DEF Traverse
  <1>2. here(k) \in Places /\ OnWeb(here(k))
    BY <1>1, BelowType, WebBelow
  <1> HIDE DEF here
  <1>3. ASSUME NEW st \in Stages, NEW left \in Seq(Segs)
        PROVE  WebCalling(x, under, At(frame, st, left))
    BY AtType DEF WebCalling
  <1>4. CASE Finish(x, under, frame, shared, here(k))
    <2>1. CASE RefAt(here(k)) # None
      <3>1. Nest(x, under, At(frame, "tail", <<>>), here(k)) /\ ret' = ret
        BY <1>4, <2>1 DEF Finish
      <3>2. WebCalling(x, under, At(frame, "tail", <<>>))
        <4>1. <<>> \in Seq(Segs) /\ "tail" \in Stages
          BY DEF Stages
        <4>2. QED
          BY <1>3, <4>1
      <3>3. QED
        BY <1>2, <3>1, <3>2, WebNest
    <2>2. CASE RefAt(here(k)) = None
      <3>1. Return(x, under, frame, Write(shared, here(k)), Entry(TRUE, here(k), <<>>, None))
        BY <1>4, <2>2 DEF Finish
      <3>2. QED
        BY <1>2, <3>1, WebLeaf, WebReturn
    <2>3. QED
      BY <2>1, <2>2
  <1>5. CASE /\ k < Len(path) /\ RefAt(here(k)) # None
             /\ Nest(x, under, At(frame, "inner", rest(k)), here(k))
             /\ UNCHANGED <<map, ret>>
    <2>1. rest(k) \in Seq(Segs)
      <3>1. \A i \in k + 1 .. Len(path) : path[i] \in Segs
        BY <1>1
      <3>2. QED
        BY <1>1, <3>1, SubSeqProperties
    <2> HIDE DEF rest
    <2>2. WebCalling(x, under, At(frame, "inner", rest(k)))
      BY <1>3, <2>1 DEF Stages
    <2>3. QED
      BY <1>2, <1>5, <2>2, WebNest
  <1>6. CASE Return(x, under, frame, Write(shared, None), Entry(TRUE, None, <<>>, None))
    BY <1>6, WebLeaf, WebReturn
  <1>7. QED
    BY <1>1, <1>4, <1>5, <1>6

\* A running task, the calls it is in, and a call it goes back to.
LEMMA WebRunning ==
  ASSUME IInv, NEW x \in Ids, status[x] = "running", WebTask(x)
  PROVE  /\ WebCalling(x, Under(x), Top(x)) /\ Top(x).ref \in Places
         /\ RefAt(Top(x).ref) # None
         /\ Len(stack[x]) > 1 => WebCalling(x, Front(Under(x)), Caller(x))
  <1>1. /\ stack[x] \in Seq(Frames) /\ stack[x] # <<>> /\ WebStack(stack[x])
        /\ Top(x).ref \in Places /\ RefAt(Top(x).ref) # None
        /\ ret[x] # None => WebEntry(ret[x])
    BY Running DEF WebTask
  <1>2. WebCalling(x, Under(x), Top(x))
    BY <1>1, WebFront DEF WebCalling, Under, Top
  <1>3. ASSUME Len(stack[x]) > 1 PROVE WebCalling(x, Front(Under(x)), Caller(x))
    <2> DEFINE u == Under(x)
    <2>1. u \in Seq(Frames) /\ WebStack(u)
      BY <1>2 DEF WebCalling
    <2>2. Len(u) = Len(stack[x]) - 1 /\ \A i \in 1 .. Len(stack[x]) - 1 : u[i] = stack[x][i]
      BY <1>1, FrontProperties DEF Under
    <2>3. Len(u) \in Nat /\ Len(u) >= 1 /\ u # <<>> /\ Len(stack[x]) \in Nat
      BY <1>1, <1>3, <2>1, <2>2
    <2>4. Caller(x) = Last(u)
      BY <2>2, <2>3 DEF Caller, Last
    <2> HIDE DEF u
    <2>5. Front(u) \in Seq(Frames) /\ WebStack(Front(u)) /\ OnWeb(Last(u).ref) /\ Last(u) \in Frames
      BY <2>1, <2>3, WebFront
    <2>6. QED
      BY <1>1, <2>4, <2>5 DEF WebCalling, u
  <1>4. QED
    BY <1>1, <1>2, <1>3

\* What a remote place's $ref leads to is remote, or a file that an overlay
\* added, or refused.
LEMMA WebTarget ==
  ASSUME ref \in RefGraphs, NEW p \in Places, RefAt(p) # None, OnWeb(p),
         ~Forbidden(DocOf(p), TargetDoc(p))
  PROVE  TargetDoc(p) \in HttpDocs \cup OverlayFiles
  <1>1. p.node \in Nodes /\ p.node[1] \in HttpDocs /\ DocOf(p) \in HttpDocs
    BY DEF Places, OnWeb
  <1>2. RefAt(p).uri \in HttpDocs \cup FileUrls \cup {None}
    BY <1>1, RemoteUrls DEF RefAt
  <1>3. QED
    BY <1>1, <1>2 DEF Forbidden, TargetDoc, IsRemote

\* A step of a task of a remote description moves it on the web, and requests
\* only what may be read.
WebStep(x) ==
  /\ WebMoves(x) /\ scope' = scope
  /\ cache' = cache \/ \E d \in HttpDocs \cup OverlayFiles :
                          cache[d] = "absent" /\ cache' = [ cache EXCEPT ![d] = "loading" ]

LEMMA WebAdvances ==
  ASSUME IInv, NEW x \in Ids, WebTask(x), OnlyWebRead, Sealed,
         Enter(x) \/ Continue(x), ~EnterCircular(x), ~Settle(x)
  PROVE  WebStep(x)
  <1>0. ref \in RefGraphs /\ ret \in [Ids -> Entries \cup {None}]
    BY DEF IInv, TypeOK
  <1>1. status[x] = "running"
    BY DEF Enter, Continue, EnterAnchor, EnterLocal, EnterRemote, EnterForbidden, Entering, GotDocument,
           GotError, GotTick, ResumeInner, ResumeTail, Back, InStage
  <1>2. WebCalling(x, Under(x), Top(x)) /\ Top(x).ref \in Places /\ RefAt(Top(x).ref) # None
    BY <1>1, WebRunning
  <1>3. OnWeb(Top(x).ref) /\ RefAt(Top(x).ref).path \in Seq(Segs) /\ TargetDoc(Top(x).ref) \in Docs
    BY <1>0, <1>2, RefAtType DEF WebCalling
  <1>4. ASSUME NEW st \in Stages PROVE WebCalling(x, Under(x), At(Top(x), st, <<>>))
    <2>1. <<>> \in Seq(Segs)
      OBVIOUS
    <2>2. Top(x) \in Frames
      BY <1>2 DEF WebCalling
    <2>3. At(Top(x), st, <<>>) \in Frames /\ At(Top(x), st, <<>>).ref = Top(x).ref
      BY <2>1, <2>2 DEF At, Frames
    <2>4. QED
      BY <1>2, <2>3 DEF WebCalling
  <1>5. CASE EnterAnchor(x)
    <2>1. /\ Wait(x, Under(x), At(Top(x), "tick", <<>>))
          /\ scope' = scope /\ cache' = cache /\ ret' = ret
      BY <1>5 DEF EnterAnchor
    <2>2. QED
      BY <1>0, <1>4, <2>1, WebWait DEF WebStep, Stages
  <1>6. CASE EnterLocal(x)
    <2>1. /\ Traverse(x, Under(x), Top(x), None, Root(DocOf(Top(x).ref)), RefAt(Top(x).ref).path)
          /\ scope' = scope /\ cache' = cache
      BY <1>6 DEF EnterLocal
    <2>2. Root(DocOf(Top(x).ref)) \in Places /\ OnWeb(Root(DocOf(Top(x).ref)))
      BY <1>2, <1>3, DocOfType, RootType_, WebRoot DEF OnWeb
    <2>3. QED
      BY <1>0, <1>2, <1>3, <2>1, <2>2, WebTraverse DEF WebStep
  <1>7. CASE EnterRemote(x)
    <2> DEFINE d == TargetDoc(Top(x).ref)
    <2>1. /\ Wait(x, Under(x), At(Top(x), "load", <<>>)) /\ scope' = scope /\ ret' = ret
          /\ ~Forbidden(DocOf(Top(x).ref), d)
          /\ IF cache[d] = "absent" THEN cache' = [ cache EXCEPT ![d] = "loading" ] ELSE cache' = cache
      BY <1>7 DEF EnterRemote
    <2>2. d \in HttpDocs \cup OverlayFiles
      BY <1>0, <1>2, <1>3, <2>1, WebTarget
    <2> HIDE DEF d
    <2>3. WebMoves(x)
      BY <1>0, <1>4, <2>1, WebWait DEF Stages
    <2>4. QED
      BY <2>1, <2>2, <2>3 DEF WebStep
  <1>8. CASE EnterForbidden(x) \/ GotError(x)
    <2>1. /\ Return(x, Under(x), Top(x), map, Entry(FALSE, None, <<>>, x))
          /\ scope' = scope /\ cache' = cache
      BY <1>8 DEF EnterForbidden, GotError, Fail
    <2>2. QED
      BY <1>2, <2>1, WebLeaf, WebReturn DEF WebStep
  <1>9. CASE GotDocument(x)
    <2> DEFINE d == TargetDoc(Top(x).ref)
    <2>1. /\ Traverse(x, Under(x), Top(x), None, Root(d), RefAt(Top(x).ref).path)
          /\ scope' = scope /\ cache' = cache /\ cache[d] = "loaded"
      BY <1>9 DEF GotDocument
    <2>2. d \in HttpDocs /\ d \in Docs
      BY <1>3, <2>1 DEF OnlyWebRead, Sealed
    <2>3. Root(d) \in Places /\ OnWeb(Root(d))
      BY <2>2, RootType_, WebRoot
    <2> HIDE DEF d
    <2>4. QED
      BY <1>0, <1>2, <1>3, <2>1, <2>3, WebTraverse DEF WebStep
  <1>10. CASE GotTick(x)
    <2> DEFINE a    == RefAt(Top(x).ref).anchor
               hits == { p \in scope[x] : AnchorOf[p.node] = a }
               via  == <<DocOf(Top(x).ref), a>>
               at   == IF hits = {} THEN None ELSE [via |-> via, node |-> (CHOOSE p \in hits : TRUE).node]
    <2>1. /\ Return(x, Under(x), Top(x), map, Entry(TRUE, at, <<>>, x))
          /\ scope' = scope /\ cache' = cache
      BY <1>10 DEF GotTick
    <2>2. at # None => OnWeb(at)
      <3>1. ASSUME hits # {} PROVE OnWeb(at)
        <4>1. PICK q : q = (CHOOSE p \in hits : TRUE)
          OBVIOUS
        <4>2. q \in scope[x] /\ AnchorOf[q.node] = a
          BY <3>1, <4>1
        <4>3. q.node[1] \in HttpDocs /\ DocOf(Top(x).ref) \in HttpDocs
          BY <1>3, <4>2 DEF WebTask, OnWeb
        <4>4. at = [via |-> via, node |-> q.node]
          BY <3>1, <4>1
        <4>5. via # None
          <5>1. DocOf(Top(x).ref) \in Docs /\ a \in Anchors \cup {None}
            BY <1>0, <1>2, DocOfType, RefAtType
          <5>2. a # None
            BY <4>2 DEF GoodTask, IInv
          <5>3. QED
            BY <5>1, <5>2, NoneIsNoEntry
        <4> HIDE DEF at, hits
        <4>6. QED
          BY <4>3, <4>4, <4>5 DEF OnWeb, DocOf
      <3>2. QED
        BY <3>1
    <2> HIDE DEF at
    <2>3. QED
      BY <1>2, <2>1, <2>2, WebLeaf, WebReturn DEF WebStep
  <1>11. CASE ResumeInner(x)
    <2> DEFINE id     == RefId(Top(x).ref)
               shared == IF ret[x].by = x /\ map[id] # None /\ map[id].by = x THEN id ELSE None
               under  == Front(Under(x))
               path   == Caller(x).rest
               next   == Below(ret[x].at, <<Head(path)>>)
    <2>1. /\ Back(x, "inner")
          /\ IF ret[x].at # None /\ next.node \in Nodes
             THEN Traverse(x, under, Caller(x), shared, next, Tail(path))
             ELSE Return(x, under, Caller(x), Write(shared, None),
                         Entry(ret[x].resolved, None, <<>>, None))
          /\ scope' = scope /\ cache' = cache
      BY <1>11 DEF ResumeInner
    <2>2. /\ Len(stack[x]) > 1 /\ Caller(x).stage = "inner" /\ ret[x] \in Entries
          /\ None \in RefIds \cup {None}
      BY <2>1, BackType
    <2>3. WebCalling(x, under, Caller(x)) /\ path # <<>> /\ path \in Seq(Segs)
      BY <1>1, <2>2, WebRunning, Nested
    <2> HIDE DEF shared, under
    <2>4. CASE ret[x].at # None /\ next.node \in Nodes
      <3>1. ret[x].at \in Places /\ OnWeb(ret[x].at)
        <4>1. ret[x] # None /\ ret[x].at \in Places \cup {None}
          BY <2>2, NoneIsNoEntry DEF Entries
        <4>2. QED
          BY <2>4, <4>1 DEF WebTask, WebEntry
      <3>2. next \in Places /\ OnWeb(next) /\ Tail(path) \in Seq(Segs)
        BY <2>3, <2>4, <3>1, BelowType, WebBelow, HeadTail
      <3>3. Traverse(x, under, Caller(x), shared, next, Tail(path))
        BY <2>1, <2>4
      <3> HIDE DEF next, path
      <3>4. QED
        BY <1>0, <2>1, <2>3, <3>2, <3>3, WebTraverse DEF WebStep
    <2>5. CASE ~(ret[x].at # None /\ next.node \in Nodes)
      <3>1. Return(x, under, Caller(x), Write(shared, None), Entry(ret[x].resolved, None, <<>>, None))
        BY <2>1, <2>5
      <3>2. QED
        BY <2>1, <2>3, <3>1, WebLeaf, WebReturn DEF WebStep
    <2>6. QED
      BY <2>4, <2>5
  <1>12. CASE ResumeTail(x)
    <2> DEFINE hop   == Top(x).ref
               chain == IF hop.node \in Siblings /\ ret[x].resolved
                        THEN <<hop>> \o ret[x].chain ELSE ret[x].chain
               entry == Entry(ret[x].resolved, ret[x].at, chain, None)
    <2>1. /\ Back(x, "tail")
          /\ Return(x, Front(Under(x)), Caller(x), map, entry)
          /\ scope' = scope /\ cache' = cache
      BY <1>12 DEF ResumeTail
    <2>2. Len(stack[x]) > 1 /\ ret[x] \in Entries
      BY <2>1, BackType
    <2>3. WebCalling(x, Front(Under(x)), Caller(x))
      BY <1>1, <2>2, WebRunning
    <2>4. ret[x].chain \in Seq(Places) /\ WebEntry(ret[x]) /\ ret[x] # None
      BY <2>2, <2>3, NoneIsNoEntry DEF WebCalling, Entries
    <2>5. \A i \in 1 .. Len(chain) : OnWeb(chain[i])
      <3>1. \A i \in 1 .. Len(ret[x].chain) : OnWeb(ret[x].chain[i])
        BY <2>4 DEF WebEntry
      <3>2. /\ <<hop>> \o ret[x].chain \in Seq(Places)
            /\ Len(<<hop>> \o ret[x].chain) = 1 + Len(ret[x].chain) /\ Len(ret[x].chain) \in Nat
            /\ \A i \in 1 .. 1 + Len(ret[x].chain) :
                 (<<hop>> \o ret[x].chain)[i] = IF i = 1 THEN hop ELSE ret[x].chain[i - 1]
        BY <1>2, <2>4
      <3>3. ASSUME NEW i \in 1 .. 1 + Len(ret[x].chain) PROVE OnWeb((<<hop>> \o ret[x].chain)[i])
        BY <1>3, <3>1, <3>2
      <3>4. QED
        BY <3>1, <3>2, <3>3
    <2>6. WebEntry(entry)
      BY <2>4, <2>5 DEF WebEntry, Entry
    <2> HIDE DEF entry
    <2>7. QED
      BY <2>1, <2>3, <2>6, WebReturn DEF WebStep
  <1>13. QED
    BY <1>5, <1>6, <1>7, <1>8, <1>9, <1>10, <1>11, <1>12 DEF Enter, Continue

\* What the first walk starts is on the web.
LEMMA WebStarts == Init => WebInv
  <1> SUFFICES ASSUME Init, Sealed PROVE OnlyWebRead /\ \A x \in Ids : WebTask(x)
    BY DEF WebInv
  <1> DEFINE first == <<Root(RootDoc)>>
             w     == Walk(RootType, first, {})
  <1>1. first \in Seq(Places) /\ \A i \in DOMAIN first : OnWeb(first[i])
    BY Documents, RootType_, WebRoot DEF Sealed
  <1>2. \A x \in w.starting : OnWeb(x[2]) /\ \A p \in w.scope[x] : OnWeb(p)
    <2> HIDE DEF first
    <2> QED
      BY <1>1, WebWalk
  <1>3. /\ stack = [ x \in Ids |-> IF x \in w.starting THEN <<Call(x[2])>> ELSE <<>> ]
        /\ scope = [ x \in Ids |-> IF x \in w.starting THEN w.scope[x] ELSE {} ]
        /\ cache = [ d \in Docs |-> IF d = RootDoc THEN "loaded" ELSE "absent" ]
        /\ ret = [ x \in Ids |-> None ]
    BY DEF Init
  <1> HIDE DEF w
  <1>4. OnlyWebRead
    BY <1>3 DEF OnlyWebRead, Sealed
  <1>5. ASSUME NEW x \in Ids PROVE WebTask(x)
    <2>1. ret[x] = None
      BY <1>3
    <2>2. CASE x \in w.starting
      <3>1. stack[x] = <<Call(x[2])>> /\ scope[x] = w.scope[x] /\ Call(x[2]).ref = x[2]
        BY <1>3, <2>2, CallType DEF Ids
      <3>2. QED
        BY <1>2, <2>1, <2>2, <3>1 DEF WebTask, WebStack
    <2>3. CASE x \notin w.starting
      <3>1. stack[x] = <<>> /\ scope[x] = {}
        BY <1>3, <2>3
      <3>2. QED
        BY <2>1, <3>1 DEF WebTask, WebStack
    <2>4. QED
      BY <2>2, <2>3
  <1>6. QED
    BY <1>4, <1>5

LEMMA WebSettle ==
  ASSUME IInv, WebInv, Sealed, NEW x \in Ids, Settle(x), NEW y \in Ids
  PROVE  WebTask(y)'
  <1> DEFINE w == Walk(x[1], Found(x), seen)
  <1>1. /\ scope'  = [ z \in Ids |-> IF z \in w.starting THEN w.scope[z] ELSE scope[z] ]
        /\ stack'  = [ z \in Ids |-> IF z \in w.starting THEN <<Call(z[2])>>
                                     ELSE IF z = x THEN <<>> ELSE stack[z] ]
        /\ ret' = ret
    BY DEF Settle
  <1>3. ret[x] \in Entries /\ WebEntry(ret[x])
    <2>1. InStage(x, "returned") /\ GoodTask(x) /\ WebTask(x)
      BY DEF Settle, IInv, WebInv
    <2>2. ret[x] \in Entries
      BY <2>1 DEF GoodTask
    <2>3. ret[x] # None
      BY <2>2, NoneIsNoEntry
    <2>4. QED
      BY <2>1, <2>2, <2>3 DEF WebTask
  <1>4. Found(x) \in Seq(Places) /\ \A i \in DOMAIN Found(x) : OnWeb(Found(x)[i])
    <2>1. /\ ret[x].chain \in Seq(Places) /\ ret[x].at \in Places \cup {None}
          /\ \A i \in 1 .. Len(ret[x].chain) : OnWeb(ret[x].chain[i])
      BY <1>3 DEF Entries, WebEntry
    <2>2. CASE ret[x].resolved /\ ret[x].at # None
      <3>1. Found(x) = <<ret[x].at>> \o ret[x].chain /\ ret[x].at \in Places /\ OnWeb(ret[x].at)
        BY <1>3, <2>1, <2>2 DEF Found, WebEntry
      <3>2. /\ <<ret[x].at>> \o ret[x].chain \in Seq(Places) /\ Len(ret[x].chain) \in Nat
            /\ DOMAIN (<<ret[x].at>> \o ret[x].chain) = 1 .. 1 + Len(ret[x].chain)
            /\ \A i \in 1 .. 1 + Len(ret[x].chain) :
                 (<<ret[x].at>> \o ret[x].chain)[i] = IF i = 1 THEN ret[x].at ELSE ret[x].chain[i - 1]
        BY <2>1, <3>1
      <3>3. ASSUME NEW i \in 1 .. 1 + Len(ret[x].chain) PROVE OnWeb((<<ret[x].at>> \o ret[x].chain)[i])
        BY <2>1, <3>1, <3>2
      <3>4. QED
        BY <3>1, <3>2, <3>3
    <2>3. CASE ~(ret[x].resolved /\ ret[x].at # None)
      BY <2>1, <2>3 DEF Found
    <2>4. QED
      BY <2>2, <2>3
  <1>5. \A z \in w.starting : OnWeb(z[2]) /\ \A p \in w.scope[z] : OnWeb(p)
    BY <1>4, WebWalk
  <1> HIDE DEF w
  <1>6. WebTask(y) /\ ret'[y] = ret[y]
    BY <1>1 DEF WebInv
  <1>7. CASE y \in w.starting
    <2>1. stack'[y] = <<Call(y[2])>> /\ scope'[y] = w.scope[y] /\ Call(y[2]).ref = y[2]
      BY <1>1, <1>7, CallType DEF Ids
    <2>2. QED
      BY <1>5, <1>6, <1>7, <2>1 DEF WebTask, WebStack
  <1>8. CASE y \notin w.starting
    <2>1. scope'[y] = scope[y] /\ (stack'[y] = stack[y] \/ stack'[y] = <<>>)
      BY <1>1, <1>8
    <2>2. QED
      BY <1>6, <2>1 DEF WebTask, WebStack
  <1>9. QED
    BY <1>7, <1>8

LEMMA WebNext == IInv /\ WebInv /\ [Next]_vars => WebInv'
  <1> SUFFICES ASSUME IInv, WebInv, [Next]_vars, Sealed' PROVE OnlyWebRead' /\ \A y \in Ids : WebTask(y)'
    BY DEF WebInv
  <1>0. /\ cache \in [Docs -> {"absent", "loading", "loaded", "failed"}]
        /\ stack \in [Ids -> Seq(Frames)] /\ ret \in [Ids -> Entries \cup {None}]
        /\ OverlayFiles \subseteq Docs /\ HttpDocs \subseteq Docs
    BY Documents DEF IInv, TypeOK
  <1>1. ASSUME NEW x \in Ids, Enter(x) \/ Continue(x), ~EnterCircular(x), ~Settle(x)
        PROVE  OnlyWebRead' /\ \A y \in Ids : WebTask(y)'
    <2>1. cache' = cache \/ \E d \in Docs : cache[d] = "absent" /\ cache' = [ cache EXCEPT ![d] = "loading" ]
      <3>1. ASSUME EnterRemote(x)
            PROVE  cache' = cache \/ \E d \in Docs : cache[d] = "absent" /\ cache' = [ cache EXCEPT ![d] = "loading" ]
        <4>1. status[x] = "running"
          BY <3>1 DEF EnterRemote, Entering, InStage
        <4>2. TargetDoc(Top(x).ref) \in Docs
          BY <4>1, Running, RefAtType DEF IInv, TypeOK
        <4>3. QED
          BY <3>1, <4>2 DEF EnterRemote
      <3>2. ASSUME ~EnterRemote(x) PROVE cache' = cache
        BY <1>1, <3>2 DEF Enter, Continue, EnterAnchor, EnterLocal, EnterForbidden, Fail, GotDocument, GotError,
              GotTick, ResumeInner, ResumeTail
      <3>3. QED
        BY <3>1, <3>2
    <2>2. Sealed
      BY <1>0, <2>1 DEF Sealed
    <2>3. OnlyWebRead /\ \A y \in Ids : WebTask(y)
      BY <2>2 DEF WebInv
    <2>4. WebStep(x)
      BY <1>1, <2>2, <2>3, WebAdvances
    <2>5. OnlyWebRead'
      BY <1>0, <2>3, <2>4 DEF WebStep, OnlyWebRead
    <2>6. PICK s, r : /\ WebStack(s) /\ (r # None => WebEntry(r))
                      /\ stack' = [ stack EXCEPT ![x] = s ]
                      /\ ret'   = [ ret EXCEPT ![x] = r ]
      BY <2>4 DEF WebStep, WebMoves
    <2>7. ASSUME NEW y \in Ids PROVE WebTask(y)'
      <3>1. WebTask(y) /\ scope' = scope
        BY <2>3, <2>4 DEF WebStep
      <3>2. CASE y = x
        <4>1. stack'[y] = s /\ ret'[y] = r
          BY <1>0, <2>6, <3>2
        <4>2. QED
          BY <2>6, <3>1, <4>1 DEF WebTask
      <3>3. CASE y # x
        <4>1. stack'[y] = stack[y] /\ ret'[y] = ret[y]
          BY <1>0, <2>6, <3>3
        <4>2. QED
          BY <3>1, <4>1 DEF WebTask
      <3>4. QED
        BY <3>2, <3>3
    <2>8. QED
      BY <2>5, <2>7
  <1>2. ASSUME NEW x \in Ids, EnterCircular(x) PROVE OnlyWebRead' /\ \A y \in Ids : WebTask(y)'
    <2>1. stack' = [ stack EXCEPT ![x] = <<>> ] /\ UNCHANGED <<cache, scope, ret>>
      BY <1>2 DEF EnterCircular
    <2>2. OnlyWebRead /\ \A y \in Ids : WebTask(y)
      BY <2>1 DEF WebInv, Sealed
    <2>3. ASSUME NEW y \in Ids PROVE WebTask(y)'
      <3>1. stack'[y] = stack[y] \/ stack'[y] = <<>>
        BY <1>0, <2>1
      <3>2. QED
        BY <2>1, <2>2, <3>1 DEF WebTask, WebStack
    <2>4. QED
      BY <2>1, <2>2, <2>3 DEF OnlyWebRead
  <1>3. ASSUME NEW x \in Ids, Settle(x) PROVE OnlyWebRead' /\ \A y \in Ids : WebTask(y)'
    <2>1. cache' = cache
      BY <1>3 DEF Settle
    <2>2. Sealed
      BY <2>1 DEF Sealed
    <2>3. QED
      BY <1>3, <2>1, <2>2, WebSettle DEF WebInv, OnlyWebRead
  <1>4. ASSUME NEW d \in Docs, Load(d) PROVE OnlyWebRead' /\ \A y \in Ids : WebTask(y)'
    <2>1. PICK outcome \in {"loaded", "failed"} : cache' = [ cache EXCEPT ![d] = outcome ]
      BY <1>4 DEF Load
    <2>2. cache[d] = "loading" /\ UNCHANGED <<scope, stack, ret>>
      BY <1>4 DEF Load
    <2>3. Sealed
      BY <1>0, <2>1, <2>2 DEF Sealed
    <2>4. OnlyWebRead /\ \A y \in Ids : WebTask(y)
      BY <2>3 DEF WebInv
    <2>5. OnlyWebRead'
      BY <1>0, <2>1, <2>2, <2>4 DEF OnlyWebRead
    <2>6. QED
      BY <2>2, <2>4, <2>5 DEF WebTask
  <1>5. CASE Loop \/ Over \/ UNCHANGED vars
    <2>1. UNCHANGED <<cache, scope, stack, ret>>
      BY <1>5 DEF Loop, AwaitAll, AwaitRejected, Over, vars
    <2>2. OnlyWebRead /\ \A y \in Ids : WebTask(y)
      BY <2>1 DEF WebInv, Sealed
    <2>3. QED
      BY <2>1, <2>2 DEF OnlyWebRead, WebTask
  <1>6. QED
    BY <1>1, <1>2, <1>3, <1>4, <1>5 DEF Next, Tasks, Loads

\* From a remote description no local file is read unless a file that an
\* overlay added is in, however long the chain of references is and by whatever
\* pointer, anchor or nested reference it goes (BaseResolver.resolveDocument).
THEOREM RemoteIsSealed == Spec => []RemoteReadsNoFiles
  <1>1. WebInv => RemoteReadsNoFiles
    BY RemoteUrls, Documents DEF WebInv, Sealed, OnlyWebRead, RemoteReadsNoFiles
  <1>2. QED
    BY <1>1, WebStarts, WebNext, InitGood, NextGood, PTL DEF Spec

------------------------------------------------------------------------------
(* What can be found out of a $ref when none is by name: the least set of  *)
(* facts that is closed under the steps of the reference definition.       *)

Facts == RefIds \X Nat \X Standings

Closed(c, J) ==
  /\ \A id \in RefIds, s \in Standings : StartsAt(c, id, s) => <<id, 0, s>> \in J
  /\ \A id \in RefIds, k \in Nat, s \in Standings, e \in Standings :
       k <= Len(id[2].path) /\ <<id, k, s>> \in J /\ Via(J, id, k, s, e)
         => <<id, k + 1, Onward(id, k, e)>> \in J

\* What can be found out of documents that are in, or not, as c says, and what
\* can be found out by now: the least set of facts that is closed.
KnownIf(c) == { f \in Facts : \A J \in SUBSET Facts : Closed(c, J) => f \in J }
Known == KnownIf(cache)

------------------------------------------------------------------------------
(* Facts about what is known. *)

LEMMA RefIdsAre ==
  ASSUME NEW id \in RefIds
  PROVE  /\ id[1] \in Docs /\ id[2] \in RefStrs /\ id[2].uri \in Docs \cup {None}
         /\ id[2].path \in Seq(Segs) /\ Len(id[2].path) \in Nat /\ Final(id) \in Nat
         /\ \A k \in Nat : k < Len(id[2].path) => k + 1 \in 1 .. Len(id[2].path)
  <1>1. id[1] \in Docs /\ id[2] \in RefStrs
    BY DEF RefIds
  <1>2. id[2] \in [uri : Docs \cup {None}, path : Seq(Segs), anchor : Anchors \cup {None}]
    BY <1>1, Graphs
  <1>3. id[2].uri \in Docs \cup {None} /\ id[2].path \in Seq(Segs)
    BY <1>2
  <1>4. Len(id[2].path) \in Nat
    BY <1>3
  <1> QED
    BY <1>1, <1>3, <1>4 DEF Final

LEMMA StandType ==
  ASSUME NEW ok \in BOOLEAN, NEW p \in Places
  PROVE  /\ Stand(TRUE, p) \in Standings /\ Stand(ok, None) \in Standings
         /\ Stand(TRUE, p).at = p /\ Stand(ok, None).at = None
  BY NoneIsNothing DEF Stand, Standings

LEMMA OnwardType ==
  ASSUME NEW id \in RefIds, NEW k \in Nat, k <= Len(id[2].path), NEW e \in Standings
  PROVE  Onward(id, k, e) \in Standings
  <1>1. CASE e.at = None \/ k = Len(id[2].path)
    BY <1>1 DEF Onward
  <1>2. CASE ~(e.at = None \/ k = Len(id[2].path))
    <2>1. e.at \in Places
      BY <1>2 DEF Standings
    <2>2. CASE Child(e.at, id[2].path[k + 1]).node \in Nodes
      <3>1. Child(e.at, id[2].path[k + 1]) \in Places
        BY <2>1, <2>2, BelowType DEF Child
      <3>2. Onward(id, k, e) = Stand(TRUE, Child(e.at, id[2].path[k + 1]))
        BY <1>2, <2>2 DEF Onward
      <3> QED
        BY <3>1, <3>2, StandType
    <2>3. CASE Child(e.at, id[2].path[k + 1]).node \notin Nodes
      <3>1. Onward(id, k, e) = Stand(TRUE, None)
        BY <1>2, <2>3 DEF Onward
      <3> QED
        BY <2>1, <3>1, StandType
    <2> QED
      BY <2>2, <2>3
  <1> QED
    BY <1>1, <1>2

LEMMA KnownIsClosed == ASSUME NEW c PROVE Closed(c, KnownIf(c))
  <1>1. ASSUME NEW id \in RefIds, NEW s \in Standings, StartsAt(c, id, s)
        PROVE  <<id, 0, s>> \in KnownIf(c)
    <2>1. <<id, 0, s>> \in Facts
      BY DEF Facts
    <2>2. ASSUME NEW J \in SUBSET Facts, Closed(c, J) PROVE <<id, 0, s>> \in J
      BY <1>1, <2>2 DEF Closed
    <2> QED
      BY <2>1, <2>2 DEF KnownIf
  <1>2. ASSUME NEW id \in RefIds, NEW k \in Nat, NEW s \in Standings, NEW e \in Standings,
               k <= Len(id[2].path), <<id, k, s>> \in KnownIf(c), Via(KnownIf(c), id, k, s, e)
        PROVE  <<id, k + 1, Onward(id, k, e)>> \in KnownIf(c)
    <2>1. Onward(id, k, e) \in Standings
      BY <1>2, OnwardType
    <2>2. k + 1 \in Nat
      OBVIOUS
    <2>3. <<id, k + 1, Onward(id, k, e)>> \in Facts
      BY <2>1, <2>2 DEF Facts
    <2>4. ASSUME NEW J \in SUBSET Facts, Closed(c, J) PROVE <<id, k + 1, Onward(id, k, e)>> \in J
      <3>1. <<id, k, s>> \in J /\ Via(J, id, k, s, e)
        BY <1>2, <2>4 DEF KnownIf, Via
      <3> QED
        BY <1>2, <2>4, <3>1 DEF Closed
    <2> QED
      BY <2>3, <2>4 DEF KnownIf
  <1> QED
    BY <1>1, <1>2 DEF Closed

LEMMA KnownIsLeast ==
  ASSUME NEW c, NEW J \in SUBSET Facts, Closed(c, J)
  PROVE  KnownIf(c) \subseteq J
  BY DEF KnownIf

\* Each fact was found by a step.
FoundByStep(c, f) ==
  \/ f[2] = 0 /\ StartsAt(c, f[1], f[3])
  \/ \E k \in Nat, s \in Standings, e \in Standings :
       /\ f[2] = k + 1 /\ k <= Len(f[1][2].path) /\ <<f[1], k, s>> \in KnownIf(c)
       /\ Via(KnownIf(c), f[1], k, s, e) /\ f[3] = Onward(f[1], k, e)

LEMMA KnownBySteps ==
  ASSUME NEW c, NEW f \in KnownIf(c)
  PROVE  FoundByStep(c, f)
  <1> DEFINE J == { h \in KnownIf(c) : FoundByStep(c, h) }
  <1>1. J \in SUBSET Facts /\ J \subseteq KnownIf(c)
    BY DEF KnownIf
  <1>2. ASSUME NEW id \in RefIds, NEW s \in Standings, StartsAt(c, id, s)
        PROVE  <<id, 0, s>> \in J
    <2>1. <<id, 0, s>> \in KnownIf(c)
      BY <1>2, KnownIsClosed DEF Closed
    <2>2. FoundByStep(c, <<id, 0, s>>)
      BY <1>2 DEF FoundByStep
    <2> QED
      BY <2>1, <2>2
  <1>3. ASSUME NEW id \in RefIds, NEW k \in Nat, NEW s \in Standings, NEW e \in Standings,
               k <= Len(id[2].path), <<id, k, s>> \in J, Via(J, id, k, s, e)
        PROVE  <<id, k + 1, Onward(id, k, e)>> \in J
    <2>1. <<id, k, s>> \in KnownIf(c) /\ Via(KnownIf(c), id, k, s, e)
      BY <1>3 DEF Via
    <2>2. <<id, k + 1, Onward(id, k, e)>> \in KnownIf(c)
      BY <1>3, <2>1, KnownIsClosed DEF Closed
    <2>3. FoundByStep(c, <<id, k + 1, Onward(id, k, e)>>)
      <3> DEFINE h == <<id, k + 1, Onward(id, k, e)>>
      <3>1. h[1] = id /\ h[2] = k + 1 /\ h[3] = Onward(id, k, e)
        OBVIOUS
      <3> HIDE DEF h
      <3>2. FoundByStep(c, h)
        BY <1>3, <2>1, <3>1 DEF FoundByStep
      <3> QED
        BY <3>2 DEF h
    <2> QED
      BY <2>2, <2>3
  <1> HIDE DEF J
  <1>4. Closed(c, J)
    BY <1>2, <1>3 DEF Closed
  <1>5. f \in J
    BY <1>1, <1>4, KnownIsLeast
  <1> QED
    BY <1>5 DEF J

LEMMA OneStart ==
  ASSUME NEW c, NEW id \in RefIds, NEW s, NEW t, StartsAt(c, id, s), StartsAt(c, id, t)
  PROVE  s = t
  <1> DEFINE uri == id[2].uri
  <1>1. CASE uri \in {None, id[1]}
    BY <1>1 DEF StartsAt
  <1>2. CASE uri \notin {None, id[1]} /\ ~Forbidden(id[1], uri) /\ c[uri] = "loaded"
    <2>1. c[uri] # "failed"
      BY <1>2
    <2> QED
      BY <1>2, <2>1, Zenon DEF StartsAt
  <1>3. CASE uri \notin {None, id[1]} /\ ~(~Forbidden(id[1], uri) /\ c[uri] = "loaded")
    BY <1>3, Zenon DEF StartsAt
  <1> QED
    BY <1>1, <1>2, <1>3

\* No two things are known of where one stands.
LEMMA KnownIsOne ==
  ASSUME NEW c, NEW id \in RefIds, NEW k \in Nat, NEW s, NEW t,
         <<id, k, s>> \in KnownIf(c), <<id, k, t>> \in KnownIf(c)
  PROVE  s = t
  <1> DEFINE J == { f \in KnownIf(c) : \A u \in Standings : <<f[1], f[2], u>> \in KnownIf(c) => u = f[3] }
  <1>1. J \in SUBSET Facts /\ J \subseteq KnownIf(c)
    BY DEF KnownIf
  <1>2. ASSUME NEW i \in RefIds, NEW a \in Standings, StartsAt(c, i, a)
        PROVE  <<i, 0, a>> \in J
    <2>1. <<i, 0, a>> \in KnownIf(c)
      BY <1>2, KnownIsClosed DEF Closed
    <2>2. ASSUME NEW u \in Standings, <<i, 0, u>> \in KnownIf(c) PROVE u = a
      <3>1. PICK h \in KnownIf(c) : h = <<i, 0, u>>
        BY <2>2
      <3>2. h[1] = i /\ h[2] = 0 /\ h[3] = u /\ \A m \in Nat : h[2] # m + 1
        BY <3>1
      <3>3. FoundByStep(c, h)
        BY KnownBySteps
      <3>4. StartsAt(c, i, u)
        BY <3>2, <3>3 DEF FoundByStep
      <3> QED
        BY <1>2, <3>4, OneStart
    <2> QED
      BY <2>1, <2>2
  <1>3. ASSUME NEW i \in RefIds, NEW m \in Nat, NEW a \in Standings, NEW e \in Standings,
               m <= Len(i[2].path), <<i, m, a>> \in J, Via(J, i, m, a, e)
        PROVE  <<i, m + 1, Onward(i, m, e)>> \in J
    <2>1. <<i, m, a>> \in KnownIf(c) /\ Via(KnownIf(c), i, m, a, e)
      BY <1>3 DEF Via
    <2>2. <<i, m + 1, Onward(i, m, e)>> \in KnownIf(c)
      BY <1>3, <2>1, KnownIsClosed DEF Closed
    <2>3. ASSUME NEW u \in Standings, <<i, m + 1, u>> \in KnownIf(c) PROVE u = Onward(i, m, e)
      <3>1. PICK h \in KnownIf(c) : h = <<i, m + 1, u>>
        BY <2>3
      <3>2. h[1] = i /\ h[2] = m + 1 /\ h[3] = u /\ h[2] # 0 /\ \A n \in Nat : h[2] = n + 1 => n = m
        BY <3>1
      <3>3. FoundByStep(c, h)
        BY KnownBySteps
      <3>4. PICK b \in Standings, d \in Standings :
                 <<i, m, b>> \in KnownIf(c) /\ Via(KnownIf(c), i, m, b, d) /\ u = Onward(i, m, d)
        BY <3>2, <3>3 DEF FoundByStep
      <3>5. b = a
        BY <1>3, <3>4
      <3>6. d = e
        <4>1. CASE Waits(i, m, a)
          <5>1. <<RefId(a.at), Final(RefId(a.at)), e>> \in J
            BY <1>3, <4>1 DEF Via
          <5>2. <<RefId(a.at), Final(RefId(a.at)), d>> \in KnownIf(c)
            BY <3>4, <3>5, <4>1 DEF Via
          <5> QED
            BY <5>1, <5>2
        <4>2. CASE ~Waits(i, m, a)
          BY <1>3, <3>4, <3>5, <4>2 DEF Via
        <4> QED
          BY <4>1, <4>2
      <3> QED
        BY <3>4, <3>6
    <2> QED
      BY <2>2, <2>3
  <1>4. PICK f \in KnownIf(c) : f = <<id, k, s>>
    OBVIOUS
  <1>5. t \in Standings
    BY DEF KnownIf, Facts
  <1> HIDE DEF J
  <1>6. Closed(c, J)
    BY <1>2, <1>3 DEF Closed
  <1>7. f \in J
    BY <1>1, <1>6, KnownIsLeast
  <1> QED
    BY <1>4, <1>5, <1>7 DEF J

\* The more documents are in, the more can be found out.
LEMMA KnownMore ==
  ASSUME NEW c, NEW e, \A d \in Docs : c[d] \in {"loaded", "failed"} => e[d] = c[d]
  PROVE  KnownIf(c) \subseteq KnownIf(e)
  <1>1. ASSUME NEW id \in RefIds, NEW s, StartsAt(c, id, s) PROVE StartsAt(e, id, s)
    <2>1. id[2].uri \in Docs \cup {None} /\ id[1] \in Docs
      BY RefIdsAre
    <2> QED
      BY <1>1, <2>1 DEF StartsAt
  <1>2. ASSUME NEW J \in SUBSET Facts, Closed(e, J) PROVE Closed(c, J)
    BY <1>1, <1>2 DEF Closed
  <1> QED
    BY <1>2 DEF KnownIf

LEMMA KnownNow == Closed(cache, Known)
  BY KnownIsClosed DEF Known

\* What is known stays known while documents arrive.
LEMMA KnownGrows ==
  ASSUME ref' = ref, \A d \in Docs : cache[d] \in {"loaded", "failed"} => cache'[d] = cache[d]
  PROVE  Known \subseteq Known'
  <1>0. PICK now, later : now = cache /\ later = cache'
    OBVIOUS
  <1>1. KnownIf(now) \subseteq KnownIf(later)
    BY <1>0, KnownMore
  <1>2. \A p : RefId(p)' = RefId(p)
    BY DEF RefId, RefAt
  <1>3. \A id, k, s : Waits(id, k, s)' <=> Waits(id, k, s)
    BY DEF Waits
  <1>4. \A J, id, k, s, e : Via(J, id, k, s, e)' <=> Via(J, id, k, s, e)
    BY <1>2, <1>3 DEF Via
  <1>5. ASSUME NEW J \in SUBSET Facts, Closed(cache, J)' PROVE Closed(later, J)
    BY <1>0, <1>4, <1>5 DEF Closed
  <1> QED
    BY <1>0, <1>1, <1>5 DEF KnownIf, Known

\* What holds at a number and goes on one by one holds at each up to another.
LEMMA StepByStep ==
  ASSUME NEW a \in Nat, NEW b \in Nat, NEW S, a \in S,
         \A i \in Nat : a <= i /\ i < b /\ i \in S => i + 1 \in S
  PROVE  \A i \in a .. b : i \in S
  <1> SUFFICES ASSUME NEW z \in a .. b, z \notin S PROVE FALSE
    OBVIOUS
  <1> DEFINE left == { i \in a .. b : i \notin S }
             R    == OpToRel(<, Nat)
  <1>1. left \subseteq Nat /\ z \in left
    OBVIOUS
  <1>2. IsWellFoundedOn(R, Nat) /\ \A i, j \in Nat : j < i => <<j, i>> \in R
    BY NatLessThanWellFounded DEF OpToRel
  <1>3. PICK m \in left : \A j \in left : <<j, m>> \notin R
    <2> HIDE DEF left, R
    <2> QED
      BY <1>1, <1>2, WFMin
  <1>4. m \in a .. b /\ m \notin S /\ m # a
    BY <1>3
  <1>5. m - 1 \in a .. b /\ m - 1 \in Nat /\ m \in Nat /\ m - 1 < m /\ m - 1 < b /\ a <= m - 1 /\ (m - 1) + 1 = m
    BY <1>4
  <1>6. m - 1 \notin left
    BY <1>2, <1>3, <1>5
  <1>7. m - 1 \in S
    BY <1>5, <1>6
  <1> QED
    BY <1>4, <1>5, <1>7

\* Who stands at no place stays there to the end.
LEMMA NoPlaceIsFinal ==
  ASSUME NEW id \in RefIds, NEW k \in Nat, k <= Final(id), NEW s \in Standings, s.at = None,
         <<id, k, s>> \in Known
  PROVE  <<id, Final(id), s>> \in Known
  <1> DEFINE S == { i \in Nat : <<id, i, s>> \in Known }
             n == Len(id[2].path)
  <1>1. n \in Nat /\ Final(id) = n + 1 /\ Final(id) \in Nat
    BY RefIdsAre DEF Final
  <1>2. ASSUME NEW i \in Nat, k <= i, i < Final(id), i \in S PROVE i + 1 \in S
    <2>1. <<id, i, s>> \in Known /\ i <= n
      BY <1>1, <1>2
    <2>2. Via(Known, id, i, s, s) /\ Onward(id, i, s) = s
      BY DEF Via, Waits, Onward
    <2>3. <<id, i + 1, s>> \in Known
      BY <2>1, <2>2, KnownNow DEF Closed
    <2> QED
      BY <2>3
  <1>3. k \in S /\ Final(id) \in k .. Final(id)
    BY <1>1
  <1> HIDE DEF S
  <1>4. Final(id) \in S
    BY <1>1, <1>2, <1>3, StepByStep
  <1> QED
    BY <1>4 DEF S

------------------------------------------------------------------------------
(* The way along a pointer. *)

LEMMA JoinedOnce == \A u, v, w \in Seq(Segs) : (u \o v) \o w = u \o (v \o w)
  BY ConcatAssociative

LEMMA BelowSteps ==
  ASSUME NEW p \in Places, NEW path \in Seq(Segs)
  PROVE  /\ SubSeq(path, 1, 0) = <<>> /\ Below(p, SubSeq(path, 1, 0)) = p
         /\ \A j \in Nat : j < Len(path) =>
              Below(p, SubSeq(path, 1, j + 1)) = Child(Below(p, SubSeq(path, 1, j)), path[j + 1])
  <1>1. /\ p.node \in Nodes /\ p.node[2] \in Seq(Segs) /\ p.node = <<p.node[1], p.node[2]>>
    BY Documents DEF Places
  <1>2. SubSeq(path, 1, 0) = <<>>
    BY SubSeqEmpty
  <1>3. Below(p, <<>>) = p
    <2>1. p.node[2] \o <<>> = p.node[2]
      BY <1>1, ConcatEmptySeq
    <2>2. p = [via |-> p.via, node |-> p.node]
      BY DEF Places
    <2> QED
      BY <1>1, <2>1, <2>2 DEF Below
  <1>4. ASSUME NEW j \in Nat, j < Len(path)
        PROVE  Below(p, SubSeq(path, 1, j + 1)) = Child(Below(p, SubSeq(path, 1, j)), path[j + 1])
    <2> DEFINE a == SubSeq(path, 1, j)
               b == <<path[j + 1]>>
    <2>1. Len(path) \in Nat /\ 1 \in 1 .. Len(path) /\ j + 1 \in 1 .. Len(path) /\ (j + 1) - 1 = j
      BY <1>4
    <2>2. SubSeq(path, 1, j + 1) = a \o b
      BY <2>1, SubSeqRecursiveSecond
    <2>3. a \in Seq(Segs) /\ b \in Seq(Segs)
      BY <2>1
    <2> HIDE DEF a, b
    <2>4. (p.node[2] \o a) \o b = p.node[2] \o (a \o b)
      BY <1>1, <2>3, JoinedOnce, Zenon
    <2>5. /\ Below(p, a).node = <<p.node[1], p.node[2] \o a>>
          /\ [Below(p, a) EXCEPT !.node = <<p.node[1], p.node[2] \o (a \o b)>>]
               = [p EXCEPT !.node = <<p.node[1], p.node[2] \o (a \o b)>>]
      BY DEF Below, Places
    <2>6. Child(Below(p, a), path[j + 1]) = Below(p, a \o b)
      BY <2>4, <2>5 DEF Child, Below, b
    <2> QED
      BY <2>2, <2>6 DEF a
  <1> QED
    BY <1>2, <1>3, <1>4

\* Cut off behind a part of the second, two sequences are the first and that part.
LEMMA CutBehind ==
  ASSUME NEW S, NEW a \in Seq(S), NEW t \in Seq(S), NEW k \in 0 .. Len(t), NEW j \in 0 .. k
  PROVE  /\ Len(a \o SubSeq(t, 1, k)) = Len(a) + k
         /\ SubSeq(a \o SubSeq(t, 1, k), 1, Len(a) + j) = a \o SubSeq(t, 1, j)
  <1> DEFINE b == SubSeq(t, 1, k)
             d == SubSeq(t, 1, j)
             w == a \o b
             c == SubSeq(w, 1, Len(a) + j)
             m == Len(a)
  <1>1. Len(t) \in Nat /\ k \in Nat /\ j \in Nat /\ j <= k /\ k <= Len(t) /\ m \in Nat
    OBVIOUS
  <1>2. b \in Seq(S) /\ Len(b) = k /\ \A i \in 1 .. k : b[i] = t[i]
    BY <1>1
  <1>3. d \in Seq(S) /\ Len(d) = j /\ \A i \in 1 .. j : d[i] = t[i]
    BY <1>1
  <1> HIDE DEF b, d
  <1>4. /\ w \in Seq(S) /\ Len(w) = m + k
        /\ \A i \in 1 .. m + k : w[i] = IF i <= m THEN a[i] ELSE b[i - m]
    BY <1>2, ConcatProperties
  <1>5. /\ a \o d \in Seq(S) /\ Len(a \o d) = m + j
        /\ \A i \in 1 .. m + j : (a \o d)[i] = IF i <= m THEN a[i] ELSE d[i - m]
    BY <1>3, ConcatProperties
  <1> HIDE DEF w
  <1>6. c \in Seq(S) /\ Len(c) = m + j /\ \A i \in 1 .. m + j : c[i] = w[i]
    BY <1>1, <1>4
  <1> HIDE DEF c
  <1>7. ASSUME NEW i \in 1 .. m + j PROVE c[i] = (a \o d)[i]
    <2>1. i \in 1 .. m + k
      BY <1>1
    <2>2. i > m => i - m \in 1 .. j /\ i - m \in 1 .. k
      BY <1>1
    <2>3. i <= m \/ i > m
      BY <1>1
    <2> HIDE DEF m
    <2>4. i > m => b[i - m] = d[i - m]
      BY <1>2, <1>3, <2>2
    <2> QED
      BY <1>4, <1>5, <1>6, <2>1, <2>3, <2>4
  <1>8. c = a \o d
    BY <1>5, <1>6, <1>7, SeqEqual
  <1> QED
    BY <1>4, <1>8 DEF w, b, c, d

\* What is on the way to a node is a node.
LEMMA WayIsThere ==
  ASSUME NEW p \in Places, NEW path \in Seq(Segs), NEW k \in 0 .. Len(path),
         Below(p, SubSeq(path, 1, k)).node \in Nodes, NEW j \in 0 .. k
  PROVE  Below(p, SubSeq(path, 1, j)) \in Places
  <1> DEFINE a == p.node[2]
             b == SubSeq(path, 1, k)
             n == <<p.node[1], a \o b>>
  <1>1. p.node \in Nodes /\ a \in Seq(Segs) /\ Len(a) \in Nat
    BY Documents DEF Places
  <1>2. k \in Nat /\ j \in Nat /\ j <= k
    OBVIOUS
  <1>3. n \in Nodes
    BY DEF Below, Places
  <1>4. Len(a \o b) = Len(a) + k /\ SubSeq(a \o b, 1, Len(a) + j) = a \o SubSeq(path, 1, j)
    <2> HIDE DEF a
    <2> QED
      BY <1>1, CutBehind
  <1>6. <<p.node[1], SubSeq(a \o b, 1, Len(a) + j)>> \in Nodes
    <2>0. n[1] = p.node[1] /\ n[2] = a \o b
      OBVIOUS
    <2>1. n[1] = p.node[1] /\ n[2] = a \o b /\ Len(a) + j \in 0 .. Len(n[2])
      <3> HIDE DEF n, a, b
      <3> QED
        BY <1>1, <1>2, <1>4, <2>0
    <2> HIDE DEF n
    <2>2. <<n[1], SubSeq(n[2], 1, Len(a) + j)>> \in Nodes
      BY <1>3, <2>1, Documents
    <2> QED
      BY <2>1, <2>2
  <1>7. Below(p, SubSeq(path, 1, j)).node \in Nodes
    BY <1>4, <1>6 DEF Below, Places
  <1> QED
    BY <1>7, BelowType

\* From a place on the way the loop over the segments comes to each node on it.
LEMMA WayIsKnown ==
  ASSUME NEW id \in RefIds, NEW i \in Nat, i <= Len(id[2].path), NEW p \in Places,
         NEW path, path = SubSeq(id[2].path, i + 1, Len(id[2].path)), <<id, i, Stand(TRUE, p)>> \in Known,
         NEW k \in 0 .. Len(path), Below(p, SubSeq(path, 1, k)).node \in Nodes
  PROVE  /\ Below(p, SubSeq(path, 1, k)) \in Places
         /\ <<id, i + k, Stand(TRUE, Below(p, SubSeq(path, 1, k)))>> \in Known
  <1> DEFINE here(j) == Below(p, SubSeq(path, 1, j))
             S == { j \in Nat : <<id, i + j, Stand(TRUE, here(j))>> \in Known }
             n == Len(id[2].path)
  <1>1. /\ n \in Nat /\ id[2].path \in Seq(Segs)
    BY RefIdsAre
  <1>2. /\ path \in Seq(Segs) /\ Len(path) = n - i /\ Len(path) \in Nat
        /\ \A j \in 1 .. n - i : path[j] = id[2].path[i + j]
    BY <1>1
  <1>3. \A j \in 0 .. k : here(j) \in Places
    BY <1>2, WayIsThere
  <1>4. here(0) = p /\ \A j \in Nat : j < Len(path) => here(j + 1) = Child(here(j), path[j + 1])
    BY <1>2, BelowSteps
  <1> HIDE DEF here
  <1>9. \A j \in Nat : j \in S <=> <<id, i + j, Stand(TRUE, here(j))>> \in Known
    OBVIOUS
  <1> HIDE DEF S
  <1>5. 0 \in S
    <2>1. i + 0 = i /\ 0 \in Nat
      OBVIOUS
    <2>2. <<id, i + 0, Stand(TRUE, here(0))>> \in Known
      BY <1>4, <2>1
    <2> QED
      BY <1>9, <2>1, <2>2
  <1>6. ASSUME NEW j \in Nat, 0 <= j, j < k, j \in S PROVE j + 1 \in S
    <2>1. /\ j \in 0 .. k /\ j + 1 \in 0 .. k /\ j + 1 \in 1 .. n - i /\ i + j \in Nat /\ i + j < n
          /\ i + j <= n /\ i + j # n /\ (i + j) + 1 = i + (j + 1) /\ j < Len(path)
      <3>1. k \in Nat /\ k <= Len(path) /\ Len(path) = n - i /\ n \in Nat /\ Len(path) \in Nat
        BY <1>1, <1>2
      <3>2. j < Len(path) /\ i + j < n
        <4> HIDE DEF n
        <4> QED
          BY <1>6, <3>1
      <3> HIDE DEF n
      <3> QED
        BY <1>6, <3>1, <3>2
    <2>2. here(j) \in Places /\ here(j + 1) \in Places
      BY <1>3, <2>1
    <2>3. path[j + 1] = id[2].path[(i + j) + 1]
      BY <1>2, <2>1
    <2>4. Child(here(j), id[2].path[(i + j) + 1]) = here(j + 1)
      BY <1>4, <2>1, <2>3
    <2>5. here(j + 1).node \in Nodes
      BY <2>2 DEF Places
    <2> DEFINE s == Stand(TRUE, here(j))
    <2>6. s \in Standings /\ s.at = here(j) /\ s.at # None
      BY <2>2, StandType, NoneIsNothing
    <2>7. <<id, i + j, s>> \in Known
      BY <1>6, <1>9
    <2> HIDE DEF s
    <2>8. ~Waits(id, i + j, s)
      BY <2>1, <2>4, <2>5, <2>6 DEF Waits
    <2>9. Onward(id, i + j, s) = Stand(TRUE, here(j + 1))
      BY <2>1, <2>4, <2>5, <2>6 DEF Onward
    <2>10. <<id, (i + j) + 1, Onward(id, i + j, s)>> \in Known
      BY <2>1, <2>6, <2>7, <2>8, KnownNow DEF Closed, Via
    <2>11. <<id, i + (j + 1), Stand(TRUE, here(j + 1))>> \in Known
      BY <2>1, <2>9, <2>10
    <2>12. j + 1 \in Nat
      OBVIOUS
    <2> QED
      BY <1>9, <2>11, <2>12, Zenon
  <1>7. k \in Nat /\ k \in 0 .. k /\ 0 \in Nat
    BY <1>2
  <1>8. k \in S
    BY <1>5, <1>6, <1>7, StepByStep
  <1> QED
    BY <1>3, <1>7, <1>8, <1>9 DEF here

------------------------------------------------------------------------------
(* The calls of a task and what is known. *)

\* What an entry says is known, and only an entry without a place is shared.
Tells(id, e) == <<id, Final(id), Stand(e.resolved, e.at)>> \in Known
Owned(e) == e.by # None => e.at = None
Told(id, e) == Tells(id, e) /\ Owned(e)

\* A call awaits the $ref at which it stands: at the end of its pointer, or
\* where the rest of it goes on only below what the $ref denotes.
Awaits(f, place) ==
  LET id == RefId(f.ref)
      n  == Len(id[2].path)
  IN \/ f.stage = "tail" /\ <<id, n, Stand(TRUE, place)>> \in Known
     \/ /\ f.stage = "inner"
        /\ \E k \in 0 .. n - 1 :
             /\ f.rest = SubSeq(id[2].path, k + 1, n)
             /\ <<id, k, Stand(TRUE, place)>> \in Known
             /\ Waits(id, k, Stand(TRUE, place))

\* A call reads what it may, and none looks for a name.
Reads(f) ==
  /\ f.stage # "tick"
  /\ f.stage = "load" => IsRemote(f.ref) /\ ~Forbidden(DocOf(f.ref), TargetDoc(f.ref))

Chained(s) == \A i \in 1 .. Len(s) - 1 : Awaits(s[i], s[i + 1].ref)

ToldTask(x) ==
  /\ Chained(stack[x])
  /\ status[x] = "running" => stack[x][1].ref = x[2] /\ Reads(Top(x))
  /\ InStage(x, "returned") => Told(RefId(Top(x).ref), ret[x]) /\ map[RefId(Top(x).ref)] # None
  /\ status[x] = "settled" => Told(RefId(x[2]), ret[x]) /\ map[RefId(x[2])] # None

ToldMap == \A id \in RefIds : map[id] # None => Told(id, map[id])

ToldInv == ToldMap /\ \A x \in Ids : ToldTask(x)

\* A task moves inside its calls, and what it notes is told.
ToldMoves(x) ==
  /\ \E s \in Seq(Frames), r \in Entries \cup {None} :
       /\ s # <<>> /\ Chained(s) /\ s[1].ref = x[2] /\ Reads(s[Len(s)])
       /\ s[Len(s)].stage = "returned" =>
            Told(RefId(s[Len(s)].ref), r) /\ map'[RefId(s[Len(s)].ref)] # None
       /\ stack' = [ stack EXCEPT ![x] = s ]
       /\ ret'   = [ ret EXCEPT ![x] = r ]
  /\ \/ map' = map
     \/ \E id \in RefIds, e \in Entries : map' = [ map EXCEPT ![id] = e ] /\ Told(id, e)

\* The calls below are chained to the call itself.
ToldCalling(x, under, frame) ==
  /\ under \in Seq(Frames) /\ frame \in Frames /\ Chained(under)
  /\ under # <<>> => Awaits(under[Len(under)], frame.ref)
  /\ (IF under = <<>> THEN frame.ref ELSE under[1].ref) = x[2]
  /\ frame.ref \in Places /\ RefAt(frame.ref) # None

LEMMA ToldAppend ==
  ASSUME NEW x, NEW under, NEW frame, ToldCalling(x, under, frame), NEW f \in Frames, f.ref = frame.ref
  PROVE  /\ Append(under, f) \in Seq(Frames) /\ Append(under, f) # <<>>
         /\ Append(under, f)[Len(Append(under, f))] = f
         /\ Chained(Append(under, f)) /\ Append(under, f)[1].ref = x[2]
  <1> DEFINE s == Append(under, f)
             n == Len(under)
  <1>1. /\ s \in Seq(Frames) /\ Len(s) = n + 1 /\ n \in Nat /\ s # <<>>
        /\ \A i \in 1 .. n : s[i] = under[i]
        /\ s[n + 1] = f /\ (under # <<>> => n >= 1) /\ (under = <<>> => n = 0)
    <2>1. under \in Seq(Frames)
      BY DEF ToldCalling
    <2>2. n \in Nat /\ (under # <<>> => n >= 1) /\ (under = <<>> => n = 0)
      BY <2>1
    <2>3. s \in Seq(Frames) /\ Len(s) = n + 1 /\ s[n + 1] = f /\ \A i \in 1 .. n : s[i] = under[i]
      BY <2>1, AppendProperties
    <2>4. s # <<>>
      BY <2>2, <2>3
    <2> QED
      BY <2>2, <2>3, <2>4
  <1> HIDE DEF s
  <1>2. ASSUME NEW i \in 1 .. Len(s) - 1 PROVE Awaits(s[i], s[i + 1].ref)
    <2>1. i \in 1 .. n /\ s[i] = under[i] /\ under # <<>>
      BY <1>1
    <2>2. CASE i = n
      BY <1>1, <2>1, <2>2 DEF ToldCalling
    <2>3. CASE i # n
      <3>1. i \in 1 .. n - 1 /\ i + 1 \in 1 .. n
        BY <1>1, <2>1, <2>3
      <3>2. s[i + 1] = under[i + 1]
        BY <1>1, <3>1
      <3> QED
        BY <2>1, <3>1, <3>2 DEF ToldCalling, Chained
    <2> QED
      BY <2>2, <2>3
  <1>3. s[1].ref = x[2]
    <2>1. CASE under = <<>>
      BY <1>1, <2>1 DEF ToldCalling
    <2>2. CASE under # <<>>
      <3>1. 1 \in 1 .. n
        BY <1>1, <2>2
      <3> QED
        BY <1>1, <2>2, <3>1 DEF ToldCalling
    <2> QED
      BY <2>1, <2>2
  <1> QED
    BY <1>1, <1>2, <1>3 DEF Chained, s

LEMMA ToldWait ==
  ASSUME IInv, NEW x \in Ids, NEW under, NEW frame, ToldCalling(x, under, frame),
         NEW f \in Frames, f.ref = frame.ref, f.stage # "returned", Reads(f),
         Wait(x, under, f), UNCHANGED <<map, ret>>
  PROVE  ToldMoves(x)
  <1>1. /\ Append(under, f) \in Seq(Frames) /\ Append(under, f) # <<>>
        /\ Append(under, f)[Len(Append(under, f))] = f
        /\ Chained(Append(under, f)) /\ Append(under, f)[1].ref = x[2]
    BY ToldAppend
  <1>2. /\ stack' = [ stack EXCEPT ![x] = Append(under, f) ] /\ ret' = [ ret EXCEPT ![x] = ret[x] ]
        /\ ret[x] \in Entries \cup {None} /\ map' = map
    BY DEF Wait, IInv, TypeOK
  <1> QED
    BY <1>1, <1>2 DEF ToldMoves

LEMMA ToldNest ==
  ASSUME IInv, NEW x \in Ids, NEW under, NEW frame, ToldCalling(x, under, frame),
         NEW f \in Frames, f.ref = frame.ref, NEW place \in Places, RefAt(place) # None,
         Awaits(f, place), Nest(x, under, f, place), UNCHANGED <<map, ret>>
  PROVE  ToldMoves(x)
  <1> DEFINE s1 == Append(under, f)
             s2 == Append(s1, Call(place))
  <1>1. /\ s1 \in Seq(Frames) /\ s1 # <<>> /\ s1[Len(s1)] = f /\ Chained(s1) /\ s1[1].ref = x[2]
    BY ToldAppend
  <1>2. Call(place) \in Frames /\ Call(place).ref = place /\ Call(place).stage = "enter"
    BY CallType
  <1>3. under \o <<f, Call(place)>> = s2
    BY <1>2 DEF ToldCalling
  <1> HIDE DEF s1
  <1>4. ToldCalling(x, s1, Call(place))
    BY <1>1, <1>2 DEF ToldCalling
  <1>5. /\ s2 \in Seq(Frames) /\ s2 # <<>> /\ s2[Len(s2)] = Call(place) /\ Chained(s2) /\ s2[1].ref = x[2]
    BY <1>2, <1>4, ToldAppend
  <1>6. /\ stack' = [ stack EXCEPT ![x] = s2 ] /\ ret' = [ ret EXCEPT ![x] = ret[x] ]
        /\ ret[x] \in Entries \cup {None} /\ map' = map
    BY <1>3 DEF Nest, IInv, TypeOK
  <1> HIDE DEF s2
  <1> QED
    BY <1>2, <1>5, <1>6 DEF ToldMoves, Reads

LEMMA ToldReturn ==
  ASSUME IInv, NEW x \in Ids, NEW under, NEW frame, ToldCalling(x, under, frame),
         NEW entry \in Entries, Told(RefId(frame.ref), entry), Return(x, under, frame, map, entry)
  PROVE  ToldMoves(x)
  <1> DEFINE f == At(frame, "returned", <<>>)
             s == Append(under, f)
             id == RefId(frame.ref)
  <1>1. f \in Frames /\ f.ref = frame.ref /\ f.stage = "returned"
    <2>1. <<>> \in Seq(Segs) /\ "returned" \in Stages /\ frame \in Frames
      BY DEF Stages, ToldCalling
    <2> QED
      BY <2>1 DEF At, Frames
  <1>2. /\ stack' = [ stack EXCEPT ![x] = s ] /\ ret' = [ ret EXCEPT ![x] = entry ]
        /\ map' = [ map EXCEPT ![id] = entry ]
    BY DEF Return, Wait
  <1> HIDE DEF f
  <1>3. s \in Seq(Frames) /\ s # <<>> /\ s[Len(s)] = f /\ Chained(s) /\ s[1].ref = x[2]
    BY <1>1, ToldAppend
  <1>4. id \in RefIds
    BY RefAtType DEF ToldCalling, IInv, TypeOK
  <1>5. map'[id] # None
    BY <1>2, <1>4, NoneIsNoEntry DEF IInv, TypeOK
  <1> HIDE DEF s
  <1>6. Told(RefId(s[Len(s)].ref), entry) /\ map'[RefId(s[Len(s)].ref)] # None
    BY <1>1, <1>3, <1>5
  <1> QED
    BY <1>1, <1>2, <1>3, <1>4, <1>6 DEF ToldMoves, Reads

\* What is left of a sequence behind its first i elements.
IsRest(S, full, n, i, path) ==
  /\ path \in Seq(S) /\ Len(path) = n - i /\ Len(path) \in Nat
  /\ \A k \in 0 .. Len(path) :
       /\ k \in Nat /\ i + k \in Nat /\ i + k <= n /\ (k = Len(path) <=> i + k = n)
       /\ (k < Len(path) <=> i + k < n)
       /\ k < Len(path) => path[k + 1] = full[(i + k) + 1] /\ i + k \in 0 .. n - 1 /\ i + k # n
       /\ SubSeq(path, k + 1, Len(path)) = SubSeq(full, (i + k) + 1, n)
       /\ SubSeq(path, k + 1, Len(path)) \in Seq(S)

LEMMA RestOf ==
  ASSUME NEW S, NEW full \in Seq(S), NEW n \in Nat, n = Len(full), NEW i \in Nat, i <= n,
         NEW path, path = SubSeq(full, i + 1, n)
  PROVE  IsRest(S, full, n, i, path)
  <1>1. /\ path \in Seq(S) /\ Len(path) = n - i /\ Len(path) \in Nat
        /\ \A j \in 1 .. n - i : path[j] = full[i + j]
    OBVIOUS
  <1>2. ASSUME NEW k \in 0 .. Len(path)
        PROVE  /\ k \in Nat /\ i + k \in Nat /\ i + k <= n /\ (k = Len(path) <=> i + k = n)
               /\ (k < Len(path) <=> i + k < n)
               /\ k < Len(path) => path[k + 1] = full[(i + k) + 1] /\ i + k \in 0 .. n - 1 /\ i + k # n
    <2>1. /\ k \in Nat /\ i + k \in Nat /\ i + k <= n /\ (k = Len(path) <=> i + k = n)
          /\ (k < Len(path) <=> i + k < n) /\ (k < Len(path) => k + 1 \in 1 .. n - i)
          /\ i + (k + 1) = (i + k) + 1
      BY <1>1
    <2>2. k < Len(path) => path[k + 1] = full[(i + k) + 1]
      BY <1>1, <2>1
    <2>3. k < Len(path) => i + k \in 0 .. n - 1 /\ i + k # n
      <3>1. \A z \in Nat : z < n => z \in 0 .. n - 1 /\ z # n
        OBVIOUS
      <3> QED
        BY <2>1, <3>1, Zenon
    <2> QED
      BY <2>1, <2>2, <2>3, Zenon
  <1>3. ASSUME NEW k \in 0 .. Len(path)
        PROVE  /\ SubSeq(path, k + 1, Len(path)) = SubSeq(full, (i + k) + 1, n)
               /\ SubSeq(path, k + 1, Len(path)) \in Seq(S)
    <2> DEFINE m == Len(path) - k
               a == SubSeq(full, (i + k) + 1, n)
               b == SubSeq(path, k + 1, Len(path))
    <2>1. /\ k \in Nat /\ m \in Nat /\ m = n - (i + k) /\ i + k \in Nat
          /\ \A j \in 1 .. m : k + j \in 1 .. n - i /\ i + (k + j) = (i + k) + j
      BY <1>1
    <2>2. b \in Seq(S) /\ Len(b) = m /\ \A j \in 1 .. m : b[j] = path[k + j]
      BY <1>1
    <2>3. a \in Seq(S) /\ Len(a) = m /\ \A j \in 1 .. m : a[j] = full[(i + k) + j]
      BY <2>1
    <2> HIDE DEF a, b, m
    <2>4. \A j \in 1 .. m : a[j] = b[j]
      BY <1>1, <2>1, <2>2, <2>3
    <2>5. a = b
      BY <2>2, <2>3, <2>4, SeqEqual
    <2> QED
      BY <2>2, <2>5 DEF a, b
  <1> QED
    BY <1>1, <1>2, <1>3 DEF IsRest

\* The loop over the segments, from a place on the way of the call's pointer.
LEMMA ToldTraverse ==
  ASSUME IInv, NEW x \in Ids, NEW under, NEW frame, ToldCalling(x, under, frame),
         NEW i \in Nat, i <= Len(RefId(frame.ref)[2].path), NEW place \in Places, NEW path,
         path = SubSeq(RefId(frame.ref)[2].path, i + 1, Len(RefId(frame.ref)[2].path)),
         <<RefId(frame.ref), i, Stand(TRUE, place)>> \in Known,
         Traverse(x, under, frame, None, place, path)
  PROVE  ToldMoves(x)
  <1> DEFINE here(k) == Below(place, SubSeq(path, 1, k))
             rest(k) == SubSeq(path, k + 1, Len(path))
  <1>1. PICK k \in 0 .. Len(path) :
          /\ here(k).node \in Nodes
          /\ k < Len(path) => here(k + 1).node \notin Nodes
          /\ \/ k = Len(path) /\ Finish(x, under, frame, None, here(k))
             \/ /\ k < Len(path) /\ RefAt(here(k)) # None
                /\ Nest(x, under, At(frame, "inner", rest(k)), here(k))
                /\ UNCHANGED <<map, ret>>
             \/ /\ k < Len(path) /\ RefAt(here(k)) = None
                /\ Return(x, under, frame, Write(None, None), Entry(TRUE, None, <<>>, None))
    BY DEF Traverse
  <1>2. PICK id \in RefIds : id = RefId(frame.ref)
    BY RefAtType DEF ToldCalling, IInv, TypeOK
  <1>3. PICK full \in Seq(Segs) : full = id[2].path
    BY RefIdsAre
  <1>4. PICK n \in Nat : n = Len(full)
    BY <1>3
  <1>5. IsRest(Segs, full, n, i, path) /\ path = SubSeq(full, i + 1, n)
    <2>1. path = SubSeq(full, i + 1, n) /\ i <= n
      BY <1>2, <1>3, <1>4
    <2> QED
      BY <1>4, <2>1, RestOf
  <1>6. /\ k \in Nat /\ i + k \in Nat /\ i + k <= n /\ (k = Len(path) <=> i + k = n)
        /\ (k < Len(path) <=> i + k < n)
        /\ k < Len(path) => path[k + 1] = full[(i + k) + 1] /\ i + k \in 0 .. n - 1 /\ i + k # n
        /\ SubSeq(path, k + 1, Len(path)) = SubSeq(full, (i + k) + 1, n)
        /\ SubSeq(path, k + 1, Len(path)) \in Seq(Segs)
        /\ Final(id) = n + 1
    <2>1. Final(id) = n + 1
      BY <1>3, <1>4 DEF Final
    <2> HIDE DEF here, rest
    <2> QED
      BY <1>5, <2>1, Zenon DEF IsRest
  <1>7. PICK p \in Places : p = here(k)
    <2>1. /\ here(k) \in Places /\ <<id, i + k, Stand(TRUE, here(k))>> \in Known
      BY <1>1, <1>2, <1>3, <1>4, <1>5, WayIsKnown
    <2> QED
      BY <2>1
  <1>8. <<id, i + k, Stand(TRUE, p)>> \in Known
    BY <1>1, <1>2, <1>3, <1>4, <1>5, <1>7, WayIsKnown
  <1>9. k < Len(path) => here(k + 1) = Child(p, full[(i + k) + 1])
    <2>1. \A m \in Nat : m < Len(path) => here(m + 1) = Child(here(m), path[m + 1])
      BY <1>5, BelowSteps DEF IsRest
    <2> HIDE DEF here
    <2> QED
      BY <1>6, <1>7, <2>1, Zenon
  <1>10. PICK s \in Standings : s = Stand(TRUE, p) /\ s.at = p /\ s.at # None
    BY StandType, NoneIsNothing
  <1>11. Write(None, p) = map /\ Write(None, None) = map
    BY DEF Write
  <1> HIDE DEF here, rest
  <1>12. frame \in Frames /\ <<>> \in Seq(Segs) /\ {"tail", "inner"} \subseteq Stages
    BY DEF ToldCalling, Stages
  <1>13. CASE k = Len(path) /\ Finish(x, under, frame, None, p)
    <2>1. CASE RefAt(p) # None
      <3> DEFINE f == At(frame, "tail", <<>>)
      <3>1. Nest(x, under, f, p) /\ UNCHANGED <<map, ret>>
        BY <1>11, <1>13, <2>1 DEF Finish
      <3>2. f \in Frames /\ f.ref = frame.ref /\ f.stage = "tail"
        BY <1>12 DEF At, Frames
      <3>3. <<id, n, Stand(TRUE, p)>> \in Known
        BY <1>6, <1>8, <1>13
      <3> HIDE DEF f
      <3>4. Awaits(f, p)
        BY <1>2, <1>3, <1>4, <3>2, <3>3 DEF Awaits
      <3> QED
        BY <2>1, <3>1, <3>2, <3>4, ToldNest
    <2>2. CASE RefAt(p) = None
      <3>1. Return(x, under, frame, map, Entry(TRUE, p, <<>>, None))
        BY <1>11, <1>13, <2>2 DEF Finish
      <3>2. Entry(TRUE, p, <<>>, None) \in Entries
        BY LeafType
      <3>3. /\ Onward(id, n, s) = s /\ ~Waits(id, n, s)
        BY <1>3, <1>4, <1>10, <2>2 DEF Onward, Waits, RefAt
      <3>4. <<id, n + 1, s>> \in Known
        <4>1. <<id, n, s>> \in Known /\ n <= Len(id[2].path)
          BY <1>3, <1>4, <1>6, <1>8, <1>10, <1>13
        <4> QED
          BY <3>3, <4>1, KnownNow DEF Closed, Via
      <3>5. Told(id, Entry(TRUE, p, <<>>, None))
        BY <1>6, <1>10, <3>4 DEF Told, Tells, Owned, Entry
      <3> QED
        BY <1>2, <3>1, <3>2, <3>5, ToldReturn
    <2> QED
      BY <2>1, <2>2
  <1>14. CASE /\ k < Len(path) /\ RefAt(p) # None
              /\ Nest(x, under, At(frame, "inner", rest(k)), p)
              /\ UNCHANGED <<map, ret>>
    <2>1. rest(k) = SubSeq(full, (i + k) + 1, n) /\ rest(k) \in Seq(Segs)
      BY <1>6 DEF rest
    <2> DEFINE f == At(frame, "inner", rest(k))
    <2>2. f \in Frames /\ f.ref = frame.ref /\ f.stage = "inner" /\ f.rest = rest(k)
      BY <1>12, <2>1 DEF At, Frames
    <2>3. Waits(id, i + k, s)
      <3>1. Child(p, full[(i + k) + 1]).node \notin Nodes
        BY <1>1, <1>9, <1>14
      <3> QED
        BY <1>3, <1>10, <1>14, <3>1 DEF Waits, RefAt
    <2>4. i + k \in 0 .. n - 1
      BY <1>6, <1>14
    <2>5. Nest(x, under, f, p) /\ UNCHANGED <<map, ret>>
      BY <1>14
    <2> HIDE DEF f
    <2>6. Awaits(f, p)
      BY <1>2, <1>3, <1>4, <1>8, <1>10, <2>1, <2>2, <2>3, <2>4 DEF Awaits
    <2> QED
      BY <1>14, <2>2, <2>5, <2>6, ToldNest
  <1>15. CASE /\ k < Len(path) /\ RefAt(p) = None
              /\ Return(x, under, frame, Write(None, None), Entry(TRUE, None, <<>>, None))
    <2>1. Entry(TRUE, None, <<>>, None) \in Entries
      BY LeafType
    <2>2. ~Waits(id, i + k, s)
      BY <1>10, <1>15 DEF Waits, RefAt
    <2>3. Onward(id, i + k, s) = Stand(TRUE, None)
      <3>1. Child(p, full[(i + k) + 1]).node \notin Nodes
        BY <1>1, <1>9, <1>15
      <3>2. i + k # n
        BY <1>6, <1>15
      <3> QED
        BY <1>3, <1>4, <1>10, <3>1, <3>2 DEF Onward
    <2>4. <<id, (i + k) + 1, Stand(TRUE, None)>> \in Known
      BY <1>3, <1>4, <1>6, <1>8, <1>10, <2>2, <2>3, KnownNow DEF Closed, Via
    <2>5. (i + k) + 1 <= Final(id) /\ (i + k) + 1 \in Nat
      <3>1. \A a, b \in Nat : a <= b => a + 1 <= b + 1 /\ a + 1 \in Nat
        OBVIOUS
      <3> QED
        BY <1>4, <1>6, <3>1, Zenon
    <2>6. Stand(TRUE, None) \in Standings /\ Stand(TRUE, None).at = None
      BY <1>7, StandType
    <2>7. <<id, Final(id), Stand(TRUE, None)>> \in Known
      BY <2>4, <2>5, <2>6, NoPlaceIsFinal
    <2>8. Told(id, Entry(TRUE, None, <<>>, None))
      BY <2>7 DEF Told, Tells, Owned, Entry
    <2> QED
      BY <1>2, <1>11, <1>15, <2>1, <2>8, ToldReturn
  <1> QED
    BY <1>1, <1>7, <1>13, <1>14, <1>15 DEF here, rest

LEMMA ToldFront ==
  ASSUME NEW x, NEW s \in Seq(Frames), s # <<>>, Chained(s), s[1].ref = x[2],
         GoodStack(s)
  PROVE  /\ ToldCalling(x, Front(s), Last(s)) /\ Last(s) = s[Len(s)]
         /\ Len(s) > 1 => /\ Front(s) # <<>> /\ Front(s)[1].ref = x[2]
                          /\ Last(Front(s)) = s[Len(s) - 1] /\ Awaits(s[Len(s) - 1], Last(s).ref)
  <1> DEFINE u == Front(s)
             n == Len(s)
  <1>1. /\ u \in Seq(Frames) /\ Len(u) = n - 1 /\ Last(s) \in Frames /\ Last(s) = s[n]
        /\ ref[Last(s).ref.node] # None
        /\ \A i \in 1 .. n - 1 : u[i] = s[i]
    BY FrontType
  <1>2. n \in Nat /\ n >= 1 /\ (u # <<>> <=> n > 1)
    BY <1>1
  <1> HIDE DEF u
  <1>3. Chained(u)
    <2>1. ASSUME NEW i \in 1 .. Len(u) - 1 PROVE Awaits(u[i], u[i + 1].ref)
      <3>1. i \in 1 .. n - 1 /\ i + 1 \in 1 .. n - 1
        BY <1>1, <1>2
      <3> QED
        BY <1>1, <3>1 DEF Chained
    <2> QED
      BY <2>1 DEF Chained
  <1>4. ASSUME n > 1 PROVE u[Len(u)] = s[n - 1] /\ Awaits(s[n - 1], Last(s).ref) /\ u[1] = s[1]
    <2>1. n - 1 \in 1 .. n - 1 /\ 1 \in 1 .. n - 1 /\ (n - 1) + 1 = n
      BY <1>2, <1>4
    <2>2. Awaits(s[n - 1], s[(n - 1) + 1].ref)
      BY <2>1 DEF Chained
    <2> QED
      BY <1>1, <2>1, <2>2
  <1>5. Last(s).ref \in Places /\ RefAt(Last(s).ref) # None
    BY <1>1 DEF Frames, RefAt
  <1>6. ~(n > 1) => n = 1
    <2>1. \A m \in Nat : m >= 1 => m > 1 \/ m = 1
      OBVIOUS
    <2> QED
      BY <1>2, <2>1, Zenon
  <1>7. ToldCalling(x, u, Last(s))
    BY <1>1, <1>2, <1>3, <1>4, <1>5, <1>6 DEF ToldCalling
  <1>8. Last(u) = u[Len(u)]
    BY DEF Last
  <1> QED
    BY <1>1, <1>2, <1>4, <1>7, <1>8 DEF u

\* A running task, the calls it is in, and the call it goes back to.
LEMMA ToldRunning ==
  ASSUME IInv, NEW x \in Ids, ToldTask(x), status[x] = "running"
  PROVE  /\ ToldCalling(x, Under(x), Top(x))
         /\ Len(stack[x]) > 1 => ToldCalling(x, Front(Under(x)), Caller(x)) /\ Awaits(Caller(x), Top(x).ref)
  <1>1. /\ stack[x] \in Seq(Frames) /\ stack[x] # <<>> /\ GoodStack(stack[x])
        /\ Chained(stack[x]) /\ stack[x][1].ref = x[2]
    BY Running DEF ToldTask
  <1>2. /\ ToldCalling(x, Under(x), Top(x))
        /\ Len(stack[x]) > 1 =>
              /\ Under(x) # <<>> /\ Under(x)[1].ref = x[2]
              /\ Last(Under(x)) = Caller(x) /\ Awaits(Caller(x), Top(x).ref)
    BY <1>1, ToldFront DEF Under, Top, Caller
  <1>3. Under(x) \in Seq(Frames) /\ Chained(Under(x)) /\ GoodStack(Under(x))
    <2>1. Calling(Under(x), Top(x), None)
      BY Running
    <2> QED
      BY <1>2, <2>1 DEF ToldCalling, Calling
  <1>4. ASSUME Len(stack[x]) > 1 PROVE ToldCalling(x, Front(Under(x)), Caller(x))
    BY <1>2, <1>3, <1>4, ToldFront
  <1> QED
    BY <1>2, <1>4

------------------------------------------------------------------------------
(* Each step of a task tells what is known. *)

NoNames == Anchors = {}

\* A step of a task; it changes the state of no document that is in.
ToldStep(x) ==
  /\ ToldMoves(x) /\ status[x] = "running" /\ ref' = ref /\ status' = status
  /\ \A d \in Docs : cache[d] \in {"loaded", "failed"} => cache'[d] = cache[d]

LEMMA TopIs ==
  ASSUME IInv, NEW x \in Ids, ToldTask(x), status[x] = "running", NoNames
  PROVE  \E id \in RefIds :
            /\ id = RefId(Top(x).ref) /\ id[1] = DocOf(Top(x).ref) /\ id[2] = RefAt(Top(x).ref)
            /\ id[2].anchor = None /\ TargetDoc(Top(x).ref) \in Docs
            /\ ToldCalling(x, Under(x), Top(x)) /\ id[1] \in Docs /\ Top(x) \in Frames
            /\ id[2].path = SubSeq(id[2].path, 0 + 1, Len(id[2].path)) /\ 0 <= Len(id[2].path)
            /\ IsRemote(Top(x).ref) <=> id[2].uri \notin {None, id[1]}
            /\ IsRemote(Top(x).ref) => TargetDoc(Top(x).ref) = id[2].uri
  <1>1. ToldCalling(x, Under(x), Top(x))
    BY ToldRunning
  <1>2. PICK p \in Places : p = Top(x).ref /\ RefAt(p) # None
    BY <1>1 DEF ToldCalling
  <1>3. PICK id \in RefIds : id = RefId(p) /\ RefAt(p).anchor \in Anchors \cup {None} /\ TargetDoc(p) \in Docs
    BY <1>2, RefAtType DEF IInv, TypeOK
  <1>4. id[1] = DocOf(p) /\ id[2] = RefAt(p)
    BY <1>3 DEF RefId
  <1>5. id[1] \in Docs /\ id[2].path \in Seq(Segs) /\ Len(id[2].path) \in Nat
    BY RefIdsAre
  <1>6. id[2].path = SubSeq(id[2].path, 0 + 1, Len(id[2].path))
    BY <1>5, SubSeqFull
  <1>7. Top(x) \in Frames
    BY <1>1 DEF ToldCalling
  <1>8. IsRemote(p) <=> id[2].uri \notin {None, id[1]}
    BY <1>4 DEF IsRemote
  <1>9. IsRemote(p) => TargetDoc(p) = id[2].uri
    BY <1>4 DEF TargetDoc
  <1> QED
    BY <1>1, <1>2, <1>3, <1>4, <1>5, <1>6, <1>7, <1>8, <1>9 DEF NoNames

\* A $ref whose document cannot be had has no place.
LEMMA ToldFail ==
  ASSUME IInv, NEW x \in Ids, ToldTask(x), status[x] = "running", NoNames, IsRemote(Top(x).ref),
         \/ Forbidden(DocOf(Top(x).ref), TargetDoc(Top(x).ref))
         \/ cache[TargetDoc(Top(x).ref)] = "failed",
         Fail(x)
  PROVE  ToldMoves(x)
  <1> DEFINE e == Entry(FALSE, None, <<>>, x)
             s == Stand(FALSE, None)
  <1>1. PICK id \in RefIds :
            /\ id = RefId(Top(x).ref) /\ id[1] = DocOf(Top(x).ref)
            /\ ToldCalling(x, Under(x), Top(x))
            /\ id[2].uri \notin {None, id[1]} /\ TargetDoc(Top(x).ref) = id[2].uri /\ id[1] \in Docs
    BY TopIs
  <1>2. s \in Standings /\ s.at = None
    BY <1>1, RootType_, StandType
  <1>3. StartsAt(cache, id, s)
    BY <1>1 DEF StartsAt
  <1>4. <<id, 0, s>> \in Known
    BY <1>2, <1>3, KnownNow DEF Closed
  <1>5. Final(id) \in Nat /\ 0 <= Final(id)
    BY RefIdsAre
  <1> HIDE DEF s
  <1>6. <<id, Final(id), s>> \in Known
    BY <1>2, <1>4, <1>5, NoPlaceIsFinal
  <1>7. e \in Entries
    BY LeafType
  <1>8. Told(id, e)
    BY <1>6 DEF Told, Tells, Owned, Entry, s
  <1>9. Return(x, Under(x), Top(x), map, e)
    BY DEF Fail
  <1> HIDE DEF e
  <1> QED
    BY <1>1, <1>7, <1>8, <1>9, ToldReturn

\* From the root of a document that is in.
LEMMA ToldFromRoot ==
  ASSUME IInv, NEW x \in Ids, ToldTask(x), status[x] = "running", NoNames,
         \/ ~IsRemote(Top(x).ref)
         \/ /\ IsRemote(Top(x).ref) /\ ~Forbidden(DocOf(Top(x).ref), TargetDoc(Top(x).ref))
            /\ cache[TargetDoc(Top(x).ref)] = "loaded",
         Traverse(x, Under(x), Top(x), None, Root(TargetDoc(Top(x).ref)), RefAt(Top(x).ref).path)
  PROVE  ToldMoves(x)
  <1> DEFINE d == TargetDoc(Top(x).ref)
             s == Stand(TRUE, Root(d))
  <1>1. PICK id \in RefIds :
            /\ id = RefId(Top(x).ref) /\ id[1] = DocOf(Top(x).ref) /\ id[2] = RefAt(Top(x).ref)
            /\ TargetDoc(Top(x).ref) \in Docs
            /\ ToldCalling(x, Under(x), Top(x)) /\ id[1] \in Docs
            /\ id[2].path = SubSeq(id[2].path, 0 + 1, Len(id[2].path)) /\ 0 <= Len(id[2].path)
            /\ IsRemote(Top(x).ref) <=> id[2].uri \notin {None, id[1]}
            /\ IsRemote(Top(x).ref) => TargetDoc(Top(x).ref) = id[2].uri
    BY TopIs
  <1>2. ~IsRemote(Top(x).ref) => d = id[1]
    BY <1>1 DEF TargetDoc
  <1>3. Root(d) \in Places /\ s \in Standings
    BY <1>1, RootType_, StandType
  <1>4. StartsAt(cache, id, s)
    <2>1. CASE ~IsRemote(Top(x).ref)
      BY <1>1, <1>2, <2>1 DEF StartsAt
    <2>2. CASE IsRemote(Top(x).ref)
      <3>1. ~Forbidden(id[1], id[2].uri) /\ cache[id[2].uri] = "loaded" /\ d = id[2].uri
        BY <1>1, <2>2
      <3> QED
        BY <1>1, <2>2, <3>1 DEF StartsAt
    <2> QED
      BY <2>1, <2>2
  <1>5. <<id, 0, s>> \in Known
    BY <1>3, <1>4, KnownNow DEF Closed
  <1>6. Traverse(x, Under(x), Top(x), None, Root(d), id[2].path)
    BY <1>1
  <1> HIDE DEF d
  <1>7. 0 \in Nat
    OBVIOUS
  <1> QED
    BY <1>1, <1>3, <1>5, <1>6, <1>7, ToldTraverse

\* A nested call is back: what it returned tells where its caller goes on.
LEMMA ToldBack ==
  ASSUME IInv, NEW x \in Ids, ToldMap, ToldTask(x), NEW st, Back(x, st), st \in {"inner", "tail"}, NoNames
  PROVE  \E id \in RefIds, k \in Nat, e \in Standings :
            /\ id = RefId(Caller(x).ref) /\ k <= Len(id[2].path)
            /\ ToldCalling(x, Front(Under(x)), Caller(x))
            /\ ret[x] \in Entries /\ e = Stand(ret[x].resolved, ret[x].at)
            /\ Told(RefId(Top(x).ref), ret[x])
            /\ <<id, k + 1, Onward(id, k, e)>> \in Known
            /\ st = "tail" => k = Len(id[2].path)
            /\ st = "inner" => /\ k < Len(id[2].path)
                               /\ Caller(x).rest = SubSeq(id[2].path, k + 1, Len(id[2].path))
  <1>1. /\ status[x] = "running" /\ Len(stack[x]) > 1 /\ Caller(x).stage = st
        /\ ret[x] \in Entries /\ Top(x).ref \in Places /\ RefId(Top(x).ref) \in RefIds
    BY BackType
  <1>2. ToldCalling(x, Front(Under(x)), Caller(x)) /\ Awaits(Caller(x), Top(x).ref) /\ RefAt(Top(x).ref) # None
    BY <1>1, ToldRunning, Running
  <1>3. Told(RefId(Top(x).ref), ret[x])
    BY DEF ToldTask, Back
  <1>4. PICK id \in RefIds : id = RefId(Caller(x).ref)
    BY <1>2, RefAtType DEF ToldCalling, IInv, TypeOK
  <1>5. PICK n \in Nat : n = Len(id[2].path)
    BY RefIdsAre
  <1> DEFINE e == Stand(ret[x].resolved, ret[x].at)
             p == Top(x).ref
  <1>6. <<RefId(p), Final(RefId(p)), e>> \in Known /\ e \in Standings
    <2>1. <<RefId(p), Final(RefId(p)), e>> \in Known
      BY <1>3 DEF Told, Tells
    <2> QED
      BY <2>1 DEF Known, KnownIf, Facts
  <1>7. PICK s \in Standings : s = Stand(TRUE, p) /\ s.at = p /\ s.at # None
    BY <1>1, StandType, NoneIsNothing
  <1> HIDE DEF e
  <1>8. ASSUME NEW k \in Nat, k <= n, <<id, k, s>> \in Known, Waits(id, k, s)
        PROVE  <<id, k + 1, Onward(id, k, e)>> \in Known
    <2>1. Via(Known, id, k, s, e)
      BY <1>6, <1>7, <1>8 DEF Via
    <2> QED
      BY <1>5, <1>6, <1>8, <2>1, KnownNow DEF Closed
  <1>9. CASE st = "tail"
    <2>1. <<id, n, s>> \in Known
      BY <1>1, <1>2, <1>4, <1>5, <1>7, <1>9 DEF Awaits
    <2>2. Waits(id, n, s)
      <3>1. ~(n < n)
        OBVIOUS
      <3> QED
        BY <1>2, <1>5, <1>7, <3>1, Zenon DEF Waits, RefAt
    <2>3. n <= n
      OBVIOUS
    <2>4. <<id, n + 1, Onward(id, n, e)>> \in Known
      BY <1>8, <2>1, <2>2, <2>3
    <2> QED
      BY <1>1, <1>2, <1>3, <1>4, <1>5, <1>6, <1>9, <2>3, <2>4 DEF e
  <1>10. CASE st = "inner"
    <2>1. PICK k \in 0 .. n - 1 :
             /\ Caller(x).rest = SubSeq(id[2].path, k + 1, n)
             /\ <<id, k, s>> \in Known /\ Waits(id, k, s)
      BY <1>1, <1>2, <1>4, <1>5, <1>7, <1>10 DEF Awaits
    <2>2. k \in Nat /\ k <= n /\ k < n
      OBVIOUS
    <2>3. <<id, k + 1, Onward(id, k, e)>> \in Known
      BY <1>8, <2>1, <2>2
    <2> QED
      BY <1>1, <1>2, <1>3, <1>4, <1>5, <1>6, <1>10, <2>1, <2>2, <2>3 DEF e
  <1> QED
    BY <1>9, <1>10

LEMMA ToldInner ==
  ASSUME IInv, NEW x \in Ids, ToldMap, ToldTask(x), ResumeInner(x), NoNames
  PROVE  ToldMoves(x)
  <1> DEFINE sh     == IF ret[x].by = x /\ map[RefId(Top(x).ref)] # None /\ map[RefId(Top(x).ref)].by = x
                       THEN RefId(Top(x).ref) ELSE None
             under  == Front(Under(x))
             path   == Caller(x).rest
             next   == Below(ret[x].at, <<Head(path)>>)
  <1>1. /\ Back(x, "inner")
        /\ IF ret[x].at # None /\ next.node \in Nodes
           THEN Traverse(x, under, Caller(x), sh, next, Tail(path))
           ELSE Return(x, under, Caller(x), Write(sh, None), Entry(ret[x].resolved, None, <<>>, None))
    BY DEF ResumeInner
  <1>2. PICK id \in RefIds, k \in Nat, e \in Standings :
            /\ id = RefId(Caller(x).ref) /\ k <= Len(id[2].path)
            /\ ToldCalling(x, under, Caller(x))
            /\ ret[x] \in Entries /\ e = Stand(ret[x].resolved, ret[x].at)
            /\ Told(RefId(Top(x).ref), ret[x])
            /\ <<id, k + 1, Onward(id, k, e)>> \in Known
            /\ k < Len(id[2].path) /\ path = SubSeq(id[2].path, k + 1, Len(id[2].path))
    BY <1>1, ToldBack
  <1>3. PICK full \in Seq(Segs) : full = id[2].path
    BY RefIdsAre
  <1>4. PICK n \in Nat : n = Len(full) /\ k < n /\ k + 1 <= n /\ k + 1 \in 1 .. n /\ k + 1 \in Nat /\ k # n
    BY <1>2, <1>3
  <1>5. /\ Head(path) = full[k + 1] /\ Tail(path) = SubSeq(full, (k + 1) + 1, n)
    <2>1. n \in k + 1 .. n /\ path = SubSeq(full, k + 1, n)
      BY <1>2, <1>3, <1>4
    <2> QED
      BY <1>4, <2>1, HeadTailOfSubSeq
  <1>6. ret[x].by = x => ret[x].at = None
    BY <1>2, NoneIsNoEntry DEF Told, Owned
  <1>7. Write(sh, None) = map
    <2>1. CASE sh = None
      BY <2>1 DEF Write
    <2>2. CASE sh # None
      <3>1. PICK i \in RefIds : i = RefId(Top(x).ref)
        BY <1>1, BackType
      <3>2. sh = i /\ map[i] # None /\ map[i].by = x
        BY <2>2, <3>1
      <3>3. map \in [RefIds -> Entries \cup {None}] /\ map[i] \in Entries
        BY <3>2 DEF IInv, TypeOK
      <3>4. map[i].at = None
        BY <3>2, NoneIsNoEntry DEF ToldMap, Told, Owned
      <3>5. [map[i] EXCEPT !.at = None] = map[i]
        BY <3>3, <3>4 DEF Entries
      <3>6. Write(sh, None) = [map EXCEPT ![i] = [map[i] EXCEPT !.at = None]]
        BY <2>2, <3>2, <3>3 DEF Write
      <3> HIDE DEF sh
      <3> QED
        BY <3>3, <3>5, <3>6
    <2> QED
      BY <2>1, <2>2
  <1>8. next = Child(e.at, full[k + 1]) /\ e.at = ret[x].at /\ e.resolved = ret[x].resolved
    BY <1>2, <1>5 DEF Child, Stand
  <1>9. CASE ret[x].at # None /\ next.node \in Nodes
    <2>1. sh = None
      BY <1>6, <1>9
    <2>2. Traverse(x, under, Caller(x), None, next, Tail(path))
      BY <1>1, <1>9, <2>1
    <2>3. Onward(id, k, e) = Stand(TRUE, next)
      BY <1>3, <1>4, <1>8, <1>9 DEF Onward
    <2>4. next \in Places
      <3>1. ret[x].at \in Places
        BY <1>2, <1>9 DEF Entries
      <3> QED
        BY <1>9, <3>1, BelowType
    <2> HIDE DEF sh, under, path, next
    <2>5. k + 1 <= Len(RefId(Caller(x).ref)[2].path) /\ <<RefId(Caller(x).ref), k + 1, Stand(TRUE, next)>> \in Known
          /\ Tail(path) = SubSeq(RefId(Caller(x).ref)[2].path, (k + 1) + 1, Len(RefId(Caller(x).ref)[2].path))
      BY <1>2, <1>3, <1>4, <1>5, <2>3
    <2> QED
      BY <1>2, <1>4, <2>2, <2>4, <2>5, ToldTraverse
  <1>10. CASE ~(ret[x].at # None /\ next.node \in Nodes)
    <2> DEFINE s == Stand(ret[x].resolved, None)
               entry == Entry(ret[x].resolved, None, <<>>, None)
    <2>1. Return(x, under, Caller(x), map, entry)
      BY <1>1, <1>7, <1>10
    <2>2. ret[x].resolved \in BOOLEAN /\ entry \in Entries
      <3>1. ret[x].resolved \in BOOLEAN
        BY <1>2 DEF Entries
      <3> QED
        BY <3>1, LeafType
    <2>3. Onward(id, k, e) = s
      <3>1. CASE ret[x].at = None
        BY <1>2, <1>8, <3>1 DEF Onward
      <3>2. CASE ret[x].at # None
        <4>1. Onward(id, k, e) = Stand(TRUE, None)
          BY <1>3, <1>4, <1>8, <1>10, <3>2 DEF Onward
        <4>2. ret[x].resolved = TRUE
          BY <1>8, <2>2, <3>2 DEF Standings
        <4> QED
          BY <4>1, <4>2
      <3> QED
        BY <3>1, <3>2
    <2>4. s \in Standings /\ s.at = None
      BY <2>2, NoneIsNothing DEF Stand, Standings
    <2>5. <<id, k + 1, s>> \in Known /\ k + 1 <= Final(id)
      BY <1>2, <1>3, <1>4, <2>3 DEF Final
    <2> HIDE DEF s
    <2>6. <<id, Final(id), s>> \in Known
      BY <1>4, <2>4, <2>5, NoPlaceIsFinal
    <2>7. Told(id, entry)
      BY <2>6 DEF Told, Tells, Owned, Entry, s
    <2> HIDE DEF entry
    <2> QED
      BY <1>2, <2>1, <2>2, <2>7, ToldReturn
  <1> QED
    BY <1>9, <1>10

LEMMA ToldTail ==
  ASSUME IInv, NEW x \in Ids, ToldMap, ToldTask(x), ResumeTail(x), NoNames
  PROVE  ToldMoves(x)
  <1> DEFINE hop   == Top(x).ref
             chain == IF hop.node \in Siblings /\ ret[x].resolved
                      THEN <<hop>> \o ret[x].chain ELSE ret[x].chain
             entry == Entry(ret[x].resolved, ret[x].at, chain, None)
  <1>1. /\ Back(x, "tail")
        /\ Return(x, Front(Under(x)), Caller(x), map, entry)
    BY DEF ResumeTail
  <1>2. PICK id \in RefIds, k \in Nat, e \in Standings :
            /\ id = RefId(Caller(x).ref) /\ k = Len(id[2].path)
            /\ ToldCalling(x, Front(Under(x)), Caller(x))
            /\ ret[x] \in Entries /\ e = Stand(ret[x].resolved, ret[x].at)
            /\ <<id, k + 1, Onward(id, k, e)>> \in Known
    BY <1>1, ToldBack
  <1>3. hop \in Places
    BY <1>1, BackType
  <1>4. chain \in Seq(Places) /\ ret[x].resolved \in BOOLEAN /\ ret[x].at \in Places \cup {None}
    <2>1. ret[x].chain \in Seq(Places) /\ ret[x].resolved \in BOOLEAN /\ ret[x].at \in Places \cup {None}
      BY <1>2 DEF Entries
    <2> QED
      BY <1>3, <2>1
  <1> HIDE DEF chain
  <1>5. entry \in Entries
    BY <1>4, EntryType
  <1>6. Onward(id, k, e) = e
    BY <1>2 DEF Onward
  <1>7. Told(id, entry)
    <2>1. Final(id) = k + 1
      BY <1>2 DEF Final
    <2> QED
      BY <1>2, <1>6, <2>1 DEF Told, Tells, Owned, Entry
  <1> HIDE DEF entry
  <1> QED
    BY <1>1, <1>2, <1>5, <1>7, ToldReturn

LEMMA ToldAdvances ==
  ASSUME IInv, NEW x \in Ids, ToldMap, ToldTask(x), NoNames,
         Enter(x) \/ Continue(x), ~EnterCircular(x), ~Settle(x)
  PROVE  ToldStep(x)
  <1>1. status[x] = "running"
    BY DEF Enter, Continue, EnterAnchor, EnterLocal, EnterRemote, EnterForbidden, Entering, GotDocument,
           GotError, GotTick, ResumeInner, ResumeTail, Back, InStage
  <1>2. PICK id \in RefIds :
            /\ id = RefId(Top(x).ref) /\ id[1] = DocOf(Top(x).ref) /\ id[2] = RefAt(Top(x).ref)
            /\ id[2].anchor = None /\ TargetDoc(Top(x).ref) \in Docs
            /\ ToldCalling(x, Under(x), Top(x)) /\ Top(x) \in Frames
    BY <1>1, TopIs
  <1>3. ref' = ref /\ status' = status
    BY DEF Enter, Continue, EnterAnchor, EnterLocal, EnterRemote, EnterForbidden, GotDocument,
           GotError, GotTick, ResumeInner, ResumeTail, Fail
  <1>4. \A d \in Docs : cache[d] \in {"loaded", "failed"} => cache'[d] = cache[d]
    <2>1. CASE EnterRemote(x)
      <3>1. PICK d \in Docs : d = TargetDoc(Top(x).ref)
        BY <1>2
      <3>2. \/ cache[d] = "absent" /\ cache' = [ cache EXCEPT ![d] = "loading" ]
            \/ cache' = cache
        BY <2>1, <3>1 DEF EnterRemote
      <3> QED
        BY <3>2 DEF IInv, TypeOK
    <2>2. CASE ~EnterRemote(x)
      <3>1. cache' = cache
        BY <2>2 DEF Enter, Continue, EnterAnchor, EnterLocal, EnterForbidden, GotDocument,
              GotError, GotTick, ResumeInner, ResumeTail, Fail
      <3> QED
        BY <3>1
    <2> QED
      BY <2>1, <2>2
  <1>5. Reads(Top(x))
    BY <1>1 DEF ToldTask
  <1>6. CASE EnterAnchor(x)
    BY <1>2, <1>6 DEF EnterAnchor
  <1>7. CASE EnterLocal(x)
    <2>1. ~IsRemote(Top(x).ref) /\ TargetDoc(Top(x).ref) = DocOf(Top(x).ref)
      BY <1>7 DEF EnterLocal, TargetDoc
    <2>2. Traverse(x, Under(x), Top(x), None, Root(TargetDoc(Top(x).ref)), RefAt(Top(x).ref).path)
      BY <1>7, <2>1 DEF EnterLocal
    <2>3. ToldMoves(x)
      BY <1>1, <2>1, <2>2, ToldFromRoot
    <2> QED
      BY <1>1, <1>3, <1>4, <2>3 DEF ToldStep
  <1>8. CASE EnterRemote(x)
    <2> DEFINE f == At(Top(x), "load", <<>>)
    <2>1. /\ Wait(x, Under(x), f) /\ UNCHANGED <<map, ret>>
          /\ IsRemote(Top(x).ref) /\ ~Forbidden(DocOf(Top(x).ref), TargetDoc(Top(x).ref))
      BY <1>8 DEF EnterRemote
    <2>2. f \in Frames /\ f.ref = Top(x).ref /\ f.stage = "load"
      <3>1. <<>> \in Seq(Segs) /\ "load" \in Stages
        BY DEF Stages
      <3> QED
        BY <1>2, <3>1 DEF At, Frames
    <2> HIDE DEF f
    <2>3. Reads(f)
      BY <2>1, <2>2 DEF Reads
    <2>4. ToldMoves(x)
      BY <1>2, <2>1, <2>2, <2>3, ToldWait
    <2> QED
      BY <1>1, <1>3, <1>4, <2>4 DEF ToldStep
  <1>9. CASE EnterForbidden(x)
    <2>1. /\ IsRemote(Top(x).ref) /\ Forbidden(DocOf(Top(x).ref), TargetDoc(Top(x).ref)) /\ Fail(x)
      BY <1>9 DEF EnterForbidden
    <2>2. ToldMoves(x)
      BY <1>1, <2>1, ToldFail
    <2> QED
      BY <1>1, <1>3, <1>4, <2>2 DEF ToldStep
  <1>10. ASSUME InStage(x, "load") PROVE IsRemote(Top(x).ref) /\ ~Forbidden(DocOf(Top(x).ref), TargetDoc(Top(x).ref))
    BY <1>5, <1>10 DEF Reads, InStage
  <1>11. CASE GotDocument(x)
    <2>1. /\ InStage(x, "load") /\ cache[TargetDoc(Top(x).ref)] = "loaded"
          /\ Traverse(x, Under(x), Top(x), None, Root(TargetDoc(Top(x).ref)), RefAt(Top(x).ref).path)
      BY <1>11 DEF GotDocument
    <2>2. ToldMoves(x)
      BY <1>1, <1>10, <2>1, ToldFromRoot
    <2> QED
      BY <1>1, <1>3, <1>4, <2>2 DEF ToldStep
  <1>12. CASE GotError(x)
    <2>1. InStage(x, "load") /\ cache[TargetDoc(Top(x).ref)] = "failed" /\ Fail(x)
      BY <1>12 DEF GotError
    <2>2. ToldMoves(x)
      BY <1>1, <1>10, <2>1, ToldFail
    <2> QED
      BY <1>1, <1>3, <1>4, <2>2 DEF ToldStep
  <1>13. CASE GotTick(x)
    BY <1>5, <1>13 DEF GotTick, InStage, Reads
  <1>14. CASE ResumeInner(x)
    BY <1>1, <1>3, <1>4, <1>14, ToldInner DEF ToldStep
  <1>15. CASE ResumeTail(x)
    BY <1>1, <1>3, <1>4, <1>15, ToldTail DEF ToldStep
  <1> QED
    BY <1>6, <1>7, <1>8, <1>9, <1>11, <1>12, <1>13, <1>14, <1>15 DEF Enter, Continue

\* What was told stays told.
LEMMA ToldStays ==
  ASSUME ref' = ref, \A d \in Docs : cache[d] \in {"loaded", "failed"} => cache'[d] = cache[d]
  PROVE  /\ \A id, e : Told(id, e) => Told(id, e)'
         /\ \A s : Chained(s) => Chained(s)'
         /\ \A f : Reads(f) => Reads(f)'
         /\ \A p : RefId(p)' = RefId(p)
  <1>1. Known \subseteq Known'
    BY KnownGrows
  <1>2. \A p : RefId(p)' = RefId(p) /\ RefAt(p)' = RefAt(p)
    BY DEF RefId, RefAt
  <1>3. \A id, k, s : Waits(id, k, s)' <=> Waits(id, k, s)
    BY DEF Waits
  <1>4. \A f, p : Awaits(f, p) => Awaits(f, p)'
    BY <1>1, <1>2, <1>3 DEF Awaits
  <1>5. \A s : Chained(s) => Chained(s)'
    BY <1>4 DEF Chained
  <1>6. \A id, e : Told(id, e) => Told(id, e)'
    BY <1>1 DEF Told, Tells, Owned
  <1>7. \A f : Reads(f) => Reads(f)'
    BY <1>2 DEF Reads, IsRemote, TargetDoc
  <1> QED
    BY <1>2, <1>5, <1>6, <1>7

\* The entries that are there keep what they say.
SameEntries ==
  \A id \in RefIds : map[id] # None => /\ map'[id] # None
                                       /\ map'[id].at = map[id].at
                                       /\ map'[id].resolved = map[id].resolved

LEMMA ToldOnce ==
  ASSUME NEW id \in RefIds, NEW e \in Entries, NEW h \in Entries, Told(id, e), Told(id, h)
  PROVE  e.at = h.at /\ e.resolved = h.resolved
  <1>1. Final(id) \in Nat
    BY RefIdsAre
  <1>2. Stand(e.resolved, e.at) = Stand(h.resolved, h.at)
    BY <1>1, KnownIsOne DEF Told, Tells, Known
  <1>3. \A a, b, c, d : Stand(a, b) = Stand(c, d) => a = c /\ b = d
    BY DEF Stand
  <1> QED
    BY <1>2, <1>3

LEMMA ToldKeeps ==
  ASSUME IInv, ToldInv, NEW x \in Ids, ToldStep(x)
  PROVE  ToldInv' /\ SameEntries
  <1>1. PICK s \in Seq(Frames), r \in Entries \cup {None} :
            /\ s # <<>> /\ Chained(s) /\ s[1].ref = x[2] /\ Reads(s[Len(s)])
            /\ s[Len(s)].stage = "returned" =>
                 Told(RefId(s[Len(s)].ref), r) /\ map'[RefId(s[Len(s)].ref)] # None
            /\ stack' = [ stack EXCEPT ![x] = s ]
            /\ ret'   = [ ret EXCEPT ![x] = r ]
    BY DEF ToldStep, ToldMoves
  <1>2. \/ map' = map
        \/ \E id \in RefIds, e \in Entries : map' = [ map EXCEPT ![id] = e ] /\ Told(id, e)
    BY DEF ToldStep, ToldMoves
  <1>3. /\ ref' = ref /\ status' = status
        /\ \A d \in Docs : cache[d] \in {"loaded", "failed"} => cache'[d] = cache[d]
    BY DEF ToldStep
  <1>4. /\ \A id, e : Told(id, e) => Told(id, e)'
        /\ \A t : Chained(t) => Chained(t)'
        /\ \A f : Reads(f) => Reads(f)'
        /\ \A p : RefId(p)' = RefId(p)
    BY <1>3, ToldStays
  <1>5. /\ stack \in [Ids -> Seq(Frames)] /\ ret \in [Ids -> Entries \cup {None}]
        /\ map \in [RefIds -> Entries \cup {None}]
    BY DEF IInv, TypeOK
  <1>6. /\ \A id \in RefIds : map'[id] # None => Told(id, map'[id])
        /\ SameEntries /\ \A id : map[id] # None => map'[id] # None
    <2>1. CASE map' = map
      BY <2>1 DEF SameEntries, ToldInv, ToldMap
    <2>2. ASSUME NEW i \in RefIds, NEW e \in Entries, map' = [ map EXCEPT ![i] = e ], Told(i, e)
          PROVE  /\ \A id \in RefIds : map'[id] # None => Told(id, map'[id])
                 /\ SameEntries /\ \A id : map[id] # None => map'[id] # None
      <3>1. map'[i] = e /\ e # None /\ \A id : id # i => map'[id] = map[id]
        BY <1>5, <2>2, NoneIsNoEntry
      <3>2. map[i] # None => e.at = map[i].at /\ e.resolved = map[i].resolved
        <4>1. ASSUME map[i] # None PROVE map[i] \in Entries /\ Told(i, map[i])
          BY <1>5, <4>1 DEF ToldInv, ToldMap
        <4> QED
          BY <2>2, <4>1, ToldOnce
      <3>3. \A id \in RefIds : map'[id] # None => Told(id, map'[id])
        BY <2>2, <3>1 DEF ToldInv, ToldMap
      <3>4. SameEntries
        BY <3>1, <3>2 DEF SameEntries
      <3> QED
        BY <3>1, <3>3, <3>4
    <2> QED
      BY <1>2, <2>1, <2>2
  <1>7. ToldMap'
    BY <1>4, <1>6 DEF ToldMap
  <1>8. ASSUME NEW y \in Ids PROVE ToldTask(y)'
    <2>1. ToldTask(y)
      BY DEF ToldInv
    <2>2. CASE y = x
      <3>1. stack'[y] = s /\ ret'[y] = r /\ Last(s) = s[Len(s)]
        BY <1>1, <1>5, <2>2 DEF Last
      <3>2. status'[y] = "running"
        BY <1>3, <2>2 DEF ToldStep
      <3>3. PICK f, p, id : f = s[Len(s)] /\ p = f.ref /\ id = RefId(p)
        OBVIOUS
      <3>4. Top(y)' = f
        BY <3>1, <3>3 DEF Top
      <3>5. RefId(p)' = id /\ Chained(s)' /\ Reads(f)'
        BY <1>1, <1>4, <3>3
      <3>6. f.stage = "returned" => Told(id, r)' /\ map'[id] # None
        BY <1>1, <1>4, <3>3
      <3>7. RefId(Top(y).ref)' = id
        <4>1. (Top(y).ref)' = p
          BY <3>3, <3>4
        <4> QED
          BY <3>5, <4>1 DEF RefId, RefAt
      <3>8. Chained(stack[y])' /\ Reads(Top(y))'
        BY <3>1, <3>4, <3>5 DEF Chained, Awaits, Reads, RefId, RefAt, Waits, IsRemote, TargetDoc
      <3>9. InStage(y, "returned")' => Told(RefId(Top(y).ref), ret[y])' /\ (map[RefId(Top(y).ref)] # None)'
        <4>1. InStage(y, "returned")' => f.stage = "returned"
          BY <3>4 DEF InStage
        <4>2. Told(id, r)' => Told(RefId(Top(y).ref), ret[y])'
          BY <3>1, <3>7 DEF Told, Tells, Owned
        <4> QED
          BY <3>6, <3>7, <4>1, <4>2
      <3> QED
        BY <1>1, <2>2, <3>1, <3>2, <3>8, <3>9 DEF ToldTask
    <2>3. CASE y # x
      <3>1. stack'[y] = stack[y] /\ ret'[y] = ret[y] /\ status'[y] = status[y]
        BY <1>1, <1>3, <1>5, <2>3
      <3> QED
        BY <1>4, <1>6, <2>1, <3>1 DEF ToldTask, InStage, Top
    <2> QED
      BY <2>2, <2>3
  <1> QED
    BY <1>6, <1>7, <1>8 DEF ToldInv

\* A task that a step leaves alone.
LEMMA ToldAlone ==
  ASSUME NEW y \in Ids, ToldTask(y), ref' = ref, map' = map,
         \A d \in Docs : cache[d] \in {"loaded", "failed"} => cache'[d] = cache[d],
         stack'[y] = stack[y], ret'[y] = ret[y], status'[y] = status[y]
  PROVE  ToldTask(y)'
  <1>1. /\ \A id, e : Told(id, e) => Told(id, e)'
        /\ \A s : Chained(s) => Chained(s)'
        /\ \A f : Reads(f) => Reads(f)'
        /\ \A p : RefId(p)' = RefId(p)
    BY ToldStays
  <1> QED
    BY <1>1 DEF ToldTask, InStage, Top

\* A task that starts.
LEMMA ToldNew ==
  ASSUME NEW y \in Ids, stack'[y] = <<Call(y[2])>>, status'[y] = "running"
  PROVE  ToldTask(y)'
  <1> DEFINE f == Call(y[2])
  <1>1. f.ref = y[2] /\ f.stage = "enter"
    BY DEF Call
  <1>2. stack'[y][1] = f /\ Last(stack'[y]) = f /\ Len(stack'[y]) = 1
    BY DEF Last
  <1> HIDE DEF f
  <1>3. Top(y)' = f
    BY <1>2 DEF Top
  <1>4. Chained(stack[y])'
    BY <1>2 DEF Chained
  <1>5. Reads(Top(y))' /\ ~InStage(y, "returned")'
    BY <1>1, <1>3 DEF Reads, InStage
  <1> QED
    BY <1>1, <1>2, <1>4, <1>5 DEF ToldTask

\* A task that is in no call, and one that never started or failed.
LEMMA ToldIdle ==
  ASSUME NEW y \in Ids, stack'[y] = <<>>, status'[y] \in {"idle", "rejected"}
  PROVE  ToldTask(y)'
  <1>1. Chained(stack[y])'
    BY DEF Chained
  <1> QED
    BY <1>1 DEF ToldTask, InStage

LEMMA ToldStarts == Init => ToldInv
  <1> SUFFICES ASSUME Init PROVE ToldInv
    OBVIOUS
  <1> DEFINE w == Walk(RootType, <<Root(RootDoc)>>, {})
  <1>1. /\ stack = [ x \in Ids |-> IF x \in w.starting THEN <<Call(x[2])>> ELSE <<>> ]
        /\ status = [ x \in Ids |-> IF x \in w.starting THEN "running" ELSE "idle" ]
        /\ map = [ id \in RefIds |-> None ]
    BY DEF Init
  <1> HIDE DEF w
  <1>2. ToldMap
    BY <1>1 DEF ToldMap
  <1>3. ASSUME NEW y \in Ids PROVE ToldTask(y)
    <2>1. CASE y \in w.starting
      <3> DEFINE f == Call(y[2])
      <3>1. stack[y] = <<f>> /\ status[y] = "running"
        BY <1>1, <2>1
      <3>2. f.ref = y[2] /\ f.stage = "enter"
        BY DEF Call
      <3> HIDE DEF f
      <3>3. stack[y][1] = f /\ Top(y) = f /\ Chained(stack[y])
        BY <3>1 DEF Top, Last, Chained
      <3> QED
        BY <3>1, <3>2, <3>3 DEF ToldTask, InStage, Reads
    <2>2. CASE y \notin w.starting
      <3>1. stack[y] = <<>> /\ status[y] = "idle"
        BY <1>1, <2>2
      <3> QED
        BY <3>1 DEF ToldTask, InStage, Chained
    <2> QED
      BY <2>1, <2>2
  <1> QED
    BY <1>2, <1>3 DEF ToldInv

LEMMA ToldSettle ==
  ASSUME IInv, ToldInv, NEW x \in Ids, Settle(x)
  PROVE  ToldInv'
  <1> DEFINE w == Walk(x[1], Found(x), seen)
  <1>1. /\ stack'  = [ z \in Ids |-> IF z \in w.starting THEN <<Call(z[2])>>
                                     ELSE IF z = x THEN <<>> ELSE stack[z] ]
        /\ status' = [ z \in Ids |-> IF z \in w.starting THEN "running"
                                     ELSE IF z = x THEN "settled" ELSE status[z] ]
        /\ ret' = ret /\ ref' = ref /\ map' = map /\ cache' = cache
        /\ InStage(x, "returned") /\ Len(stack[x]) = 1
    BY DEF Settle
  <1> HIDE DEF w
  <1>2. /\ \A id, e : Told(id, e) => Told(id, e)'
        /\ \A p : RefId(p)' = RefId(p)
    BY <1>1, ToldStays
  <1>3. ToldMap'
    BY <1>1, <1>2 DEF ToldInv, ToldMap
  <1>4. ASSUME NEW y \in Ids PROVE ToldTask(y)'
    <2>1. CASE y \in w.starting
      <3>1. stack'[y] = <<Call(y[2])>> /\ status'[y] = "running"
        BY <1>1, <2>1
      <3> QED
        BY <3>1, ToldNew
    <2>2. CASE y \notin w.starting /\ y = x
      <3>1. stack'[y] = <<>> /\ status'[y] = "settled" /\ ret'[y] = ret[y]
        BY <1>1, <2>2
      <3>2. Top(x).ref = x[2] /\ Told(RefId(Top(x).ref), ret[x]) /\ map[RefId(Top(x).ref)] # None
        BY <1>1 DEF ToldInv, ToldTask, InStage, Top, Last
      <3>3. PICK id : id = RefId(x[2]) /\ Told(id, ret[x]) /\ map[id] # None
        BY <3>2
      <3>4. Told(id, ret[x])' /\ RefId(x[2])' = id
        BY <1>1, <1>2, <3>3 DEF Told, Tells, Owned
      <3>5. Chained(stack[y])'
        BY <3>1 DEF Chained
      <3>6. Told(RefId(y[2]), ret[y])' /\ (map[RefId(y[2])] # None)'
        BY <1>1, <2>2, <3>3, <3>4 DEF Told, Tells, Owned
      <3> QED
        BY <3>1, <3>5, <3>6 DEF ToldTask, InStage
    <2>3. CASE y \notin w.starting /\ y # x
      <3>1. stack'[y] = stack[y] /\ status'[y] = status[y] /\ ret'[y] = ret[y] /\ ToldTask(y)
        BY <1>1, <2>3 DEF ToldInv
      <3> QED
        BY <1>1, <3>1, ToldAlone
    <2> QED
      BY <2>1, <2>2, <2>3
  <1> QED
    BY <1>3, <1>4 DEF ToldInv

\* A step that changes no stack, entry or task, and no document that is in.
LEMMA ToldQuiet ==
  ASSUME ToldInv, UNCHANGED <<ref, stack, ret, status, map>>,
         \A d \in Docs : cache[d] \in {"loaded", "failed"} => cache'[d] = cache[d]
  PROVE  ToldInv' /\ SameEntries
  <1>1. \A id, e : Told(id, e) => Told(id, e)'
    BY ToldStays
  <1>2. ToldMap'
    BY <1>1 DEF ToldInv, ToldMap
  <1>3. ASSUME NEW y \in Ids PROVE ToldTask(y)'
    BY ToldAlone DEF ToldInv
  <1> QED
    BY <1>2, <1>3 DEF ToldInv, SameEntries

LEMMA ToldNext ==
  ASSUME NoNames, IInv, ToldInv, [Next]_vars
  PROVE  ToldInv' /\ SameEntries
  <1>0. /\ cache \in [Docs -> {"absent", "loading", "loaded", "failed"}]
        /\ stack \in [Ids -> Seq(Frames)] /\ status \in [Ids -> {"idle", "running", "settled", "rejected"}]
    BY DEF IInv, TypeOK
  <1>1. ASSUME NEW x \in Ids, Enter(x) \/ Continue(x), ~EnterCircular(x), ~Settle(x)
        PROVE  ToldInv' /\ SameEntries
    BY <1>1, ToldAdvances, ToldKeeps DEF ToldInv
  <1>2. ASSUME NEW x \in Ids, EnterCircular(x) PROVE ToldInv' /\ SameEntries
    <2>1. /\ stack' = [ stack EXCEPT ![x] = <<>> ] /\ status' = [ status EXCEPT ![x] = "rejected" ]
          /\ UNCHANGED <<ref, ret, map, cache>>
      BY <1>2 DEF EnterCircular
    <2>2. \A id, e : Told(id, e) => Told(id, e)'
      BY <2>1, ToldStays
    <2>3. ToldMap'
      BY <2>1, <2>2 DEF ToldInv, ToldMap
    <2>4. ASSUME NEW y \in Ids PROVE ToldTask(y)'
      <3>1. CASE y = x
        <4>1. stack'[y] = <<>> /\ status'[y] = "rejected"
          BY <1>0, <2>1, <3>1
        <4> QED
          BY <4>1, ToldIdle
      <3>2. CASE y # x
        <4>1. stack'[y] = stack[y] /\ status'[y] = status[y] /\ ret'[y] = ret[y] /\ ToldTask(y)
          BY <2>1, <3>2 DEF ToldInv
        <4> QED
          BY <2>1, <4>1, ToldAlone
      <3> QED
        BY <3>1, <3>2
    <2> QED
      BY <2>1, <2>3, <2>4 DEF ToldInv, SameEntries
  <1>3. ASSUME NEW x \in Ids, Settle(x) PROVE ToldInv' /\ SameEntries
    <2>1. map' = map
      BY <1>3 DEF Settle
    <2> QED
      BY <1>3, <2>1, ToldSettle DEF SameEntries
  <1>4. ASSUME NEW d \in Docs, Load(d) PROVE ToldInv' /\ SameEntries
    <2>1. PICK outcome \in {"loaded", "failed"} : cache' = [ cache EXCEPT ![d] = outcome ]
      BY <1>4 DEF Load
    <2>2. cache[d] = "loading" /\ UNCHANGED <<ref, stack, ret, status, map>>
      BY <1>4 DEF Load
    <2>3. \A c \in Docs : cache[c] \in {"loaded", "failed"} => cache'[c] = cache[c]
      BY <1>0, <2>1, <2>2
    <2> QED
      BY <2>2, <2>3, ToldQuiet
  <1>5. CASE Loop \/ Over \/ UNCHANGED vars
    <2>1. UNCHANGED <<cache, ref, stack, ret, status, map>>
      BY <1>5 DEF Loop, AwaitAll, AwaitRejected, Over, vars
    <2> QED
      BY <2>1, ToldQuiet
  <1> QED
    BY <1>1, <1>2, <1>3, <1>4, <1>5 DEF Next, Tasks, Loads

LEMMA ToldSteps ==
  ASSUME NoNames
  PROVE  IInv /\ ToldInv /\ [Next]_vars => ToldInv' /\ SameEntries
  BY ToldNext

LEMMA ToldInvariance ==
  ASSUME NoNames
  PROVE  Spec => [](IInv /\ ToldInv)
  <1>1. IInv /\ ToldInv /\ [Next]_vars => IInv' /\ ToldInv'
    BY ToldSteps, NextGood
  <1>2. Init => IInv /\ ToldInv
    BY InitGood, ToldStarts
  <1> QED
    BY <1>1, <1>2, PTL DEF Spec

\* Where no $ref is by name, an entry of resolvedRefMap never changes what it
\* says, whoever else follows that $ref, returns its entry or modifies it in place.
THEOREM EntriesStay ==
  ASSUME NoNames
  PROVE  Spec => EntriesAreStable
  <1>1. IInv /\ ToldInv /\ [Next]_vars =>
          [ \A id \in RefIds : map[id] # None => /\ map'[id] # None
                                                 /\ map'[id].at = map[id].at
                                                 /\ map'[id].resolved = map[id].resolved ]_vars
    BY ToldSteps DEF SameEntries
  <1>2. Spec => [](IInv /\ ToldInv)
    BY ToldInvariance
  <1> QED
    BY <1>1, <1>2, PTL DEF Spec, EntriesAreStable

\* What a settled task found is what the entry of its $ref leads to.
LEMMA EntryIsFound ==
  ASSUME NEW x \in Ids, TypeOK, ret[x] \in Entries, map[RefId(x[2])] \in Entries,
         Told(RefId(x[2]), ret[x]), Told(RefId(x[2]), map[RefId(x[2])]),
         RefId(x[2]) \in RefIds, map[RefId(x[2])].at # None
  PROVE  1 \in DOMAIN Found(x) /\ Found(x)[1] = map[RefId(x[2])].at
  <1>1. ret[x].at = map[RefId(x[2])].at /\ ret[x].resolved = map[RefId(x[2])].resolved
    BY ToldOnce
  <1>2. Stand(ret[x].resolved, ret[x].at) \in Standings
    BY DEF Told, Tells, Known, KnownIf, Facts
  <1>3. ret[x].resolved
    BY <1>1, <1>2 DEF Standings, Stand
  <1>4. ret[x].chain \in Seq(Places)
    BY DEF Entries
  <1>5. ret[x].at \in Places
    BY <1>1 DEF Entries
  <1> QED
    BY <1>1, <1>3, <1>4, <1>5 DEF Found

\* When resolveDocument returns, the part of a document that the entry of a $ref
\* leads to has been walked, also when another task has recorded the entry.
THEOREM ReturnedIsClosed ==
  ASSUME NoNames
  PROVE  Spec => []DoneMeansClosed
  <1>1. IInv /\ ToldInv /\ WInv => DoneMeansClosed
    <2> SUFFICES ASSUME IInv, ToldInv, WInv, phase = "done", NEW x \in seen, RefAt(x[2]) # None
                 PROVE  /\ map[RefId(x[2])] # None
                        /\ map[RefId(x[2])].at # None => Covered(x[1], map[RefId(x[2])].at, seen) = {}
      BY DEF DoneMeansClosed
    <2>1. x \in Ids /\ x[2] \in Places /\ TypeOK
      BY DEF IInv, TypeOK, Ids
    <2>2. RefId(x[2]) \in RefIds
      BY <2>1, RefAtType DEF TypeOK
    <2>3. status[x] = "settled"
      BY <2>1 DEF WInv, Started
    <2>4. ret[x] \in Entries /\ Walked(x)
      BY <2>1, <2>3 DEF WInv
    <2>5. Told(RefId(x[2]), ret[x]) /\ map[RefId(x[2])] # None
      BY <2>1, <2>3 DEF ToldInv, ToldTask
    <2>6. Told(RefId(x[2]), map[RefId(x[2])]) /\ map[RefId(x[2])] \in Entries
      BY <2>1, <2>2, <2>5 DEF ToldInv, ToldMap, TypeOK
    <2>7. ASSUME map[RefId(x[2])].at # None
          PROVE  Covered(x[1], map[RefId(x[2])].at, seen) = {}
      <3>1. 1 \in DOMAIN Found(x) /\ Found(x)[1] = map[RefId(x[2])].at
        BY <2>1, <2>2, <2>4, <2>5, <2>6, <2>7, EntryIsFound
      <3> QED
        BY <2>4, <3>1 DEF Walked
    <2> QED
      BY <2>5, <2>7
  <1>2. Spec => [](IInv /\ ToldInv)
    BY ToldInvariance
  <1>3. Spec => [](IInv /\ WInv)
    BY WalkedInvariance
  <1> QED
    BY <1>1, <1>2, <1>3, PTL

------------------------------------------------------------------------------
(* The rounds of the reference definition find all that can be found out.  *)

HeldKnown(c) == { f \in KnownIf(c) : f[1] \in Held }
Slots == UNION { {id} \X (0 .. Final(id)) : id \in Held }

LEMMA HeldAre ==
  ASSUME ref \in RefGraphs
  PROVE  /\ Held \subseteq RefIds /\ IsFiniteSet(Held)
         /\ \A p \in Places : RefAt(p) # None => RefId(p) \in Held
  <1> DEFINE strs == { ref[n] : n \in Nodes }
             f    == [ n \in Nodes |-> ref[n] ]
  <1>1. ref \in [Nodes -> RefStrs \cup {None}]
    BY Graphs
  <1>2. Held \subseteq RefIds
    BY <1>1 DEF Held, RefIds
  <1>3. f \in Surjection(Nodes, strs)
    BY DEF Surjection
  <1>4. IsFiniteSet(Nodes) /\ IsFiniteSet(Docs)
    BY Documents
  <1> HIDE DEF f
  <1>5. IsFiniteSet(strs)
    <2> HIDE DEF strs
    <2> QED
      BY <1>3, <1>4, FS_Surjection
  <1>6. Held \subseteq Docs \X strs
    BY DEF Held
  <1>7. ASSUME NEW p \in Places, RefAt(p) # None PROVE RefId(p) \in Held
    <2>1. p.node \in Nodes /\ DocOf(p) \in Docs
      BY DocOfType DEF Places
    <2> QED
      BY <1>7, <2>1 DEF Held, RefId, RefAt
  <1> HIDE DEF strs
  <1>8. IsFiniteSet(Docs \X strs)
    BY <1>4, <1>5, FS_Product
  <1>9. IsFiniteSet(Held)
    BY <1>6, <1>8, FS_Subset
  <1> QED
    BY <1>2, <1>7, <1>9

LEMMA SlotsAreFinite ==
  ASSUME ref \in RefGraphs
  PROVE  IsFiniteSet(Slots) /\ Enough = Cardinality(Slots) /\ Enough \in Nat
  <1> DEFINE row(id) == {id} \X (0 .. Final(id))
             rows == { row(id) : id \in Held }
             f    == [ id \in Held |-> row(id) ]
  <1>1. f \in Surjection(Held, rows)
    BY DEF Surjection
  <1>2. ASSUME NEW id \in Held PROVE IsFiniteSet(row(id))
    <2>1. Final(id) \in Nat
      BY HeldAre, RefIdsAre
    <2>2. IsFiniteSet({id})
      BY FS_Singleton
    <2>3. 0 \in Int /\ Final(id) \in Int
      BY <2>1
    <2>4. IsFiniteSet(0 .. Final(id))
      BY <2>3, FS_Interval
    <2> QED
      BY <2>2, <2>4, FS_Product
  <1>3. \A r \in rows : IsFiniteSet(r)
    BY <1>2
  <1>4. Slots = UNION rows
    BY DEF Slots
  <1>5. Enough = Cardinality(Slots)
    BY DEF Enough, Slots
  <1> HIDE DEF f, rows
  <1>6. IsFiniteSet(rows)
    BY <1>1, HeldAre, FS_Surjection
  <1>7. IsFiniteSet(Slots)
    BY <1>3, <1>4, <1>6, FS_UNION
  <1> QED
    BY <1>5, <1>7, FS_CardinalityType

\* What is known of the references held fits into the slots, one fact each.
LEMMA KnownFits ==
  ASSUME ref \in RefGraphs, NEW c, NEW J, J \subseteq HeldKnown(c)
  PROVE  IsFiniteSet(J) /\ Cardinality(J) \in Nat /\ Cardinality(J) <= Enough
  <1> DEFINE g == [ f \in J |-> <<f[1], f[2]>> ]
  <1>1. ASSUME NEW f \in J PROVE <<f[1], f[2]>> \in Slots /\ f \in KnownIf(c) /\ f[1] \in Held
    <2>1. f \in KnownIf(c) /\ f[1] \in Held /\ f[1] \in RefIds /\ f[2] \in Nat
      BY DEF HeldKnown, KnownIf, Facts
    <2>2. FoundByStep(c, f) /\ Len(f[1][2].path) \in Nat /\ Final(f[1]) = Len(f[1][2].path) + 1
      BY <2>1, KnownBySteps, RefIdsAre DEF Final
    <2>3. f[2] = 0 \/ \E k \in Nat : f[2] = k + 1 /\ k <= Len(f[1][2].path)
      BY <2>2 DEF FoundByStep
    <2>4. f[2] \in 0 .. Final(f[1])
      BY <2>1, <2>2, <2>3
    <2>5. <<f[1], f[2]>> \in {f[1]} \X (0 .. Final(f[1]))
      BY <2>4
    <2> QED
      BY <2>1, <2>5 DEF Slots
  <1>2. ASSUME NEW a \in J, NEW b \in J, g[a] = g[b] PROVE a = b
    <2>1. a[1] = b[1] /\ a[2] = b[2]
      BY <1>2
    <2>2. a \in Facts /\ b \in Facts /\ a \in KnownIf(c) /\ b \in KnownIf(c)
      BY <1>1 DEF KnownIf
    <2>3. /\ a = <<a[1], a[2], a[3]>> /\ b = <<a[1], a[2], b[3]>>
          /\ a[1] \in RefIds /\ a[2] \in Nat
      BY <2>1, <2>2 DEF Facts
    <2>4. a[3] = b[3]
      BY <2>2, <2>3, KnownIsOne
    <2> QED
      BY <2>3, <2>4
  <1>3. g \in [J -> Slots] /\ DOMAIN g = J
    BY <1>1
  <1> HIDE DEF g
  <1>4. g \in Injection(J, Slots)
    BY <1>2, <1>3 DEF Injection, IsInjective
  <1>5. IsFiniteSet(J) /\ Cardinality(J) <= Cardinality(Slots)
    BY <1>4, SlotsAreFinite, FS_Injection
  <1> QED
    BY <1>5, SlotsAreFinite, FS_CardinalityType

\* One round learns what is so, and no less from more.
LEMMA LearnSound ==
  ASSUME ref \in RefGraphs, NEW c, NEW J, J \subseteq HeldKnown(c)
  PROVE  Learn(c, J) \subseteq HeldKnown(c)
  <1>1. ASSUME NEW f \in Held \X {0} \X Standings, StartsAt(c, f[1], f[3]) PROVE f \in HeldKnown(c)
    <2>1. f = <<f[1], 0, f[3]>> /\ f[1] \in Held /\ f[1] \in RefIds /\ f[3] \in Standings
      BY HeldAre
    <2>2. <<f[1], 0, f[3]>> \in KnownIf(c)
      BY <1>1, <2>1, KnownIsClosed DEF Closed
    <2> QED
      BY <2>1, <2>2 DEF HeldKnown
  <1>2. ASSUME NEW f \in J, f[2] <= Len(f[1][2].path), NEW e \in Standings, Via(J, f[1], f[2], f[3], e)
        PROVE  <<f[1], f[2] + 1, Onward(f[1], f[2], e)>> \in HeldKnown(c)
    <2>1. f \in KnownIf(c) /\ f[1] \in Held
      BY DEF HeldKnown
    <2>2. f \in Facts
      BY <2>1 DEF KnownIf
    <2>3. f = <<f[1], f[2], f[3]>> /\ f[1] \in RefIds /\ f[2] \in Nat /\ f[3] \in Standings
      BY <2>2 DEF Facts
    <2>4. Via(KnownIf(c), f[1], f[2], f[3], e)
      BY <1>2 DEF Via, HeldKnown
    <2>5. <<f[1], f[2], f[3]>> \in KnownIf(c)
      BY <2>1, <2>3
    <2>6. <<f[1], f[2] + 1, Onward(f[1], f[2], e)>> \in KnownIf(c)
      BY <1>2, <2>3, <2>4, <2>5, KnownIsClosed DEF Closed
    <2> QED
      BY <2>1, <2>6 DEF HeldKnown
  <1> QED
    BY <1>1, <1>2 DEF Learn

LEMMA LearnMore ==
  ASSUME NEW c, NEW J, NEW K, J \subseteq K
  PROVE  Learn(c, J) \subseteq Learn(c, K)
  <1>1. \A id, k, s, e : Via(J, id, k, s, e) => Via(K, id, k, s, e)
    BY DEF Via
  <1> QED
    BY <1>1 DEF Learn

\* When a round learns nothing new, there is nothing left to learn.
LEMMA NothingNewIsAll ==
  ASSUME ref \in RefGraphs, NEW c, NEW J, J \subseteq HeldKnown(c), Learn(c, J) = J
  PROVE  J = HeldKnown(c)
  <1> DEFINE K == J \cup { f \in Facts : f[1] \notin Held }
  <1>1. K \in SUBSET Facts
    BY DEF HeldKnown, KnownIf
  <1>2. ASSUME NEW id \in RefIds, NEW s \in Standings, StartsAt(c, id, s)
        PROVE  <<id, 0, s>> \in K
    <2>1. CASE id \in Held
      <3>1. <<id, 0, s>> \in Learn(c, J)
        BY <1>2, <2>1 DEF Learn
      <3> QED
        BY <3>1
    <2>2. CASE id \notin Held
      BY <2>2 DEF Facts
    <2> QED
      BY <2>1, <2>2
  <1>3. ASSUME NEW id \in RefIds, NEW k \in Nat, NEW s \in Standings, NEW e \in Standings,
               k <= Len(id[2].path), <<id, k, s>> \in K, Via(K, id, k, s, e)
        PROVE  <<id, k + 1, Onward(id, k, e)>> \in K
    <2>1. CASE id \in Held
      <3>1. <<id, k, s>> \in J
        BY <1>3, <2>1
      <3>2. Via(J, id, k, s, e)
        <4>1. CASE Waits(id, k, s)
          <5>1. s.at \in Places /\ RefAt(s.at) # None
            BY <4>1 DEF Waits, Standings, RefAt
          <5>2. RefId(s.at) \in Held
            BY <5>1, HeldAre
          <5>3. <<RefId(s.at), Final(RefId(s.at)), e>> \in K
            BY <1>3, <4>1 DEF Via
          <5> QED
            BY <4>1, <5>2, <5>3 DEF Via
        <4>2. CASE ~Waits(id, k, s)
          BY <1>3, <4>2 DEF Via
        <4> QED
          BY <4>1, <4>2
      <3>3. <<id, k + 1, Onward(id, k, e)>> \in Learn(c, J)
        <4> DEFINE f == <<id, k, s>>
        <4>1. f \in J /\ f[1] = id /\ f[2] = k /\ f[3] = s
          BY <3>1
        <4> HIDE DEF f
        <4>2. f[2] <= Len(f[1][2].path) /\ e \in { d \in Standings : Via(J, f[1], f[2], f[3], d) }
          BY <1>3, <3>2, <4>1
        <4>3. <<f[1], f[2] + 1, Onward(f[1], f[2], e)>> \in Learn(c, J)
          BY <4>1, <4>2 DEF Learn
        <4> QED
          BY <4>1, <4>3
      <3> QED
        BY <3>3
    <2>2. CASE id \notin Held
      <3>1. Onward(id, k, e) \in Standings /\ k + 1 \in Nat
        BY <1>3, OnwardType
      <3> QED
        BY <2>2, <3>1 DEF Facts
    <2> QED
      BY <2>1, <2>2
  <1>4. \A f \in K : f[1] \in Held => f \in J
    OBVIOUS
  <1> HIDE DEF K
  <1>5. Closed(c, K)
    BY <1>2, <1>3 DEF Closed
  <1>6. KnownIf(c) \subseteq K
    BY <1>1, <1>5, KnownIsLeast
  <1> QED
    BY <1>4, <1>6 DEF HeldKnown

------------------------------------------------------------------------------
Rounds(c, n, g) ==
  g = [ k \in 0 .. n |-> IF k = 0 THEN [facts |-> {}, all |-> FALSE] ELSE Round(c, g[k - 1]) ]

LEMMA RoundsExist ==
  ASSUME NEW c, NEW n \in Nat
  PROVE  \E g : Rounds(c, n, g)
  <1> DEFINE S == { m \in Nat : \E g : Rounds(c, m, g) }
             Z == [facts |-> {}, all |-> FALSE]
  <1>1. 0 \in S
    <2> DEFINE g == [ k \in 0 .. 0 |-> Z ]
    <2>1. ASSUME NEW k \in 0 .. 0 PROVE g[k] = IF k = 0 THEN Z ELSE Round(c, g[k - 1])
      <3>1. k = 0
        OBVIOUS
      <3> QED
        BY <3>1
    <2>2. g = [ k \in 0 .. 0 |-> IF k = 0 THEN Z ELSE Round(c, g[k - 1]) ]
      BY <2>1, Zenon
    <2> QED
      BY <2>2 DEF Rounds
  <1>2. ASSUME NEW m \in Nat, m \in S PROVE m + 1 \in S
    <2>1. PICK g : Rounds(c, m, g)
      BY <1>2
    <2>2. \A k \in 0 .. m : g[k] = IF k = 0 THEN Z ELSE Round(c, g[k - 1])
      BY <2>1 DEF Rounds
    <2> DEFINE h == [ k \in 0 .. m + 1 |-> IF k = m + 1 THEN Round(c, g[m]) ELSE g[k] ]
    <2>3. ASSUME NEW k \in 0 .. m + 1
          PROVE  h[k] = IF k = 0 THEN Z ELSE Round(c, h[k - 1])
      <3>1. CASE k = m + 1
        <4>1. k # 0 /\ k - 1 = m /\ m \in 0 .. m + 1 /\ m # m + 1
          BY <3>1
        <4>2. h[k] = Round(c, g[m]) /\ h[m] = g[m]
          BY <3>1, <4>1
        <4> HIDE DEF h
        <4> QED
          BY <4>1, <4>2, Zenon
      <3>2. CASE k # m + 1 /\ k = 0
        <4>1. h[k] = g[k] /\ k \in 0 .. m
          BY <3>2
        <4> HIDE DEF h
        <4> QED
          BY <2>2, <3>2, <4>1
      <3>3. CASE k # m + 1 /\ k # 0
        <4>1. k \in 0 .. m /\ k - 1 \in 0 .. m + 1 /\ k - 1 # m + 1
          BY <3>3
        <4>2. h[k] = g[k] /\ h[k - 1] = g[k - 1]
          BY <3>3, <4>1
        <4> HIDE DEF h
        <4> QED
          BY <2>2, <3>3, <4>1, <4>2
      <3> QED
        BY <3>1, <3>2, <3>3
    <2>4. h = [ k \in 0 .. m + 1 |-> IF k = 0 THEN Z ELSE Round(c, h[k - 1]) ]
      BY <2>3, Zenon
    <2>5. Rounds(c, m + 1, h)
      BY <2>4 DEF Rounds
    <2> QED
      BY <2>5
  <1> HIDE DEF S
  <1>3. \A i \in 0 .. n : i \in S
    BY <1>1, <1>2, StepByStep
  <1>4. n \in 0 .. n
    OBVIOUS
  <1> QED
    BY <1>3, <1>4 DEF S

\* A round that is not the last brings a fact.
Gained(c, r, k) ==
  /\ r.facts \subseteq HeldKnown(c) /\ r.facts \subseteq Learn(c, r.facts)
  /\ r.all \in BOOLEAN
  /\ r.all => Learn(c, r.facts) = r.facts
  /\ ~r.all => k <= Cardinality(r.facts)

LEMMA RoundGains ==
  ASSUME ref \in RefGraphs, NEW c, NEW k \in Nat, NEW r, Gained(c, r, k)
  PROVE  Gained(c, Round(c, r), k + 1)
  <1> DEFINE R == Round(c, r)
  <1>1. r.all \in BOOLEAN /\ r.facts \subseteq HeldKnown(c) /\ r.facts \subseteq Learn(c, r.facts)
    BY DEF Gained
  <1>2. CASE r.all
    <2>1. R.facts = r.facts /\ R.all = TRUE
      BY <1>2 DEF Round
    <2>2. Learn(c, r.facts) = r.facts
      BY <1>2 DEF Gained
    <2> HIDE DEF R
    <2>3. Gained(c, R, k + 1)
      BY <1>1, <2>1, <2>2 DEF Gained
    <2> QED
      BY <2>3 DEF R
  <1>3. CASE ~r.all
    <2> DEFINE F == Learn(c, r.facts)
    <2>1. R.facts = F /\ R.all = (F = r.facts)
      BY <1>3 DEF Round
    <2>2. F \subseteq HeldKnown(c) /\ r.facts \subseteq F
      BY <1>1, LearnSound
    <2>3. F \subseteq Learn(c, F)
      BY <1>1, LearnMore
    <2>4. F = r.facts => Learn(c, F) = F
      OBVIOUS
    <2>5. IsFiniteSet(F) /\ Cardinality(F) \in Nat
      BY <2>2, KnownFits
    <2>6. Cardinality(r.facts) \in Nat
      BY <1>1, KnownFits
    <2>7. k <= Cardinality(r.facts)
      BY <1>3 DEF Gained
    <2> HIDE DEF F, R
    <2>8. Cardinality(r.facts) <= Cardinality(F) /\ (Cardinality(F) = Cardinality(r.facts) => F = r.facts)
      BY <2>2, <2>5, FS_Subset
    <2>9. F # r.facts => k + 1 <= Cardinality(F)
      <3>1. \A a, b \in Nat : k <= a /\ a <= b /\ a # b => k + 1 <= b
        OBVIOUS
      <3> QED
        BY <2>5, <2>6, <2>7, <2>8, <3>1, Zenon
    <2>10. R.all \in BOOLEAN /\ (R.all <=> F = r.facts)
      BY <2>1
    <2>11. Gained(c, R, k + 1)
      BY <2>1, <2>2, <2>3, <2>4, <2>9, <2>10, Zenon DEF Gained
    <2> QED
      BY <2>11 DEF R
  <1> QED
    BY <1>1, <1>2, <1>3

LEMMA RoundsLearn ==
  ASSUME ref \in RefGraphs, NEW c, NEW g, Rounds(c, Enough, g)
  PROVE  g[Enough].facts = HeldKnown(c)
  <1> DEFINE S == { k \in 0 .. Enough : Gained(c, g[k], k) }
  <1>1. Enough \in Nat /\ Enough = Cardinality(Slots) /\ IsFiniteSet(Slots)
    BY SlotsAreFinite
  <1>2. \A k \in 0 .. Enough : g[k] = IF k = 0 THEN [facts |-> {}, all |-> FALSE] ELSE Round(c, g[k - 1])
    BY DEF Rounds
  <1>3. 0 \in S
    <2>1. 0 \in 0 .. Enough
      BY <1>1
    <2>2. g[0].facts = {} /\ g[0].all = FALSE
      BY <1>2, <2>1
    <2>3. 0 <= Cardinality({})
      BY FS_EmptySet
    <2>4. Gained(c, g[0], 0)
      BY <2>2, <2>3 DEF Gained
    <2> QED
      BY <2>1, <2>4
  <1>4. ASSUME NEW i \in Nat, 0 <= i, i < Enough, i \in S PROVE i + 1 \in S
    <2>1. i + 1 \in 0 .. Enough /\ i + 1 # 0 /\ (i + 1) - 1 = i
      BY <1>1, <1>4
    <2>2. g[i + 1] = Round(c, g[i])
      BY <1>2, <2>1
    <2>3. Gained(c, g[i + 1], i + 1)
      BY <1>4, <2>2, RoundGains
    <2> QED
      BY <2>1, <2>3
  <1> HIDE DEF S
  <1>5. \A i \in 0 .. Enough : i \in S
    BY <1>1, <1>3, <1>4, StepByStep
  <1>6. Gained(c, g[Enough], Enough)
    <2>1. Enough \in 0 .. Enough
      BY <1>1
    <2> QED
      BY <1>5, <2>1 DEF S
  <1> DEFINE F == g[Enough].facts
  <1>7. F \subseteq HeldKnown(c) /\ F \subseteq Learn(c, F) /\ g[Enough].all \in BOOLEAN
    BY <1>6 DEF Gained
  <1>8. CASE g[Enough].all
    <2>1. Learn(c, F) = F
      BY <1>6, <1>8 DEF Gained
    <2> HIDE DEF F
    <2>2. F = HeldKnown(c)
      BY <1>7, <2>1, NothingNewIsAll
    <2> QED
      BY <2>2 DEF F
  <1>9. CASE ~g[Enough].all
    <2>1. Enough <= Cardinality(F)
      BY <1>6, <1>9 DEF Gained
    <2> HIDE DEF F
    <2>2. HeldKnown(c) \subseteq HeldKnown(c)
      OBVIOUS
    <2>3. /\ IsFiniteSet(HeldKnown(c)) /\ Cardinality(HeldKnown(c)) \in Nat
          /\ Cardinality(HeldKnown(c)) <= Enough
      BY <2>2, KnownFits
    <2>4. Cardinality(F) \in Nat
      BY <1>7, KnownFits
    <2>5. /\ Cardinality(F) <= Cardinality(HeldKnown(c))
          /\ Cardinality(HeldKnown(c)) = Cardinality(F) => HeldKnown(c) = F
      BY <1>7, <2>3, FS_Subset
    <2>6. Cardinality(HeldKnown(c)) = Cardinality(F)
      <3>1. \A a, b, n \in Nat : n <= a /\ a <= b /\ b <= n => b = a
        OBVIOUS
      <3> QED
        BY <1>1, <2>1, <2>3, <2>4, <2>5, <3>1, Zenon
    <2> QED
      BY <2>5, <2>6 DEF F
  <1> QED
    BY <1>7, <1>8, <1>9

\* The reference definition finds what can be found out.
LEMMA LearnedIsAll ==
  ASSUME ref \in RefGraphs, NEW c
  PROVE  Learned(c) = HeldKnown(c)
  <1> DEFINE g == CHOOSE h : Rounds(c, Enough, h)
  <1>1. Rounds(c, Enough, g)
    BY SlotsAreFinite, RoundsExist
  <1>2. Learned(c) = g[Enough].facts
    BY DEF Learned, Rounds
  <1> HIDE DEF g
  <1> QED
    BY <1>1, <1>2, RoundsLearn

------------------------------------------------------------------------------
(* Who is rejected stands on a circle, where nothing is ever found out.    *)

\* Each of the references C leads to where another one of them is awaited.
Spot(C, i, k, s) ==
  k <= Len(i[2].path) /\ <<i, k, s>> \in Known /\ Waits(i, k, s) /\ RefId(s.at) \in C
Circle(C) == \A i \in C : \E k \in Nat, s \in Standings : Spot(C, i, k, s)
Doomed(id) == \E C \in SUBSET RefIds : id \in C /\ Circle(C)
DoomInv == \A x \in Ids : status[x] = "rejected" => Doomed(RefId(x[2]))

LEMMA DoomedIsSilent ==
  ASSUME NEW c, Known \subseteq KnownIf(c), NEW id \in RefIds, Doomed(id), NEW t
  PROVE  <<id, Final(id), t>> \notin KnownIf(c)
  <1>1. PICK C \in SUBSET RefIds : id \in C /\ Circle(C)
    BY DEF Doomed
  <1> DEFINE Before(i, m) == \E k \in Nat, s \in Standings : k < m /\ Spot(C, i, k, s)
             J == { f \in KnownIf(c) : f[1] \in C => ~Before(f[1], f[2]) }
  <1>2. J \in SUBSET Facts /\ J \subseteq KnownIf(c)
    BY DEF KnownIf
  <1>3. ASSUME NEW i \in C PROVE Before(i, Final(i))
    <2>1. PICK k \in Nat, s \in Standings : Spot(C, i, k, s)
      BY <1>1 DEF Circle
    <2>2. k <= Len(i[2].path) /\ Len(i[2].path) \in Nat /\ Final(i) = Len(i[2].path) + 1
      BY <2>1, RefIdsAre DEF Spot, Final
    <2>3. k < Final(i)
      BY <2>2
    <2> QED
      BY <2>1, <2>3
  <1>4. ASSUME NEW i \in RefIds, NEW a \in Standings, StartsAt(c, i, a)
        PROVE  <<i, 0, a>> \in J
    <2>1. <<i, 0, a>> \in KnownIf(c)
      BY <1>4, KnownIsClosed DEF Closed
    <2>2. ~Before(i, 0)
      OBVIOUS
    <2> QED
      BY <2>1, <2>2
  <1>5. ASSUME NEW i \in RefIds, NEW m \in Nat, NEW a \in Standings, NEW e \in Standings,
               m <= Len(i[2].path), <<i, m, a>> \in J, Via(J, i, m, a, e)
        PROVE  <<i, m + 1, Onward(i, m, e)>> \in J
    <2>1. <<i, m, a>> \in KnownIf(c) /\ Via(KnownIf(c), i, m, a, e)
      BY <1>5 DEF Via
    <2>2. <<i, m + 1, Onward(i, m, e)>> \in KnownIf(c)
      BY <1>5, <2>1, KnownIsClosed DEF Closed
    <2>3. ASSUME i \in C, NEW k \in Nat, NEW s \in Standings, k < m + 1, Spot(C, i, k, s)
          PROVE  FALSE
      <3>1. ~(k < m)
        BY <1>5, <2>3
      <3>2. k = m
        BY <2>3, <3>1
      <3>3. <<i, m, s>> \in KnownIf(c) /\ Waits(i, m, s) /\ RefId(s.at) \in C
        BY <2>3, <3>2 DEF Spot
      <3>4. s = a
        BY <2>1, <3>3, KnownIsOne
      <3>5. <<RefId(a.at), Final(RefId(a.at)), e>> \in J
        BY <1>5, <3>3, <3>4 DEF Via
      <3>6. ~Before(RefId(a.at), Final(RefId(a.at)))
        BY <3>3, <3>4, <3>5
      <3> QED
        BY <1>3, <3>3, <3>4, <3>6
    <2> QED
      BY <2>2, <2>3
  <1>6. \A f \in J : f[1] \in C => ~Before(f[1], f[2])
    OBVIOUS
  <1> HIDE DEF J, Before
  <1>7. Closed(c, J)
    BY <1>4, <1>5 DEF Closed
  <1>8. KnownIf(c) \subseteq J
    BY <1>2, <1>7, KnownIsLeast
  <1>9. ASSUME <<id, Final(id), t>> \in KnownIf(c) PROVE FALSE
    <2>1. PICK f \in J : f = <<id, Final(id), t>>
      BY <1>8, <1>9
    <2>2. f[1] = id /\ f[2] = Final(id)
      BY <2>1
    <2> QED
      BY <1>1, <1>3, <1>6, <2>2
  <1> QED
    BY <1>9

LEMMA DoomStays ==
  ASSUME ref' = ref, \A d \in Docs : cache[d] \in {"loaded", "failed"} => cache'[d] = cache[d]
  PROVE  \A id : Doomed(id) => Doomed(id)'
  <1>1. Known \subseteq Known'
    BY KnownGrows
  <1>2. \A p : RefId(p)' = RefId(p)
    BY DEF RefId, RefAt
  <1>3. \A i, k, s : Waits(i, k, s)' <=> Waits(i, k, s)
    BY DEF Waits
  <1>4. \A C, i, k, s : Spot(C, i, k, s) => Spot(C, i, k, s)'
    BY <1>1, <1>2, <1>3 DEF Spot
  <1>5. \A C : Circle(C) => Circle(C)'
    BY <1>4 DEF Circle
  <1> QED
    BY <1>5 DEF Doomed

\* The calls from the one that is met again to the one that meets it.
LEMMA RejectedIsDoomed ==
  ASSUME NoNames, IInv, NEW x \in Ids, ToldTask(x), EnterCircular(x)
  PROVE  Doomed(RefId(x[2]))
  <1> DEFINE s == stack[x]
             n == Len(s)
             C == { RefId(s[j].ref) : j \in 1 .. n - 1 }
  <1>1. status[x] = "running" /\ s \in Seq(Frames) /\ s # <<>> /\ GoodStack(s) /\ Chained(s) /\ s[1].ref = x[2]
    BY Running DEF EnterCircular, InStage, ToldTask
  <1>2. n \in Nat /\ n >= 1
    BY <1>1
  <1>3. \A j \in 1 .. n : s[j] \in Frames /\ s[j].ref \in Places /\ RefAt(s[j].ref) # None
    <2>1. \A j \in 1 .. n : s[j] \in Frames
      BY <1>1
    <2>2. \A j \in 1 .. n : ref[s[j].ref.node] # None
      BY <1>1 DEF GoodStack
    <2> HIDE DEF s, n
    <2> QED
      BY <2>1, <2>2 DEF Frames, RefAt
  <1>4. Last(s) = s[n]
    BY <1>1 DEF Last
  <1>5. PICK i \in 1 .. n - 1 : s[i].ref.node = s[n].ref.node
    BY <1>4 DEF EnterCircular, Circular, Top
  <1>6. \A p \in Places : p.via = None /\ p = [via |-> None, node |-> p.node]
    BY DEF NoNames, Places, Vias
  <1>7. 1 \in 1 .. n - 1 /\ i \in 1 .. n /\ n \in 1 .. n
    BY <1>2, <1>5
  <1>8. s[i].ref = s[n].ref
    BY <1>3, <1>5, <1>6, <1>7
  <1> HIDE DEF s, n
  <1>9. \A j \in 1 .. n : RefId(s[j].ref) \in RefIds /\ RefId(s[j].ref) \in C
    <2>1. ASSUME NEW j \in 1 .. n PROVE RefId(s[j].ref) \in RefIds
      BY <1>3, RefAtType DEF IInv, TypeOK
    <2>2. ASSUME NEW j \in 1 .. n PROVE RefId(s[j].ref) \in C
      <3>1. CASE j = n
        BY <1>5, <1>8, <3>1
      <3>2. CASE j # n
        <4>1. j \in 1 .. n - 1
          BY <1>2, <3>2
        <4> QED
          BY <4>1
      <3> QED
        BY <3>1, <3>2
    <2> QED
      BY <2>1, <2>2
  <1>10. C \in SUBSET RefIds
    <2>1. \A j \in 1 .. n - 1 : j \in 1 .. n
      BY <1>2
    <2> QED
      BY <1>9, <2>1
  <1>11. ASSUME NEW j \in 1 .. n - 1
         PROVE  \E k \in Nat, t \in Standings : Spot(C, RefId(s[j].ref), k, t)
    <2> DEFINE id    == RefId(s[j].ref)
               place == s[j + 1].ref
               t     == Stand(TRUE, place)
               len   == Len(id[2].path)
    <2>1. j \in 1 .. n /\ j + 1 \in 1 .. n
      BY <1>2
    <2>2. place \in Places /\ RefAt(place) # None /\ id \in RefIds /\ RefId(place) \in C
      BY <1>3, <1>9, <2>1
    <2>3. Awaits(s[j], place)
      BY <1>1 DEF Chained, s, n
    <2>4. t \in Standings /\ t.at = place /\ len \in Nat
      BY <2>2, StandType, RefIdsAre
    <2>5. CASE <<id, len, t>> \in Known
      <3> HIDE DEF C, t, place, id
      <3>1. len <= Len(id[2].path) /\ ~(len < Len(id[2].path))
        BY <2>4
      <3>2. place # None /\ ref[place.node] # None
        BY <2>2, NoneIsNothing DEF RefAt
      <3>3. Waits(id, len, t)
        BY <2>4, <3>1, <3>2 DEF Waits
      <3>4. Spot(C, id, len, t)
        BY <2>2, <2>4, <2>5, <3>1, <3>3 DEF Spot
      <3> QED
        BY <2>4, <3>4 DEF id
    <2>6. ASSUME NEW k \in 0 .. len - 1, <<id, k, t>> \in Known, Waits(id, k, t)
          PROVE  \E m \in Nat : Spot(C, id, m, t)
      <3>1. k \in Nat /\ k <= len
        BY <2>4
      <3>2. Spot(C, id, k, t)
        BY <2>2, <2>4, <2>6, <3>1 DEF Spot
      <3> QED
        BY <3>1, <3>2
    <2> HIDE DEF C, t, place
    <2>7. \/ <<id, len, t>> \in Known
          \/ \E k \in 0 .. len - 1 : <<id, k, t>> \in Known /\ Waits(id, k, t)
      BY <2>3 DEF Awaits, t
    <2> QED
      BY <2>4, <2>5, <2>6, <2>7
  <1>12. Circle(C)
    BY <1>11 DEF Circle
  <1>13. RefId(x[2]) \in C
    BY <1>1, <1>7, <1>9 DEF s
  <1> HIDE DEF C
  <1> QED
    BY <1>10, <1>12, <1>13 DEF Doomed

LEMMA DoomNext ==
  ASSUME NoNames, IInv, ToldInv, DoomInv, [Next]_vars
  PROVE  DoomInv'
  <1>1. SUFFICES /\ ref' = ref
                 /\ \A d \in Docs : cache[d] \in {"loaded", "failed"} => cache'[d] = cache[d]
                 /\ \A y \in Ids : status'[y] = "rejected" => status[y] = "rejected" \/ EnterCircular(y)
    <2>1. ASSUME NEW y \in Ids, status'[y] = "rejected" PROVE Doomed(RefId(y[2]))'
      <3>1. Doomed(RefId(y[2]))
        <4>1. CASE status[y] = "rejected"
          BY <4>1 DEF DoomInv
        <4>2. CASE EnterCircular(y)
          BY <4>2, RejectedIsDoomed DEF ToldInv
        <4> QED
          BY <1>1, <2>1, <4>1, <4>2
      <3>2. RefId(y[2])' = RefId(y[2])
        BY <1>1 DEF RefId, RefAt
      <3> QED
        BY <1>1, <3>1, <3>2, DoomStays
    <2> QED
      BY <2>1 DEF DoomInv
  <1>2. CASE UNCHANGED <<ref, cache, status>>
    BY <1>2
  <1>3. ASSUME NEW x \in Ids, Enter(x) \/ Continue(x), ~EnterCircular(x), ~Settle(x) PROVE ToldStep(x)
    BY <1>3, ToldAdvances DEF ToldInv
  <1>4. ASSUME NEW x \in Ids, Enter(x) \/ Continue(x)
        PROVE  /\ ref' = ref
               /\ \A d \in Docs : cache[d] \in {"loaded", "failed"} => cache'[d] = cache[d]
               /\ \A y \in Ids : status'[y] = "rejected" => status[y] = "rejected" \/ EnterCircular(y)
    <2>0. status \in [Ids -> {"idle", "running", "settled", "rejected"}]
      BY DEF IInv, TypeOK
    <2>1. CASE EnterCircular(x)
      <3>1. ref' = ref /\ cache' = cache /\ status' = [ status EXCEPT ![x] = "rejected" ]
        BY <2>1 DEF EnterCircular
      <3>2. \A y \in Ids : y # x => status'[y] = status[y]
        BY <2>0, <3>1
      <3> QED
        BY <2>1, <3>1, <3>2
    <2>2. CASE Settle(x)
      <3> DEFINE w == Walk(x[1], Found(x), seen)
      <3>1. /\ ref' = ref /\ cache' = cache
            /\ status' = [ y \in Ids |-> IF y \in w.starting THEN "running"
                                         ELSE IF y = x THEN "settled" ELSE status[y] ]
        BY <2>2 DEF Settle
      <3> HIDE DEF w
      <3> QED
        BY <3>1
    <2>3. CASE ~EnterCircular(x) /\ ~Settle(x)
      BY <1>3, <1>4, <2>3 DEF ToldStep
    <2> QED
      BY <2>1, <2>2, <2>3
  <1>5. ASSUME NEW d \in Docs, Load(d)
        PROVE  /\ ref' = ref /\ status' = status
               /\ \A c \in Docs : cache[c] \in {"loaded", "failed"} => cache'[c] = cache[c]
    <2>1. PICK outcome \in {"loaded", "failed"} : cache' = [ cache EXCEPT ![d] = outcome ]
      BY <1>5 DEF Load
    <2>2. cache[d] = "loading" /\ ref' = ref /\ status' = status
      BY <1>5 DEF Load
    <2>3. cache \in [Docs -> {"absent", "loading", "loaded", "failed"}]
      BY DEF IInv, TypeOK
    <2> QED
      BY <2>1, <2>2, <2>3
  <1>6. CASE Loop \/ Over \/ UNCHANGED vars
    <2>1. UNCHANGED <<ref, cache, status>>
      BY <1>6 DEF Loop, AwaitAll, AwaitRejected, Over, vars
    <2> QED
      BY <1>2, <2>1
  <1>7. CASE Tasks
    BY <1>4, <1>7 DEF Tasks
  <1>8. CASE Loads
    BY <1>5, <1>8 DEF Loads
  <1> QED
    BY <1>6, <1>7, <1>8 DEF Next

LEMMA OutcomeKnows == Known \subseteq KnownIf(Outcome)
  <1>1. \A d \in Docs : cache[d] \in {"loaded", "failed"} => Outcome[d] = cache[d]
    BY DEF Outcome
  <1>2. PICK now, out : now = cache /\ out = Outcome
    OBVIOUS
  <1>3. KnownIf(now) \subseteq KnownIf(out)
    BY <1>1, <1>2, KnownMore
  <1> QED
    BY <1>2, <1>3 DEF Known

LEMMA ToldIsMeant ==
  ASSUME ref \in RefGraphs, NEW p \in Places, RefAt(p) # None, NEW e, Tells(RefId(p), e)
  PROVE  Denotes(Learned(Outcome), RefId(p)) = {Stand(e.resolved, e.at)}
  <1> DEFINE id == RefId(p)
             s  == Stand(e.resolved, e.at)
             K  == KnownIf(Outcome)
  <1>1. id \in RefIds /\ id \in Held /\ Final(id) \in Nat
    BY RefAtType, HeldAre, RefIdsAre
  <1>2. <<id, Final(id), s>> \in K
    BY OutcomeKnows DEF Tells
  <1>3. s \in Standings
    BY <1>2 DEF KnownIf, Facts
  <1>4. Learned(Outcome) = HeldKnown(Outcome)
    BY LearnedIsAll
  <1> HIDE DEF id, s
  <1>5. ASSUME NEW t, <<id, Final(id), t>> \in K PROVE t = s
    BY <1>1, <1>2, <1>5, KnownIsOne
  <1>6. \A t : <<id, Final(id), t>> \in HeldKnown(Outcome) <=> <<id, Final(id), t>> \in K
    BY <1>1 DEF HeldKnown
  <1> HIDE DEF K
  <1> QED
    BY <1>2, <1>3, <1>4, <1>5, <1>6 DEF Denotes, id, s

LEMMA DoomMeansNothing ==
  ASSUME NEW id \in RefIds, Doomed(id), ref \in RefGraphs
  PROVE  Denotes(Learned(Outcome), id) = {}
  <1>1. Learned(Outcome) = HeldKnown(Outcome)
    BY LearnedIsAll
  <1>2. \A t : <<id, Final(id), t>> \notin KnownIf(Outcome)
    BY OutcomeKnows, DoomedIsSilent
  <1> QED
    BY <1>1, <1>2 DEF Denotes, HeldKnown

\* Where no $ref is by name, resolveDocument does what following each $ref alone
\* would do, whatever the order in which documents arrive and tasks interleave:
\* the map says the same, it is closed, and only what lies on a circle rejects.
THEOREM ResolvesAsIfSequential ==
  ASSUME NoNames
  PROVE  Spec => []AsIfSequential
  <1>1. Init => DoomInv
    BY DEF Init, DoomInv
  <1>2. IInv /\ ToldInv /\ DoomInv /\ [Next]_vars => DoomInv'
    BY DoomNext
  <1>3. IInv /\ ToldInv /\ WInv => SameAsAlone
    <2> SUFFICES ASSUME IInv, ToldInv, WInv, phase = "done", NEW x \in seen, RefAt(x[2]) # None
                 PROVE  Denotes(Learned(Outcome), RefId(x[2]))
                          = {Stand(map[RefId(x[2])].resolved, map[RefId(x[2])].at)}
      BY DEF SameAsAlone
    <2>1. x \in Ids /\ x[2] \in Places /\ ref \in RefGraphs
      BY DEF IInv, TypeOK, Ids
    <2>2. RefId(x[2]) \in RefIds
      BY <2>1, RefAtType
    <2>3. status[x] = "settled"
      BY <2>1 DEF WInv, Started
    <2>4. map[RefId(x[2])] # None
      BY <2>1, <2>3 DEF ToldInv, ToldTask
    <2>5. Tells(RefId(x[2]), map[RefId(x[2])])
      BY <2>2, <2>4 DEF ToldInv, ToldMap, Told
    <2> QED
      BY <2>1, <2>5, ToldIsMeant
  <1>4. IInv /\ DoomInv => OnlyCyclesReject
    <2> SUFFICES ASSUME IInv, DoomInv, NEW x \in Ids, status[x] = "rejected"
                 PROVE  Denotes(Learned(Outcome), RefId(x[2])) = {}
      BY DEF OnlyCyclesReject
    <2>1. Doomed(RefId(x[2])) /\ ref \in RefGraphs
      BY DEF DoomInv, IInv, TypeOK
    <2>2. RefId(x[2]) \in RefIds
      BY <2>1 DEF Doomed
    <2> QED
      BY <2>1, <2>2, DoomMeansNothing
  <1>5. Spec => [](IInv /\ ToldInv)
    BY ToldInvariance
  <1>6. Spec => [](IInv /\ WInv)
    BY WalkedInvariance
  <1>7. Spec => []DoneMeansClosed
    BY ReturnedIsClosed
  <1> QED
    BY <1>1, <1>2, <1>3, <1>4, <1>5, <1>6, <1>7, PTL DEF Spec, AsIfSequential
=============================================================================
