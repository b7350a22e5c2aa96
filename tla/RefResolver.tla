----------------------------- MODULE RefResolver -----------------------------
(***************************************************************************)
(* Reference resolution of packages/core/src/resolve.ts: the document      *)
(* cache of BaseResolver and the function resolveDocument, which walks the *)
(* root document, follows every $ref it meets in an asynchronous task of   *)
(* its own, walks what each task finds, and returns the map of resolved    *)
(* references once no task is left.                                        *)
(*                                                                         *)
(* A node is its location <<document, pointer>>; a place is a node and the *)
(* pointer base it was reached by (None for a JSON pointer, the anchor for *)
(* a plain-name fragment), which is what the code's nodeId strings tell    *)
(* apart.  A task is the promise of one followRef call made by walk; its   *)
(* stack holds the nested followRef calls it is awaiting.  A step is the   *)
(* code between two awaits, except that a followRef call runs in a step of *)
(* its own (Enter) and not in the step of its caller.                      *)
(***************************************************************************)
EXTENDS Naturals, Sequences, FiniteSets, SequencesExt

CONSTANTS
  Docs,         (* absolute references of documents                          *)
  Segs,         (* pointer segments                                          *)
  Nodes,        (* the objects and arrays of every document: <<doc, pointer>> *)
  Types,        (* node type names                                           *)
  TypeAt,       (* TypeAt[t][p]: type of the node at p below a node of type t, *)
                (* None where walk does not descend                          *)
  Anchors,      (* plain names used by $anchor                               *)
  AnchorOf,     (* the $anchor of a node, or None                            *)
  Siblings,     (* the nodes that, if they hold a $ref, hold other keys too  *)
  RefStrs,      (* $ref values: [uri, path, anchor]                          *)
  RefGraphs,    (* the candidate contents: which node holds which $ref       *)
  RootDoc, RootType,
  HttpDocs,     (* documents with an http(s) or data: absolute reference     *)
  FileUrls,     (* documents with a file: absolute reference                 *)
  OverlayFiles, (* local files that overlays add to a remote description     *)
  None

Vias   == {None} \cup (Docs \X Anchors)
Places == [via : Vias, node : Nodes]
Ids    == Types \X Places
Root(d) == [via |-> None, node |-> <<d, <<>>>>]

ASSUME Documents ==
  /\ IsFiniteSet(Docs) /\ IsFiniteSet(Nodes)
  /\ Nodes \subseteq Docs \X Seq(Segs)
  /\ \A d \in Docs : <<d, <<>>>> \in Nodes
  /\ \A n \in Nodes : \A k \in 0 .. Len(n[2]) : <<n[1], SubSeq(n[2], 1, k)>> \in Nodes
  /\ RootDoc \in Docs /\ RootType \in Types
  /\ HttpDocs \subseteq Docs /\ FileUrls \subseteq Docs /\ OverlayFiles \subseteq Docs
ASSUME Graphs ==
  /\ RefStrs \subseteq [uri : Docs \cup {None}, path : Seq(Segs), anchor : Anchors \cup {None}]
  /\ RefGraphs \subseteq [Nodes -> RefStrs \cup {None}]
  /\ AnchorOf \in [Nodes -> Anchors \cup {None}]
  /\ Siblings \subseteq Nodes
\* resolveExternalRef: what a remote document refers to is resolved as a URL
\* against its own, so it is remote itself or a file: URL.
ASSUME RemoteUrls ==
  /\ HttpDocs \cap FileUrls = {}
  /\ \A g \in RefGraphs, n \in Nodes :
       n[1] \in HttpDocs /\ g[n] # None => g[n].uri \in HttpDocs \cup FileUrls \cup {None}
ASSUME NoneIsNothing ==
  None \notin RefStrs /\ None \notin Places /\ None \notin Types /\ None \notin Docs
  /\ None \notin Anchors

VARIABLES
  ref,     (* the contents of the documents, chosen once                   *)
  cache,   (* BaseResolver.cache: the state of each document's promise     *)
  loads,   (* how many times loadExternalRef was called for each document  *)
  seen,    (* seenNodes                                                    *)
  scope,   (* the anchored places of the walk that started each task       *)
  status,  (* the state of each promise of resolvePromises                 *)
  stack,   (* the followRef calls each task is in, the last one innermost  *)
  ret,     (* what the innermost call returned, when its stage is returned *)
  map,     (* resolvedRefMap                                               *)
  phase,   (* the outcome of resolveDocument's completion loop             *)
  snap     (* the promises the pending Promise.all was given               *)

vars == <<ref, cache, loads, seen, scope, status, stack, ret, map, phase, snap>>

RefIds == Docs \X RefStrs

\* `by` is the task whose followRef put this very object in the map and also
\* returned it, uncopied, to its caller; None for an object nobody else holds.
Entries == [resolved : BOOLEAN, at : Places \cup {None}, chain : Seq(Places),
            by : Ids \cup {None}]
ASSUME NoneIsNoEntry == None \notin Entries /\ None \notin Docs \X Anchors /\ None \notin Ids
Entry(ok, place, hops, owner) ==
  [resolved |-> ok, at |-> place, chain |-> hops, by |-> owner]

Stages == {"enter", "load", "tick", "inner", "tail", "returned"}
Frames == [ref : Places, stage : Stages, rest : Seq(Segs)]
Call(place) == [ref |-> place, stage |-> "enter", rest |-> <<>>]

DocOf(place) == IF place.via = None THEN place.node[1] ELSE place.via[1]
RefAt(place) == ref[place.node]
RefId(place) == <<DocOf(place), RefAt(place)>>
Below(place, path) ==
  [place EXCEPT !.node = <<place.node[1], place.node[2] \o path>>]

IsRemote(place) == RefAt(place).uri \notin {None, DocOf(place)}
TargetDoc(place) == IF IsRemote(place) THEN RefAt(place).uri ELSE DocOf(place)
\* Faulty: only the root document is held to the rule.
ForbiddenFromRoot(from, to) ==
  to \in FileUrls /\ from = RootDoc /\ from \in HttpDocs /\ to \notin OverlayFiles
\* A remote document may not pull in a local file that no overlay added.
Forbidden(from, to) == to \in FileUrls /\ from \in HttpDocs /\ to \notin OverlayFiles

------------------------------------------------------------------------------
(* walk: the places below a place that a walk visits, with their types.    *)

Rel(place, below) ==
  SubSeq(below.node[2], Len(place.node[2]) + 1, Len(below.node[2]))

Covered(t, place, met) ==
  { x \in Ids :
      /\ x[2].via = place.via
      /\ x[2].node[1] = place.node[1]
      /\ IsPrefix(place.node[2], x[2].node[2])
      /\ x[1] = TypeAt[t][Rel(place, x[2])]
      /\ \A k \in 0 .. Len(Rel(place, x[2])) :
           LET above == SubSeq(Rel(place, x[2]), 1, k)
           IN <<TypeAt[t][above], Below(place, above)>> \notin met }

Anchored(ids) == { x[2] : x \in { y \in ids : AnchorOf[y[2].node] # None } }

\* Faulty: a node met with one type is taken as met with every type.
WalkByNode(t, places, met) ==
  LET known    == { <<u, x[2]>> : u \in Types, x \in met }
      cover(i) == Covered(t, places[i], known)
                    \ UNION { Covered(t, places[j], known) : j \in 1 .. i - 1 }
      fresh    == UNION { Covered(t, places[i], known) : i \in DOMAIN places }
      walk(x)  == CHOOSE i \in DOMAIN places : x \in cover(i)
  IN [ fresh    |-> fresh,
       starting |-> { x \in fresh : RefAt(x[2]) # None },
       scope    |-> [ x \in fresh |-> Anchored(cover(walk(x))) ] ]

\* resolveRefsInParallel of each place in turn, with the referencing type:
\* every node not met before is marked, and every $ref among them starts a
\* task that can see the anchors of its own walk.
Walk(t, places, met) ==
  LET cover(i) == Covered(t, places[i], met)
                    \ UNION { Covered(t, places[j], met) : j \in 1 .. i - 1 }
      fresh    == UNION { Covered(t, places[i], met) : i \in DOMAIN places }
      walk(x)  == CHOOSE i \in DOMAIN places : x \in cover(i)
  IN [ fresh    |-> fresh,
       starting |-> { x \in fresh : RefAt(x[2]) # None },
       scope    |-> [ x \in fresh |-> Anchored(cover(walk(x))) ] ]

Started == { x \in Ids : status[x] # "idle" }

\* The root document is walked before the completion loop starts.
Init ==
  /\ ref \in RefGraphs
  /\ cache = [ d \in Docs |-> IF d = RootDoc THEN "loaded" ELSE "absent" ]
  /\ loads = [ d \in Docs |-> IF d = RootDoc THEN 1 ELSE 0 ]
  /\ LET w == Walk(RootType, <<Root(RootDoc)>>, {})
     IN /\ seen   = w.fresh
        /\ status = [ x \in Ids |-> IF x \in w.starting THEN "running" ELSE "idle" ]
        /\ stack  = [ x \in Ids |-> IF x \in w.starting THEN <<Call(x[2])>> ELSE <<>> ]
        /\ scope  = [ x \in Ids |-> IF x \in w.starting THEN w.scope[x] ELSE {} ]
        /\ snap   = w.starting
  /\ ret = [ x \in Ids |-> None ]
  /\ map = [ id \in RefIds |-> None ]
  /\ phase = "awaiting"

------------------------------------------------------------------------------
(* followRef, one step per stretch between two awaits.                     *)

Top(x) == Last(stack[x])
Under(x) == Front(stack[x])
InStage(x, s) == status[x] = "running" /\ Top(x).stage = s
At(frame, s, path) == [ frame EXCEPT !.stage = s, !.rest = path ]

\* `frame`, called from the calls `under`, stops at an await ...
Wait(x, under, frame) == stack' = [ stack EXCEPT ![x] = Append(under, frame) ]
\* ... awaits a nested followRef of the $ref at `place` ...
Nest(x, under, frame, place) ==
  stack' = [ stack EXCEPT ![x] = under \o <<frame, Call(place)>> ]
\* ... or records its entry in the map `m` and returns it.
Return(x, under, frame, m, entry) ==
  /\ Wait(x, under, At(frame, "returned", <<>>))
  /\ map' = [ m EXCEPT ![RefId(frame.ref)] = entry ]
  /\ ret' = [ ret EXCEPT ![x] = entry ]

\* An entry that a nested call returned uncopied is modified in the map too.
Write(shared, place) == IF shared = None THEN map ELSE [ map EXCEPT ![shared].at = place ]

\* Faulty: what is recorded is also handed, uncopied, to the caller.
FinishUncopied(x, under, frame, shared, place) ==
  IF RefAt(place) # None
  THEN /\ Nest(x, under, At(frame, "tail", <<>>), place)
       /\ map' = Write(shared, place)
       /\ UNCHANGED ret
  ELSE Return(x, under, frame, Write(shared, place), Entry(TRUE, place, <<>>, x))

\* The pointer is used up.  A target that is itself a $ref is followed before
\* anything is recorded.
Finish(x, under, frame, shared, place) ==
  IF RefAt(place) # None
  THEN /\ Nest(x, under, At(frame, "tail", <<>>), place)
       /\ map' = Write(shared, place)
       /\ UNCHANGED ret
  ELSE Return(x, under, frame, Write(shared, place), Entry(TRUE, place, <<>>, None))

\* The loop over the segments of the pointer: from `place` along `path` to its
\* end, to a $ref that has no such key, or to a missing segment.
Traverse(x, under, frame, shared, place, path) ==
  \E k \in 0 .. Len(path) :
    LET here == Below(place, SubSeq(path, 1, k))
    IN /\ here.node \in Nodes
       /\ k < Len(path) => Below(place, SubSeq(path, 1, k + 1)).node \notin Nodes
       /\ \/ k = Len(path) /\ Finish(x, under, frame, shared, here)
          \/ /\ k < Len(path) /\ RefAt(here) # None
             /\ Nest(x, under, At(frame, "inner", SubSeq(path, k + 1, Len(path))), here)
             /\ UNCHANGED <<map, ret>>
          \/ /\ k < Len(path) /\ RefAt(here) = None
             /\ Return(x, under, frame, Write(shared, None), Entry(TRUE, None, <<>>, None))

\* Faulty: an equal $ref further out is taken for a cycle.
CircularByValue(x) == \E i \in 1 .. Len(stack[x]) - 1 : RefAt(stack[x][i].ref) = RefAt(Top(x).ref)

\* followRef meets a node it is already following in an enclosing call: the
\* error escapes every enclosing followRef and rejects the task's promise.
Circular(x) == \E i \in 1 .. Len(stack[x]) - 1 : stack[x][i].ref.node = Top(x).ref.node

EnterCircular(x) ==
  /\ InStage(x, "enter") /\ Circular(x)
  /\ status' = [ status EXCEPT ![x] = "rejected" ]
  /\ stack'  = [ stack EXCEPT ![x] = <<>> ]
  /\ UNCHANGED <<ref, cache, loads, seen, scope, ret, map, phase, snap>>

Entering(x) == InStage(x, "enter") /\ ~Circular(x)

EnterAnchor(x) ==
  /\ Entering(x) /\ RefAt(Top(x).ref).anchor # None
  /\ Wait(x, Under(x), At(Top(x), "tick", <<>>))
  /\ UNCHANGED <<ref, cache, loads, seen, scope, status, ret, map, phase, snap>>

\* Faulty: a local pointer is looked up in the root document.
EnterLocalInRoot(x) ==
  /\ Entering(x) /\ RefAt(Top(x).ref).anchor = None /\ ~IsRemote(Top(x).ref)
  /\ Traverse(x, Under(x), Top(x), None, Root(RootDoc), RefAt(Top(x).ref).path)
  /\ UNCHANGED <<ref, cache, loads, seen, scope, status, phase, snap>>

EnterLocal(x) ==
  /\ Entering(x) /\ RefAt(Top(x).ref).anchor = None /\ ~IsRemote(Top(x).ref)
  /\ Traverse(x, Under(x), Top(x), None, Root(DocOf(Top(x).ref)), RefAt(Top(x).ref).path)
  /\ UNCHANGED <<ref, cache, loads, seen, scope, status, phase, snap>>

\* Faulty: a document is cached once it is in.
EnterRemoteLateCache(x) ==
  /\ Entering(x) /\ RefAt(Top(x).ref).anchor = None /\ IsRemote(Top(x).ref)
  /\ LET d == TargetDoc(Top(x).ref)
     IN /\ ~Forbidden(DocOf(Top(x).ref), d)
        /\ IF cache[d] \in {"absent", "loading"}
           THEN /\ cache' = [ cache EXCEPT ![d] = "loading" ]
                /\ loads' = [ loads EXCEPT ![d] = @ + 1 ]
           ELSE UNCHANGED <<cache, loads>>
  /\ Wait(x, Under(x), At(Top(x), "load", <<>>))
  /\ UNCHANGED <<ref, seen, scope, status, ret, map, phase, snap>>

\* The promise of a document is cached before it settles.
EnterRemote(x) ==
  /\ Entering(x) /\ RefAt(Top(x).ref).anchor = None /\ IsRemote(Top(x).ref)
  /\ LET d == TargetDoc(Top(x).ref)
     IN /\ ~Forbidden(DocOf(Top(x).ref), d)
        /\ IF cache[d] = "absent"
           THEN /\ cache' = [ cache EXCEPT ![d] = "loading" ]
                /\ loads' = [ loads EXCEPT ![d] = @ + 1 ]
           ELSE UNCHANGED <<cache, loads>>
  /\ Wait(x, Under(x), At(Top(x), "load", <<>>))
  /\ UNCHANGED <<ref, seen, scope, status, ret, map, phase, snap>>

\* No document: the error entry goes to the map and, uncopied, to the caller.
Fail(x) ==
  /\ Return(x, Under(x), Top(x), map, Entry(FALSE, None, <<>>, x))
  /\ UNCHANGED <<ref, cache, loads, seen, scope, status, phase, snap>>

EnterForbidden(x) ==
  /\ Entering(x) /\ RefAt(Top(x).ref).anchor = None /\ IsRemote(Top(x).ref)
  /\ Forbidden(DocOf(Top(x).ref), TargetDoc(Top(x).ref))
  /\ Fail(x)

\* loadExternalRef and parseDocument of a document succeed or fail; a failed
\* promise stays in the cache.
Load(d) ==
  /\ cache[d] = "loading"
  /\ \E outcome \in {"loaded", "failed"} : cache' = [ cache EXCEPT ![d] = outcome ]
  /\ UNCHANGED <<ref, loads, seen, scope, status, stack, ret, map, phase, snap>>

GotDocument(x) ==
  /\ InStage(x, "load") /\ cache[TargetDoc(Top(x).ref)] = "loaded"
  /\ Traverse(x, Under(x), Top(x), None, Root(TargetDoc(Top(x).ref)), RefAt(Top(x).ref).path)
  /\ UNCHANGED <<ref, cache, loads, seen, scope, status, phase, snap>>

GotError(x) ==
  /\ InStage(x, "load") /\ cache[TargetDoc(Top(x).ref)] = "failed"
  /\ Fail(x)

\* After nextTick the anchor is looked up among the anchors of the walk that
\* started the task; the entry is returned uncopied.
GotTick(x) ==
  /\ InStage(x, "tick")
  /\ LET a    == RefAt(Top(x).ref).anchor
         hits == { p \in scope[x] : AnchorOf[p.node] = a }
         at   == IF hits = {} THEN None
                 ELSE [via |-> <<DocOf(Top(x).ref), a>>, node |-> (CHOOSE p \in hits : TRUE).node]
     IN Return(x, Under(x), Top(x), map, Entry(TRUE, at, <<>>, x))
  /\ UNCHANGED <<ref, cache, loads, seen, scope, status, phase, snap>>

\* A nested followRef is back in its caller.
Caller(x) == stack[x][Len(stack[x]) - 1]
Back(x, s) == InStage(x, "returned") /\ Len(stack[x]) > 1 /\ Caller(x).stage = s

\* Faulty: the key is taken to exist below what the $ref resolved to.
ResumeInnerBlind(x) ==
  /\ Back(x, "inner")
  /\ Return(x, Front(Under(x)), Caller(x), map,
            Entry(ret[x].resolved,
                  IF ret[x].at = None THEN None ELSE Below(ret[x].at, <<Head(Caller(x).rest)>>),
                  <<>>, None))
  /\ UNCHANGED <<ref, cache, loads, seen, scope, status, phase, snap>>

\* The traversal goes on below what the $ref on the way resolved to.  The
\* entry the call returned is modified in place, and with it the map's entry
\* when the two are one object.
ResumeInner(x) ==
  /\ Back(x, "inner")
  /\ LET id     == RefId(Top(x).ref)
         shared == IF ret[x].by = x /\ map[id] # None /\ map[id].by = x THEN id ELSE None
         under  == Front(Under(x))
         path   == Caller(x).rest
         next   == Below(ret[x].at, <<Head(path)>>)
     IN IF ret[x].at # None /\ next.node \in Nodes
        THEN Traverse(x, under, Caller(x), shared, next, Tail(path))
        ELSE Return(x, under, Caller(x), Write(shared, None),
                    Entry(ret[x].resolved, None, <<>>, None))
  /\ UNCHANGED <<ref, cache, loads, seen, scope, status, phase, snap>>

\* The target was a $ref: its entry is this one's too, and a $ref that has
\* other keys beside it becomes a hop of the chain.
ResumeTail(x) ==
  /\ Back(x, "tail")
  /\ LET hop   == Top(x).ref
         chain == IF hop.node \in Siblings /\ ret[x].resolved
                  THEN <<hop>> \o ret[x].chain ELSE ret[x].chain
     IN Return(x, Front(Under(x)), Caller(x), map, Entry(ret[x].resolved, ret[x].at, chain, None))
  /\ UNCHANGED <<ref, cache, loads, seen, scope, status, phase, snap>>

\* What the task's own followRef returned: the target and the hops to it.
Found(x) == IF ret[x].resolved /\ ret[x].at # None
            THEN <<ret[x].at>> \o ret[x].chain
            ELSE ret[x].chain

\* The task's own followRef is back: what it found is walked.
Settle(x) ==
  /\ InStage(x, "returned") /\ Len(stack[x]) = 1
  /\ LET w == Walk(x[1], Found(x), seen)
     IN /\ seen'   = seen \cup w.fresh
        /\ scope'  = [ y \in Ids |-> IF y \in w.starting THEN w.scope[y] ELSE scope[y] ]
        /\ status' = [ y \in Ids |-> IF y \in w.starting THEN "running"
                                     ELSE IF y = x THEN "settled" ELSE status[y] ]
        /\ stack'  = [ y \in Ids |-> IF y \in w.starting THEN <<Call(y[2])>>
                                     ELSE IF y = x THEN <<>> ELSE stack[y] ]
  /\ UNCHANGED <<ref, cache, loads, ret, map, phase, snap>>

------------------------------------------------------------------------------
(* The completion loop: Promise.all over a snapshot of resolvePromises,    *)
(* until no promise was added meanwhile.                                   *)

\* Faulty: the promises added while it waited are forgotten ...
AwaitAllOnce ==
  /\ phase = "awaiting"
  /\ \A x \in snap : status[x] = "settled"
  /\ phase' = "done"
  /\ UNCHANGED <<ref, cache, loads, seen, scope, status, stack, ret, map, snap>>
\* ... or it waits as long as there is any promise, settled or not.
AwaitAllForever ==
  /\ phase = "awaiting"
  /\ \A x \in snap : status[x] = "settled"
  /\ snap' = Started
  /\ UNCHANGED <<ref, cache, loads, seen, scope, status, stack, ret, map, phase>>

AwaitAll ==
  /\ phase = "awaiting"
  /\ \A x \in snap : status[x] = "settled"
  /\ IF snap = Started
     THEN phase' = "done" /\ UNCHANGED snap
     ELSE snap' = Started /\ UNCHANGED phase
  /\ UNCHANGED <<ref, cache, loads, seen, scope, status, stack, ret, map>>

AwaitRejected ==
  /\ phase = "awaiting"
  /\ \E x \in snap : status[x] = "rejected"
  /\ phase' = "failed"
  /\ UNCHANGED <<ref, cache, loads, seen, scope, status, stack, ret, map, snap>>

Enter(x) ==
  \/ EnterCircular(x) \/ EnterAnchor(x) \/ EnterLocal(x) \/ EnterRemote(x) \/ EnterForbidden(x)
Continue(x) ==
  \/ GotDocument(x) \/ GotError(x) \/ GotTick(x)
  \/ ResumeInner(x) \/ ResumeTail(x) \/ Settle(x)
Loop == AwaitAll \/ AwaitRejected

\* resolveDocument has returned or thrown and nothing is left to run.
Over ==
  /\ phase # "awaiting"
  /\ \A x \in Ids : status[x] # "running"
  /\ \A d \in Docs : cache[d] # "loading"
  /\ UNCHANGED vars

Tasks == \E x \in Ids : Enter(x) \/ Continue(x)
Loads == \E d \in Docs : Load(d)

Next == Tasks \/ Loads \/ Loop \/ Over

Spec == Init /\ [][Next]_vars

\* The event loop always runs some callback that is ready, a read or a request
\* ends, and the completion loop is one of the callbacks.
Fairness == WF_vars(Tasks) /\ WF_vars(Loads) /\ WF_vars(Loop)
FairSpec == Spec /\ Fairness

------------------------------------------------------------------------------
(* What a $ref by JSON pointer denotes when it is followed alone, as facts: *)
(* <<id, k, s>> says that along the pointer of the reference id one stands  *)
(* at s after k segments; one step after the last, s is what id denotes.    *)

\* One stands at a place or, at the end of the way, at none.
Standings == { s \in [resolved : BOOLEAN, at : Places \cup {None}] : s.at # None => s.resolved }
Stand(ok, place) == [resolved |-> ok, at |-> place]
Child(place, seg) == Below(place, <<seg>>)
Final(id) == Len(id[2].path) + 1

\* The way starts at the root of a document that is in, or ends before it began;
\* c says of each document whether it is in.
StartsAt(c, id, s) ==
  LET uri == id[2].uri
  IN \/ uri \in {None, id[1]} /\ s = Stand(TRUE, Root(id[1]))
     \/ /\ uri \notin {None, id[1]} /\ ~Forbidden(id[1], uri) /\ c[uri] = "loaded"
        /\ s = Stand(TRUE, Root(uri))
     \/ /\ uri \notin {None, id[1]} /\ (Forbidden(id[1], uri) \/ c[uri] = "failed")
        /\ s = Stand(FALSE, None)

\* After k segments one stands at a $ref, and it has to be followed.
Waits(id, k, s) ==
  /\ s.at # None /\ ref[s.at.node] # None
  /\ k < Len(id[2].path) => Child(s.at, id[2].path[k + 1]).node \notin Nodes

\* One segment further, the last step being that to the result.
Onward(id, k, s) ==
  IF s.at = None \/ k = Len(id[2].path) THEN s
  ELSE IF Child(s.at, id[2].path[k + 1]).node \in Nodes
       THEN Stand(TRUE, Child(s.at, id[2].path[k + 1]))
       ELSE Stand(TRUE, None)

\* Standing at s after k segments one goes on from e: from what the $ref there
\* is known in J to denote, if it has to be followed.
Via(J, id, k, s, e) ==
  IF Waits(id, k, s) THEN <<RefId(s.at), Final(RefId(s.at)), e>> \in J ELSE e = s

\* The references that the documents hold.
Held == { id \in Docs \X { ref[n] : n \in Nodes } : id[2] # None }

\* What is known at once, and what follows in one step from what is known.
Learn(c, J) ==
  { f \in Held \X {0} \X Standings : StartsAt(c, f[1], f[3]) }
    \cup UNION { { <<f[1], f[2] + 1, Onward(f[1], f[2], e)>> :
                   e \in { e \in Standings : Via(J, f[1], f[2], f[3], e) } } :
                 f \in { f \in J : f[2] <= Len(f[1][2].path) } }

\* Rounds until one brings nothing new, which must be one of the first Enough,
\* since there is one fact to learn at most for each number of segments.
Enough == Cardinality(UNION { {id} \X (0 .. Final(id)) : id \in Held })
Round(c, before) ==
  LET facts == IF before.all THEN before.facts ELSE Learn(c, before.facts)
  IN [facts |-> facts, all |-> facts = before.facts]
Learned(c) ==
  LET rounds[k \in 0 .. Enough] ==
        IF k = 0 THEN [facts |-> {}, all |-> FALSE] ELSE Round(c, rounds[k - 1])
  IN rounds[Enough].facts

\* A document that has not been loaded counts as one that cannot be.
Outcome == [ d \in Docs |-> IF cache[d] = "loaded" THEN "loaded" ELSE "failed" ]
Denotes(known, id) == { s \in Standings : <<id, Final(id), s>> \in known }

------------------------------------------------------------------------------
(* Properties *)

TypeOK ==
  /\ ref \in RefGraphs
  /\ cache \in [Docs -> {"absent", "loading", "loaded", "failed"}]
  /\ loads \in [Docs -> Nat]
  /\ seen \subseteq Ids
  /\ scope \in [Ids -> SUBSET Places]
  /\ status \in [Ids -> {"idle", "running", "settled", "rejected"}]
  /\ stack \in [Ids -> Seq(Frames)]
  /\ ret \in [Ids -> Entries \cup {None}]
  /\ map \in [RefIds -> Entries \cup {None}]
  /\ phase \in {"awaiting", "done", "failed"}
  /\ snap \subseteq Ids

\* Every document is read at most once, however many references race for it,
\* and what is in the cache was read.
LoadedOnce == \A d \in Docs : loads[d] <= 1 /\ (loads[d] = 0 <=> cache[d] = "absent")

\* When resolveDocument returns, no reference it started to follow is left
\* unsettled: the completion loop misses no promise that a callback added.
DoneMeansSettled == phase = "done" => \A x \in Started : status[x] = "settled"

\* When resolveDocument returns, every $ref that was met has an entry, and the
\* whole part of a document that the entry leads to has been walked: no
\* reachable $ref is left out.
DoneMeansClosed ==
  phase = "done" =>
    \A x \in seen :
      RefAt(x[2]) # None =>
        /\ map[RefId(x[2])] # None
        /\ map[RefId(x[2])].at # None => Covered(x[1], map[RefId(x[2])].at, seen) = {}

\* When resolveDocument returns, the task of every $ref that was met has
\* settled, and what it found, the hops on the way included, has been walked
\* with the type of the place that refers to it.
FoundIsWalked ==
  phase = "done" =>
    \A x \in seen :
      RefAt(x[2]) # None =>
        /\ status[x] = "settled"
        /\ \A i \in DOMAIN Found(x) : Covered(x[1], Found(x)[i], seen) = {}

\* What resolveDocument promises when it returns: nothing is left to settle, and
\* nothing that was found is left to walk (core/src/resolve.ts).
NothingIsMissed == DoneMeansSettled /\ FoundIsWalked

\* An entry that has been recorded keeps its meaning: no later task, nested
\* call or in-place modification makes the same reference denote another node.
EntriesAreStable ==
  [][ \A id \in RefIds :
        map[id] # None => /\ map'[id] # None
                          /\ map'[id].at = map[id].at
                          /\ map'[id].resolved = map[id].resolved ]_vars

\* Starting from a remote description, no local file is read unless a document
\* that an overlay contributed is there to refer to it.
RemoteReadsNoFiles ==
  (RootDoc \in HttpDocs /\ \E d \in FileUrls \ OverlayFiles : cache[d] # "absent") =>
    \E d \in OverlayFiles : cache[d] = "loaded"

\* resolveDocument always returns or throws: walks stop at nodes already met,
\* and a cycle of pointers is cut.
Terminates == <>(phase # "awaiting")

\* Whatever the order in which documents arrive and tasks interleave, the map
\* that is returned says of every $ref what following it alone would say.
SameAsAlone ==
  phase = "done" =>
    LET known == Learned(Outcome)
    IN \A x \in seen :
         RefAt(x[2]) # None =>
           Denotes(known, RefId(x[2])) = {Stand(map[RefId(x[2])].resolved, map[RefId(x[2])].at)}

\* Only a circular pointer, which denotes nothing, makes resolution throw: a file
\* that cannot be read or parsed never does.
OnlyCyclesReject ==
  LET known == Learned(Outcome)
  IN \A x \in Ids : status[x] = "rejected" => Denotes(known, RefId(x[2])) = {}

\* The result is that of following each reference alone, one after the other: the
\* map says the same, it is closed, and only what would reject alone rejects.
AsIfSequential == SameAsAlone /\ OnlyCyclesReject /\ DoneMeansClosed
==============================================================================
