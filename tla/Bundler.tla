-------------------------------- MODULE Bundler --------------------------------
(***************************************************************************)
(* The bundler's walk of a description split over files: when it leaves a  *)
(* $ref to another file it saves the file as a component of the root       *)
(* document, under a name that is free or taken by an equal node, and      *)
(* rewrites the $ref.  Nodes are changed in place and compared as they are *)
(* at that moment, so what a comparison sees depends on how far the walk   *)
(* has come.                                                               *)
(*                                                                         *)
(* A file is one schema with a list of references; "root" stands for the   *)
(* paths of the root document.  The schemas in Locals are components of    *)
(* the root document, the first of which are filled in at the start.       *)
(***************************************************************************)
EXTENDS Naturals, Sequences, FiniteSets

CONSTANTS
  Files, Locals,  (* the schemas                                             *)
  Dir, Base,      (* where each of them is, and what its file or key is called *)
  Names,          (* the possible component names                            *)
  Numbered,       (* the name a base name gets with a serial number          *)
  Absent          (* no component; no title                                  *)

Schemas == Files \cup Locals
Owners == Schemas \cup {"root"}

ASSUME BundlerAssumption ==
  /\ "root" \notin Schemas /\ Absent \notin Names
  /\ Base \in [Schemas -> Names] /\ DOMAIN Dir = Owners
  /\ \A l \in Locals : Dir[l] = Dir["root"]

VARIABLES
  refs,      (* the references of each schema and of the root, in walking order *)
  tag,       (* the rest of each schema, its title apart                     *)
  title,     (* the component name of each title, or Absent                  *)
  strategy,  (* componentNamesStrategy                                       *)
  text,      (* the $refs as they are now                                    *)
  comps,     (* root.components.schemas: Absent, or what each name holds     *)
  seen,      (* seenNodesPerType                                             *)
  stack,     (* the walk: the owner at hand and its next reference           *)
  keys,      (* the component keys that are left to walk                     *)
  renamed    (* the problems reported about names                            *)

given == <<refs, tag, title, strategy>>
bundleVars == <<given, text, comps, seen, stack, keys, renamed>>

Pointer(name) == <<"#", name>>

\* A relative $ref from one schema to another, as the author wrote it.
Written(owner, target) ==
  IF Dir[owner] # Dir[target] THEN <<Dir[target], Base[target]>>
  ELSE IF target \in Locals THEN Pointer(Base[target])
  ELSE <<".", Base[target]>>

Schema(f) == [kind |-> "node", of |-> f]
RefTo(f) == [kind |-> "ref", of |-> f]         (* {$ref: <file>} as authored *)
Alias(name) == [kind |-> "alias", of |-> name] (* {$ref: '#/components/..'}  *)
Entry == {Schema(f) : f \in Schemas} \cup {RefTo(f) : f \in Files} \cup {Alias(n) : n \in Names}

\* What the bundler starts from, for any description `d`.
BundleInit(d, how) ==
  /\ refs = d.refs /\ tag = d.tag /\ title = d.title /\ strategy = how
  /\ text = [o \in Owners |-> [i \in DOMAIN d.refs[o] |-> Written(o, d.refs[o][i])]]
  /\ comps = d.comps
  /\ seen = {} /\ stack = <<[owner |-> "root", next |-> 1]>> /\ keys = <<>> /\ renamed = {}

Top == stack[Len(stack)]
Below == SubSeq(stack, 1, Len(stack) - 1)
Advanced == Append(Below, [Top EXCEPT !.next = @ + 1])
Enters(f) == seen' = seen \cup {f} /\ stack' = Append(stack, [owner |-> f, next |-> 1])

------------------------------------------------------------------------------
(* saveComponent. *)

\* dequal(node, target.node), of nodes as they are now.
Equal(f, g) == tag[f] = tag[g] /\ title[f] = title[g] /\ text[f] = text[g]

\* Faulty: a name that is taken is taken to be right.
TakenIsSame(name, f) == TRUE
\* isEqualOrEqualRef
IsEqualOrEqualRef(name, f) ==
  \/ comps[name] = RefTo(f)
  \/ comps[name].kind = "node" /\ Equal(comps[name].of, f)

NameFits(name, f) == comps[name] = Absent \/ IsEqualOrEqualRef(name, f)

\* componentNameFromBasename: the serial numbers are tried in their order.
FromBasename(f) ==
  LET candidates == Numbered[Base[f]]
      n == CHOOSE n \in DOMAIN candidates :
             NameFits(candidates[n], f) /\ \A m \in 1..(n - 1) : ~NameFits(candidates[m], f)
  IN candidates[n]

\* The title is usable: there is one and its name is free or taken by an equal.
TitleServes(f) == strategy = "title" /\ title[f] # Absent /\ NameFits(title[f], f)

\* getComponentName
ComponentName(f) == IF TitleServes(f) THEN title[f] ELSE FromBasename(f)

\* Faulty: only the title strategy reports.
ReportedTitle(f) == strategy = "title" /\ ~TitleServes(f) /\ comps[FromBasename(f)] = Absent

\* A problem is reported once, when the name that is not the expected one is new.
Reported(f) ==
  /\ ~TitleServes(f) /\ comps[FromBasename(f)] = Absent
  /\ strategy = "title" \/ FromBasename(f) # Base[f]

\* Faulty: the problem is put down to the file.
SavesForFile(f) ==
  /\ comps' = [comps EXCEPT ![ComponentName(f)] = Schema(f)]
  /\ renamed' = (IF Reported(f) THEN renamed \cup {f} ELSE renamed)

Saves(f) ==
  /\ comps' = [comps EXCEPT ![ComponentName(f)] = Schema(f)]
  /\ renamed' = (IF Reported(f) THEN renamed \cup {ComponentName(f)} ELSE renamed)

------------------------------------------------------------------------------
(* The walk. *)

\* Faulty: a schema counts as seen only while it is being walked.
TargetUnseen(f) == \A i \in DOMAIN stack : stack[i].owner # f
Unseen(f) == f \notin seen

\* The walk goes through a reference to a schema it has not seen.
Descends ==
  /\ Top.next <= Len(refs[Top.owner])
  /\ LET f == refs[Top.owner][Top.next] IN Unseen(f) /\ Enters(f)
  /\ UNCHANGED <<given, text, comps, keys, renamed>>

\* ref.leave: a reference within the root document stays as it is, ...
LeavesInternal ==
  /\ Top.next <= Len(refs[Top.owner])
  /\ LET f == refs[Top.owner][Top.next]
     IN ~Unseen(f) /\ f \in Locals /\ Dir[Top.owner] = Dir["root"]
  /\ stack' = Advanced
  /\ UNCHANGED <<given, text, comps, seen, keys, renamed>>

\* Faulty: the component is saved and the reference forgotten.
LeavesUnwritten ==
  /\ Top.next <= Len(refs[Top.owner])
  /\ LET f == refs[Top.owner][Top.next]
     IN /\ ~Unseen(f) /\ ~(f \in Locals /\ Dir[Top.owner] = Dir["root"])
        /\ Saves(f)
  /\ stack' = Advanced
  /\ UNCHANGED <<given, text, seen, keys>>

\* ... any other one saves its target.
LeavesRef ==
  /\ Top.next <= Len(refs[Top.owner])
  /\ LET f == refs[Top.owner][Top.next]
     IN /\ ~Unseen(f) /\ ~(f \in Locals /\ Dir[Top.owner] = Dir["root"])
        /\ Saves(f)
        /\ text' = [text EXCEPT ![Top.owner][Top.next] = Pointer(ComponentName(f))]
  /\ stack' = Advanced
  /\ UNCHANGED <<given, seen, keys>>

\* All references of a schema are left.
ReturnsFrom ==
  /\ Len(stack) > 1 /\ Top.next > Len(refs[Top.owner])
  /\ stack' = Below
  /\ UNCHANGED <<given, text, comps, seen, keys, renamed>>

\* What root.components has and the walk has not met yet.
Unmet == {n \in Names : comps[n] # Absent /\ (comps[n].kind = "node" => Unseen(comps[n].of))}

\* The paths are walked; the components follow.  A component that was saved on
\* the way has been walked and is passed over.
StartsComponents ==
  /\ Len(stack) = 1 /\ Top.owner = "root" /\ Top.next = Len(refs["root"]) + 1
  /\ \E order \in [1..Cardinality(Unmet) -> Unmet] :
       (\A n \in Unmet : \E i \in DOMAIN order : order[i] = n) /\ keys' = order
  /\ stack' = Advanced
  /\ UNCHANGED <<given, text, comps, seen, renamed>>

InComponents == Len(stack) = 1 /\ Top.next = Len(refs["root"]) + 2 /\ keys # <<>>

\* A component that was not met yet is walked.
EntersComponent ==
  /\ InComponents
  /\ comps[Head(keys)].kind # "alias" /\ Unseen(comps[Head(keys)].of) /\ Enters(comps[Head(keys)].of)
  /\ UNCHANGED <<given, text, comps, keys, renamed>>

\* A component that is a schema is done, ...
LeavesComponent ==
  /\ InComponents
  /\ comps[Head(keys)].kind = "node" /\ ~Unseen(comps[Head(keys)].of)
  /\ keys' = Tail(keys)
  /\ UNCHANGED <<given, text, comps, seen, stack, renamed>>

\* ... and one that is a reference to a file becomes the schema itself, when its
\* name is the one that the schema gets, or a reference to that component.
LeavesComponentRef ==
  /\ InComponents /\ comps[Head(keys)].kind = "ref" /\ ~Unseen(comps[Head(keys)].of)
  /\ LET f == comps[Head(keys)].of
         name == ComponentName(f)
     IN /\ comps' = [comps EXCEPT ![Head(keys)] = Alias(name), ![name] = Schema(f)]
        /\ renamed' = (IF Reported(f) THEN renamed \cup {name} ELSE renamed)
  /\ keys' = Tail(keys)
  /\ UNCHANGED <<given, text, seen, stack>>

BundleNext ==
  \/ Descends \/ LeavesInternal \/ LeavesRef \/ ReturnsFrom
  \/ StartsComponents \/ EntersComponent \/ LeavesComponent \/ LeavesComponentRef

Bundled == Len(stack) = 1 /\ Top.next = Len(refs["root"]) + 2 /\ keys = <<>>

------------------------------------------------------------------------------
(* Properties. *)

BundlerTypeOK ==
  /\ text \in [Owners -> Seq(({"#", "."} \cup {Dir[o] : o \in Owners}) \X Names)]
  /\ comps \in [Names -> Entry \cup {Absent}]
  /\ seen \subseteq Schemas /\ renamed \subseteq Names
  /\ \A i \in DOMAIN stack : stack[i].owner \in Owners

\* The pairs of schemas that say the same in the description as it was written:
\* references are followed as many times as there are schemas.
Alike ==
  LET alike[n \in 0..Cardinality(Schemas)] ==
        IF n = 0
        THEN { p \in Schemas \X Schemas :
                 /\ tag[p[1]] = tag[p[2]] /\ title[p[1]] = title[p[2]]
                 /\ Len(refs[p[1]]) = Len(refs[p[2]]) }
        ELSE { p \in alike[n - 1] :
                 \A i \in DOMAIN refs[p[1]] : <<refs[p[1]][i], refs[p[2]][i]>> \in alike[n - 1] }
  IN alike[Cardinality(Schemas)]

\* No schema is reached from itself.
Acyclic ==
  LET free[n \in 0..Cardinality(Schemas)] ==   (* no way of n steps leads on *)
        IF n = 0 THEN {}
        ELSE {f \in Schemas : \A i \in DOMAIN refs[f] : refs[f][i] \in free[n - 1]}
  IN free[Cardinality(Schemas)] = Schemas

Walked == seen \cup {"root"}
Named(f) == {n \in Names : comps[n] = Schema(f)}

\* Every $ref of the bundle leads to a component that says what the file said
\* that it led to before: schemas with the same name and different content are
\* told apart (core/src/bundle/bundle-visitor.ts).
RefsKeepTheirMeaning ==
  Bundled =>
    \A o \in Walked : \A i \in DOMAIN refs[o] :
      /\ comps[text[o][i][2]].kind = "node"
      /\ <<refs[o][i], comps[text[o][i][2]].of>> \in Alike

\* ... without circular references; with them see the run of RefsKeepTheirMeaning.
TreesKeepTheirMeaning == Bundled /\ Acyclic => RefsKeepTheirMeaning

\* The bundle needs no other file: every $ref that is left, and every alias,
\* leads to a component that is a schema whose own $refs were rewritten.
BundleIsClosed ==
  Bundled =>
    /\ \A o \in Walked : \A i \in DOMAIN refs[o] :
         /\ text[o][i][1] = "#" /\ comps[text[o][i][2]] # Absent
         /\ comps[text[o][i][2]].kind = "node" /\ comps[text[o][i][2]].of \in seen
    /\ \A n \in Names :
         comps[n] # Absent =>
           \/ comps[n].kind = "node" /\ comps[n].of \in seen
           \/ comps[n].kind = "alias" /\ comps[comps[n].of].kind = "node"

\* A schema that no other one equals has one name, however many $refs lead to it,
\* and a name that differs from the one its file has is reported.
OneNameEach ==
  Bundled /\ Acyclic =>
    \A f \in Files :
      /\ strategy = "basename" => Named(f) \ {Base[f]} \subseteq renamed
      /\ Cardinality(Named(f)) <= 1 \/ \E g \in Schemas \ {f} : <<f, g>> \in Alike

\* A name that was given keeps its meaning while the walk goes on: what was
\* rewritten before stays right.
NamesKeepTheirMeaning ==
  [][ \A n \in Names :
        comps[n] # comps'[n] /\ comps[n] # Absent /\ comps[n].kind = "node" /\ Acyclic =>
          comps'[n].kind = "node" /\ <<comps[n].of, comps'[n].of>> \in Alike ]_bundleVars

\* What the bundle promises: without circular references every $ref means what it
\* meant, at the end and all the way there, and it needs no other file.
BundleIsSound ==
  /\ [](BundlerTypeOK /\ TreesKeepTheirMeaning /\ BundleIsClosed /\ OneNameEach)
  /\ NamesKeepTheirMeaning
==============================================================================
