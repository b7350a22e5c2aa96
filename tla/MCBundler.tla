------------------------------- MODULE MCBundler -------------------------------
(***************************************************************************)
(* Two directories with files of the same names: P and Q in both.  Every   *)
(* way to refer from one to another (aQ with up to two references, the     *)
(* others with one), contents that are equal or not, a root document that  *)
(* has no components, a schema P, or a component that refers to a file.    *)
(***************************************************************************)
EXTENDS Bundler

MCFiles == {"aP", "bP", "aQ", "bQ"}
MCLocals == {"L"}
MCDir == [f \in MCFiles \cup {"L", "root"} |->
           IF f \in {"aP", "aQ"} THEN "a" ELSE IF f \in {"bP", "bQ"} THEN "b" ELSE "top"]
MCBase == [f \in MCFiles \cup {"L"} |-> IF f \in {"aQ", "bQ"} THEN "Q" ELSE "P"]
MCNames == {"P", "P-2", "P-3", "Q", "Q-2", "Q-3", "T"}
MCNumbered == [n \in {"P", "Q"} |-> IF n = "P" THEN <<"P", "P-2", "P-3">> ELSE <<"Q", "Q-2", "Q-3">>]

None == [n \in Names |-> Absent]
UpTo(n, S) == UNION {[1..k -> S] : k \in 0..n}
RootRefs == {<<"aP", "bP">>, <<"bP", "aQ">>, <<"L", "aP">>}

Described ==
  [ refs : { [o \in Owners |->
                CASE o = "root" -> r [] o = "aP" -> p [] o = "bP" -> q
                  [] o = "aQ" -> s [] o = "bQ" -> t [] OTHER -> <<>>] :
             r \in RootRefs, p \in UpTo(1, {"aQ", "bQ", "bP"}), q \in UpTo(1, {"aQ", "bQ"}),
             s \in UpTo(2, {"aP", "bP"}), t \in UpTo(1, {"bP", "L"}) },
    tag : { [f \in Schemas |-> IF f \in different THEN "other" ELSE "same"] :
            different \in {{}, {"bP"}, {"bQ"}} },
    title : { [f \in Schemas |-> Absent],
              [f \in Schemas |-> IF f \in {"aP", "bP"} THEN "T" ELSE Absent] },
    comps : { [None EXCEPT !["P"] = Schema("L")], [None EXCEPT !["P"] = RefTo("aP")],
              [None EXCEPT !["Q"] = RefTo("aP")], None } ]

\* A description that refers to the schema L has it.
Sound(d) ==
  \/ d.comps["P"] = Schema("L")
  \/ \A o \in Owners : \A i \in DOMAIN d.refs[o] : d.refs[o][i] # "L"

MCBundlerInit ==
  \E d \in Described :
    Sound(d) /\ BundleInit(d, IF d.title["aP"] = Absent THEN "basename" ELSE "title")

------------------------------------------------------------------------------
(* A description with circular references in which two files say the same
   word for word, but not what they refer to.  The second one is met while
   both are being walked. *)
Circle ==
  [ refs |-> [o \in Owners |->
       CASE o = "root" -> <<"aP">> [] o = "aP" -> <<"aQ">> [] o = "bP" -> <<"bQ">>
         [] o = "aQ" -> <<"aP", "bP">> [] o = "bQ" -> <<"bP">> [] OTHER -> <<>>],
    tag |-> [f \in Schemas |-> "same"], title |-> [f \in Schemas |-> Absent], comps |-> None ]

CircleSpec ==
  BundleInit(Circle, "basename") /\ [][BundleNext]_bundleVars /\ WF_bundleVars(BundleNext)
==============================================================================
