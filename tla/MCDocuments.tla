------------------------------ MODULE MCDocuments ------------------------------
(***************************************************************************)
(* What walks a document, and what it is walked with: walkDocument, the    *)
(* bundler, the decorator that removes unused components; the settings of  *)
(* rules and the plugins.  They share no state and stand side by side: a   *)
(* behaviour is one of `part` while the others stay as they are.           *)
(*   "bundle"  the descriptions of MCBundler         (Bundler)             *)
(*   "unused"  three components, up to MaxUses $refs (UnusedComponents)    *)
(*   "walk"    the documents and rules of MCWalker   (Walker)              *)
(*   "config"  the configurations of MCConfig        (ConfigMerge)         *)
(*   "plugins" two configurations that load two files, one of them twice   *)
(*             or both, and the other one of them    (PluginLoading)       *)
(***************************************************************************)
EXTENDS MCBundler, MCWalker, UnusedComponents, MCConfig, PluginLoading

CONSTANTS
  MaxUses,     (* $refs of a document in "unused"                            *)
  Child        (* the component that may extend one with a discriminator     *)

VARIABLE part

settingVars == <<configVars, pluginVars>>
documentVars == <<part, bundleVars, unusedVars, walkerVars, settingVars>>

\* Of the components only one refers to itself, and of the $refs of a document at
\* most one does not count.
MCUses(D) == {u \in [from : D \cup {"outside"}, to : Keys] : u.from # u.to \/ u.to = Child}

Usages ==
  /\ declared \in {Keys, Keys \ {Child}} /\ children \in SUBSET (declared \cap {Child})
  /\ uses \in {U \in SUBSET MCUses(declared) : Cardinality(U) <= MaxUses}
  /\ counted \in {uses} \cup {uses \ {u} : u \in uses}

\* The default plugin is named by a relative path, the others by absolute ones.
Absolute(p) == [path |-> p, absolute |-> TRUE]
Relative(p) == [path |-> p, absolute |-> FALSE]
MCPluginLists ==
  {<<Absolute("p"), Absolute("q")>>} \cup {<<Absolute(p), Relative(p)>> : p \in Paths}
    \cup {<<Absolute(p)>> : p \in Paths}

\* Both may be edited; q makes a plugin of its own, one with the id of p, or fails,
\* and is a sound plugin after the edit.
Makes(id) == [ids |-> {id}, fails |-> FALSE]
MCLibraries ==
  { [x \in Paths |-> IF x = "p" THEN <<Makes("i"), Makes("i")>> ELSE <<q, Makes("j")>>] :
      q \in {Makes("j"), Makes("i"), [ids |-> {"j"}, fails |-> TRUE]} }
Naming == \A c \in Configs : Len(named[c]) = (IF c = "first" THEN 2 ELSE 1)
NotLoading ==
  /\ named = [c \in Configs |-> <<Absolute("p")>>]
  /\ library = [x \in Paths |-> IF x = "p" THEN <<Makes("i")>> ELSE <<Makes("j"), Makes("j")>>]

NoFile == MCConfigFile(<<>>)

DocumentsInit ==
  /\ part \in {"bundle", "unused", "walk", "config", "plugins"}
  /\ IF part = "bundle" THEN MCBundlerInit ELSE BundleInit(Circle, "basename")
  /\ IF part = "unused" THEN Usages ELSE declared = {} /\ children = {} /\ uses = {} /\ counted = {}
  /\ UnusedInit
  /\ IF part = "walk" THEN MCWalkerInit ELSE WalkerInit([n \in Nodes |-> <<>>], {}, {})
  /\ IF part = "config" THEN ConfigInit ELSE file = NoFile /\ ConfigStart
  /\ IF part = "plugins" THEN PluginInit /\ Naming ELSE NotLoading /\ PluginStart

BundleSteps == part = "bundle" /\ BundleNext /\ UNCHANGED <<part, unusedVars, walkerVars, settingVars>>
UnusedSteps == part = "unused" /\ UnusedNext /\ UNCHANGED <<part, bundleVars, walkerVars, settingVars>>
WalkSteps == part = "walk" /\ WalkNext /\ UNCHANGED <<part, bundleVars, unusedVars, settingVars>>
ConfigSteps ==
  part = "config" /\ ConfigNext /\ UNCHANGED <<part, bundleVars, unusedVars, walkerVars, pluginVars>>
OfPlugins == part = "plugins" /\ UNCHANGED <<part, bundleVars, unusedVars, walkerVars, configVars>>
PluginSteps == OfPlugins /\ PluginNext

DocumentsNext == BundleSteps \/ UnusedSteps \/ WalkSteps \/ ConfigSteps \/ PluginSteps

\* A behaviour is of one part, so the fairness of all is that of each.
GoesOn == BundleSteps \/ UnusedSteps \/ WalkSteps \/ (OfPlugins /\ LoadingGoesOn)
DocumentsSpec == DocumentsInit /\ [][DocumentsNext]_documentVars /\ WF_documentVars(GoesOn)

------------------------------------------------------------------------------
\* The bundler's walk, the rounds over the components and walkDocument come to
\* their ends, also when $refs go round, and so do the loads of plugins.  The ends
\* of the walks stay: for them "again and again" is "in the end".
DocumentsEnd ==
  []<>(CASE part = "bundle" -> Bundled [] part = "unused" -> round = "done"
         [] part = "walk" -> WalkOver
         [] part = "plugins" -> PluginsSettled [] OTHER -> TRUE)
==============================================================================
