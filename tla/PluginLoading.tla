----------------------------- MODULE PluginLoading -----------------------------
(***************************************************************************)
(* resolvePlugins and the plugin cache that all configurations of a        *)
(* process share.  The plugins of a configuration are loaded concurrently: *)
(* the cache is asked before the first await and filled after the last.    *)
(* clearPluginsCache, exported for programs that stay up while plugins are *)
(* edited, may come in between.                                            *)
(*                                                                         *)
(* A file has one text after the other; a text is the ids of the plugins   *)
(* that it makes and whether making them fails.  What plugins contain, the *)
(* plugins given as objects and skipPluginEval are left out.  A step is    *)
(* the code between two awaits.                                            *)
(***************************************************************************)
EXTENDS Naturals, Sequences, FiniteSets

CONSTANTS
  Configs,     (* the configurations being resolved                          *)
  Paths,       (* absolute paths of plugins                                  *)
  CommonJs,    (* those that are CommonJS modules, kept in require.cache     *)
  PluginIds,
  PluginLists, (* what a configuration may name: [path, absolute] in order   *)
  Libraries,   (* the texts of each file, one after the other                *)
  MaxVersion,  (* bound: clearPluginsCache is called that often              *)
  Missing      (* not there                                                  *)

Versions == 0..MaxVersion
Texts == [ids : SUBSET PluginIds, fails : BOOLEAN]
Modules == [path : Paths, text : Nat, version : Versions]

ASSUME PluginAssumption ==
  /\ CommonJs \subseteq Paths /\ MaxVersion \in Nat
  /\ PluginLists \subseteq Seq([path : Paths, absolute : BOOLEAN])
  /\ Libraries \subseteq [Paths -> Seq(Texts) \ {<<>>}]
  /\ Missing \notin Modules /\ Missing \notin Nat /\ Missing \notin Paths

VARIABLES
  library,      (* the texts, chosen at the start                            *)
  edits,        (* the number of the text that a file has now                *)
  named,        (* the plugins that each configuration names                 *)
  cacheVersion,
  pluginsCache, (* the module whose plugins are cached for a path            *)
  imported,     (* what import() has for a path with its `?v=`               *)
  required,     (* require.cache                                             *)
  resolving,    (* what has become of the promise of resolvePlugins          *)
  tasks,        (* the tasks of its Promise.all: [stage, module]             *)
  seenPluginIds,(* the path that each id of a configuration was seen at      *)
  instances,    (* the plugins found: [task, id]                             *)
  cleared,      (* the texts when the cache was last cleared, ...            *)
  uncached      (* ... and the files in require.cache that were not cached   *)

nodeVars == <<imported, required>>
loadVars == <<resolving, tasks, seenPluginIds, instances>>
onceVars == <<library, named>>
pluginVars ==
  <<library, edits, named, cacheVersion, pluginsCache, nodeVars, loadVars, cleared, uncached>>

PluginStart ==
  /\ edits = [p \in Paths |-> 1]
  /\ cacheVersion = 0 /\ pluginsCache = [p \in Paths |-> Missing]
  /\ imported = [x \in Paths \X Versions |-> Missing] /\ required = [p \in Paths |-> Missing]
  /\ resolving = [c \in Configs |-> "none"] /\ tasks = [c \in Configs |-> <<>>]
  /\ seenPluginIds = [c \in Configs |-> [i \in PluginIds |-> Missing]]
  /\ instances = [c \in Configs |-> {}]
  /\ cleared = edits /\ uncached = {}
PluginInit == library \in Libraries /\ named \in [Configs -> PluginLists] /\ PluginStart

------------------------------------------------------------------------------
(* resolvePlugins *)

PathOf(c, i) == named[c][i].path
TextOf(m) == library[m.path][m.text]
Task(stage, module) == [stage |-> stage, module |-> module]
Moved(c, i, task) == [tasks EXCEPT ![c][i] = task]

\* The task of one plugin up to its first await: a spelling that an earlier task
\* has is passed over, a cached plugin is taken, any other imported.
Asked(c, i) ==
  IF \E j \in 1..(i - 1) : named[c][j] = named[c][i] THEN Task("done", Missing)
  ELSE IF pluginsCache[PathOf(c, i)] # Missing THEN Task("held", pluginsCache[PathOf(c, i)])
  ELSE Task("importing", [path |-> PathOf(c, i), text |-> 0, version |-> cacheVersion])

Resolves(c) ==
  /\ resolving[c] = "none"
  /\ resolving' = [resolving EXCEPT ![c] = "pending"]
  /\ tasks' = [tasks EXCEPT ![c] = [i \in DOMAIN named[c] |-> Asked(c, i)]]
  /\ UNCHANGED <<onceVars, edits, cacheVersion, pluginsCache, nodeVars, seenPluginIds, instances, cleared, uncached>>

\* loadPluginModule: import() of a URL gives one module; that of a CommonJS file
\* under a new URL is the one in require.cache, if it is there.
Imports(c, i) ==
  LET m == tasks[c][i].module
      p == m.path
      text == IF imported[<<p, m.version>>] # Missing THEN imported[<<p, m.version>>]
              ELSE IF required[p] # Missing THEN required[p] ELSE edits[p]
  IN /\ tasks[c][i].stage = "importing"
     /\ imported' = [imported EXCEPT ![<<p, m.version>>] = text]
     /\ required' = IF p \in CommonJs /\ imported[<<p, m.version>>] = Missing
                    THEN [required EXCEPT ![p] = text] ELSE required
     /\ tasks' = Moved(c, i, Task("creating", [m EXCEPT !.text = text]))
     /\ UNCHANGED <<onceVars, edits, cacheVersion, pluginsCache, resolving, seenPluginIds, instances, cleared, uncached>>

Rejected(c) == IF resolving[c] = "pending" THEN [resolving EXCEPT ![c] = "rejected"] ELSE resolving

\* The function that makes the plugins is called and awaited.
Creates(c, i) ==
  LET m == tasks[c][i].module
  IN /\ tasks[c][i].stage = "creating"
     /\ IF TextOf(m).fails
        THEN tasks' = Moved(c, i, Task("failed", m)) /\ resolving' = Rejected(c) /\ UNCHANGED pluginsCache
        ELSE /\ pluginsCache' = [pluginsCache EXCEPT ![m.path] = m]
             /\ tasks' = Moved(c, i, Task("held", m)) /\ UNCHANGED resolving
     /\ UNCHANGED <<onceVars, edits, cacheVersion, nodeVars, seenPluginIds, instances, cleared, uncached>>

\* Faulty: an id that was seen at another path replaces it.
TakesPluginsOver(c, i) ==
  LET m == tasks[c][i].module
  IN /\ tasks[c][i].stage = "held"
     /\ seenPluginIds' =
          [seenPluginIds EXCEPT ![c] = [x \in PluginIds |-> IF x \in TextOf(m).ids THEN m.path ELSE @[x]]]
     /\ instances' = [instances EXCEPT ![c] = @ \cup
          {[task |-> i, id |-> x] : x \in {y \in TextOf(m).ids : seenPluginIds[c][y] # m.path}}]
     /\ tasks' = Moved(c, i, Task("done", m))
     /\ UNCHANGED <<onceVars, edits, cacheVersion, pluginsCache, nodeVars, resolving, cleared, uncached>>

\* The plugins of a task: a new id is kept, one seen at this path passed over, one
\* seen at another path rejected.
TakesPlugins(c, i) ==
  LET m == tasks[c][i].module
      seen == seenPluginIds[c]
      fresh == {x \in TextOf(m).ids : seen[x] = Missing}
      conflict == \E x \in TextOf(m).ids : seen[x] \notin {Missing, m.path}
  IN /\ tasks[c][i].stage = "held"
     /\ seenPluginIds' = [seenPluginIds EXCEPT ![c] = [x \in PluginIds |-> IF x \in fresh THEN m.path ELSE @[x]]]
     /\ tasks' = Moved(c, i, Task(IF conflict THEN "failed" ELSE "done", m))
     /\ resolving' = IF conflict THEN Rejected(c) ELSE resolving
     /\ instances' = IF conflict THEN instances
                     ELSE [instances EXCEPT ![c] = @ \cup {[task |-> i, id |-> x] : x \in fresh}]
     /\ UNCHANGED <<onceVars, edits, cacheVersion, pluginsCache, nodeVars, cleared, uncached>>

Fulfils(c) ==
  /\ resolving[c] = "pending" /\ \A i \in DOMAIN tasks[c] : tasks[c][i].stage = "done"
  /\ resolving' = [resolving EXCEPT ![c] = "fulfilled"]
  /\ UNCHANGED <<onceVars, edits, cacheVersion, pluginsCache, nodeVars, tasks, seenPluginIds, instances, cleared, uncached>>

------------------------------------------------------------------------------
(* clearPluginsCache *)

Uncached == {p \in Paths : required[p] # Missing /\ pluginsCache[p] = Missing}

\* Faulty: the version stays.
ClearsOnly ==
  /\ cacheVersion < MaxVersion /\ cleared' = edits /\ uncached' = Uncached
  /\ pluginsCache' = [p \in Paths |-> Missing]
  /\ required' = [p \in Paths |-> IF pluginsCache[p] = Missing THEN required[p] ELSE Missing]
  /\ UNCHANGED <<onceVars, edits, imported, loadVars, cacheVersion>>

\* The files that are cached leave require.cache, all leave the cache, and the next
\* import() has another URL.
Clears ==
  /\ cacheVersion < MaxVersion /\ cleared' = edits /\ uncached' = Uncached
  /\ pluginsCache' = [p \in Paths |-> Missing]
  /\ required' = [p \in Paths |-> IF pluginsCache[p] = Missing THEN required[p] ELSE Missing]
  /\ cacheVersion' = cacheVersion + 1
  /\ UNCHANGED <<onceVars, edits, imported, loadVars>>

\* Somebody edits a plugin.
Edits(p) ==
  /\ edits[p] < Len(library[p]) /\ edits' = [edits EXCEPT ![p] = @ + 1]
  /\ UNCHANGED <<onceVars, cacheVersion, pluginsCache, nodeVars, loadVars, cleared, uncached>>

LoadingGoesOn ==
  \E c \in Configs :
    \/ Fulfils(c)
    \/ \E i \in DOMAIN tasks[c] : Imports(c, i) \/ Creates(c, i) \/ TakesPlugins(c, i)

PluginNext ==
  (\E c \in Configs : Resolves(c)) \/ LoadingGoesOn \/ Clears \/ \E p \in Paths : Edits(p)

PluginSpec == PluginInit /\ [][PluginNext]_pluginVars

------------------------------------------------------------------------------
(* Properties *)

\* The modules that a configuration was given.
Given(c) == {tasks[c][i].module : i \in {j \in DOMAIN tasks[c] : tasks[c][j].stage \in {"held", "done", "failed"}}}
              \ {Missing}
InConflict(c) == \E m, n \in Given(c) : m.path # n.path /\ TextOf(m).ids \cap TextOf(n).ids # {}

\* Whatever the order in which modules arrive and others load the same ones, a
\* configuration has every plugin that it names, each once, ...
EachPluginOnce ==
  \A c \in Configs : resolving[c] = "fulfilled" =>
    /\ {x.id : x \in instances[c]} = UNION {TextOf(m).ids : m \in Given(c)}
    /\ {m.path : m \in Given(c)} = {PathOf(c, i) : i \in DOMAIN named[c]}
    /\ \A x, y \in instances[c] : x.id = y.id => x = y

\* ... and is rejected exactly when one of them cannot be made or two files have a
\* plugin of one id, even though the one that is told depends on the order.
RejectedForCause ==
  \A c \in Configs :
    /\ resolving[c] = "rejected" => InConflict(c) \/ \E m \in Given(c) : TextOf(m).fails
    /\ resolving[c] = "fulfilled" => ~InConflict(c) /\ \A m \in Given(c) : ~TextOf(m).fails

\* Two spellings of a file, and two configurations that load it under one version,
\* get the same text of it.
OneTextPerVersion ==
  \A c, d \in Configs : \A m \in Given(c), n \in Given(d) :
    m.path = n.path /\ m.version = n.version => m.text = n.text

\* After clearPluginsCache no text from before is cached, unless it was asked for
\* before, by a load that was under way, or is that of a CommonJS file that was in
\* require.cache and not in the plugin cache: such a file is not evicted.
NothingStaleIsCached ==
  \A p \in Paths :
    LET m == pluginsCache[p]
    IN m # Missing /\ m.text < cleared[p] => m.version < cacheVersion \/ p \in CommonJs \cap uncached

\* What a configuration gets of its plugins, and what the cache keeps of them for
\* the next one.
PluginsAreSound ==
  EachPluginOnce /\ RejectedForCause /\ OneTextPerVersion /\ NothingStaleIsCached

\* Every load settles.
PluginsSettled == \A c \in Configs : resolving[c] # "pending"
==============================================================================
