-------------------------------- MODULE MCConfig --------------------------------
(***************************************************************************)
(* Configurations for ConfigMerge: what a file extends, one level further  *)
(* down, the file, an API and what it extends; up to three of these six    *)
(* say something of the rule.                                              *)
(***************************************************************************)
EXTENDS ConfigMerge, FiniteSets

MCSetting(severity, options) == [severity |-> severity, options |-> options]
MCLayers ==
  [ rules : {Unset, MCSetting("off", Unset), MCSetting(Unset, "x")},
    versioned : {Unset, MCSetting("warn", Unset), MCSetting("error", "y")} ]
MCPresets == [extends : {<<>>} \cup {<<l>> : l \in MCLayers}, own : MCLayers]

Slots == {"base", "preset", "second", "own", "apiPreset", "api"}
MCLayered ==
  UNION {[S -> MCLayers \ {NoLayer}] : S \in {T \in SUBSET Slots : Cardinality(T) <= 3}}

MCConfigFile(l) ==
  LET at(s) == IF s \in DOMAIN l THEN l[s] ELSE NoLayer
      listed(s) == IF s \in DOMAIN l THEN <<l[s]>> ELSE <<>>
      first == [extends |-> listed("base"), own |-> at("preset")]
      second == [extends |-> <<>>, own |-> at("second")]
  IN [ extends |-> IF DOMAIN l \cap {"base", "preset", "second"} = {} THEN <<>> ELSE <<first, second>>,
       own |-> at("own"), api |-> [extends |-> listed("apiPreset"), own |-> at("api")] ]

MCConfigFiles == {MCConfigFile(l) : l \in MCLayered}
==============================================================================
