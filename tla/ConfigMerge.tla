------------------------------ MODULE ConfigMerge ------------------------------
(***************************************************************************)
(* What a configuration says of one rule for one format: resolveConfig     *)
(* merges the `extends` of the file, of what they extend, and its own      *)
(* settings (bundleExtends, mergeExtends), then each API of `apis` on top  *)
(* of the result; Config puts the settings of the format over the general  *)
(* ones, and the command skips rules.                                      *)
(*                                                                         *)
(* Rules do not influence each other, nor do formats, so there is one of   *)
(* each: a layer has what `rules` and, say, `oas3_1Rules` set for it.      *)
(* Preprocessors, decorators and diff are merged by the same operations.   *)
(***************************************************************************)
EXTENDS Naturals, Sequences

CONSTANTS
  Unset,      (* not set                                                       *)
  Options,    (* the options a rule may be given                               *)
  Presets,    (* what a file or an API may extend: [extends, own]              *)
  ConfigFiles (* the configurations: [extends, own, api]                       *)

\* A setting is a severity, or an object with options and perhaps a severity.
Settings ==
  { s \in [severity : {"error", "warn", "off", Unset}, options : Options \cup {Unset}] :
      s.severity # Unset \/ s.options # Unset }
IsFull(s) == s # Unset /\ s.options # Unset
Off == [severity |-> "off", options |-> Unset]

Layers == [rules : Settings \cup {Unset}, versioned : Settings \cup {Unset}]
NoLayer == [rules |-> Unset, versioned |-> Unset]

ASSUME ConfigAssumption ==
  /\ Presets \subseteq [extends : Seq(Layers), own : Layers]
  /\ ConfigFiles \subseteq [extends : Seq(Presets), own : Layers, api : Presets]
  /\ Unset \notin Settings \cup Options \cup {"error", "warn", "off"}

VARIABLES
  file,      (* the configuration, chosen at the start                         *)
  resolved,  (* resolvedConfig: of the root and of the API                     *)
  inForce    (* what Config has for the format, of the root and of the API     *)

configVars == <<file, resolved, inForce>>

ConfigStart == resolved = Unset /\ inForce = Unset
ConfigInit == file \in ConfigFiles /\ ConfigStart

------------------------------------------------------------------------------
(* mergeExtends *)

\* Faulty: a severity replaces the object.
Replaced(old, new) == IF new = Unset THEN old ELSE new

\* A severity keeps the options that are there.
Assigned(old, new) ==
  IF new = Unset THEN old
  ELSE IF IsFull(old) /\ ~IsFull(new) THEN [old EXCEPT !.severity = new.severity]
  ELSE new

AssignedIfThere(old, new) == IF old = Unset THEN old ELSE Assigned(old, new)

\* Faulty: the general setting does not reach the sections of formats.
MergedApart(result, layer) ==
  [ rules |-> Assigned(result.rules, layer.rules),
    versioned |-> Assigned(result.versioned, layer.versioned) ]

\* The settings of a later layer, then its general ones also where the format
\* has a setting of its own.
Merged(result, layer) ==
  [ rules |-> Assigned(result.rules, layer.rules),
    versioned |-> AssignedIfThere(Assigned(result.versioned, layer.versioned), layer.rules) ]

\* From an empty configuration on, one layer after the other.
MergeExtends(layers) ==
  LET merged[i \in 0..Len(layers)] == IF i = 0 THEN NoLayer ELSE Merged(merged[i - 1], layers[i])
  IN merged[Len(layers)]

\* Faulty: what is extended is merged over the own settings.
ExtendedOver(extends, own) == IF extends = <<>> THEN own ELSE MergeExtends(<<own>> \o extends)

\* bundleExtends: without `extends` nothing is merged.
ExtendedBy(extends, own) == IF extends = <<>> THEN own ELSE MergeExtends(Append(extends, own))

ExtendedAll(extends) == [ i \in DOMAIN extends |-> ExtendedBy(extends[i].extends, extends[i].own) ]

\* resolveConfig
Resolve ==
  /\ resolved = Unset
  /\ LET root == ExtendedBy(ExtendedAll(file.extends), file.own)
         api == ExtendedBy(file.api.extends, file.api.own)
     IN resolved' = [root |-> root, api |-> MergeExtends(<<root, api>>)]
  /\ UNCHANGED <<file, inForce>>

------------------------------------------------------------------------------
(* Config *)

\* Config.rules, and what skipRules leaves of it.
OfFormat(layer) == IF layer.versioned # Unset THEN layer.versioned ELSE layer.rules
Skipping(setting, skips) == IF skips /\ setting # Unset THEN Off ELSE setting

\* The constructor, forAlias and skipRules.
Construct(skips) ==
  /\ resolved # Unset /\ inForce = Unset
  /\ inForce' = [ root |-> Skipping(OfFormat(resolved.root), skips),
                  api |-> Skipping(OfFormat(resolved.api), skips), skips |-> skips ]
  /\ UNCHANGED <<file, resolved>>

ConfigNext == Resolve \/ \E skips \in BOOLEAN : Construct(skips)
ConfigSpec == ConfigInit /\ [][ConfigNext]_configVars

\* getRuleSettings
Severity(setting) ==
  IF setting = Unset THEN "off" ELSE IF setting.severity = Unset THEN "error" ELSE setting.severity

------------------------------------------------------------------------------
(* Properties *)

\* What is written, from the lowest priority to the highest.
LayersIn(preset) == Append(preset.extends, preset.own)
WrittenIn(presets) ==
  LET written[i \in 0..Len(presets)] == IF i = 0 THEN <<>> ELSE written[i - 1] \o LayersIn(presets[i])
  IN written[Len(presets)]
OfRoot == Append(WrittenIn(file.extends), file.own)
OfApi == OfRoot \o LayersIn(file.api)
LayersOf(which) == IF which = "root" THEN OfRoot ELSE OfApi

IsNamed(layer) == layer # NoLayer
General(layers) == \A i \in DOMAIN layers : layers[i].versioned = Unset
Specific(layers) == \A i \in DOMAIN layers : layers[i].rules = Unset

\* The last setting that is written of those in `kept`.
LastAmong(layers, kept) ==
  LET at == {i \in DOMAIN layers : OfFormat(layers[i]) \in kept}
  IN IF at = {} THEN Unset ELSE OfFormat(layers[CHOOSE i \in at : \A j \in at : j <= i])
LastSet(layers) == LastAmong(layers, Settings)
LastFull(layers) == LastAmong(layers, {s \in Settings : IsFull(s)})

\* The last setting decides on the severity, and the last object on the options, for
\* the root and for an API, as long as the rule is only set in general or only for
\* the format (docs/configuration/extends.md, Priority and overrides).
LastDecides ==
  \A which \in {"root", "api"} :
    LET layers == LayersOf(which)
        setting == inForce[which]
    IN (General(layers) \/ Specific(layers)) /\ ~inForce.skips =>
         /\ Severity(setting) = Severity(LastSet(layers))
         /\ setting # Unset =>
              setting.options = IF LastFull(layers) = Unset THEN Unset ELSE LastFull(layers).options

\* Of a layer that is merged the general setting wins.
InLayer(layer) == IF layer.rules # Unset THEN layer.rules ELSE layer.versioned

\* The settings of an API override those of the root, however either is written
\* (docs/configuration/apis.md), unless it sets the rule only for the format and
\* extends what sets it in general.
ApiOverrides ==
  LET own == file.api.own
      inGeneral == \E i \in DOMAIN file.api.extends : file.api.extends[i].rules # Unset
  IN IsNamed(own) /\ (inGeneral => own.rules # Unset) /\ ~inForce.skips =>
       Severity(inForce.api) = Severity(InLayer(own))

\* So do the file's own settings those of what it extends.
OwnOverrides ==
  IsNamed(file.own) /\ file.extends # <<>> /\ ~inForce.skips =>
    Severity(inForce.root) = Severity(InLayer(file.own))

SaysNothing(api) == api = [extends |-> <<>>, own |-> NoLayer]

\* An API that says nothing has the settings of the root, unless the root has both
\* kinds: then the general one is put over that of the format, once more.
SilentApiFollowsRoot ==
  SaysNothing(file.api) =>
    Severity(inForce.api) = Severity(inForce.root) \/
      /\ resolved.root.rules # Unset /\ resolved.root.versioned # Unset
      /\ Severity(inForce.api) = Severity(resolved.root.rules)

\* What is skipped is off, and what nothing names stays so.
SkippedIsOff ==
  \A which \in {"root", "api"} :
    /\ inForce.skips => Severity(inForce[which]) = "off"
    /\ inForce[which] = Unset <=> \A i \in DOMAIN LayersOf(which) : ~IsNamed(LayersOf(which)[i])

\* The severity and options a rule ends with are those that were written last, for
\* every way to write them that the documentation orders.
ConfigIsSound ==
  inForce # Unset =>
    LastDecides /\ ApiOverrides /\ OwnOverrides /\ SilentApiFollowsRoot /\ SkippedIsOff

\* "If `rules` ... aren't defined for an API, root settings are used"
\* (docs/configuration/apis.md:8).
RootSettingsAreUsed ==
  inForce # Unset /\ SaysNothing(file.api) => inForce.api = inForce.root
==============================================================================
