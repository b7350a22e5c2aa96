SPECIFICATION ConfigSpec
CONSTANTS
  Unset = Unset
  Options = {"x", "y"}
  Presets <- MCPresets
  ConfigFiles <- MCConfigFiles
CHECK_DEADLOCK FALSE
INVARIANT RootSettingsAreUsed
