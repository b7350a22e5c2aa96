SPECIFICATION DocumentsSpec
CONSTANTS
  Files <- MCFiles
  Locals <- MCLocals
  Dir <- MCDir
  Base <- MCBase
  Names <- MCNames
  Numbered <- MCNumbered
  Absent = Absent
  Keys = {k, l, m}
  Child = k
  MaxUses = 3
  Nodes <- MCNodes
  Root = "root"
  Type <- MCType
  Between <- MCBetween
  Nobody = Nobody
  Unset = Unset
  Options = {"x", "y"}
  Presets <- MCPresets
  ConfigFiles <- MCConfigFiles
  Configs = {"first", "second"}
  Paths = {"p", "q"}
  CommonJs = {"q"}
  PluginIds = {"i", "j"}
  PluginLists <- MCPluginLists
  Libraries <- MCLibraries
  MaxVersion = 1
  Missing = Missing
CHECK_DEADLOCK FALSE
INVARIANTS
  RemovalIsSound
  WalkIsSound
  NestedSeeTheirOwn
  ConfigIsSound
  PluginsAreSound
PROPERTIES
  BundleIsSound
  DocumentsEnd
