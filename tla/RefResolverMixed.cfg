CONSTANTS
  None = None
  Docs = {"root", "web", "overlay", "file"}
  Segs = {"a", "b", "c"}
  Types = {"T"}
  Anchors = {"n", "m"}
  HttpDocs = {"root", "web"}
  FileUrls = {"overlay", "file"}
  OverlayFiles = {"overlay"}
  RootDoc = "root"
  RootType = "T"
  Siblings = {}
  Nodes <- MixedTree
  TypeAt <- OneType
  AnchorOf <- NamedAt
  RefStrs <- MixedRefs
  RefGraphs <- MixedGraph
SPECIFICATION FairSpec
INVARIANTS
  RemoteReadsNoFiles
  NothingIsMissed
PROPERTIES
  Terminates
