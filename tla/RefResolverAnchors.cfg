CONSTANTS
  None = None
  Docs = {"root"}
  Segs = {"a", "b", "c"}
  Types = {"T"}
  Anchors = {"n", "m"}
  HttpDocs = {}
  FileUrls = {}
  OverlayFiles = {}
  RootDoc = "root"
  RootType = "T"
  Siblings = {}
  Nodes <- NamedTree
  TypeAt <- OneType
  AnchorOf <- NamedAt
  RefStrs <- AnchorRefs
  RefGraphs <- AnchorGraph
SPECIFICATION Spec
PROPERTY EntriesAreStable
