CONSTANTS
  None = None
  Docs = {"root", "ext"}
  Segs = {"a", "b"}
  Types = {"T", "U"}
  Anchors = {}
  HttpDocs = {}
  FileUrls = {}
  OverlayFiles = {}
  RootDoc = "root"
  RootType = "T"
  Siblings <- WithSiblings
  Nodes <- Tree
  TypeAt <- TwoTypes
  AnchorOf <- NoAnchor
  RefStrs <- AllPointers
  RefGraphs <- AnyGraph
SPECIFICATION Spec
INVARIANTS
  TypeOK
  LoadedOnce
  AsIfSequential
PROPERTIES
  EntriesAreStable
