SPECIFICATION Spec
CONSTANTS
  r1 = r1
  r2 = r2
  p1 = p1
  p2 = p2
  seed = seed
  Requests = {r1, r2}
  Parts = {}
  Paths <- MCPaths
  Above <- MCAbove
  Hidden = {"acl"}
  Writers <- MCWriters
  MaxChunks = 2
  Methods = {"COPY"}
  Urls <- ContainerAndResource
  Names <- MCNames
  Index = {"f"}
  Uuids <- MCUuids
  InitialTrees <- MCInitialTrees
  MaxCrashes = 0
CHECK_DEADLOCK FALSE
PROPERTIES
  CopyIsAnswered
