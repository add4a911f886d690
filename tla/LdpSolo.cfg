SPECIFICATION SoloSpec
CONSTANTS
  r1 = r1
  r2 = r2
  p1 = p1
  p2 = p2
  seed = seed
  Requests = {r1, r2, p1, p2}
  Parts = {p1, p2}
  Paths <- MCPaths
  Above <- MCAbove
  Hidden = {"acl"}
  Writers <- MCWriters
  MaxChunks = 1
  Methods = {"GET", "HEAD", "PUT", "POST", "UPLOAD", "PATCH", "DELETE", "COPY"}
  Urls <- ContainerAndResource
  Names <- MCNames
  Index = {"f"}
  Uuids <- MCUuids
  InitialTrees <- MCInitialTrees
  MaxCrashes = 1
SYMMETRY PartSymmetry
CHECK_DEADLOCK FALSE
PROPERTIES
  ImplementsResourceStore
