SPECIFICATION MCSpec
CONSTANTS
  r1 = r1
  r2 = r2
  r3 = r3
  root = root
  box = box
  file = file
  owner = owner
  friend = friend
  Requests = {r1, r2, r3}
  Resources = {root, box, file}
  Containers = {root, box}
  Agents = {owner, friend}
  Chain <- Chains
  Asks <- MCAsks
  Starts <- MCStarts
  MaxCrashes = 1
  Hosts = {"alice", "bob"}
  Stems <- MCStems
  Urls <- MCUrls
  IncludeHost = TRUE
CHECK_DEADLOCK FALSE
INVARIANTS
  TypeOK
  TornOnlyWhileWritten
  AclsAreInherited
  AclsGovernThemselves
  OneFileOneAcl
  LinkedAclCounts
PROPERTIES
  DecisionsHold
  ContainerSharesAreExact
  Answered
