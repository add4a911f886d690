SPECIFICATION Spec
CONSTANTS
  r1 = r1
  r2 = r2
  r3 = r3
  r4 = r4
  r5 = r5
  alice = alice
  bob = bob
  other = other
  home = home
  None = None
  Requests = {r1, r2, r3, r4}
  Kinds <- DeletionKinds
  Bodies <- DeletionBodies
  Accounts = {alice, bob}
  WebIds = {alice, bob, other}
  Home <- HostOf
  Emails = {home}
  Template = {"acl", "profile"}
  RootAcl = "acl"
  MaxCrashes = 1
CHECK_DEADLOCK FALSE
INVARIANTS
  TypeOK
  OneOwner
  AliasesLead
  NoOrphans
PROPERTIES
  DeletedIsGone
  ImplementsAccountTable
