SPECIFICATION Spec
CONSTANTS
  r1 = r1
  r2 = r2
  r3 = r3
  r4 = r4
  r5 = r5
  alice = alice
  bob = bob
  other = other
  home = home
  None = None
  Requests = {r1, r2}
  Kinds <- SignupKinds
  Bodies <- SignupBodies
  Accounts = {alice, bob}
  WebIds = {alice, bob}
  Home <- HostOf
  Emails = {home}
  Template = {"acl"}
  RootAcl = "acl"
  MaxCrashes = 0
CHECK_DEADLOCK FALSE
PROPERTIES
  NobodyTakesOver
