SPECIFICATION Spec
CONSTANTS
  b1 = b1
  b2 = b2
  None = None
  LoggedOut = LoggedOut
  Password = Password
  SignedUp = SignedUp
  NoHost = NoHost
  Repeated = Repeated
  NoTx = NoTx
  NoKeys = NoKeys
  Torn = Torn
  KeyChains = {k1, k2, k3}
  SiteFiles = {"index", "indexAcl", "icon"}
  IndexPage = "index"
  MaxCrashes = 2
  ServerUri <- Server
  Providers <- MCProviders
  IssuerOf <- MCIssuerOf
  LinkHeader <- MCLinkHeader
  ProfileIssuer <- MCProfileIssuer
  Requests = {1, 2, 3, 4, 5, 6, 7}
  Browsers = {b1, b2}
  WebIds <- MCWebIds
  Names <- MCNames
  Alias <- MCAlias
  Record <- MCRecord
  TokenClaims <- MCTokenClaims
  ReturnUrls = {"/api/wallet/get"}
  WalletPage = "/api/wallet/get"
  Traffics <- SmallTraffics
  Posts = {p1, p2, p3}
  Handles = {h1, h2, h3}
CHECK_DEADLOCK FALSE
INVARIANTS
  TypeOK
  UserIsEntitled
  CodesTraceBack
  VerifiedIssuer
  ClientIsKnown
  LoginsEndWhereBegun
  TokensSurviveRestart
  WelcomeIsWhole
  TransactionsApart
  HandlesServe
PROPERTIES
  LoginsAreKept
  KeysChosenOnce
  WelcomeEnds
  
