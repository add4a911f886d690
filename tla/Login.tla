------------------------------- MODULE Login --------------------------------
(***************************************************************************)
(* Sessions and logins. A request takes a copy of its browser's session    *)
(* when it arrives and works on the copy; when it is answered, the copy    *)
(* replaces the stored session as a whole if the request has changed it.   *)
(* Everything a handler does between two awaits is one action; the last    *)
(* one, Finish, is the answer and the save.                                *)
(*                                                                         *)
(* A user logs in with a password, with a provider of their choice (this   *)
(* server is its own provider's client as much as any other's), or sends a *)
(* token along; who signs up is logged in as well. The provider side is    *)
(* the endpoint that gives out codes.                                      *)
(* The clients of providers, the codes and the sessions are in memory.     *)
(***************************************************************************)
EXTENDS OidcProvider, WebIdOidc

CONSTANTS
  LoggedOut,      \* the empty strings that a logout leaves
  Password,       \* the proofs that are no issuer's: a password, and the
  SignedUp,       \* word of a signup
  Requests,       \* the requests, numbered as they arrive
  Browsers,
  WebIds,
  Names,          \* what may be typed as a user name
  NoHost,         \* what may be, and cannot be the name of a host
  Repeated,       \* a field of a form that is given twice
  Alias,          \* name -> the name its alias record leads to, or None
  Record,         \* name -> the web identifier of its user record, or None
  TokenClaims,    \* the claims that a token may have
  ReturnUrls,     \* the pages to return to after a login
  WalletPage,     \* the one of them that the wallet asks for
  Traffics        \* the kinds of traffic, see InTraffic

\* What may be typed into the form for a provider: a web identifier, or one
\* short of its scheme, or what is not a URL.
Typed == WebIds \cup {[w EXCEPT !.scheme = ""] : w \in WebIds} \cup {None}

Urls == [scheme : STRING, host : Seq(STRING), path : STRING]

\* The web identifiers are those that any step below comes upon.
ASSUME LoginAssumption ==
  /\ WebIds \subseteq Urls
  /\ \A uri \in Typed \ {None} : NormalizeUri(uri) \in WebIds
  /\ ServerUri \notin {Password, SignedUp}
  /\ None \notin WebIds
  /\ LoggedOut \notin WebIds \cup {None}
  /\ None \notin ReturnUrls
  /\ WalletPage \in ReturnUrls
  /\ Requests \subseteq Nat \ {0}
  /\ Alias \in [Names -> Names \cup {None}]
  /\ Record \in [Names -> WebIds \cup {None}]
  /\ None \notin Names
  /\ NoHost \notin Names \cup {None}
  /\ NoHost \notin WebIds
  /\ Repeated \notin Typed
  /\ \A claims \in TokenClaims : ExtractWebId(claims) \in WebIds \cup {None}
  /\ \A kinds \in Traffics : kinds.browsers \subseteq Browsers

VARIABLES
  session,    \* the stored session of each browser
  req,        \* what each request is at
  clients,    \* the clients of providers: issuer -> request that made it
  opClients,  \* the clients our own provider knows
  grants,     \* the codes of our own provider: flow -> user, or None
  issued,     \* the users our own provider signed a token for
  spent,      \* the flows whose code was redeemed
  doubled,    \* the issuers that were registered with twice at a time
  entitled,   \* the proofs that the session of a browser may rest on
  proved,     \* all the proofs there were
  traffic

lvars == <<session, req, clients, opClients, grants, issued, spent, doubled,
           entitled, proved, traffic>>

NoClient == 0

Issuers == Providers \cup ({DiscoverProviderFor(w) : w \in WebIds} \ {None})

\* What the session holds that the handlers tell apart: the user, the page to
\* return to, the flow of the application that asked for a login, and the
\* flows begun with providers.
NewSession == [user |-> None, returnTo |-> None, app |-> None, pending |-> {}]

NoRequest ==
  [pc |-> "idle", kind |-> "none", by |-> None,
   copy |-> NewSession, orig |-> NewSession,
   name |-> None, webId |-> None, issuer |-> None, flow |-> None, query |-> {},
   client |-> NoClient, answer |-> "none", actsFor |-> None]

LoginInit ==
  /\ session = [b \in Browsers |-> NewSession]
  /\ req = [r \in Requests |-> NoRequest]
  /\ clients = [i \in Issuers |-> NoClient]
  /\ opClients = {}
  /\ grants = [r \in Requests |-> None]
  /\ issued = {}
  /\ spent = {}
  /\ doubled = {}
  /\ entitled = [b \in Browsers |-> {}]
  /\ proved = {}
  /\ traffic \in Traffics

-----------------------------------------------------------------------------
(* Requests.                                                               *)

\* Steps that wait for another site (or for this one as a provider), and
\* steps that are this process's own.
RemotePcs == {"provider", "discover", "register", "exchange", "token"}
LocalPcs == {"find", "match", "account", "client", "persist", "authUrl",
             "claims", "page", "keys", "finish"}

Open == {r \in Requests : req[r].pc \in RemotePcs \cup LocalPcs}

LoggedIn(s) == s.user \in WebIds

Goes(r, changed) == req' = [req EXCEPT ![r] = changed]

\* A traffic says of which kinds each request may be, who sends them and how
\* many may be open at a time.
InTraffic(r, kind) ==
  /\ Serving
  /\ req[r].pc = "idle"
  /\ \A q \in Requests : q < r => req[q].pc # "idle"
  /\ r \in DOMAIN traffic.kinds
  /\ kind \in traffic.kinds[r]
  /\ Cardinality(Open) < traffic.open

\* The session handler: a request with a copy of the session.
Received(kind, b) ==
  [NoRequest EXCEPT !.kind = kind, !.by = b,
                    !.copy = session[b], !.orig = session[b]]

\* The answer of a request, before it is sent.
Answered(x, answer) == [x EXCEPT !.pc = "finish", !.answer = answer]

Quiet == UNCHANGED <<session, clients, opClients, grants, issued, spent,
                     doubled, entitled, proved, traffic>>

Offline == UNCHANGED pvars

\* What a request of b proves is true of b's session from now on.
Proves(b, user, how) ==
  /\ entitled' = [entitled EXCEPT ![b] = @ \cup {[user |-> user, how |-> how]}]
  /\ proved' = proved \cup {[user |-> user, how |-> how]}

-----------------------------------------------------------------------------
(* Passwords.                                                              *)

\* AuthRequest.requestOptions.
WithReturnTo(s, url) == IF url = None THEN s ELSE [s EXCEPT !.returnTo = url]

\* AuthRequest.extractAuthParams: any query replaces what was stored, also
\* one without an application; an empty one leaves it.
WithAuthParams(s, url, flow) ==
  IF url = None /\ flow = None THEN s ELSE [s EXCEPT !.app = flow]

\* The flows whose authorization sent the browser to the login page.
SentToLogin(b) ==
  {req[q].flow : q \in {p \in Requests :
     req[p].pc = "done" /\ req[p].by = b /\ req[p].answer = "login"}}

\* Mutant: the form is shown to a session that is begun anew.
GetLoginAfresh(r) ==
  /\ InTraffic(r, "getLogin")
  /\ \E b \in traffic.browsers :
       LET x == Received("getLogin", b)
       IN  Goes(r, Answered([x EXCEPT !.copy = NewSession], "form"))
  /\ Quiet
  /\ Offline

GetLogin(r) ==
  /\ InTraffic(r, "getLogin")
  /\ \E b \in traffic.browsers :
     \E query \in ({None} \X SentToLogin(b)) \cup
                  ((ReturnUrls \cup {None}) \X {None}) :
       LET x == Received("getLogin", b)
           s == WithAuthParams(WithReturnTo(x.copy, query[1]),
                               query[1], query[2])
       IN  Goes(r, Answered([x EXCEPT !.copy = s], "form"))
  /\ Quiet
  /\ Offline

\* A request that is never answered: the handler's promise is rejected, by an
\* error outside of its try or by one in its catch, and nobody waits for it.
Stuck(x) == [x EXCEPT !.pc = "stuck"]

\* validate() throws before the user is looked for.  So does userAccountFrom()
\* for a name that no host can have, with a code that errorJson takes for the
\* status: setting it throws once more.
LoginPassword(r) ==
  /\ InTraffic(r, "password")
  /\ \E b \in traffic.browsers, name \in Names \cup {None, NoHost},
        url \in ReturnUrls \cup {None} :
       LET new == Received("password", b)
           x == [new EXCEPT !.copy = WithReturnTo(new.copy, url)]
       IN  Goes(r, CASE name = None -> Answered(x, "400")
                     [] name = NoHost -> Stuck(x)
                     [] OTHER -> [x EXCEPT !.pc = "find", !.name = name])
  /\ Quiet
  /\ Offline

\* UserCredentialStore.findUser: an alias record leads to another one.
FoundUser(name) ==
  IF Alias[name] # None THEN Record[Alias[name]] ELSE Record[name]

InitUserSession(s, user) == [s EXCEPT !.user = user]

\* Mutant: the session is the user's before the password was matched.
FindAndLogin(r) ==
  /\ req[r].pc = "find"
  /\ LET user == FoundUser(req[r].name) IN
       Goes(r, IF user = None THEN Answered(req[r], "400")
               ELSE [req[r] EXCEPT !.pc = "match", !.webId = user,
                                   !.copy = InitUserSession(@, user)])
  /\ Quiet
  /\ Offline

FindUser(r) ==
  /\ req[r].pc = "find"
  /\ LET user == FoundUser(req[r].name) IN
       Goes(r, IF user = None THEN Answered(req[r], "400")
               ELSE [req[r] EXCEPT !.pc = "match", !.webId = user])
  /\ Quiet
  /\ Offline

\* The code of a file system error is no status either.
FindUserFails(r) ==
  /\ req[r].pc = "find"
  /\ Goes(r, Stuck(req[r]))
  /\ Quiet
  /\ Offline

RefusePassword(r) ==
  /\ req[r].pc = "match"
  /\ Goes(r, Answered(req[r], "400"))
  /\ Quiet
  /\ Offline

\* The query that was stored goes into the URL and is reset.
AuthorizeUrl(x) ==
  Answered([x EXCEPT !.copy.app = None, !.flow = x.copy.app], "authorize")

\* On to the application that asked for the login, or back to the page it was
\* asked from.
PostLoginUrl(x) ==
  IF x.copy.app # None THEN AuthorizeUrl(x)
  ELSE Answered([x EXCEPT !.copy.returnTo = None], "home")

MatchPassword(r) ==
  /\ req[r].pc = "match"
  /\ LET user == req[r].webId IN
       /\ Goes(r, PostLoginUrl(
                    [req[r] EXCEPT !.copy = InitUserSession(@, user)]))
       /\ Proves(req[r].by, user, Password)
  /\ UNCHANGED <<session, clients, opClients, grants, issued, spent, doubled,
                 traffic>>
  /\ Offline

-----------------------------------------------------------------------------
(* Signing up: what it does to the session. Accounts has the rest of it.   *)

\* The form may name any WebID; its username, or none, stands for its own.
\* Without one, or with one that no host can have, it is turned down at once.
Signup(r) ==
  /\ InTraffic(r, "signup")
  /\ \E b \in traffic.browsers, webId \in WebIds \cup {None, NoHost} :
       LET x == Received("signup", b) IN
         Goes(r, CASE webId = None -> Answered(x, "400")
                   [] webId = NoHost -> Answered(x, "500")
                   [] OTHER -> [x EXCEPT !.pc = "account", !.webId = webId])
  /\ Quiet
  /\ Offline

\* The session is the account's as soon as the credentials are saved.
CreateAccount(r) ==
  /\ req[r].pc = "account"
  /\ LET user == req[r].webId IN
       /\ Goes(r, Answered([req[r] EXCEPT !.copy = InitUserSession(@, user)],
                           "registered"))
       /\ Proves(req[r].by, user, SignedUp)
  /\ UNCHANGED <<session, clients, opClients, grants, issued, spent, doubled,
                 traffic>>
  /\ Offline

\* The account exists, or something cannot be written.
RefuseSignup(r) ==
  /\ req[r].pc = "account"
  /\ \E answer \in {"400", "500"} : Goes(r, Answered(req[r], answer))
  /\ Quiet
  /\ Offline

-----------------------------------------------------------------------------
(* Logging in with a provider: the server as its client.                   *)

\* The page to return to is replaced, also by none.
SaveReturnToUrl(s, url) == [s EXCEPT !.returnTo = url]

\* normalizeUri() expects a string, and is called before the try.
SelectProvider(r) ==
  /\ InTraffic(r, "selectProvider")
  /\ \E b \in traffic.browsers, uri \in Typed \cup {Repeated},
        url \in ReturnUrls \cup {None} :
       LET x == Received("selectProvider", b) IN
         Goes(r, CASE uri = None -> Answered(x, "400")
                   [] uri = Repeated -> Stuck(x)
                   [] OTHER -> [x EXCEPT !.pc = "provider",
                                         !.webId = NormalizeUri(uri),
                                         !.copy = SaveReturnToUrl(@, url)])
  /\ Quiet
  /\ Offline

PreferredProviderFor(r) ==
  /\ req[r].pc = "provider"
  /\ Goes(r, IF ProviderExists(req[r].webId)
               THEN [req[r] EXCEPT !.pc = "client",
                                   !.issuer = Origin(req[r].webId)]
               ELSE [req[r] EXCEPT !.pc = "discover"])
  /\ Quiet
  /\ Offline

\* What a request that waits for another site is answered when that fails.
Failed(x) ==
  CASE x.kind = "selectProvider" -> Answered(x, "400")
    [] x.kind = "bearer" -> Answered(x, "401")
    [] x.kind = "callback" /\ x.pc = "discover" -> Answered(x, "401")
    [] x.kind = "callback" /\ x.pc = "exchange" -> Answered(x, "400")
    [] OTHER -> Answered(x, "500")

RemoteFails(r) ==
  /\ req[r].pc \in RemotePcs
  /\ Goes(r, Failed(req[r]))
  /\ Quiet
  /\ Offline

\* MultiRpClient.clientForIssuer, of the selection and of the callback.
WithClient(x, client) ==
  [x EXCEPT !.client = client,
            !.pc = IF x.kind = "callback" THEN "exchange" ELSE "authUrl"]

\* The requests that found no client for an issuer and are making one.
Registering(issuer) ==
  {q \in Requests : req[q].pc \in {"register", "persist"} /\ req[q].issuer = issuer}

\* Mutant: the store of clients is not asked.
RegisterAnew(r) ==
  /\ req[r].pc = "client"
  /\ Goes(r, [req[r] EXCEPT !.pc = "register"])
  /\ doubled' = IF Registering(req[r].issuer) = {} THEN doubled
                ELSE doubled \cup {req[r].issuer}
  /\ UNCHANGED <<session, clients, opClients, grants, issued, spent, entitled,
                 proved, traffic>>
  /\ Offline

LoadClient(r) ==
  /\ req[r].pc = "client"
  /\ LET issuer == req[r].issuer IN
       IF clients[issuer] # NoClient
         THEN /\ Goes(r, WithClient(req[r], clients[issuer]))
              /\ UNCHANGED doubled
         ELSE /\ Goes(r, [req[r] EXCEPT !.pc = "register"])
              /\ doubled' = IF Registering(issuer) = {} THEN doubled
                            ELSE doubled \cup {issuer}
  /\ UNCHANGED <<session, clients, opClients, grants, issued, spent, entitled,
                 proved, traffic>>
  /\ Offline

\* A provider of our own puts the client in its memory.
RegisterClient(r) ==
  /\ req[r].pc = "register"
  /\ req[r].issuer \in Providers
  /\ Goes(r, [req[r] EXCEPT !.pc = "persist", !.client = r])
  /\ opClients' = IF IssuerOf[req[r].issuer] = ServerUri
                    THEN opClients \cup {r} ELSE opClients
  /\ UNCHANGED <<session, clients, grants, issued, spent, doubled, entitled,
                 proved, traffic>>
  /\ Offline


PersistClient(r) ==
  /\ req[r].pc = "persist"
  /\ clients' = [clients EXCEPT ![req[r].issuer] = req[r].client]
  /\ Goes(r, WithClient(req[r], req[r].client))
  /\ UNCHANGED <<session, opClients, grants, issued, spent, doubled, entitled,
                 proved, traffic>>
  /\ Offline

\* createRequest keeps what the callback has to match in the session.
AuthUrl(r) ==
  /\ req[r].pc = "authUrl"
  /\ Goes(r, Answered([req[r] EXCEPT !.flow = r,
                                    !.copy.pending = @ \cup {r}], "provider"))
  /\ Quiet
  /\ Offline

\* The flows that sent a browser to a provider, and those of them that are
\* at a provider of our own.
Flows == {f \in Requests : req[f].pc = "done" /\ req[f].answer = "provider"}
OwnFlows == {f \in Flows : IssuerOf[req[f].issuer] = ServerUri}

\* A provider sends a browser back: our own for a code it gave out, another
\* one whenever it has come to know the user.
Callback(r) ==
  /\ InTraffic(r, "callback")
  /\ \E b \in traffic.browsers, f \in Flows :
       /\ f \in OwnFlows => grants[f] # None
       /\ Goes(r, [Received("callback", b) EXCEPT
                     !.pc = "client", !.flow = f, !.issuer = req[f].issuer])
  /\ Quiet
  /\ Offline

\* Mutant: the session of the browser is not looked at.
RedeemableAnywhere(x) ==
  /\ x.client = req[x.flow].client
  /\ x.flow \notin spent
  /\ x.flow \in OwnFlows => x.client \in opClients

\* The code can be redeemed: the browser is the one that began the flow, the
\* client is the one that was to, and nobody has done it before.
Redeemable(x) ==
  /\ x.flow \in x.copy.pending
  /\ x.client = req[x.flow].client
  /\ x.flow \notin spent
  /\ x.flow \in OwnFlows => x.client \in opClients

\* What the token for a flow may say: our own provider puts the user in the
\* subject, another one says what it likes.
IdClaims(f) ==
  IF f \in OwnFlows
    THEN {[iss |-> ServerUri, webid |-> None, sub |-> grants[f], subIsUri |-> TRUE]}
    ELSE {claims \in TokenClaims : claims.iss = IssuerOf[req[f].issuer]}

\* validateResponse, up to the web identifier of the claims.
ValidateResponse(r) ==
  /\ req[r].pc = "exchange"
  /\ Redeemable(req[r])
  /\ \E claims \in IdClaims(req[r].flow) :
       LET webId == ExtractWebId(claims) IN
         Goes(r, IF webId = None THEN Answered(req[r], "401")
                 ELSE [req[r] EXCEPT !.pc = "claims", !.webId = webId,
                                     !.issuer = claims.iss])
  /\ spent' = spent \cup {req[r].flow}
  /\ IF req[r].flow \in OwnFlows
       THEN /\ issued' = issued \cup {grants[req[r].flow]}
            /\ Sign
       ELSE UNCHANGED <<issued, signed>>
  /\ UNCHANGED <<session, clients, opClients, grants, doubled, entitled, proved,
                 traffic>>
  /\ UNCHANGED <<phase, config, keys, generated, welcome, site, rendered,
                 interrupted, hasWelcome, crashes>>

\* The one reason for a refusal that is of this server's making is named.
RefuseResponse(r) ==
  /\ req[r].pc = "exchange"
  /\ ~Redeemable(req[r])
  /\ LET x == req[r] IN
       Goes(r, Answered(x,
         IF x.flow \in x.copy.pending \ spent /\ x.client # req[x.flow].client
           THEN "wrongClient" ELSE "400"))
  /\ Quiet
  /\ Offline

-----------------------------------------------------------------------------
(* Claims to a web identifier, of a callback and of a token.               *)

\* Back to the page that the callback found in the session when it came.
ResumeUserWorkflow(x) ==
  Answered([x EXCEPT !.copy.returnTo = None], "returned")

\* The user is who the claims say: initSessionUserAuth of the callback, and
\* the handler that exposes the user of a token.
AcceptWebId(r) ==
  LET x == [req[r] EXCEPT !.copy.user = req[r].webId] IN
    /\ Goes(r, IF x.kind = "callback" THEN ResumeUserWorkflow(x)
               ELSE [x EXCEPT !.pc = "page"])
    /\ Proves(x.by, x.webId, x.issuer)
    /\ UNCHANGED <<session, clients, opClients, grants, issued, spent, doubled,
                   traffic>>
    /\ Offline

\* Mutant: the issuer is believed whatever it says.
BelieveClaims(r) ==
  /\ req[r].pc = "claims"
  /\ AcceptWebId(r)

WebIdFromClaims(r) ==
  /\ req[r].pc = "claims"
  /\ DomainMatches(req[r].issuer, req[r].webId)
  /\ AcceptWebId(r)

AskProfile(r) ==
  /\ req[r].pc = "claims"
  /\ ~DomainMatches(req[r].issuer, req[r].webId)
  /\ Goes(r, [req[r] EXCEPT !.pc = "discover"])
  /\ Quiet
  /\ Offline

ProfileConfirms(r) ==
  /\ req[r].pc = "discover"
  /\ req[r].kind # "selectProvider"
  /\ DiscoverProviderFor(req[r].webId) = req[r].issuer
  /\ AcceptWebId(r)

ProfileDenies(r) ==
  /\ req[r].pc = "discover"
  /\ req[r].kind # "selectProvider"
  /\ DiscoverProviderFor(req[r].webId) # req[r].issuer
  /\ Goes(r, Failed(req[r]))
  /\ Quiet
  /\ Offline

ProfileNames(r) ==
  /\ req[r].pc = "discover"
  /\ req[r].kind = "selectProvider"
  /\ LET issuer == DiscoverProviderFor(req[r].webId) IN
       Goes(r, IF issuer = None THEN Failed(req[r])
               ELSE [req[r] EXCEPT !.pc = "client", !.issuer = issuer])
  /\ Quiet
  /\ Offline

\* A request with a token; one with an empty header is refused at once.
Bearer(r) ==
  /\ InTraffic(r, "bearer")
  /\ \E b \in traffic.browsers, header \in {"empty", "token"} :
       LET x == Received("bearer", b) IN
         Goes(r, IF header = "empty" /\ StatusCodeFor(401, header) = 400
                   THEN Answered(x, "400")
                   ELSE [x EXCEPT !.pc = "token"])
  /\ Quiet
  /\ Offline

\* Our own tokens say what our own provider issued.
Genuine(claims) ==
  claims.iss = ServerUri => ExtractWebId(claims) \in issued

AuthenticateToken(r) ==
  /\ req[r].pc = "token"
  /\ \E claims \in {c \in TokenClaims : Genuine(c)} :
       LET webId == ExtractWebId(claims) IN
         Goes(r, CASE ~FilterAudience(claims.aud) -> Answered(req[r], "403")
                   [] FilterAudience(claims.aud) /\ webId = None
                        -> Answered(req[r], "401")
                   [] OTHER -> [req[r] EXCEPT !.pc = "claims", !.webId = webId,
                                              !.issuer = claims.iss])
  /\ Quiet
  /\ Offline

-----------------------------------------------------------------------------
(* The server as a provider, and what else the session is used for.        *)

ActingFor(x, answer) ==
  [Answered(x, answer) EXCEPT
     !.actsFor = IF LoggedIn(x.copy) THEN x.copy.user ELSE None]

\* Every application passes for the local one, so consent is implied.
ObtainConsent(x) == ActingFor(x, "code")

\* On to the login page, with the query of the request.
RedirectToLogin(x) == Answered(x, "login")

\* The authorization endpoint: a code for the user of the session.
Authorize(r) ==
  /\ InTraffic(r, "authorize")
  /\ \E f \in OwnFlows :
       LET x == [Received("authorize", req[f].by) EXCEPT !.flow = f] IN
         IF req[f].client \notin opClients
           THEN Goes(r, Answered(x, "400")) /\ UNCHANGED grants
           ELSE IF LoggedIn(x.copy)
             THEN /\ Goes(r, ObtainConsent(x))
                  /\ grants' = [grants EXCEPT ![f] = x.copy.user]
             ELSE Goes(r, RedirectToLogin(x)) /\ UNCHANGED grants
  /\ UNCHANGED <<session, clients, opClients, issued, spent, doubled, entitled,
                 proved, traffic>>
  /\ Offline

\* A request for a page or a resource, with the session as it was when the
\* request came.
Page(r) ==
  /\ InTraffic(r, "page")
  /\ \E b \in traffic.browsers :
       Goes(r, [Received("page", b) EXCEPT !.pc = "page"])
  /\ Quiet
  /\ Offline

ServePage(r) ==
  /\ req[r].pc = "page"
  /\ Goes(r, ActingFor(req[r], "page"))
  /\ Quiet
  /\ Offline

\* The wallet asks who is not logged in to log in, and to come back.
WalletGet(r) ==
  /\ InTraffic(r, "walletGet")
  /\ \E b \in traffic.browsers :
       LET x == Received("walletGet", b) IN
         Goes(r, IF LoggedIn(x.copy) THEN ActingFor(x, "wallet")
                 ELSE Answered([x EXCEPT !.copy.returnTo = WalletPage], "form"))
  /\ Quiet
  /\ Offline

\* A presentation is signed with the key of the user of the session.
Prove(r) ==
  /\ InTraffic(r, "prove")
  /\ \E b \in traffic.browsers :
       LET x == Received("prove", b) IN
         Goes(r, IF LoggedIn(x.copy) THEN [x EXCEPT !.pc = "keys"]
                 ELSE Answered(x, "401"))
  /\ Quiet
  /\ Offline

\* What a presentation is asked to hold: the proof of the identifier itself,
\* and credentials that can or cannot be issued here.
Queries == {"DIDAuth", "credential", "unsupported"}

Present(r) ==
  /\ InTraffic(r, "present")
  /\ \E b \in traffic.browsers, query \in SUBSET Queries :
       LET x == Received("present", b) IN
         Goes(r, IF LoggedIn(x.copy) THEN [x EXCEPT !.pc = "keys", !.query = query]
                 ELSE Answered(x, "401"))
  /\ Quiet
  /\ Offline

\* issueVcFromExample.
Issuable(query) == "unsupported" \notin query

\* Only the proof of the identifier makes the presentation a signed one.
Presentation(query) == IF "DIDAuth" \in query THEN "proof" ELSE "presentation"

\* The keys of a user are where their account is; another site's user has
\* none here, and a file may be missing.  Its error has a code, which makes a
\* 500 of the answer to `present` and not of that to `prove`.
SigningKey(r) ==
  /\ req[r].pc = "keys"
  /\ LET query == IF req[r].kind = "prove" THEN {"DIDAuth"} ELSE req[r].query IN
       \/ /\ IsSubdomain(AccountUri(req[r].copy.user), ServerUri)
          /\ Issuable(query)
          /\ Goes(r, ActingFor(req[r], Presentation(query)))
       \/ Goes(r, Answered(req[r], "400"))
       \/ req[r].kind = "present" /\ Goes(r, Answered(req[r], "500"))
  /\ Quiet
  /\ Offline

Logout(r) ==
  /\ InTraffic(r, "logout")
  /\ \E b \in traffic.browsers :
       LET x == Received("logout", b) IN
         Goes(r, Answered([x EXCEPT !.copy.user = LoggedOut], "goodbye"))
  /\ Quiet
  /\ Offline

-----------------------------------------------------------------------------
(* The answer, and the session that is saved with it.                      *)

\* The users that other open requests of a browser still hold.
StillHeld(r) ==
  {e \in entitled[req[r].by] : \E q \in Open \ {r} :
     req[q].by = req[r].by /\ req[q].copy.user = e.user}

Finish(r) ==
  /\ req[r].pc = "finish"
  /\ Goes(r, [req[r] EXCEPT !.pc = "done"])
  /\ LET b == req[r].by
         saved == req[r].copy # req[r].orig
     IN  /\ session' = IF saved THEN [session EXCEPT ![b] = req[r].copy]
                        ELSE session
         /\ entitled' = IF saved /\ req[r].kind = "logout"
                           THEN [entitled EXCEPT ![b] = StillHeld(r)]
                           ELSE entitled
  /\ UNCHANGED <<clients, opClients, grants, issued, spent, doubled, proved,
                 traffic>>
  /\ Offline

Arrives(r) ==
  \/ GetLogin(r) \/ LoginPassword(r) \/ Signup(r) \/ SelectProvider(r)
  \/ Callback(r) \/ Bearer(r) \/ Authorize(r) \/ Page(r) \/ WalletGet(r)
  \/ Prove(r) \/ Present(r) \/ Logout(r)

\* What this process does on its own, and what it does when another site has
\* answered.
LocalStep(r) ==
  \/ FindUser(r) \/ FindUserFails(r) \/ RefusePassword(r) \/ MatchPassword(r)
  \/ CreateAccount(r) \/ RefuseSignup(r) \/ LoadClient(r) \/ PersistClient(r)
  \/ AuthUrl(r) \/ WebIdFromClaims(r) \/ AskProfile(r) \/ ServePage(r) \/ SigningKey(r) \/ Finish(r)

RemoteStep(r) ==
  \/ PreferredProviderFor(r) \/ RegisterClient(r) \/ ValidateResponse(r)
  \/ RefuseResponse(r) \/ ProfileConfirms(r) \/ ProfileDenies(r)
  \/ ProfileNames(r) \/ AuthenticateToken(r) \/ RemoteFails(r)

Visiting ==
  \E r \in Requests : Arrives(r) \/ LocalStep(r) \/ RemoteStep(r)

\* The process ends: sessions, clients and codes go with it.
LoginsLost ==
  /\ session' = [b \in Browsers |-> NewSession]
  /\ req' = [r \in Requests |-> IF req[r].pc \in {"idle", "done"} THEN req[r]
                                ELSE [req[r] EXCEPT !.pc = "lost"]]
  /\ clients' = [i \in Issuers |-> NoClient]
  /\ opClients' = {}
  /\ grants' = [r \in Requests |-> None]
  /\ doubled' = {}
  /\ entitled' = [b \in Browsers |-> {}]
  /\ UNCHANGED <<issued, spent, proved, traffic>>

-----------------------------------------------------------------------------
(* Properties.                                                             *)

Proofs == [user : WebIds, how : {Password, SignedUp, ServerUri} \cup
                                {claims.iss : claims \in TokenClaims}]

Sessions == [user : WebIds \cup {None, LoggedOut},
             returnTo : ReturnUrls \cup {None},
             app : Requests \cup {None},
             pending : SUBSET Requests]

\* The types of the sessions, the requests and the stores.
LoginTypeOK ==
  /\ session \in [Browsers -> Sessions]
  /\ \A r \in Requests :
       /\ req[r].pc \in {"idle", "stuck", "done", "lost"}
                       \cup RemotePcs \cup LocalPcs
       /\ req[r].copy \in Sessions
       /\ req[r].orig \in Sessions
       /\ req[r].pc # "idle" => req[r].by \in Browsers
       /\ req[r].actsFor \in WebIds \cup {None}
       /\ req[r].query \subseteq Queries
       /\ req[r].client \in Requests \cup {NoClient}
  /\ clients \in [Issuers -> Requests \cup {NoClient}]
  /\ opClients \subseteq Requests
  /\ grants \in [Requests -> WebIds \cup {None}]
  /\ issued \subseteq WebIds
  /\ spent \subseteq Requests
  /\ doubled \subseteq Issuers
  /\ entitled \in [Browsers -> SUBSET Proofs]
  /\ proved \subseteq Proofs

\* A session, and a request that is being served with a copy of it, is only
\* ever logged in as a user who proved it in that browser, or whom a signup
\* that came from it named, of whom nobody asks a proof
\* (create-account-request.js createAccount): since the start of the process,
\* and since the browser's last logout unless a request that was under way
\* then still held the user and put them back (the sessions of express are
\* saved as a whole, and logout-request.js clears its own copy).
UserIsEntitled ==
  LET Users(b) == {e.user : e \in entitled[b]} IN
    /\ \A b \in Browsers : LoggedIn(session[b]) => session[b].user \in Users(b)
    /\ \A r \in Open :
         LoggedIn(req[r].copy) => req[r].copy.user \in Users(req[r].by)

\* Whoever our own provider vouches for has come by a password, a signup or
\* another provider, however many times a code of ours was turned into a
\* session that asked for the next code (host-api.js authenticate): the server
\* never vouches for a user on no word but its own.
CodesTraceBack ==
  \A f \in Requests : grants[f] # None =>
    \E e \in proved : e.user = grants[f] /\ e.how # ServerUri

\* A user known from claims is one the issuer may speak for: the site of the
\* web identifier is the issuer's or just below it, or it names the issuer in
\* its header or its profile (webIdFromClaims, both for the callback and for
\* tokens).
VerifiedIssuer ==
  \A e \in proved :
    \/ e.how \in {Password, SignedUp}
    \/ HostedBy(e.how, e.user)
    \/ \E issuer \in {LinkHeader[e.user], ProfileIssuer[e.user]} :
         issuer # None /\ e.how = Origin(issuer)

\* A login with a provider that is refused because of the client that was
\* registered is refused for want of a lock: since the process began, two
\* requests registered with that provider at a time (clientForIssuer).
ClientIsKnown ==
  \A r \in Requests :
    req[r].pc = "finish" /\ req[r].answer = "wrongClient" =>
      req[r].issuer \in doubled

\* A login with a provider ends in the browser that it began in
\* (validateResponse looks into the session).
LoginsEndWhereBegun ==
  \A r \in Requests : req[r].kind = "callback" /\ req[r].answer = "returned" =>
    req[req[r].flow].by = req[r].by

\* A browser that is logged in stays so until it logs out, unless a request
\* saves a session that has changed since it came: no other handler forgets
\* the user (only a restart does).
LoginsAreKept ==
  [][\A b \in Browsers :
       LoggedIn(session[b]) /\ ~LoggedIn(session'[b]) =>
         \/ phase' = "down"
         \/ \E r \in Requests :
              /\ req[r].pc = "finish" /\ req'[r].pc = "done" /\ req[r].by = b
              /\ req[r].kind = "logout" \/ req[r].orig # session[b]]_session
=============================================================================
