---------------------------- MODULE Login_proofs ----------------------------
(***************************************************************************)
(* Proofs about sessions and logins, for every set of users, providers,    *)
(* browsers and requests. Each handler changes one request: the lemmas on  *)
(* the handlers say what it becomes, and the invariants are kept by what   *)
(* a request may become.                                                   *)
(***************************************************************************)
EXTENDS Login, SequenceTheorems, TLAPS

-----------------------------------------------------------------------------
(***************************************************************************)
(* Types.                                                                  *)
(***************************************************************************)
Pcs == {"idle", "find", "match", "client", "persist", "authUrl", "claims", "page",
        "keys", "finish", "provider", "discover", "register", "exchange", "token",
        "account", "done", "stuck", "lost"}
Kinds == {"none", "getLogin", "password", "selectProvider", "callback", "bearer",
          "authorize", "page", "walletGet", "prove", "present", "logout", "signup"}
Answers == {"none", "form", "400", "401", "403", "500", "registered", "authorize", "home", "provider",
            "wrongClient", "returned", "code", "login", "page", "wallet", "proof",
            "presentation", "goodbye"}
UserOrNot == WebIds \cup {None}
SessionUsers == WebIds \cup {None, LoggedOut}
UrlOrNot == ReturnUrls \cup {None}
FlowOrNot == Requests \cup {None}
FlowSets == SUBSET Requests
ClientOrNot == Requests \cup {NoClient}
ByOrNot == Browsers \cup {None}
NameOrNot == Names \cup {None}
ClaimIssuers == {ServerUri} \cup {claims.iss : claims \in TokenClaims}
IssuerOrNot == Issuers \cup ClaimIssuers \cup {None}
QuerySets == SUBSET Queries

ReqTypes ==
  [pc : Pcs, kind : Kinds, by : ByOrNot, copy : Sessions, orig : Sessions,
   name : NameOrNot, webId : UserOrNot, issuer : IssuerOrNot, flow : FlowOrNot,
   query : QuerySets, client : ClientOrNot, answer : Answers, actsFor : UserOrNot]

\* The stores and the requests.
Types ==
  /\ session \in [Browsers -> Sessions]
  /\ req \in [Requests -> ReqTypes]
  /\ clients \in [Issuers -> ClientOrNot]
  /\ opClients \subseteq Requests
  /\ grants \in [Requests -> UserOrNot]
  /\ issued \subseteq WebIds
  /\ spent \subseteq Requests
  /\ doubled \subseteq Issuers
  /\ entitled \in [Browsers -> SUBSET Proofs]
  /\ proved \subseteq Proofs
  /\ traffic \in Traffics

\* None, by itself, is in each of the sets that have it.
LEMMA NoneIsTyped ==
  /\ None \in UserOrNot /\ None \in UrlOrNot /\ None \in FlowOrNot
  /\ None \in ByOrNot /\ None \in NameOrNot /\ None \in IssuerOrNot
  /\ None \in SessionUsers /\ LoggedOut \in SessionUsers
  /\ NoClient \in ClientOrNot /\ {} \in QuerySets /\ {} \in FlowSets
  BY DEF UserOrNot, UrlOrNot, FlowOrNot, ByOrNot, NameOrNot, IssuerOrNot,
     SessionUsers, ClientOrNot, QuerySets, FlowSets

LEMMA UsersAreTyped ==
  /\ \A u \in WebIds : u \in UserOrNot /\ u \in SessionUsers
  /\ \A b \in Browsers : b \in ByOrNot
  /\ \A r \in Requests : r \in FlowOrNot /\ r \in ClientOrNot
  /\ \A i \in Issuers : i \in IssuerOrNot
  /\ \A i \in ClaimIssuers : i \in IssuerOrNot
  /\ \A n \in Names : n \in NameOrNot
  BY DEF UserOrNot, FlowOrNot, ByOrNot, NameOrNot, IssuerOrNot, SessionUsers,
     ClientOrNot

\* The names of steps, kinds and answers.
LEMMA PcsAreTyped ==
  /\ "idle" \in Pcs /\ "find" \in Pcs /\ "match" \in Pcs /\ "client" \in Pcs
  /\ "persist" \in Pcs /\ "authUrl" \in Pcs /\ "claims" \in Pcs
  /\ "page" \in Pcs /\ "keys" \in Pcs /\ "finish" \in Pcs /\ "provider" \in Pcs
  /\ "discover" \in Pcs /\ "register" \in Pcs /\ "exchange" \in Pcs
  /\ "token" \in Pcs /\ "account" \in Pcs /\ "done" \in Pcs /\ "stuck" \in Pcs /\ "lost" \in Pcs
  BY DEF Pcs

LEMMA KindsAreTyped ==
  /\ "none" \in Kinds /\ "getLogin" \in Kinds /\ "password" \in Kinds
  /\ "selectProvider" \in Kinds /\ "callback" \in Kinds /\ "bearer" \in Kinds
  /\ "authorize" \in Kinds /\ "page" \in Kinds /\ "walletGet" \in Kinds
  /\ "prove" \in Kinds /\ "present" \in Kinds /\ "logout" \in Kinds
  /\ "signup" \in Kinds
  BY DEF Kinds

LEMMA AnswersAreTyped ==
  /\ "none" \in Answers /\ "form" \in Answers /\ "400" \in Answers
  /\ "401" \in Answers /\ "403" \in Answers /\ "500" \in Answers
  /\ "registered" \in Answers /\ "authorize" \in Answers
  /\ "home" \in Answers /\ "provider" \in Answers /\ "wrongClient" \in Answers
  /\ "returned" \in Answers /\ "code" \in Answers /\ "login" \in Answers
  /\ "page" \in Answers /\ "wallet" \in Answers /\ "proof" \in Answers
  /\ "presentation" \in Answers /\ "goodbye" \in Answers
  BY DEF Answers

LEMMA SessionFields ==
  Sessions = [user : SessionUsers, returnTo : UrlOrNot, app : FlowOrNot,
              pending : FlowSets]
  BY DEF Sessions, SessionUsers, UrlOrNot, FlowOrNot, FlowSets

\* A session with one of its fields changed.
LEMMA UserSet ==
  ASSUME NEW s \in Sessions, NEW u \in SessionUsers
  PROVE  /\ [s EXCEPT !.user = u] \in Sessions
         /\ [s EXCEPT !.user = u].user = u
         /\ [s EXCEPT !.user = u].pending = s.pending
         /\ [s EXCEPT !.user = u].app = s.app
  BY SessionFields, Zenon

LEMMA ReturnToSet ==
  ASSUME NEW s \in Sessions, NEW u \in UrlOrNot
  PROVE  /\ [s EXCEPT !.returnTo = u] \in Sessions
         /\ [s EXCEPT !.returnTo = u].user = s.user
         /\ [s EXCEPT !.returnTo = u].pending = s.pending
         /\ [s EXCEPT !.returnTo = u].app = s.app
  BY SessionFields, Zenon

LEMMA AppSet ==
  ASSUME NEW s \in Sessions, NEW f \in FlowOrNot
  PROVE  /\ [s EXCEPT !.app = f] \in Sessions
         /\ [s EXCEPT !.app = f].user = s.user
         /\ [s EXCEPT !.app = f].pending = s.pending
         /\ [s EXCEPT !.app = f].app = f
  BY SessionFields, Zenon

LEMMA PendingSet ==
  ASSUME NEW s \in Sessions, NEW p \in FlowSets
  PROVE  /\ [s EXCEPT !.pending = p] \in Sessions
         /\ [s EXCEPT !.pending = p].user = s.user
         /\ [s EXCEPT !.pending = p].pending = p
         /\ [s EXCEPT !.pending = p].app = s.app
  BY SessionFields, Zenon

LEMMA NewSessionFields ==
  /\ NewSession \in Sessions
  /\ NewSession.user = None /\ NewSession.pending = {}
<1>1. NewSession \in Sessions
  BY SessionFields, NoneIsTyped, Zenon DEF NewSession
<1> QED
  BY <1>1 DEF NewSession

LEMMA NoRequestFields ==
  /\ NoRequest \in ReqTypes
  /\ NoRequest.pc = "idle" /\ NoRequest.kind = "none" /\ NoRequest.by = None
  /\ NoRequest.copy = NewSession /\ NoRequest.orig = NewSession
  /\ NoRequest.webId = None /\ NoRequest.issuer = None /\ NoRequest.flow = None
  /\ NoRequest.client = NoClient /\ NoRequest.answer = "none"
<1>1. NoRequest \in ReqTypes
  BY NewSessionFields, NoneIsTyped, PcsAreTyped,
     KindsAreTyped, AnswersAreTyped, Zenon DEF NoRequest, ReqTypes
<1> QED
  BY <1>1, Zenon DEF NoRequest

\* The request of a browser with a copy of its session.
LEMMA ReceivedFields ==
  ASSUME Types, NEW kind \in Kinds, NEW b \in Browsers
  PROVE  /\ Received(kind, b) \in ReqTypes
         /\ Received(kind, b).pc = "idle" /\ Received(kind, b).kind = kind
         /\ Received(kind, b).by = b
         /\ Received(kind, b).copy = session[b] /\ Received(kind, b).orig = session[b]
         /\ Received(kind, b).issuer = None /\ Received(kind, b).flow = None
         /\ Received(kind, b).client = NoClient /\ Received(kind, b).answer = "none"
<1>1. session[b] \in Sessions /\ b \in ByOrNot
  BY UsersAreTyped DEF Types
<1> QED
  BY <1>1, NoRequestFields, Zenon DEF Received, ReqTypes

\* The fields that a request keeps, whatever it comes to.
Stays(x, y) == y.kind = x.kind /\ y.by = x.by /\ y.orig = x.orig

\* The answer to a request.
LEMMA AnsweredFields ==
  ASSUME NEW x \in ReqTypes, NEW a \in Answers
  PROVE  /\ Answered(x, a) \in ReqTypes
         /\ Answered(x, a).pc = "finish" /\ Answered(x, a).answer = a
         /\ Stays(x, Answered(x, a))
         /\ Answered(x, a).copy = x.copy /\ Answered(x, a).flow = x.flow
         /\ Answered(x, a).issuer = x.issuer /\ Answered(x, a).client = x.client
  BY PcsAreTyped, Zenon DEF Answered, ReqTypes, Stays

\* A request whose session is changed.
LEMMA CopySet ==
  ASSUME NEW x \in ReqTypes, NEW s \in Sessions
  PROVE  /\ [x EXCEPT !.copy = s] \in ReqTypes
         /\ Stays(x, [x EXCEPT !.copy = s])
         /\ [x EXCEPT !.copy = s].copy = s
         /\ [x EXCEPT !.copy = s].pc = x.pc /\ [x EXCEPT !.copy = s].answer = x.answer
         /\ [x EXCEPT !.copy = s].flow = x.flow /\ [x EXCEPT !.copy = s].client = x.client
         /\ [x EXCEPT !.copy = s].issuer = x.issuer /\ [x EXCEPT !.copy = s].webId = x.webId
  BY Zenon DEF ReqTypes, Stays

\* The answer to a request that acts for the user of its session.
LEMMA ActingForFields ==
  ASSUME NEW x \in ReqTypes, NEW a \in Answers
  PROVE  /\ ActingFor(x, a) \in ReqTypes
         /\ ActingFor(x, a).pc = "finish" /\ ActingFor(x, a).answer = a
         /\ Stays(x, ActingFor(x, a))
         /\ ActingFor(x, a).copy = x.copy /\ ActingFor(x, a).flow = x.flow
         /\ ActingFor(x, a).issuer = x.issuer /\ ActingFor(x, a).client = x.client
<1> DEFINE u == IF LoggedIn(x.copy) THEN x.copy.user ELSE None
           z == Answered(x, a)
<1>1. u \in UserOrNot
  BY NoneIsTyped, UsersAreTyped DEF LoggedIn
<1>2. z \in ReqTypes /\ z.pc = "finish" /\ z.answer = a /\ Stays(x, z)
      /\ z.copy = x.copy /\ z.flow = x.flow /\ z.issuer = x.issuer /\ z.client = x.client
  BY AnsweredFields
<1>3. ActingFor(x, a) = [z EXCEPT !.actsFor = u]
  BY DEF ActingFor
<1> HIDE DEF u, z
<1>4. /\ [z EXCEPT !.actsFor = u] \in ReqTypes
      /\ [z EXCEPT !.actsFor = u].pc = z.pc /\ [z EXCEPT !.actsFor = u].answer = z.answer
      /\ Stays(z, [z EXCEPT !.actsFor = u])
      /\ [z EXCEPT !.actsFor = u].copy = z.copy /\ [z EXCEPT !.actsFor = u].flow = z.flow
      /\ [z EXCEPT !.actsFor = u].issuer = z.issuer
      /\ [z EXCEPT !.actsFor = u].client = z.client
  BY <1>1, <1>2, Zenon DEF ReqTypes, Stays
<1> QED
  BY <1>2, <1>3, <1>4 DEF Stays

-----------------------------------------------------------------------------
(***************************************************************************)
(* What a request is at, said of the request alone.                        *)
(***************************************************************************)
Claimed(x) == x.pc = "claims" \/ (x.pc = "discover" /\ x.kind # "selectProvider")

\* A step has what it works on.
FitData(x) ==
  /\ x.pc # "idle" => x.by \in Browsers
  /\ x.pc = "find" => x.name \in Names
  /\ x.pc \in {"match", "account", "provider", "discover", "claims"} =>
       x.webId \in WebIds
  /\ x.pc \in {"client", "register", "persist", "authUrl", "exchange"} =>
       x.issuer \in Issuers
  /\ x.answer = "provider" => x.issuer \in Issuers
  /\ Claimed(x) => x.issuer \in ClaimIssuers /\ x.issuer # None

\* A kind of request has its steps, and only an answered one has an answer.
FitKind(x) ==
  /\ x.pc \in {"find", "match"} => x.kind = "password"
  /\ x.pc = "account" => x.kind = "signup"
  /\ x.pc \in {"provider", "authUrl"} => x.kind = "selectProvider"
  /\ x.pc \in {"client", "register", "persist", "discover"} =>
       x.kind \in {"selectProvider", "callback", "bearer"}
  /\ x.pc \in {"client", "register", "persist"} => x.kind # "bearer"
  /\ x.pc = "exchange" => x.kind = "callback"
  /\ x.pc = "token" => x.kind = "bearer"
  /\ x.pc = "claims" => x.kind \in {"callback", "bearer"}
  /\ x.pc \in {"page", "keys"} => x.kind # "callback"
  /\ x.kind = "logout" => x.pc \in {"finish", "done", "lost"}
  /\ x.kind = "callback" => x.flow \in Requests
  /\ x.pc \notin {"finish", "done", "lost"} => x.answer = "none"
  /\ x.answer = "provider" => x.kind = "selectProvider"

\* Only a logout forgets a user, and it does.
FitUser(x) ==
  /\ x.kind = "logout" => ~LoggedIn(x.copy)
  /\ x.kind # "logout" /\ LoggedIn(x.orig) => LoggedIn(x.copy)

Fit(x) == FitData(x) /\ FitKind(x) /\ FitUser(x)

AllFit == \A r \in Requests : Fit(req[r])

\* One request changes.
LEMMA OneChanges ==
  ASSUME Types, NEW r \in Requests, NEW y \in ReqTypes, Goes(r, y)
  PROVE  /\ req' \in [Requests -> ReqTypes]
         /\ req'[r] = y
         /\ \A q \in Requests : q # r => req'[q] = req[q]
  BY DEF Types, Goes

\* A fit request that has not changed its kind, browser and session.
LEMMA FitUserStays ==
  ASSUME NEW x, NEW y, FitUser(x), Stays(x, y), y.copy.user = x.copy.user
  PROVE  FitUser(y)
  BY DEF FitUser, Stays, LoggedIn

LEMMA LoggedOutIsOut == None \notin WebIds /\ LoggedOut \notin WebIds
  BY LoginAssumption

-----------------------------------------------------------------------------
(***************************************************************************)
(* Arrivals.                                                               *)
(***************************************************************************)
\* What a request of b may be once it has arrived.
Came(y, b) ==
  /\ y \in ReqTypes /\ b \in Browsers
  /\ y.by = b /\ y.orig = session[b]
  /\ y.copy.pending = session[b].pending
  /\ y.copy.user = IF y.kind = "logout" THEN LoggedOut ELSE session[b].user
  /\ y.pc \in {"finish", "stuck", "find", "account", "provider", "client", "token",
               "page", "keys"}
  /\ y.answer \notin {"provider", "returned", "wrongClient"}
  /\ y.pc # "finish" => y.answer = "none"
  /\ y.kind = "logout" => y.pc = "finish"

\* A callback comes for a flow that is at a provider.
CameBack(y) ==
  y.kind = "callback" =>
    /\ y.pc = "client" /\ y.flow \in Flows /\ y.issuer = req[y.flow].issuer
    /\ y.flow \in OwnFlows => grants[y.flow] # None

\* A request arrives, and is fit.
Arrived(r) ==
  \E b \in Browsers, y \in ReqTypes : Goes(r, y) /\ Came(y, b) /\ CameBack(y) /\ Fit(y)

LEMMA OpenTraffic ==
  ASSUME Types
  PROVE  traffic.browsers \subseteq Browsers
  BY LoginAssumption DEF Types

\* A request that is answered as soon as it comes, with the session it is
\* answered with.
LEMMA CameAnswered ==
  ASSUME Types, NEW b \in Browsers, NEW kind \in Kinds \ {"callback", "logout"},
         NEW s \in Sessions, s.user = session[b].user, s.pending = session[b].pending,
         NEW a \in Answers \ {"provider", "returned", "wrongClient"},
         NEW x \in ReqTypes, x.kind = kind, x.by = b, x.orig = session[b], x.copy = s,
         NEW y \in {Answered(x, a), ActingFor(x, a)}
  PROVE  Came(y, b) /\ CameBack(y) /\ Fit(y)
<1>1. a \in Answers
  OBVIOUS
<1>2. /\ y \in ReqTypes /\ y.pc = "finish" /\ y.answer = a /\ Stays(x, y)
      /\ y.copy = x.copy
  <2>1. CASE y = Answered(x, a)
    BY <1>1, <2>1, AnsweredFields
  <2>2. CASE y = ActingFor(x, a)
    BY <1>1, <2>2, ActingForFields
  <2> QED
    BY <2>1, <2>2
<1>3. Came(y, b) /\ CameBack(y)
  BY <1>2 DEF Came, CameBack, Stays
<1> QED
  BY <1>2, <1>3 DEF Fit, FitData, FitKind, FitUser, Claimed, Stays, LoggedIn, Came

\* The page to return to and the query leave the user and the flows alone.
LEMMA ReturnToKeeps ==
  ASSUME NEW s \in Sessions, NEW url \in UrlOrNot
  PROVE  /\ WithReturnTo(s, url) \in Sessions
         /\ WithReturnTo(s, url).user = s.user
         /\ WithReturnTo(s, url).pending = s.pending
<1>1. CASE url = None
  BY <1>1 DEF WithReturnTo
<1>2. CASE url # None
  BY <1>2, ReturnToSet DEF WithReturnTo
<1> QED
  BY <1>1, <1>2

LEMMA AuthParamsKeep ==
  ASSUME NEW s \in Sessions, NEW url, NEW f \in FlowOrNot
  PROVE  /\ WithAuthParams(s, url, f) \in Sessions
         /\ WithAuthParams(s, url, f).user = s.user
         /\ WithAuthParams(s, url, f).pending = s.pending
<1>1. CASE url = None /\ f = None
  BY <1>1 DEF WithAuthParams
<1>2. CASE ~(url = None /\ f = None)
  <2>1. WithAuthParams(s, url, f) = [s EXCEPT !.app = f]
    BY <1>2 DEF WithAuthParams
  <2> QED
    BY <2>1, AppSet
<1> QED
  BY <1>1, <1>2

LEMMA GetLoginComes ==
  ASSUME Types, NEW r \in Requests, GetLogin(r)
  PROVE  Arrived(r)
<1> DEFINE Queried(b) == ({None} \X SentToLogin(b)) \cup ((ReturnUrls \cup {None}) \X {None})
           C(b, query) == WithAuthParams(WithReturnTo(Received("getLogin", b).copy, query[1]),
                                         query[1], query[2])
<1>0. PICK b \in traffic.browsers : \E query \in Queried(b) :
        Goes(r, Answered([Received("getLogin", b) EXCEPT !.copy = C(b, query)], "form"))
  BY Zenon DEF GetLogin
<1>1. PICK query \in Queried(b) :
        Goes(r, Answered([Received("getLogin", b) EXCEPT !.copy = C(b, query)], "form"))
  BY <1>0
<1>2. b \in Browsers /\ "getLogin" \in Kinds \ {"callback", "logout"} /\ "getLogin" \in Kinds
  BY OpenTraffic, KindsAreTyped
<1> DEFINE x == Received("getLogin", b)
<1>3. x \in ReqTypes /\ x.copy = session[b] /\ x.by = b /\ x.orig = session[b]
      /\ x.kind = "getLogin"
  BY <1>2, ReceivedFields
<1>4. session[b] \in Sessions
  BY <1>2 DEF Types
<1>5. \A q \in Requests : req[q].flow \in FlowOrNot
  BY DEF Types, ReqTypes
<1>6. query[1] \in UrlOrNot /\ query[2] \in FlowOrNot
  <2>1. CASE query \in {None} \X SentToLogin(b)
    BY <2>1, <1>5, NoneIsTyped DEF SentToLogin
  <2>2. CASE query \in (ReturnUrls \cup {None}) \X {None}
    BY <2>2, NoneIsTyped DEF UrlOrNot
  <2> QED
    BY <2>1, <2>2
<1> DEFINE s == C(b, query)
<1>7. s \in Sessions /\ s.user = session[b].user /\ s.pending = session[b].pending
  BY <1>3, <1>4, <1>6, ReturnToKeeps, AuthParamsKeep
<1> DEFINE z == [x EXCEPT !.copy = s]
<1>8. Goes(r, Answered(z, "form"))
  BY <1>1
<1> HIDE DEF s, x
<1>9. z \in ReqTypes /\ z.copy = s /\ z.by = b /\ z.orig = session[b] /\ z.kind = "getLogin"
  BY <1>3, <1>7, CopySet DEF Stays
<1> HIDE DEF z
<1>10. "form" \in Answers \ {"provider", "returned", "wrongClient"}
  BY AnswersAreTyped
<1>11. /\ Came(Answered(z, "form"), b) /\ CameBack(Answered(z, "form"))
       /\ Fit(Answered(z, "form"))
  BY <1>2, <1>7, <1>9, <1>10, CameAnswered
<1> QED
  BY <1>2, <1>8, <1>11 DEF Arrived, Came

\* A request that is never answered.
LEMMA StuckComes ==
  ASSUME Types, NEW b \in Browsers, NEW x \in ReqTypes, x.by = b, x.orig = session[b],
         x.copy.user = session[b].user, x.copy.pending = session[b].pending,
         x.answer = "none", x.kind \notin {"callback", "logout"}
  PROVE  /\ Stuck(x) \in ReqTypes
         /\ Came(Stuck(x), b) /\ CameBack(Stuck(x)) /\ Fit(Stuck(x))
<1> DEFINE y == Stuck(x)
<1>1. /\ y \in ReqTypes /\ y.pc = "stuck" /\ y.by = x.by /\ y.orig = x.orig
      /\ y.kind = x.kind /\ y.copy = x.copy /\ y.answer = x.answer
  BY PcsAreTyped, Zenon DEF ReqTypes, Stuck
<1> HIDE DEF y
<1>2. Came(y, b) /\ CameBack(y)
  BY <1>1 DEF Came, CameBack
<1>3. Fit(y)
  BY <1>1 DEF Fit, FitData, FitKind, FitUser, Claimed, LoggedIn
<1> QED
  BY <1>1, <1>2, <1>3 DEF y

LEMMA LoginPasswordComes ==
  ASSUME Types, NEW r \in Requests, LoginPassword(r)
  PROVE  Arrived(r)
<1> DEFINE S(b, url) == WithReturnTo(Received("password", b).copy, url)
           X(b, url) == [Received("password", b) EXCEPT !.copy = S(b, url)]
<1>1. PICK b \in traffic.browsers, name \in Names \cup {None, NoHost},
           url \in ReturnUrls \cup {None} :
        Goes(r, CASE name = None -> Answered(X(b, url), "400")
                  [] name = NoHost -> Stuck(X(b, url))
                  [] OTHER -> [X(b, url) EXCEPT !.pc = "find", !.name = name])
  BY Zenon DEF LoginPassword
<1>2. b \in Browsers /\ "password" \in Kinds \ {"callback", "logout"} /\ "password" \in Kinds
  BY OpenTraffic, KindsAreTyped
<1> DEFINE z == Received("password", b)
<1>3. z \in ReqTypes /\ z.copy = session[b] /\ z.by = b /\ z.orig = session[b]
      /\ z.kind = "password" /\ z.answer = "none"
  BY <1>2, ReceivedFields
<1>4. session[b] \in Sessions /\ url \in UrlOrNot
  BY <1>2 DEF Types, UrlOrNot
<1> DEFINE s == S(b, url)
           x == X(b, url)
<1>5. s \in Sessions /\ s.user = session[b].user /\ s.pending = session[b].pending
  BY <1>3, <1>4, ReturnToKeeps
<1> HIDE DEF s, z
<1>6. x = [z EXCEPT !.copy = s]
  BY DEF s, z
<1> HIDE DEF X
<1>7. /\ x \in ReqTypes /\ x.copy = s /\ x.by = b /\ x.orig = session[b]
      /\ x.kind = "password" /\ x.answer = "none"
  BY <1>3, <1>5, <1>6, CopySet DEF Stays
<1> HIDE DEF x
<1>8. CASE name = None
  <2>1. "400" \in Answers \ {"provider", "returned", "wrongClient"}
    BY AnswersAreTyped
  <2>2. /\ Came(Answered(x, "400"), b) /\ CameBack(Answered(x, "400"))
        /\ Fit(Answered(x, "400"))
    BY <1>2, <1>5, <1>7, <2>1, CameAnswered
  <2>3. Goes(r, Answered(x, "400"))
    <3>1. name # NoHost
      BY <1>8, LoginAssumption
    <3> QED
      BY <1>1, <1>8, <3>1 DEF x
  <2> QED
    BY <1>2, <2>2, <2>3 DEF Arrived, Came
<1>10. CASE name = NoHost
  <2>1. Goes(r, Stuck(x))
    <3>1. name # None
      BY <1>10, LoginAssumption
    <3> QED
      BY <1>1, <1>10, <3>1 DEF x
  <2>2. Came(Stuck(x), b) /\ CameBack(Stuck(x)) /\ Fit(Stuck(x)) /\ Stuck(x) \in ReqTypes
    BY <1>2, <1>5, <1>7, StuckComes
  <2> QED
    BY <1>2, <2>1, <2>2 DEF Arrived
<1>9. CASE name \notin {None, NoHost}
  <2> DEFINE y == [x EXCEPT !.pc = "find", !.name = name]
  <2>1. Goes(r, y)
    BY <1>1, <1>9 DEF x
  <2>2. name \in Names /\ name \in NameOrNot
    BY <1>9 DEF NameOrNot
  <2>3. /\ y \in ReqTypes /\ y.pc = "find" /\ y.name = name
        /\ y.by = x.by /\ y.orig = x.orig /\ y.kind = x.kind /\ y.copy = x.copy
        /\ y.answer = x.answer
    BY <1>7, <2>2, PcsAreTyped, Zenon DEF ReqTypes
  <2> HIDE DEF y
  <2>4. Came(y, b) /\ CameBack(y)
    BY <1>2, <1>5, <1>7, <2>3 DEF Came, CameBack
  <2>5. Fit(y)
    BY <1>2, <1>5, <1>7, <2>2, <2>3 DEF Fit, FitData, FitKind, FitUser, Claimed, LoggedIn
  <2> QED
    BY <1>2, <2>1, <2>3, <2>4, <2>5 DEF Arrived
<1> QED
  BY <1>8, <1>9, <1>10

\* A request that has more to do than to be answered.
LEMMA CameOn ==
  ASSUME NEW b \in Browsers, NEW y \in ReqTypes, y.by = b, y.orig = session[b],
         y.copy.user = session[b].user, y.copy.pending = session[b].pending,
         y.answer = "none", y.kind # "logout",
         y.pc \in {"find", "account", "provider", "client", "token", "page", "keys"},
         CameBack(y), FitData(y), FitKind(y)
  PROVE  Came(y, b) /\ CameBack(y) /\ Fit(y)
  BY DEF Came, Fit, FitUser, LoggedIn

LEMMA SelectProviderComes ==
  ASSUME Types, NEW r \in Requests, SelectProvider(r)
  PROVE  Arrived(r)
<1> DEFINE z(b) == Received("selectProvider", b)
           Y(b, uri, url) == [z(b) EXCEPT !.pc = "provider", !.webId = NormalizeUri(uri),
                                          !.copy = SaveReturnToUrl(@, url)]
<1>1. PICK b \in traffic.browsers, uri \in Typed \cup {Repeated},
           url \in ReturnUrls \cup {None} :
        Goes(r, CASE uri = None -> Answered(z(b), "400")
                  [] uri = Repeated -> Stuck(z(b))
                  [] OTHER -> Y(b, uri, url))
  BY Zenon DEF SelectProvider
<1>2. b \in Browsers /\ "selectProvider" \in Kinds \ {"callback", "logout"}
      /\ "selectProvider" \in Kinds
  BY OpenTraffic, KindsAreTyped
<1>3. z(b) \in ReqTypes /\ z(b).copy = session[b] /\ z(b).by = b /\ z(b).orig = session[b]
      /\ z(b).kind = "selectProvider" /\ z(b).answer = "none"
  BY <1>2, ReceivedFields
<1>4. session[b] \in Sessions /\ url \in UrlOrNot
  BY <1>2 DEF Types, UrlOrNot
<1>5. CASE uri = None
  <2>1. "400" \in Answers \ {"provider", "returned", "wrongClient"}
    BY AnswersAreTyped
  <2>2. Goes(r, Answered(z(b), "400"))
    <3>1. uri # Repeated
      BY <1>5, LoginAssumption DEF Typed
    <3> QED
      BY <1>1, <1>5, <3>1
  <2> HIDE DEF z
  <2>3. /\ Came(Answered(z(b), "400"), b) /\ CameBack(Answered(z(b), "400"))
        /\ Fit(Answered(z(b), "400"))
    BY <1>2, <1>3, <1>4, <2>1, CameAnswered
  <2> QED
    BY <1>2, <2>2, <2>3 DEF Arrived, Came
<1>7. CASE uri = Repeated
  <2>1. uri # None
    BY <1>7, LoginAssumption DEF Typed
  <2>2. Goes(r, Stuck(z(b)))
    BY <1>1, <1>7, <2>1
  <2> HIDE DEF z
  <2>3. /\ Stuck(z(b)) \in ReqTypes
        /\ Came(Stuck(z(b)), b) /\ CameBack(Stuck(z(b))) /\ Fit(Stuck(z(b)))
    BY <1>2, <1>3, StuckComes
  <2> QED
    BY <1>2, <2>2, <2>3 DEF Arrived
<1>6. CASE uri \notin {None, Repeated}
  <2> DEFINE s == SaveReturnToUrl(session[b], url)
             w == NormalizeUri(uri)
             x == z(b)
             y == [x EXCEPT !.pc = "provider", !.webId = w, !.copy = SaveReturnToUrl(@, url)]
  <2>1. Goes(r, y)
    BY <1>1, <1>6
  <2>2. w \in WebIds /\ w \in UserOrNot
    <3>1. uri \in Typed \ {None}
      BY <1>6
    <3> QED
      BY <3>1, LoginAssumption DEF UserOrNot
  <2>3. s \in Sessions /\ s.user = session[b].user /\ s.pending = session[b].pending
    BY <1>4, ReturnToSet DEF SaveReturnToUrl
  <2>4. x \in ReqTypes /\ x.copy = session[b] /\ x.by = b /\ x.orig = session[b]
      /\ x.kind = "selectProvider" /\ x.answer = "none"
    BY <1>3
  <2> HIDE DEF w, x, z, s
  <2>5. /\ y \in ReqTypes /\ y.pc = "provider" /\ y.webId = w /\ y.copy = s
        /\ y.by = x.by /\ y.orig = x.orig /\ y.kind = x.kind /\ y.answer = x.answer
    <3>1. SaveReturnToUrl(x.copy, url) = s
      BY <2>4 DEF s
    <3> QED
      BY <2>2, <2>3, <2>4, <3>1, PcsAreTyped, Zenon DEF ReqTypes
  <2> HIDE DEF y
  <2>6. CameBack(y) /\ FitData(y) /\ FitKind(y)
    BY <1>2, <2>2, <2>4, <2>5 DEF CameBack, FitData, FitKind, Claimed
  <2>7. Came(y, b) /\ CameBack(y) /\ Fit(y)
    BY <1>2, <2>3, <2>4, <2>5, <2>6, CameOn
  <2> QED
    BY <1>2, <2>1, <2>5, <2>7 DEF Arrived
<1> QED
  BY <1>5, <1>6, <1>7

LEMMA SignupComes ==
  ASSUME Types, NEW r \in Requests, Signup(r)
  PROVE  Arrived(r)
<1> DEFINE z(b) == Received("signup", b)
<1>1. PICK b \in traffic.browsers, webId \in WebIds \cup {None, NoHost} :
        Goes(r, CASE webId = None -> Answered(z(b), "400")
                  [] webId = NoHost -> Answered(z(b), "500")
                  [] OTHER -> [z(b) EXCEPT !.pc = "account", !.webId = webId])
  BY Zenon DEF Signup
<1>2. b \in Browsers /\ "signup" \in Kinds \ {"callback", "logout"} /\ "signup" \in Kinds
  BY OpenTraffic, KindsAreTyped
<1> DEFINE x == z(b)
           y == [x EXCEPT !.pc = "account", !.webId = webId]
<1>3. x \in ReqTypes /\ x.copy = session[b] /\ x.by = b /\ x.orig = session[b]
      /\ x.kind = "signup" /\ x.answer = "none"
  BY <1>2, ReceivedFields
<1>4. session[b] \in Sessions
  BY <1>2 DEF Types
<1>5. \/ \E a \in {"400", "500"} : Goes(r, Answered(x, a))
      \/ webId \in WebIds /\ Goes(r, y)
  <2>1. CASE webId = None
    BY <1>1, <2>1
  <2>2. CASE webId = NoHost
    <3>1. webId # None
      BY <2>2, LoginAssumption
    <3> QED
      BY <1>1, <2>2, <3>1
  <2>3. CASE webId \notin {None, NoHost}
    BY <1>1, <2>3
  <2> QED
    BY <2>1, <2>2, <2>3
<1> HIDE DEF z, x, y
<1>6. CASE \E a \in {"400", "500"} : Goes(r, Answered(x, a))
  <2>1. PICK a \in {"400", "500"} : Goes(r, Answered(x, a))
    BY <1>6
  <2>2. a \in Answers \ {"provider", "returned", "wrongClient"}
    BY AnswersAreTyped
  <2>3. Came(Answered(x, a), b) /\ CameBack(Answered(x, a)) /\ Fit(Answered(x, a))
    BY <1>2, <1>3, <1>4, <2>2, CameAnswered
  <2> QED
    BY <1>2, <2>1, <2>3 DEF Arrived, Came
<1>7. CASE webId \in WebIds /\ Goes(r, y)
  <2>1. webId \in UserOrNot
    BY <1>7, UsersAreTyped
  <2>2. /\ y \in ReqTypes /\ y.pc = "account" /\ y.webId = webId /\ y.copy = x.copy
        /\ y.by = x.by /\ y.orig = x.orig /\ y.kind = x.kind /\ y.answer = x.answer
    BY <1>3, <2>1, PcsAreTyped, Zenon DEF ReqTypes, y
  <2>3. CameBack(y) /\ FitData(y) /\ FitKind(y)
    BY <1>2, <1>3, <1>7, <2>2 DEF CameBack, FitData, FitKind, Claimed
  <2>4. Came(y, b) /\ CameBack(y) /\ Fit(y)
    BY <1>2, <1>3, <1>4, <2>2, <2>3, CameOn
  <2> QED
    BY <1>2, <1>7, <2>2, <2>4 DEF Arrived
<1> QED
  BY <1>5, <1>6, <1>7

LEMMA FlowsAreRequests ==
  ASSUME Types, AllFit, NEW f \in Flows
  PROVE  f \in Requests /\ req[f].issuer \in Issuers /\ req[f].by \in Browsers
  BY DEF Flows, AllFit, Fit, FitData

LEMMA CallbackComes ==
  ASSUME Types, AllFit, NEW r \in Requests, Callback(r)
  PROVE  Arrived(r)
<1>1. PICK b \in traffic.browsers, f \in Flows :
        /\ f \in OwnFlows => grants[f] # None
        /\ Goes(r, [Received("callback", b) EXCEPT
                     !.pc = "client", !.flow = f, !.issuer = req[f].issuer])
  BY Zenon DEF Callback
<1>2. b \in Browsers /\ "callback" \in Kinds
  BY OpenTraffic, KindsAreTyped
<1> DEFINE x == Received("callback", b)
           i == req[f].issuer
           y == [x EXCEPT !.pc = "client", !.flow = f, !.issuer = i]
<1>3. x \in ReqTypes /\ x.copy = session[b] /\ x.by = b /\ x.orig = session[b]
      /\ x.kind = "callback" /\ x.answer = "none"
  BY <1>2, ReceivedFields
<1>4. f \in Requests /\ f \in FlowOrNot /\ i \in Issuers /\ i \in IssuerOrNot
  BY FlowsAreRequests, UsersAreTyped
<1>5. Goes(r, y)
  BY <1>1
<1> HIDE DEF x, i
<1>6. /\ y \in ReqTypes /\ y.pc = "client" /\ y.flow = f /\ y.issuer = i
      /\ y.by = x.by /\ y.orig = x.orig /\ y.kind = x.kind /\ y.answer = x.answer
      /\ y.copy = x.copy
  BY <1>3, <1>4, PcsAreTyped, Zenon DEF ReqTypes
<1> HIDE DEF y
<1>7. CameBack(y) /\ FitData(y) /\ FitKind(y)
  BY <1>1, <1>2, <1>3, <1>4, <1>6 DEF CameBack, FitData, FitKind, Claimed, i
<1>8. Came(y, b) /\ CameBack(y) /\ Fit(y)
  BY <1>2, <1>3, <1>6, <1>7, CameOn
<1> QED
  BY <1>2, <1>5, <1>6, <1>8 DEF Arrived

LEMMA BearerComes ==
  ASSUME Types, NEW r \in Requests, Bearer(r)
  PROVE  Arrived(r)
<1>1. PICK b \in traffic.browsers, header \in {"empty", "token"} :
        Goes(r, IF header = "empty" /\ StatusCodeFor(401, header) = 400
                  THEN Answered(Received("bearer", b), "400")
                  ELSE [Received("bearer", b) EXCEPT !.pc = "token"])
  BY Zenon DEF Bearer
<1>2. b \in Browsers /\ "bearer" \in Kinds \ {"callback", "logout"} /\ "bearer" \in Kinds
  BY OpenTraffic, KindsAreTyped
<1> DEFINE x == Received("bearer", b)
           y == [x EXCEPT !.pc = "token"]
<1>3. x \in ReqTypes /\ x.copy = session[b] /\ x.by = b /\ x.orig = session[b]
      /\ x.kind = "bearer" /\ x.answer = "none"
  BY <1>2, ReceivedFields
<1>4. session[b] \in Sessions
  BY <1>2 DEF Types
<1>5. Goes(r, Answered(x, "400")) \/ Goes(r, y)
  BY <1>1
<1> HIDE DEF x
<1>6. CASE Goes(r, Answered(x, "400"))
  <2>1. "400" \in Answers \ {"provider", "returned", "wrongClient"}
    BY AnswersAreTyped
  <2>2. /\ Came(Answered(x, "400"), b) /\ CameBack(Answered(x, "400"))
        /\ Fit(Answered(x, "400"))
    BY <1>2, <1>3, <1>4, <2>1, CameAnswered
  <2> QED
    BY <1>2, <1>6, <2>2 DEF Arrived, Came
<1>7. CASE Goes(r, y)
  <2>1. /\ y \in ReqTypes /\ y.pc = "token"
        /\ y.by = x.by /\ y.orig = x.orig /\ y.kind = x.kind /\ y.answer = x.answer
        /\ y.copy = x.copy
    BY <1>3, PcsAreTyped, Zenon DEF ReqTypes
  <2> HIDE DEF y
  <2>2. CameBack(y) /\ FitData(y) /\ FitKind(y)
    BY <1>2, <1>3, <2>1 DEF CameBack, FitData, FitKind, Claimed
  <2>3. Came(y, b) /\ CameBack(y) /\ Fit(y)
    BY <1>2, <1>3, <2>1, <2>2, CameOn
  <2> QED
    BY <1>2, <1>7, <2>1, <2>3 DEF Arrived
<1> QED
  BY <1>5, <1>6, <1>7

\* A code is only given out for the user of the session.
Granted ==
  \/ UNCHANGED grants
  \/ \E b \in Browsers, f \in Requests :
       LoggedIn(session[b]) /\ grants' = [grants EXCEPT ![f] = session[b].user]

LEMMA AuthorizeComes ==
  ASSUME Types, AllFit, NEW r \in Requests, Authorize(r)
  PROVE  Arrived(r) /\ Granted
<1> DEFINE X(f) == [Received("authorize", req[f].by) EXCEPT !.flow = f]
<1>1. PICK f \in OwnFlows :
        IF req[f].client \notin opClients
           THEN Goes(r, Answered(X(f), "400")) /\ UNCHANGED grants
           ELSE IF LoggedIn(X(f).copy)
             THEN /\ Goes(r, ObtainConsent(X(f)))
                  /\ grants' = [grants EXCEPT ![f] = X(f).copy.user]
             ELSE Goes(r, RedirectToLogin(X(f))) /\ UNCHANGED grants
  BY Zenon DEF Authorize
<1> DEFINE b == req[f].by
           z == Received("authorize", b)
           x == X(f)
<1>2. f \in Requests /\ b \in Browsers /\ f \in FlowOrNot
  BY FlowsAreRequests, UsersAreTyped DEF OwnFlows
<1>3. "authorize" \in Kinds \ {"callback", "logout"} /\ "authorize" \in Kinds
  BY KindsAreTyped
<1>4. z \in ReqTypes /\ z.copy = session[b] /\ z.by = b /\ z.orig = session[b]
      /\ z.kind = "authorize" /\ z.answer = "none"
  BY <1>2, <1>3, ReceivedFields
<1>5. x = [z EXCEPT !.flow = f]
  OBVIOUS
<1>6. session[b] \in Sessions
  BY <1>2 DEF Types
<1> HIDE DEF z, X
<1>7. /\ x \in ReqTypes /\ x.copy = session[b] /\ x.by = b /\ x.orig = session[b]
      /\ x.kind = "authorize"
  BY <1>2, <1>4, <1>5, Zenon DEF ReqTypes
<1>8. \/ \E a \in {"400", "login"} : Goes(r, Answered(x, a)) /\ UNCHANGED grants
      \/ /\ LoggedIn(x.copy) /\ Goes(r, ActingFor(x, "code"))
         /\ grants' = [grants EXCEPT ![f] = x.copy.user]
  <2>1. CASE req[f].client \notin opClients
    BY <1>1, <2>1
  <2>2. CASE req[f].client \in opClients /\ LoggedIn(X(f).copy)
    BY <1>1, <2>2 DEF ObtainConsent
  <2>3. CASE req[f].client \in opClients /\ ~LoggedIn(X(f).copy)
    BY <1>1, <2>3 DEF RedirectToLogin
  <2> QED
    BY <2>1, <2>2, <2>3
<1> HIDE DEF x
<1>9. {"400", "login", "code"} \subseteq Answers \ {"provider", "returned", "wrongClient"}
  BY AnswersAreTyped
<1>10. \A a \in {"400", "login", "code"} :
         \A y \in {Answered(x, a), ActingFor(x, a)} :
           Came(y, b) /\ CameBack(y) /\ Fit(y)
  BY <1>2, <1>3, <1>6, <1>7, <1>9, CameAnswered
<1>11. \A a \in {"400", "login", "code"} :
         \A y \in {Answered(x, a), ActingFor(x, a)} : Goes(r, y) => Arrived(r)
  BY <1>2, <1>10 DEF Arrived, Came
<1>12. Arrived(r)
  BY <1>8, <1>11
<1>13. Granted
  BY <1>2, <1>7, <1>8 DEF Granted
<1> QED
  BY <1>12, <1>13

\* A request of a kind that only goes on to a step that needs nothing.
LEMMA CameToStep ==
  ASSUME Types, NEW b \in Browsers, NEW y \in ReqTypes, y.pc \in {"page", "keys"},
         y.kind \notin {"logout", "callback"}, y.by = b, y.orig = session[b],
         y.copy = session[b], y.answer = "none"
  PROVE  Came(y, b) /\ CameBack(y) /\ Fit(y)
<1>1. CameBack(y) /\ FitData(y) /\ FitKind(y)
  BY DEF CameBack, FitData, FitKind, Claimed
<1> QED
  BY <1>1, CameOn

LEMMA PageComes ==
  ASSUME Types, NEW r \in Requests, Page(r)
  PROVE  Arrived(r)
<1>1. PICK b \in traffic.browsers : Goes(r, [Received("page", b) EXCEPT !.pc = "page"])
  BY Zenon DEF Page
<1>2. b \in Browsers /\ "page" \in Kinds \ {"logout", "callback"} /\ "page" \in Kinds
  BY OpenTraffic, KindsAreTyped
<1> DEFINE x == Received("page", b)
           y == [x EXCEPT !.pc = "page"]
<1>3. x \in ReqTypes /\ x.copy = session[b] /\ x.by = b /\ x.orig = session[b]
      /\ x.kind = "page" /\ x.answer = "none"
  BY <1>2, ReceivedFields
<1> HIDE DEF x
<1>4. /\ y \in ReqTypes /\ y.pc = "page" /\ y.by = x.by /\ y.orig = x.orig
      /\ y.kind = x.kind /\ y.answer = x.answer /\ y.copy = x.copy
  BY <1>3, PcsAreTyped, Zenon DEF ReqTypes
<1>5. Goes(r, y)
  BY <1>1 DEF x
<1> HIDE DEF y
<1>6. Came(y, b) /\ CameBack(y) /\ Fit(y)
  BY <1>2, <1>3, <1>4, CameToStep
<1> QED
  BY <1>2, <1>4, <1>5, <1>6 DEF Arrived

LEMMA WalletGetComes ==
  ASSUME Types, NEW r \in Requests, WalletGet(r)
  PROVE  Arrived(r)
<1> DEFINE X(b) == Received("walletGet", b)
           Z(b) == [X(b) EXCEPT !.copy.returnTo = WalletPage]
<1>1. PICK b \in traffic.browsers :
        Goes(r, ActingFor(X(b), "wallet")) \/ Goes(r, Answered(Z(b), "form"))
  BY Zenon DEF WalletGet
<1>2. b \in Browsers /\ "walletGet" \in Kinds \ {"callback", "logout"} /\ "walletGet" \in Kinds
  BY OpenTraffic, KindsAreTyped
<1> DEFINE x == X(b)
           s == [session[b] EXCEPT !.returnTo = WalletPage]
           z == Z(b)
<1>3. x \in ReqTypes /\ x.copy = session[b] /\ x.by = b /\ x.orig = session[b]
      /\ x.kind = "walletGet" /\ x.answer = "none"
  BY <1>2, ReceivedFields
<1>4. session[b] \in Sessions /\ WalletPage \in UrlOrNot
  BY <1>2, LoginAssumption DEF Types, UrlOrNot
<1>5. s \in Sessions /\ s.user = session[b].user /\ s.pending = session[b].pending
  BY <1>4, ReturnToSet
<1>6. z = [x EXCEPT !.copy = s]
  <2>1. z = [x EXCEPT !.copy.returnTo = WalletPage]
    OBVIOUS
  <2> HIDE DEF x, z, X, Z
  <2> QED
    BY <2>1, <1>3, Zenon DEF ReqTypes
<1>7. {"form", "wallet"} \subseteq Answers \ {"provider", "returned", "wrongClient"}
  BY AnswersAreTyped
<1>8. Goes(r, ActingFor(x, "wallet")) \/ Goes(r, Answered(z, "form"))
  BY <1>1
<1> HIDE DEF x, s, z, X, Z
<1>9. /\ z \in ReqTypes /\ z.copy = s /\ z.by = b /\ z.orig = session[b]
      /\ z.kind = "walletGet"
  BY <1>3, <1>5, <1>6, CopySet DEF Stays
<1>10. LET y == ActingFor(x, "wallet") IN Came(y, b) /\ CameBack(y) /\ Fit(y)
  BY <1>2, <1>3, <1>4, <1>7, CameAnswered
<1>11. LET y == Answered(z, "form") IN Came(y, b) /\ CameBack(y) /\ Fit(y)
  BY <1>2, <1>5, <1>9, <1>7, CameAnswered
<1> QED
  BY <1>2, <1>8, <1>10, <1>11 DEF Arrived, Came

LEMMA ProveComes ==
  ASSUME Types, NEW r \in Requests, Prove(r) \/ Present(r)
  PROVE  Arrived(r)
<1>1. PICK kind \in {"prove", "present"}, b \in traffic.browsers, q \in QuerySets :
        \/ Goes(r, [Received(kind, b) EXCEPT !.pc = "keys"])
        \/ Goes(r, [Received(kind, b) EXCEPT !.pc = "keys", !.query = q])
        \/ Goes(r, Answered(Received(kind, b), "401"))
  <2>1. CASE Prove(r)
    <3>1. PICK b \in traffic.browsers :
            \/ Goes(r, [Received("prove", b) EXCEPT !.pc = "keys"])
            \/ Goes(r, Answered(Received("prove", b), "401"))
      BY <2>1, Zenon DEF Prove
    <3> QED
      BY <3>1, NoneIsTyped
  <2>2. CASE Present(r)
    <3>1. PICK b \in traffic.browsers, q \in SUBSET Queries :
            \/ Goes(r, [Received("present", b) EXCEPT !.pc = "keys", !.query = q])
            \/ Goes(r, Answered(Received("present", b), "401"))
      BY <2>2, Zenon DEF Present
    <3> QED
      BY <3>1 DEF QuerySets
  <2> QED
    BY <2>1, <2>2
<1>2. b \in Browsers /\ kind \in Kinds \ {"callback", "logout"} /\ kind \in Kinds
  BY OpenTraffic, KindsAreTyped
<1> DEFINE x == Received(kind, b)
<1>3. x \in ReqTypes /\ x.copy = session[b] /\ x.by = b /\ x.orig = session[b]
      /\ x.kind = kind /\ x.answer = "none"
  BY <1>2, ReceivedFields
<1>4. session[b] \in Sessions
  BY <1>2 DEF Types
<1> HIDE DEF x
<1>5. "401" \in Answers \ {"provider", "returned", "wrongClient"}
  BY AnswersAreTyped
<1>6. LET y == Answered(x, "401") IN y \in ReqTypes /\ Came(y, b) /\ CameBack(y) /\ Fit(y)
  BY <1>2, <1>3, <1>4, <1>5, CameAnswered DEF Came
<1> DEFINE y1 == [x EXCEPT !.pc = "keys"]
           y2 == [x EXCEPT !.pc = "keys", !.query = q]
<1>7. Goes(r, y1) \/ Goes(r, y2) \/ Goes(r, Answered(x, "401"))
  BY <1>1 DEF x
<1>8. /\ y1 \in ReqTypes /\ y1.pc = "keys" /\ y1.by = x.by /\ y1.orig = x.orig
      /\ y1.kind = x.kind /\ y1.answer = x.answer /\ y1.copy = x.copy
  BY <1>3, PcsAreTyped, Zenon DEF ReqTypes
<1>9. /\ y2 \in ReqTypes /\ y2.pc = "keys" /\ y2.by = x.by /\ y2.orig = x.orig
      /\ y2.kind = x.kind /\ y2.answer = x.answer /\ y2.copy = x.copy
  BY <1>3, PcsAreTyped, Zenon DEF ReqTypes
<1> HIDE DEF y1, y2
<1>10. /\ Came(y1, b) /\ CameBack(y1) /\ Fit(y1)
       /\ Came(y2, b) /\ CameBack(y2) /\ Fit(y2)
  BY <1>2, <1>3, <1>8, <1>9, CameToStep
<1> QED
  BY <1>2, <1>6, <1>7, <1>8, <1>9, <1>10 DEF Arrived

LEMMA LogoutComes ==
  ASSUME Types, NEW r \in Requests, Logout(r)
  PROVE  Arrived(r)
<1> DEFINE X(b) == Received("logout", b)
           Z(b) == [X(b) EXCEPT !.copy.user = LoggedOut]
<1>1. PICK b \in traffic.browsers : Goes(r, Answered(Z(b), "goodbye"))
  BY Zenon DEF Logout
<1>2. b \in Browsers /\ "logout" \in Kinds
  BY OpenTraffic, KindsAreTyped
<1> DEFINE x == X(b)
           s == [session[b] EXCEPT !.user = LoggedOut]
           z == Z(b)
           y == Answered(z, "goodbye")
<1>3. x \in ReqTypes /\ x.copy = session[b] /\ x.by = b /\ x.orig = session[b]
      /\ x.kind = "logout" /\ x.answer = "none"
  BY <1>2, ReceivedFields
<1>4. session[b] \in Sessions
  BY <1>2 DEF Types
<1>5. s \in Sessions /\ s.user = LoggedOut /\ s.pending = session[b].pending
  BY <1>4, NoneIsTyped, UserSet
<1>6. z = [x EXCEPT !.copy = s]
  <2>1. z = [x EXCEPT !.copy.user = LoggedOut]
    OBVIOUS
  <2> HIDE DEF x, z, X, Z
  <2> QED
    BY <2>1, <1>3, Zenon DEF ReqTypes
<1>7. Goes(r, y)
  BY <1>1
<1> HIDE DEF x, s, z, X, Z
<1>8. z \in ReqTypes /\ z.copy = s /\ z.by = b /\ z.orig = session[b] /\ z.kind = "logout"
  BY <1>3, <1>5, <1>6, CopySet DEF Stays
<1>9. /\ y \in ReqTypes /\ y.pc = "finish" /\ y.answer = "goodbye"
      /\ Stays(z, y) /\ y.copy = s
  <2>1. "goodbye" \in Answers
    BY AnswersAreTyped
  <2> QED
    BY <1>8, <2>1, AnsweredFields
<1> HIDE DEF y
<1>10. Came(y, b) /\ CameBack(y)
  BY <1>2, <1>5, <1>8, <1>9 DEF Came, CameBack, Stays
<1>11. Fit(y)
  BY <1>2, <1>5, <1>8, <1>9, LoggedOutIsOut DEF Fit, FitData, FitKind, FitUser,
     Claimed, LoggedIn, Stays
<1> QED
  BY <1>2, <1>7, <1>9, <1>10, <1>11 DEF Arrived

\* Every arrival.
LEMMA ArrivesStep ==
  ASSUME Types, AllFit, NEW r \in Requests, Arrives(r)
  PROVE  /\ Arrived(r) /\ Granted
         /\ UNCHANGED <<session, clients, opClients, issued, spent, doubled,
                        entitled, proved, traffic>>
         /\ req[r].pc = "idle" /\ Serving /\ UNCHANGED pvars
<1>1. CASE GetLogin(r)
  BY <1>1, GetLoginComes DEF GetLogin, Quiet, Offline, InTraffic, Granted
<1>2. CASE LoginPassword(r)
  BY <1>2, LoginPasswordComes DEF LoginPassword, Quiet, Offline, InTraffic, Granted
<1>3. CASE SelectProvider(r)
  BY <1>3, SelectProviderComes DEF SelectProvider, Quiet, Offline, InTraffic, Granted
<1>4. CASE Callback(r)
  BY <1>4, CallbackComes DEF Callback, Quiet, Offline, InTraffic, Granted
<1>5. CASE Bearer(r)
  BY <1>5, BearerComes DEF Bearer, Quiet, Offline, InTraffic, Granted
<1>6. CASE Authorize(r)
  BY <1>6, AuthorizeComes DEF Authorize, Offline, InTraffic
<1>7. CASE Page(r)
  BY <1>7, PageComes DEF Page, Quiet, Offline, InTraffic, Granted
<1>8. CASE WalletGet(r)
  BY <1>8, WalletGetComes DEF WalletGet, Quiet, Offline, InTraffic, Granted
<1>9. CASE Prove(r)
  BY <1>9, ProveComes DEF Prove, Quiet, Offline, InTraffic, Granted
<1>10. CASE Present(r)
  BY <1>10, ProveComes DEF Present, Quiet, Offline, InTraffic, Granted
<1>11. CASE Logout(r)
  BY <1>11, LogoutComes DEF Logout, Quiet, Offline, InTraffic, Granted
<1>12. CASE Signup(r)
  BY <1>12, SignupComes DEF Signup, Quiet, Offline, InTraffic, Granted
<1> QED
  BY <1>1, <1>2, <1>3, <1>4, <1>5, <1>6, <1>7, <1>8, <1>9, <1>10, <1>11, <1>12
     DEF Arrives

-----------------------------------------------------------------------------
(***************************************************************************)
(* Steps of a handler that only move its request on.                       *)
(***************************************************************************)
Special == {"provider", "returned", "wrongClient"}

\* What becomes of x: nothing that the invariants ask about but where it is.
WorkedOn(x, y) ==
  /\ y \in ReqTypes
  /\ Stays(x, y) /\ y.copy.user = x.copy.user /\ y.copy.pending = x.copy.pending
  /\ y.flow = x.flow
  /\ y.pc \in {"finish", "match", "stuck", "discover", "client"}
  /\ y.pc = "client" => y.kind = "selectProvider"
  /\ y.answer \notin Special
  /\ Claimed(y) => Claimed(x) /\ y.issuer = x.issuer /\ y.webId = x.webId
  /\ Fit(y)

Worked(r) == \E y \in ReqTypes : Goes(r, y) /\ WorkedOn(req[r], y)

OpenPcs == {"provider", "discover", "register", "exchange", "token", "find", "match",
            "account", "client", "persist", "authUrl", "claims", "page", "keys", "finish"}

LEMMA WorkedAnswered ==
  ASSUME Types, AllFit, NEW r \in Requests, req[r].pc \in OpenPcs,
         NEW a \in Answers \ Special,
         NEW y \in {Answered(req[r], a), ActingFor(req[r], a)}, Goes(r, y)
  PROVE  Worked(r)
<1> DEFINE x == req[r]
<1>1. x \in ReqTypes /\ a \in Answers /\ Fit(x)
  BY DEF Types, AllFit
<1>2. /\ y \in ReqTypes /\ y.pc = "finish" /\ y.answer = a /\ Stays(x, y)
      /\ y.copy = x.copy /\ y.flow = x.flow
  <2>1. CASE y = Answered(x, a)
    BY <1>1, <2>1, AnsweredFields
  <2>2. CASE y = ActingFor(x, a)
    BY <1>1, <2>2, ActingForFields
  <2> QED
    BY <2>1, <2>2
<1>3. x.pc \in OpenPcs
  OBVIOUS
<1> HIDE DEF x
<1>4. Fit(y)
  BY <1>1, <1>2, <1>3 DEF Fit, FitData, FitKind, FitUser, Claimed, LoggedIn, Stays,
     Special, OpenPcs
<1>5. WorkedOn(x, y)
  BY <1>1, <1>2, <1>4 DEF WorkedOn, Claimed
<1> QED
  BY <1>2, <1>5 DEF Worked, x

LEMMA PlainAnswers ==
  {"400", "401", "403", "500", "page", "proof", "presentation"}
    \subseteq Answers \ Special
  BY AnswersAreTyped DEF Special

LEMMA FindUserWorks ==
  ASSUME Types, AllFit, NEW r \in Requests, FindUser(r)
  PROVE  Worked(r)
<1> DEFINE x == req[r]
           user == FoundUser(x.name)
           y == [x EXCEPT !.pc = "match", !.webId = user]
<1>1. x \in ReqTypes /\ Fit(x) /\ x.pc = "find" /\ x.pc \in OpenPcs
  BY DEF Types, AllFit, FindUser, OpenPcs
<1>2. CASE user = None
  <2>1. Goes(r, Answered(x, "400"))
    BY <1>2 DEF FindUser
  <2> QED
    BY <2>1, <1>1, PlainAnswers, WorkedAnswered
<1>3. CASE user # None
  <2>1. Goes(r, y)
    BY <1>3 DEF FindUser
  <2>2. x.name \in Names
    BY <1>1 DEF Fit, FitData
  <2>3. user \in WebIds
    BY <1>3, <2>2, LoginAssumption DEF FoundUser
  <2>4. user \in UserOrNot
    BY <2>3, UsersAreTyped
  <2>5. x \in ReqTypes
    BY <1>1
  <2> HIDE DEF user, x
  <2>6. /\ y \in ReqTypes /\ y.pc = "match" /\ y.webId = user /\ Stays(x, y)
        /\ y.copy = x.copy /\ y.flow = x.flow /\ y.answer = x.answer
    BY <2>5, <2>4, PcsAreTyped, Zenon DEF ReqTypes, Stays
  <2> HIDE DEF y
  <2>7. Fit(y)
    BY <1>1, <2>3, <2>6 DEF Fit, FitData, FitKind, FitUser, Claimed, LoggedIn, Stays
  <2>8. WorkedOn(x, y)
    BY <1>1, <2>6, <2>7 DEF WorkedOn, Claimed, Fit, FitKind, Special
  <2> QED
    BY <2>1, <2>6, <2>8 DEF Worked, x
<1> QED
  BY <1>2, <1>3

LEMMA FindUserFailsWorks ==
  ASSUME Types, AllFit, NEW r \in Requests, FindUserFails(r)
  PROVE  Worked(r)
<1> DEFINE x == req[r]
           y == [x EXCEPT !.pc = "stuck"]
<1>1. x \in ReqTypes /\ Fit(x) /\ x.pc = "find" /\ Goes(r, y)
  BY DEF Types, AllFit, FindUserFails, Stuck
<1> HIDE DEF x
<1>2. /\ y \in ReqTypes /\ y.pc = "stuck" /\ Stays(x, y)
      /\ y.copy = x.copy /\ y.flow = x.flow /\ y.answer = x.answer
  BY <1>1, PcsAreTyped, Zenon DEF ReqTypes, Stays
<1> HIDE DEF y
<1>3. Fit(y)
  BY <1>1, <1>2 DEF Fit, FitData, FitKind, FitUser, Claimed, LoggedIn, Stays
<1>4. WorkedOn(x, y)
  BY <1>1, <1>2, <1>3 DEF WorkedOn, Claimed, Fit, FitKind, Special
<1> QED
  BY <1>1, <1>2, <1>4 DEF Worked, x

LEMMA PreferredProviderForWorks ==
  ASSUME Types, AllFit, NEW r \in Requests, PreferredProviderFor(r)
  PROVE  Worked(r)
<1> DEFINE x == req[r]
           i == Origin(x.webId)
           y1 == [x EXCEPT !.pc = "client", !.issuer = i]
           y2 == [x EXCEPT !.pc = "discover"]
<1>1. x \in ReqTypes /\ Fit(x) /\ x.pc = "provider"
  BY DEF Types, AllFit, PreferredProviderFor
<1>2. CASE ProviderExists(x.webId)
  <2>1. Goes(r, y1)
    BY <1>2 DEF PreferredProviderFor
  <2>2. i \in Issuers /\ i \in IssuerOrNot
    BY <1>2, UsersAreTyped DEF ProviderExists, Issuers
  <2> HIDE DEF x, i
  <2>3. /\ y1 \in ReqTypes /\ y1.pc = "client" /\ Stays(x, y1) /\ y1.issuer = i
        /\ y1.copy = x.copy /\ y1.flow = x.flow /\ y1.answer = x.answer
    BY <1>1, <2>2, PcsAreTyped, Zenon DEF ReqTypes, Stays
  <2> HIDE DEF y1
  <2>4. Fit(y1)
    BY <1>1, <2>2, <2>3 DEF Fit, FitData, FitKind, FitUser, Claimed, LoggedIn, Stays
  <2>5. WorkedOn(x, y1)
    BY <1>1, <2>3, <2>4 DEF WorkedOn, Claimed, Fit, FitKind, Special, Stays
  <2> QED
    BY <2>1, <2>3, <2>5 DEF Worked, x
<1>3. CASE ~ProviderExists(x.webId)
  <2>1. Goes(r, y2)
    BY <1>3 DEF PreferredProviderFor
  <2> HIDE DEF x
  <2>3. /\ y2 \in ReqTypes /\ y2.pc = "discover" /\ Stays(x, y2) /\ y2.webId = x.webId
        /\ y2.copy = x.copy /\ y2.flow = x.flow /\ y2.answer = x.answer
    BY <1>1, PcsAreTyped, Zenon DEF ReqTypes, Stays
  <2> HIDE DEF y2
  <2>4. Fit(y2)
    BY <1>1, <2>3 DEF Fit, FitData, FitKind, FitUser, Claimed, LoggedIn, Stays
  <2>5. WorkedOn(x, y2)
    BY <1>1, <2>3, <2>4 DEF WorkedOn, Claimed, Fit, FitKind, Special, Stays
  <2> QED
    BY <2>1, <2>3, <2>5 DEF Worked, x
<1> QED
  BY <1>2, <1>3

\* The answer to what another site has denied or not answered.
LEMMA FailedWorks ==
  ASSUME Types, AllFit, NEW r \in Requests, req[r].pc \in OpenPcs, Goes(r, Failed(req[r]))
  PROVE  Worked(r)
<1>1. \E a \in {"400", "401", "500"} : Failed(req[r]) = Answered(req[r], a)
  BY Zenon DEF Failed
<1>2. PICK a \in {"400", "401", "500"} : Failed(req[r]) = Answered(req[r], a)
  BY <1>1
<1> QED
  BY <1>2, PlainAnswers, WorkedAnswered

LEMMA AskProfileWorks ==
  ASSUME Types, AllFit, NEW r \in Requests, AskProfile(r)
  PROVE  Worked(r)
<1> DEFINE x == req[r]
           y == [x EXCEPT !.pc = "discover"]
<1>1. x \in ReqTypes /\ Fit(x) /\ x.pc = "claims" /\ Goes(r, y)
  BY DEF Types, AllFit, AskProfile
<1> HIDE DEF x
<1>2. /\ y \in ReqTypes /\ y.pc = "discover" /\ Stays(x, y) /\ y.webId = x.webId
      /\ y.copy = x.copy /\ y.flow = x.flow /\ y.answer = x.answer /\ y.issuer = x.issuer
  BY <1>1, PcsAreTyped, Zenon DEF ReqTypes, Stays
<1> HIDE DEF y
<1>3. Fit(y)
  BY <1>1, <1>2 DEF Fit, FitData, FitKind, FitUser, Claimed, LoggedIn, Stays
<1>4. WorkedOn(x, y)
  BY <1>1, <1>2, <1>3 DEF WorkedOn, Claimed, Fit, FitKind, Special
<1> QED
  BY <1>1, <1>2, <1>4 DEF Worked, x

LEMMA ProfileNamesWorks ==
  ASSUME Types, AllFit, NEW r \in Requests, ProfileNames(r)
  PROVE  Worked(r)
<1> DEFINE x == req[r]
           i == DiscoverProviderFor(x.webId)
           y == [x EXCEPT !.pc = "client", !.issuer = i]
<1>1. x \in ReqTypes /\ Fit(x) /\ x.pc = "discover" /\ x.kind = "selectProvider"
      /\ x.pc \in OpenPcs
  BY DEF Types, AllFit, ProfileNames, OpenPcs
<1>2. CASE i = None
  <2>1. Goes(r, Failed(x))
    BY <1>2 DEF ProfileNames
  <2> QED
    BY <1>1, <2>1, FailedWorks
<1>3. CASE i # None
  <2>1. Goes(r, y)
    BY <1>3 DEF ProfileNames
  <2>2. i \in Issuers /\ i \in IssuerOrNot
    BY <1>1, <1>3, UsersAreTyped DEF Issuers, Fit, FitData
  <2> HIDE DEF x, i
  <2>3. /\ y \in ReqTypes /\ y.pc = "client" /\ Stays(x, y) /\ y.issuer = i
        /\ y.copy = x.copy /\ y.flow = x.flow /\ y.answer = x.answer
    BY <1>1, <2>2, PcsAreTyped, Zenon DEF ReqTypes, Stays
  <2> HIDE DEF y
  <2>4. Fit(y)
    BY <1>1, <2>2, <2>3 DEF Fit, FitData, FitKind, FitUser, Claimed, LoggedIn, Stays
  <2>5. WorkedOn(x, y)
    BY <1>1, <2>3, <2>4 DEF WorkedOn, Claimed, Fit, FitKind, Special, Stays
  <2> QED
    BY <2>1, <2>3, <2>5 DEF Worked, x
<1> QED
  BY <1>2, <1>3

LEMMA SigningKeyWorks ==
  ASSUME Types, AllFit, NEW r \in Requests, SigningKey(r)
  PROVE  Worked(r)
<1>1. PICK a \in {"400", "500", "proof", "presentation"} :
        Goes(r, ActingFor(req[r], a)) \/ Goes(r, Answered(req[r], a))
  <2>1. \A query : Presentation(query) \in {"proof", "presentation"}
    BY DEF Presentation
  <2>2. \/ \E query : Goes(r, ActingFor(req[r], Presentation(query)))
        \/ Goes(r, Answered(req[r], "400"))
        \/ Goes(r, Answered(req[r], "500"))
    BY Zenon DEF SigningKey
  <2> QED
    BY <2>1, <2>2
<1>2. req[r].pc \in OpenPcs
  BY DEF SigningKey, OpenPcs
<1> QED
  BY <1>1, <1>2, PlainAnswers, WorkedAnswered

\* All of them.
Moving(r) ==
  \/ FindUser(r) \/ FindUserFails(r) \/ RefusePassword(r) \/ AskProfile(r)
  \/ ServePage(r) \/ SigningKey(r) \/ PreferredProviderFor(r) \/ RefuseSignup(r)
  \/ ProfileDenies(r) \/ ProfileNames(r) \/ RemoteFails(r)

LEMMA MovingStep ==
  ASSUME Types, AllFit, NEW r \in Requests, Moving(r)
  PROVE  Worked(r) /\ Quiet /\ UNCHANGED pvars /\ req[r].pc \in OpenPcs
<1>1. CASE FindUser(r)
  BY <1>1, FindUserWorks DEF FindUser, Offline, OpenPcs
<1>2. CASE FindUserFails(r)
  BY <1>2, FindUserFailsWorks DEF FindUserFails, Offline, OpenPcs
<1>3. CASE RefusePassword(r)
  <2>1. Quiet /\ UNCHANGED pvars /\ req[r].pc \in OpenPcs /\ Goes(r, Answered(req[r], "400"))
    BY <1>3 DEF RefusePassword, Offline, OpenPcs
  <2> QED
    BY <2>1, PlainAnswers, WorkedAnswered
<1>4. CASE AskProfile(r)
  BY <1>4, AskProfileWorks DEF AskProfile, Offline, OpenPcs
<1>5. CASE ServePage(r)
  <2>1. Quiet /\ UNCHANGED pvars /\ req[r].pc \in OpenPcs /\ Goes(r, ActingFor(req[r], "page"))
    BY <1>5 DEF ServePage, Offline, OpenPcs
  <2> QED
    BY <2>1, PlainAnswers, WorkedAnswered
<1>6. CASE SigningKey(r)
  BY <1>6, SigningKeyWorks DEF SigningKey, Offline, OpenPcs
<1>7. CASE PreferredProviderFor(r)
  BY <1>7, PreferredProviderForWorks DEF PreferredProviderFor, Offline, OpenPcs
<1>8. CASE ProfileDenies(r)
  BY <1>8, FailedWorks DEF ProfileDenies, Offline, OpenPcs
<1>9. CASE ProfileNames(r)
  BY <1>9, ProfileNamesWorks DEF ProfileNames, Offline, OpenPcs
<1>10. CASE RemoteFails(r)
  BY <1>10, FailedWorks DEF RemoteFails, Offline, OpenPcs, RemotePcs
<1>11. CASE RefuseSignup(r)
  <2>1. Quiet /\ UNCHANGED pvars /\ req[r].pc \in OpenPcs
    BY <1>11 DEF RefuseSignup, Offline, OpenPcs
  <2>2. PICK a \in {"400", "500"} : Goes(r, Answered(req[r], a))
    BY <1>11 DEF RefuseSignup
  <2> QED
    BY <2>1, <2>2, PlainAnswers, WorkedAnswered
<1> QED
  BY <1>1, <1>2, <1>3, <1>4, <1>5, <1>6, <1>7, <1>8, <1>9, <1>10, <1>11 DEF Moving

-----------------------------------------------------------------------------
(***************************************************************************)
(* Clients.                                                                *)
(***************************************************************************)
\* A request that is only given a client.
Clienting(x, y) ==
  /\ y \in ReqTypes
  /\ Stays(x, y) /\ y.copy = x.copy /\ y.flow = x.flow /\ y.issuer = x.issuer
  /\ y.answer = "none"
  /\ Fit(y)

\* The request with the client it has found.
LEMMA WithClientFields ==
  ASSUME NEW x \in ReqTypes, NEW c \in ClientOrNot, Fit(x),
         x.pc \in {"client", "register", "persist"}
  PROVE  /\ Clienting(x, WithClient(x, c))
         /\ WithClient(x, c).client = c
         /\ WithClient(x, c).pc = IF x.kind = "callback" THEN "exchange" ELSE "authUrl"
<1> DEFINE pc == IF x.kind = "callback" THEN "exchange" ELSE "authUrl"
           y == [x EXCEPT !.client = c, !.pc = pc]
<1>1. pc \in Pcs
  BY PcsAreTyped
<1>2. \/ pc = "exchange" /\ x.kind = "callback"
      \/ pc = "authUrl" /\ x.kind # "callback"
  OBVIOUS
<1>3. WithClient(x, c) = y
  BY DEF WithClient
<1> HIDE DEF pc
<1>4. /\ y \in ReqTypes /\ Stays(x, y) /\ y.copy = x.copy /\ y.flow = x.flow
      /\ y.issuer = x.issuer /\ y.client = c /\ y.pc = pc /\ y.answer = x.answer
  BY <1>1, Zenon DEF ReqTypes, Stays
<1> HIDE DEF y
<1>5. Fit(y) /\ y.answer = "none"
  BY <1>2, <1>4 DEF Fit, FitData, FitKind, FitUser, Claimed, LoggedIn, Stays
<1> QED
  BY <1>3, <1>4, <1>5 DEF Clienting, pc

\* The request that has found none, and the one that has made one.
LEMMA RegisterFields ==
  ASSUME NEW x \in ReqTypes, NEW c \in ClientOrNot, Fit(x),
         x.pc \in {"client", "register"}
  PROVE  /\ Clienting(x, [x EXCEPT !.pc = "register"])
         /\ [x EXCEPT !.pc = "register"].pc = "register"
         /\ Clienting(x, [x EXCEPT !.pc = "persist", !.client = c])
         /\ [x EXCEPT !.pc = "persist", !.client = c].pc = "persist"
         /\ [x EXCEPT !.pc = "persist", !.client = c].client = c
<1> DEFINE y == [x EXCEPT !.pc = "register"]
           z == [x EXCEPT !.pc = "persist", !.client = c]
<1>1. /\ y \in ReqTypes /\ Stays(x, y) /\ y.copy = x.copy /\ y.flow = x.flow
      /\ y.issuer = x.issuer /\ y.pc = "register" /\ y.answer = x.answer
  BY PcsAreTyped, Zenon DEF ReqTypes, Stays
<1>2. /\ z \in ReqTypes /\ Stays(x, z) /\ z.copy = x.copy /\ z.flow = x.flow
      /\ z.issuer = x.issuer /\ z.pc = "persist" /\ z.client = c /\ z.answer = x.answer
  BY PcsAreTyped, Zenon DEF ReqTypes, Stays
<1> HIDE DEF y, z
<1>3. Fit(y) /\ y.answer = "none" /\ Fit(z) /\ z.answer = "none"
  BY <1>1, <1>2 DEF Fit, FitData, FitKind, FitUser, Claimed, LoggedIn, Stays
<1>4. Clienting(x, y) /\ Clienting(x, z)
  BY <1>1, <1>2, <1>3 DEF Clienting
<1> QED
  BY <1>1, <1>2, <1>4 DEF y, z

LEMMA LoadClientStep ==
  ASSUME Types, AllFit, NEW r \in Requests, LoadClient(r)
  PROVE  LET x == req[r] IN
         /\ x.pc = "client"
         /\ \E y \in ReqTypes :
              /\ Goes(r, y) /\ Clienting(x, y)
              /\ \/ /\ clients[x.issuer] # NoClient /\ y.client = clients[x.issuer]
                    /\ y.pc = IF x.kind = "callback" THEN "exchange" ELSE "authUrl"
                    /\ UNCHANGED doubled
                 \/ /\ clients[x.issuer] = NoClient /\ y.pc = "register"
                    /\ doubled' = IF Registering(x.issuer) = {} THEN doubled
                                  ELSE doubled \cup {x.issuer}
<1> DEFINE x == req[r]
           c == clients[x.issuer]
<1>1. x \in ReqTypes /\ Fit(x) /\ x.pc = "client"
  BY DEF Types, AllFit, LoadClient
<1>2. c \in ClientOrNot
  BY <1>1 DEF Types, Fit, FitData
<1>3. CASE c # NoClient
  <2>1. Goes(r, WithClient(x, c)) /\ UNCHANGED doubled
    BY <1>3 DEF LoadClient
  <2> QED
    BY <1>1, <1>2, <1>3, <2>1, WithClientFields DEF Clienting
<1>4. CASE c = NoClient
  <2> DEFINE y == [x EXCEPT !.pc = "register"]
  <2>1. /\ Goes(r, y)
        /\ doubled' = IF Registering(x.issuer) = {} THEN doubled
                      ELSE doubled \cup {x.issuer}
    BY <1>4 DEF LoadClient
  <2>2. Clienting(x, y) /\ y.pc = "register"
    BY <1>1, <1>2, RegisterFields
  <2> QED
    BY <1>1, <1>4, <2>1, <2>2 DEF Clienting
<1> QED
  BY <1>3, <1>4

LEMMA RegisterClientStep ==
  ASSUME Types, AllFit, NEW r \in Requests, RegisterClient(r)
  PROVE  /\ req[r].pc = "register"
         /\ \E y \in ReqTypes :
              Goes(r, y) /\ Clienting(req[r], y) /\ y.pc = "persist" /\ y.client = r
         /\ opClients' \subseteq opClients \cup {r}
<1> DEFINE x == req[r]
           y == [x EXCEPT !.pc = "persist", !.client = r]
<1>1. x \in ReqTypes /\ Fit(x) /\ x.pc = "register" /\ r \in ClientOrNot
  BY UsersAreTyped DEF Types, AllFit, RegisterClient
<1>2. Goes(r, y)
  BY DEF RegisterClient
<1>3. opClients' \subseteq opClients \cup {r}
  BY DEF RegisterClient
<1> HIDE DEF x
<1>4. Clienting(x, y) /\ y.pc = "persist" /\ y.client = r
  BY <1>1, RegisterFields, Zenon
<1> QED
  BY <1>1, <1>2, <1>3, <1>4 DEF Clienting, x

LEMMA PersistClientStep ==
  ASSUME Types, AllFit, NEW r \in Requests, PersistClient(r)
  PROVE  LET x == req[r] IN
         /\ x.pc = "persist" /\ clients' = [clients EXCEPT ![x.issuer] = x.client]
         /\ \E y \in ReqTypes :
              /\ Goes(r, y) /\ Clienting(x, y) /\ y.client = x.client
              /\ y.pc = IF x.kind = "callback" THEN "exchange" ELSE "authUrl"
<1> DEFINE x == req[r]
<1>1. x \in ReqTypes /\ Fit(x) /\ x.pc = "persist" /\ x.client \in ClientOrNot
  BY DEF Types, AllFit, PersistClient, ReqTypes
<1>2. /\ Goes(r, WithClient(x, x.client))
      /\ clients' = [clients EXCEPT ![x.issuer] = x.client]
  BY DEF PersistClient
<1> QED
  BY <1>1, <1>2, WithClientFields DEF Clienting

\* The browser is sent to the provider, and will come back to this flow.
LEMMA AuthUrlStep ==
  ASSUME Types, AllFit, NEW r \in Requests, AuthUrl(r)
  PROVE  LET x == req[r] IN
         /\ x.pc = "authUrl"
         /\ \E y \in ReqTypes :
              /\ Goes(r, y) /\ Stays(x, y) /\ Fit(y)
              /\ y.copy.user = x.copy.user
              /\ y.copy.pending = x.copy.pending \cup {r}
              /\ y.pc = "finish" /\ y.answer = "provider"
              /\ y.issuer = x.issuer /\ y.client = x.client
<1> DEFINE x == req[r]
           s == [x.copy EXCEPT !.pending = x.copy.pending \cup {r}]
           z == [x EXCEPT !.flow = r, !.copy.pending = @ \cup {r}]
           y == Answered(z, "provider")
<1>1. x \in ReqTypes /\ Fit(x) /\ x.pc = "authUrl" /\ x.copy \in Sessions
  BY DEF Types, AllFit, AuthUrl, ReqTypes
<1>2. x.copy.pending \cup {r} \in FlowSets /\ r \in FlowOrNot
  BY <1>1, UsersAreTyped, SessionFields DEF FlowSets
<1>3. /\ s \in Sessions /\ s.user = x.copy.user
      /\ s.pending = x.copy.pending \cup {r}
  BY <1>1, <1>2, PendingSet
<1>4. Goes(r, y)
  BY DEF AuthUrl
<1> HIDE DEF x
<1>5. z = [x EXCEPT !.flow = r, !.copy = s]
  BY <1>1, Zenon DEF ReqTypes
<1> HIDE DEF s, z
<1>6. /\ z \in ReqTypes /\ Stays(x, z) /\ z.copy = s /\ z.issuer = x.issuer
      /\ z.client = x.client
  BY <1>1, <1>2, <1>3, <1>5, Zenon DEF ReqTypes, Stays
<1>7. "provider" \in Answers
  BY AnswersAreTyped
<1>8. /\ y \in ReqTypes /\ y.pc = "finish" /\ y.answer = "provider" /\ Stays(z, y)
      /\ y.copy = s /\ y.issuer = x.issuer /\ y.client = x.client
  BY <1>6, <1>7, AnsweredFields
<1> HIDE DEF y
<1>9. Fit(y) /\ Stays(x, y)
  BY <1>1, <1>3, <1>6, <1>8 DEF Fit, FitData, FitKind, FitUser, Claimed, LoggedIn, Stays
<1> QED
  BY <1>1, <1>3, <1>4, <1>8, <1>9 DEF x

-----------------------------------------------------------------------------
(***************************************************************************)
(* Claims.                                                                 *)
(***************************************************************************)
\* A web identifier was claimed: x goes on with it and with the issuer.
Claiming(x, y, webId, issuer) ==
  /\ y \in ReqTypes
  /\ Stays(x, y) /\ y.copy = x.copy /\ y.flow = x.flow /\ y.answer = "none"
  /\ y.pc = "claims" /\ y.webId = webId /\ y.issuer = issuer
  /\ Fit(y)

LEMMA ClaimsFields ==
  ASSUME NEW x \in ReqTypes, Fit(x), x.pc \in {"exchange", "token"},
         NEW webId \in WebIds, NEW issuer \in ClaimIssuers, issuer # None
  PROVE  Claiming(x, [x EXCEPT !.pc = "claims", !.webId = webId, !.issuer = issuer],
                  webId, issuer)
<1> DEFINE y == [x EXCEPT !.pc = "claims", !.webId = webId, !.issuer = issuer]
<1>1. webId \in UserOrNot /\ issuer \in IssuerOrNot
  BY UsersAreTyped
<1>2. /\ y \in ReqTypes /\ Stays(x, y) /\ y.copy = x.copy /\ y.flow = x.flow
      /\ y.issuer = issuer /\ y.webId = webId /\ y.pc = "claims" /\ y.answer = x.answer
  BY <1>1, PcsAreTyped, Zenon DEF ReqTypes, Stays
<1> HIDE DEF y
<1>3. Fit(y) /\ y.answer = "none"
  BY <1>2 DEF Fit, FitData, FitKind, FitUser, Claimed, LoggedIn, Stays
<1> QED
  BY <1>2, <1>3 DEF Claiming, y

\* An identifier is only found in claims that name their issuer.
LEMMA ClaimsNameIssuer ==
  ASSUME NEW claims, ExtractWebId(claims) # None
  PROVE  claims.iss # None
  BY DEF ExtractWebId

\* A callback or a token is refused without an answer of its own.
Refused(x, y) ==
  /\ y \in ReqTypes
  /\ Stays(x, y) /\ y.copy = x.copy /\ y.flow = x.flow /\ y.issuer = x.issuer
  /\ y.client = x.client
  /\ y.pc = "finish" /\ y.answer \notin {"provider", "returned"}
  /\ Fit(y)

LEMMA RefusedFields ==
  ASSUME NEW x \in ReqTypes, Fit(x), x.pc \in {"exchange", "token"},
         NEW a \in Answers \ {"provider", "returned"}
  PROVE  Refused(x, Answered(x, a)) /\ Answered(x, a).answer = a
<1> DEFINE y == Answered(x, a)
<1>1. /\ y \in ReqTypes /\ y.pc = "finish" /\ y.answer = a /\ Stays(x, y)
      /\ y.copy = x.copy /\ y.flow = x.flow /\ y.issuer = x.issuer /\ y.client = x.client
  BY AnsweredFields
<1> HIDE DEF y
<1>2. Fit(y)
  BY <1>1 DEF Fit, FitData, FitKind, FitUser, Claimed, LoggedIn, Stays
<1> QED
  BY <1>1, <1>2 DEF Refused, y

LEMMA RefuseResponseStep ==
  ASSUME Types, AllFit, NEW r \in Requests, RefuseResponse(r)
  PROVE  LET x == req[r] IN
         /\ x.pc = "exchange"
         /\ \E y \in ReqTypes :
              /\ Goes(r, y) /\ Refused(x, y)
              /\ y.answer = "wrongClient" =>
                   x.flow \in x.copy.pending /\ x.client # req[x.flow].client
<1> DEFINE x == req[r]
           wrong == x.flow \in x.copy.pending \ spent /\ x.client # req[x.flow].client
<1>1. x \in ReqTypes /\ Fit(x) /\ x.pc = "exchange"
  BY DEF Types, AllFit, RefuseResponse
<1>2. {"400", "wrongClient"} \subseteq Answers \ {"provider", "returned"}
  BY AnswersAreTyped
<1>3. CASE wrong
  <2>1. Goes(r, Answered(x, "wrongClient"))
    BY <1>3 DEF RefuseResponse
  <2> QED
    BY <1>1, <1>2, <1>3, <2>1, RefusedFields DEF Refused
<1>4. CASE ~wrong
  <2>1. Goes(r, Answered(x, "400"))
    BY <1>4 DEF RefuseResponse
  <2>2. Refused(x, Answered(x, "400")) /\ Answered(x, "400").answer # "wrongClient"
    BY <1>1, <1>2, RefusedFields
  <2> QED
    BY <1>1, <2>1, <2>2 DEF Refused
<1> QED
  BY <1>3, <1>4

\* A code is redeemed: the identifier is one that the provider of the flow
\* claims, and our own claims the user of the code.
LEMMA ValidateResponseStep ==
  ASSUME Types, AllFit, NEW r \in Requests, ValidateResponse(r)
  PROVE  LET x == req[r] IN
         /\ x.pc = "exchange" /\ x.flow \in x.copy.pending
         /\ \E y \in ReqTypes :
              /\ Goes(r, y)
              /\ \/ Refused(x, y) /\ y.answer = "401"
                 \/ \E webId \in WebIds, issuer \in ClaimIssuers :
                      /\ Claiming(x, y, webId, issuer)
                      /\ \/ x.flow \in OwnFlows /\ webId = grants[x.flow]
                         \/ x.flow \notin OwnFlows /\ issuer = IssuerOf[req[x.flow].issuer]
         /\ IF x.flow \in OwnFlows THEN issued' = issued \cup {grants[x.flow]}
                                   ELSE UNCHANGED issued
<1> DEFINE x == req[r]
<1>1. x \in ReqTypes /\ Fit(x) /\ x.pc = "exchange" /\ x.flow \in x.copy.pending
      /\ x.flow \in Requests
  BY DEF Types, AllFit, ValidateResponse, Redeemable, Fit, FitKind
<1>2. PICK claims \in IdClaims(x.flow) :
        Goes(r, IF ExtractWebId(claims) = None THEN Answered(x, "401")
                ELSE [x EXCEPT !.pc = "claims", !.webId = ExtractWebId(claims),
                               !.issuer = claims.iss])
  BY Zenon DEF ValidateResponse
<1>3. "401" \in Answers \ {"provider", "returned"}
  BY AnswersAreTyped
<1> DEFINE webId == ExtractWebId(claims)
           issuer == claims.iss
<1>4. IF x.flow \in OwnFlows THEN issued' = issued \cup {grants[x.flow]}
                             ELSE UNCHANGED issued
  BY DEF ValidateResponse
<1>5. CASE webId = None
  <2>1. Goes(r, Answered(x, "401"))
    BY <1>2, <1>5
  <2> QED
    BY <1>1, <1>3, <1>4, <2>1, RefusedFields DEF Refused
<1>6. CASE webId # None
  <2>1. /\ issuer \in ClaimIssuers /\ webId \in WebIds
        /\ \/ x.flow \in OwnFlows /\ webId = grants[x.flow]
           \/ x.flow \notin OwnFlows /\ issuer = IssuerOf[req[x.flow].issuer]
    <3>1. CASE x.flow \in OwnFlows
      <4>1. claims = [iss |-> ServerUri, webid |-> None, sub |-> grants[x.flow],
                      subIsUri |-> TRUE]
        BY <3>1 DEF IdClaims
      <4>2. webId = grants[x.flow]
        BY <4>1, <1>6 DEF ExtractWebId
      <4>3. webId \in WebIds
        BY <1>1, <1>6, <4>2 DEF Types, UserOrNot
      <4> QED
        BY <3>1, <4>1, <4>2, <4>3 DEF ClaimIssuers
    <3>2. CASE x.flow \notin OwnFlows
      <4>1. claims \in TokenClaims /\ claims.iss = IssuerOf[req[x.flow].issuer]
        BY <3>2 DEF IdClaims
      <4> QED
        BY <3>2, <4>1, <1>6, LoginAssumption DEF ClaimIssuers
    <3> QED
      BY <3>1, <3>2
  <2>2. issuer # None
    BY <1>6, ClaimsNameIssuer
  <2>3. Goes(r, [x EXCEPT !.pc = "claims", !.webId = webId, !.issuer = issuer])
    BY <1>2, <1>6
  <2> HIDE DEF webId, issuer, x
  <2> DEFINE y == [x EXCEPT !.pc = "claims", !.webId = webId, !.issuer = issuer]
  <2>4. Claiming(x, y, webId, issuer)
    BY <1>1, <2>1, <2>2, ClaimsFields
  <2>5. Goes(r, y)
    BY <2>3
  <2> HIDE DEF y
  <2> QED
    BY <1>1, <1>4, <2>1, <2>4, <2>5 DEF Claiming, x
<1> QED
  BY <1>5, <1>6

\* A token of ours says what our own provider issued.
LEMMA AuthenticateTokenStep ==
  ASSUME Types, AllFit, NEW r \in Requests, AuthenticateToken(r)
  PROVE  LET x == req[r] IN
         /\ x.pc = "token"
         /\ \E y \in ReqTypes :
              /\ Goes(r, y)
              /\ \/ Refused(x, y) /\ y.answer \in {"401", "403"}
                 \/ \E webId \in WebIds, issuer \in ClaimIssuers :
                      /\ Claiming(x, y, webId, issuer)
                      /\ issuer = ServerUri => webId \in issued
<1> DEFINE x == req[r]
<1>1. x \in ReqTypes /\ Fit(x) /\ x.pc = "token"
  BY DEF Types, AllFit, AuthenticateToken
<1>2. PICK claims \in {c \in TokenClaims : Genuine(c)} :
        Goes(r, CASE ~FilterAudience(claims.aud) -> Answered(x, "403")
                  [] FilterAudience(claims.aud) /\ ExtractWebId(claims) = None
                       -> Answered(x, "401")
                  [] OTHER -> [x EXCEPT !.pc = "claims", !.webId = ExtractWebId(claims),
                                        !.issuer = claims.iss])
  BY Zenon DEF AuthenticateToken
<1>3. {"401", "403"} \subseteq Answers \ {"provider", "returned"}
  BY AnswersAreTyped
<1> DEFINE webId == ExtractWebId(claims)
           issuer == claims.iss
           y == [x EXCEPT !.pc = "claims", !.webId = webId, !.issuer = issuer]
<1>4. \/ \E a \in {"401", "403"} : Goes(r, Answered(x, a))
      \/ webId # None /\ Goes(r, y)
  <2>1. CASE ~FilterAudience(claims.aud)
    BY <1>2, <2>1
  <2>2. CASE FilterAudience(claims.aud)
    BY <1>2, <2>2
  <2> QED
    BY <2>1, <2>2
<1>5. CASE \E a \in {"401", "403"} : Goes(r, Answered(x, a))
  <2>1. PICK a \in {"401", "403"} : Goes(r, Answered(x, a))
    BY <1>5
  <2> QED
    BY <1>1, <1>3, <2>1, RefusedFields DEF Refused
<1>6. CASE webId # None /\ Goes(r, y)
  <2>1. issuer \in ClaimIssuers /\ webId \in WebIds
    BY <1>6, LoginAssumption DEF ClaimIssuers
  <2>2. issuer # None
    BY <1>6, ClaimsNameIssuer
  <2>3. issuer = ServerUri => webId \in issued
    BY <1>2 DEF Genuine
  <2> HIDE DEF webId, issuer, x
  <2>4. Claiming(x, y, webId, issuer)
    BY <1>1, <2>1, <2>2, ClaimsFields
  <2> HIDE DEF y
  <2> QED
    BY <1>1, <1>6, <2>1, <2>3, <2>4 DEF Claiming, x
<1> QED
  BY <1>4, <1>5, <1>6

-----------------------------------------------------------------------------
(***************************************************************************)
(* Users.                                                                  *)
(***************************************************************************)
\* The user is the one that was looked for or claimed.
Accepted(x, y) ==
  /\ y \in ReqTypes
  /\ Stays(x, y) /\ y.copy.user = x.webId /\ y.copy.pending = x.copy.pending
  /\ y.pc \in {"finish", "page"}
  /\ y.answer \notin {"provider", "wrongClient"}
  /\ y.kind = "callback" => y.flow = x.flow
  /\ Fit(y)

\* A session with the user, and what else is changed in it.
LEMMA AcceptedFit ==
  ASSUME NEW x \in ReqTypes, Fit(x), x.pc \in OpenPcs \ {"finish"},
         NEW y \in ReqTypes, Stays(x, y), y.kind # "logout", y.copy.user \in WebIds,
         \/ y.pc = "finish" /\ y.answer # "provider"
         \/ y.pc = "page" /\ y.answer = "none" /\ y.kind # "callback",
         y.kind = "callback" => y.flow = x.flow
  PROVE  Fit(y)
  BY DEF Fit, FitData, FitKind, FitUser, Claimed, LoggedIn, Stays, OpenPcs

LEMMA AcceptWebIdStep ==
  ASSUME Types, AllFit, NEW r \in Requests, Claimed(req[r]), AcceptWebId(r)
  PROVE  LET x == req[r] IN
         /\ \E y \in ReqTypes : Goes(r, y) /\ Accepted(x, y)
         /\ Proves(x.by, x.webId, x.issuer)
<1> DEFINE x == req[r]
           s == [x.copy EXCEPT !.user = x.webId]
           t == [s EXCEPT !.returnTo = None]
           z == [x EXCEPT !.copy.user = x.webId]
           y1 == Answered([z EXCEPT !.copy.returnTo = None], "returned")
           y2 == [z EXCEPT !.pc = "page"]
<1>1. x \in ReqTypes /\ Fit(x) /\ x.copy \in Sessions
  BY DEF Types, AllFit, ReqTypes
<1>2. /\ x.webId \in WebIds /\ x.webId \in SessionUsers
      /\ x.pc \in OpenPcs \ {"finish"} /\ x.answer = "none" /\ x.kind \in {"callback", "bearer"}
  BY <1>1, UsersAreTyped DEF Claimed, Fit, FitData, FitKind, OpenPcs
<1>3. Proves(x.by, x.webId, x.issuer)
  <2>1. z.by = x.by /\ z.webId = x.webId /\ z.issuer = x.issuer
    BY <1>1, Zenon DEF ReqTypes
  <2> QED
    BY <2>1, Zenon DEF AcceptWebId
<1>4. IF z.kind = "callback" THEN Goes(r, y1) ELSE Goes(r, y2)
  BY Zenon DEF AcceptWebId, ResumeUserWorkflow
<1>5. s \in Sessions /\ s.user = x.webId /\ s.pending = x.copy.pending
  BY <1>1, <1>2, UserSet
<1>6. t \in Sessions /\ t.user = x.webId /\ t.pending = x.copy.pending
  BY <1>5, NoneIsTyped, ReturnToSet
<1> HIDE DEF x
<1>7. z = [x EXCEPT !.copy = s]
  BY <1>1, Zenon DEF ReqTypes
<1>8. /\ z \in ReqTypes /\ Stays(x, z) /\ z.copy = s /\ z.pc = x.pc
      /\ z.answer = x.answer /\ z.flow = x.flow
  BY <1>1, <1>5, <1>7, CopySet
<1>9. CASE z.kind = "callback"
  <2> DEFINE w == [z EXCEPT !.copy.returnTo = None]
  <2> HIDE DEF z
  <2>1. w = [z EXCEPT !.copy = [z.copy EXCEPT !.returnTo = None]]
    BY <1>8, Zenon DEF ReqTypes
  <2>2. w = [z EXCEPT !.copy = t]
    BY <2>1, <1>8
  <2> HIDE DEF w, t
  <2>3. w \in ReqTypes /\ Stays(z, w) /\ w.copy = t /\ w.flow = z.flow
    BY <1>6, <1>8, <2>2, CopySet
  <2>4. "returned" \in Answers
    BY AnswersAreTyped
  <2> DEFINE y == Answered(w, "returned")
  <2>5. /\ y \in ReqTypes /\ y.pc = "finish" /\ y.answer = "returned" /\ Stays(w, y)
        /\ y.copy = t /\ y.flow = w.flow
    BY <2>3, <2>4, AnsweredFields
  <2>6. Goes(r, y)
    BY <1>4, <1>9 DEF w
  <2> HIDE DEF y
  <2>7. Fit(y)
    BY <1>1, <1>2, <1>6, <1>8, <2>3, <2>5, AcceptedFit DEF Stays
  <2>8. Accepted(x, y)
    BY <1>6, <1>8, <2>3, <2>5, <2>7 DEF Accepted, Stays
  <2> QED
    BY <1>3, <2>5, <2>6, <2>8 DEF x
<1>10. CASE z.kind # "callback"
  <2>1. Goes(r, y2)
    BY <1>4, <1>10
  <2> HIDE DEF z
  <2>2. /\ y2 \in ReqTypes /\ y2.pc = "page" /\ Stays(z, y2) /\ y2.copy = z.copy
        /\ y2.answer = z.answer /\ y2.flow = z.flow
    BY <1>8, PcsAreTyped, Zenon DEF ReqTypes, Stays
  <2> HIDE DEF y2, s
  <2>3. Fit(y2)
    BY <1>1, <1>2, <1>5, <1>8, <1>10, <2>2, AcceptedFit DEF Stays
  <2>4. Accepted(x, y2)
    BY <1>2, <1>5, <1>8, <1>10, <2>2, <2>3 DEF Accepted, Stays
  <2> QED
    BY <1>3, <2>1, <2>2, <2>4 DEF x
<1> QED
  BY <1>9, <1>10

LEMMA MatchPasswordStep ==
  ASSUME Types, AllFit, NEW r \in Requests, MatchPassword(r)
  PROVE  LET x == req[r] IN
         /\ x.pc = "match"
         /\ \E y \in ReqTypes : Goes(r, y) /\ Accepted(x, y) /\ y.answer # "returned"
         /\ Proves(x.by, x.webId, Password)
<1> DEFINE x == req[r]
           s == [x.copy EXCEPT !.user = x.webId]
           z == [x EXCEPT !.copy = InitUserSession(@, x.webId)]
           w1 == [z EXCEPT !.copy.app = None, !.flow = z.copy.app]
           w2 == [z EXCEPT !.copy.returnTo = None]
<1>1. x \in ReqTypes /\ Fit(x) /\ x.copy \in Sessions
  BY DEF Types, AllFit, ReqTypes
<1>2. x.pc = "match" /\ Proves(x.by, x.webId, Password) /\ Goes(r, PostLoginUrl(z))
  BY Zenon DEF MatchPassword
<1>3. /\ x.webId \in WebIds /\ x.webId \in SessionUsers
      /\ x.pc \in OpenPcs \ {"finish"} /\ x.kind = "password"
  BY <1>1, <1>2, UsersAreTyped DEF Fit, FitData, FitKind, OpenPcs
<1>4. s \in Sessions /\ s.user = x.webId /\ s.pending = x.copy.pending
  BY <1>1, <1>3, UserSet
<1>5. Goes(r, Answered(w1, "authorize")) \/ Goes(r, Answered(w2, "home"))
  BY <1>2, Zenon DEF PostLoginUrl, AuthorizeUrl
<1> HIDE DEF x
<1>6. z = [x EXCEPT !.copy = s]
  BY <1>1, Zenon DEF ReqTypes, InitUserSession
<1> HIDE DEF z
<1>7. z \in ReqTypes /\ Stays(x, z) /\ z.copy = s
  BY <1>1, <1>4, <1>6, CopySet
<1>8. s.app \in FlowOrNot
  BY <1>4, SessionFields
<1> DEFINE s1 == [s EXCEPT !.app = None]
           s2 == [s EXCEPT !.returnTo = None]
<1>9. /\ s1 \in Sessions /\ s1.user = x.webId /\ s1.pending = x.copy.pending
      /\ s2 \in Sessions /\ s2.user = x.webId /\ s2.pending = x.copy.pending
  BY <1>4, NoneIsTyped, AppSet, ReturnToSet
<1>10. w1 = [z EXCEPT !.copy = s1, !.flow = s.app] /\ w2 = [z EXCEPT !.copy = s2]
  <2>1. w1 = [z EXCEPT !.copy = [z.copy EXCEPT !.app = None], !.flow = z.copy.app]
    BY <1>7, Zenon DEF ReqTypes
  <2>2. w2 = [z EXCEPT !.copy = [z.copy EXCEPT !.returnTo = None]]
    BY <1>7, Zenon DEF ReqTypes
  <2> HIDE DEF w1, w2
  <2> QED
    BY <2>1, <2>2, <1>7, Zenon
<1> HIDE DEF w1, w2, s1, s2, s
<1>11. w1 \in ReqTypes /\ Stays(z, w1) /\ w1.copy = s1
  BY <1>7, <1>8, <1>9, <1>10, Zenon DEF ReqTypes, Stays
<1>12. w2 \in ReqTypes /\ Stays(z, w2) /\ w2.copy = s2
  BY <1>7, <1>9, <1>10, CopySet
<1>13. {"authorize", "home"} \subseteq Answers \ {"provider", "wrongClient", "returned"}
  BY AnswersAreTyped
<1>14. ASSUME NEW w \in {w1, w2}, NEW a \in {"authorize", "home"}
       PROVE  LET y == Answered(w, a) IN
                y \in ReqTypes /\ Accepted(x, y) /\ y.answer # "returned"
  <2> DEFINE y == Answered(w, a)
  <2>1. w \in ReqTypes /\ Stays(z, w) /\ w.copy \in Sessions
        /\ w.copy.user = x.webId /\ w.copy.pending = x.copy.pending
    BY <1>9, <1>11, <1>12
  <2>2. /\ y \in ReqTypes /\ y.pc = "finish" /\ y.answer = a /\ Stays(w, y)
        /\ y.copy = w.copy
    BY <1>13, <2>1, AnsweredFields
  <2> HIDE DEF y
  <2>3. Fit(y)
    BY <1>1, <1>3, <1>7, <2>1, <2>2, AcceptedFit DEF Stays
  <2>4. Accepted(x, y) /\ y.answer # "returned"
    BY <1>3, <1>7, <2>1, <2>2, <2>3 DEF Accepted, Stays
  <2> QED
    BY <2>2, <2>4 DEF y
<1> QED
  BY <1>2, <1>5, <1>14 DEF x

\* A signup ends with a session for whom it named.
LEMMA CreateAccountStep ==
  ASSUME Types, AllFit, NEW r \in Requests, CreateAccount(r)
  PROVE  LET x == req[r] IN
         /\ x.pc = "account"
         /\ \E y \in ReqTypes : Goes(r, y) /\ Accepted(x, y) /\ y.answer # "returned"
         /\ Proves(x.by, x.webId, SignedUp)
<1> DEFINE x == req[r]
           s == [x.copy EXCEPT !.user = x.webId]
           z == [x EXCEPT !.copy = InitUserSession(@, x.webId)]
           y == Answered(z, "registered")
<1>1. x \in ReqTypes /\ Fit(x) /\ x.copy \in Sessions
  BY DEF Types, AllFit, ReqTypes
<1>2. x.pc = "account" /\ Proves(x.by, x.webId, SignedUp) /\ Goes(r, y)
  BY Zenon DEF CreateAccount
<1>3. /\ x.webId \in WebIds /\ x.webId \in SessionUsers
      /\ x.pc \in OpenPcs \ {"finish"} /\ x.kind = "signup"
  BY <1>1, <1>2, UsersAreTyped DEF Fit, FitData, FitKind, OpenPcs
<1>4. s \in Sessions /\ s.user = x.webId /\ s.pending = x.copy.pending
  BY <1>1, <1>3, UserSet
<1> HIDE DEF x
<1>5. z = [x EXCEPT !.copy = s]
  BY <1>1, Zenon DEF ReqTypes, InitUserSession
<1> HIDE DEF z, s
<1>6. z \in ReqTypes /\ Stays(x, z) /\ z.copy = s
  BY <1>1, <1>4, <1>5, CopySet
<1>7. /\ y \in ReqTypes /\ y.pc = "finish" /\ y.answer = "registered" /\ Stays(z, y)
      /\ y.copy = s
  <2>1. "registered" \in Answers
    BY AnswersAreTyped
  <2> QED
    BY <1>6, <2>1, AnsweredFields
<1> HIDE DEF y
<1>8. Fit(y)
  BY <1>1, <1>3, <1>4, <1>6, <1>7, AcceptedFit DEF Stays
<1>9. Accepted(x, y) /\ y.answer # "returned"
  BY <1>3, <1>4, <1>6, <1>7, <1>8 DEF Accepted, Stays
<1> QED
  BY <1>2, <1>7, <1>9 DEF x

\* The steps that make a session somebody's, without another site.
Naming(r) == MatchPassword(r) \/ CreateAccount(r)

\* What it takes to be known by a name.
WordOf(x) == IF x.pc = "match" THEN Password ELSE SignedUp

LEMMA NamingStep ==
  ASSUME Types, AllFit, NEW r \in Requests, Naming(r)
  PROVE  LET x == req[r] IN
         /\ x.pc \in {"match", "account"}
         /\ \E y \in ReqTypes : Goes(r, y) /\ Accepted(x, y) /\ y.answer # "returned"
         /\ Proves(x.by, x.webId, WordOf(x))
<1>1. CASE MatchPassword(r)
  <2>1. req[r].pc = "match" /\ Proves(req[r].by, req[r].webId, Password)
    BY <1>1, MatchPasswordStep
  <2>2. WordOf(req[r]) = Password
    BY <2>1 DEF WordOf
  <2> QED
    BY <1>1, <2>1, <2>2, MatchPasswordStep
<1>2. CASE CreateAccount(r)
  <2>1. req[r].pc = "account" /\ Proves(req[r].by, req[r].webId, SignedUp)
    BY <1>2, CreateAccountStep
  <2>2. WordOf(req[r]) = SignedUp
    BY <2>1 DEF WordOf
  <2> QED
    BY <1>2, <2>1, <2>2, CreateAccountStep
<1> QED
  BY <1>1, <1>2 DEF Naming

-----------------------------------------------------------------------------
(***************************************************************************)
(* Answers that are sent, and the end of the process.                      *)
(***************************************************************************)
\* All that a request keeps when only its step changes.
OnlyMoves(x, y) ==
  /\ y \in ReqTypes
  /\ Stays(x, y) /\ y.copy = x.copy /\ y.flow = x.flow /\ y.issuer = x.issuer
  /\ y.client = x.client /\ y.answer = x.answer

LEMMA PcSet ==
  ASSUME NEW x \in ReqTypes, NEW pc \in Pcs
  PROVE  OnlyMoves(x, [x EXCEPT !.pc = pc]) /\ [x EXCEPT !.pc = pc].pc = pc
  BY Zenon DEF ReqTypes, OnlyMoves, Stays

LEMMA ClosedFit ==
  ASSUME NEW x, NEW y, Fit(x), OnlyMoves(x, y), x.pc # "idle",
         \/ y.pc = "lost"
         \/ y.pc = "done" /\ x.pc = "finish"
  PROVE  Fit(y)
  BY DEF Fit, FitData, FitKind, FitUser, Claimed, LoggedIn, Stays, OnlyMoves

LEMMA FinishStep ==
  ASSUME Types, AllFit, NEW r \in Requests, Finish(r)
  PROVE  /\ req[r].pc = "finish"
         /\ \E y \in ReqTypes :
              Goes(r, y) /\ OnlyMoves(req[r], y) /\ y.pc = "done" /\ Fit(y)
<1> DEFINE x == req[r]
           y == [x EXCEPT !.pc = "done"]
<1>1. x \in ReqTypes /\ Fit(x) /\ x.pc = "finish" /\ Goes(r, y)
  BY DEF Types, AllFit, Finish
<1> HIDE DEF x
<1>2. OnlyMoves(x, y) /\ y.pc = "done"
  BY <1>1, PcsAreTyped, PcSet
<1> HIDE DEF y
<1>3. Fit(y)
  BY <1>1, <1>2, ClosedFit
<1> QED
  BY <1>1, <1>2, <1>3 DEF OnlyMoves, x

LEMMA LostRequests ==
  ASSUME Types, AllFit, LoginsLost
  PROVE  /\ req' \in [Requests -> ReqTypes]
         /\ \A r \in Requests :
              /\ OnlyMoves(req[r], req'[r]) /\ Fit(req'[r])
              /\ req'[r].pc = IF req[r].pc \in {"idle", "done"} THEN req[r].pc ELSE "lost"
<1>1. req' = [r \in Requests |-> IF req[r].pc \in {"idle", "done"} THEN req[r]
                                 ELSE [req[r] EXCEPT !.pc = "lost"]]
  BY DEF LoginsLost
<1>2. ASSUME NEW r \in Requests
      PROVE  /\ OnlyMoves(req[r], req'[r]) /\ Fit(req'[r])
             /\ req'[r].pc = IF req[r].pc \in {"idle", "done"} THEN req[r].pc ELSE "lost"
  <2> DEFINE x == req[r]
             y == [x EXCEPT !.pc = "lost"]
  <2>1. x \in ReqTypes /\ Fit(x)
    BY DEF Types, AllFit
  <2>2. CASE x.pc \in {"idle", "done"}
    <3>1. req'[r] = x
      BY <1>1, <2>2
    <3> QED
      BY <2>1, <2>2, <3>1 DEF OnlyMoves, Stays
  <2>3. CASE x.pc \notin {"idle", "done"}
    <3>1. req'[r] = y
      BY <1>1, <2>3
    <3>2. OnlyMoves(x, y) /\ y.pc = "lost"
      BY <2>1, PcsAreTyped, PcSet
    <3> HIDE DEF x, y
    <3>3. Fit(y)
      BY <2>1, <2>3, <3>2, ClosedFit
    <3> QED
      BY <2>3, <3>1, <3>2, <3>3 DEF x
  <2> QED
    BY <2>2, <2>3
<1>3. \A r \in Requests : req'[r] \in ReqTypes
  BY <1>2 DEF OnlyMoves
<1>4. req' \in [Requests -> ReqTypes]
  BY <1>1, <1>3
<1> QED
  BY <1>2, <1>4

-----------------------------------------------------------------------------
(***************************************************************************)
(* Every step changes one request.                                         *)
(***************************************************************************)
Changes(r) ==
  /\ req[r].pc \in OpenPcs \cup {"idle"}
  /\ \E y \in ReqTypes :
       /\ Goes(r, y) /\ Fit(y) /\ y.pc # "idle"
       /\ req[r].pc # "idle" => Stays(req[r], y)

\* The claims that a request is accepted with are its own.
Accepting(r) == WebIdFromClaims(r) \/ ProfileConfirms(r)

LEMMA AcceptingClaims ==
  ASSUME NEW r, Accepting(r)
  PROVE  Claimed(req[r]) /\ AcceptWebId(r)
  BY DEF Accepting, WebIdFromClaims, ProfileConfirms, Claimed

LEMMA VisitCases ==
  ASSUME Visiting
  PROVE  \E r \in Requests :
           \/ Arrives(r) \/ Moving(r) \/ LoadClient(r) \/ RegisterClient(r)
           \/ PersistClient(r) \/ AuthUrl(r) \/ ValidateResponse(r)
           \/ RefuseResponse(r) \/ Accepting(r) \/ AuthenticateToken(r)
           \/ Naming(r) \/ Finish(r)
  BY Zenon DEF Visiting, LocalStep, RemoteStep, Moving, Accepting, Naming

LEMMA StepChanges ==
  ASSUME Types, AllFit, NEW r \in Requests,
         \/ Arrives(r) \/ Moving(r) \/ LoadClient(r) \/ RegisterClient(r)
         \/ PersistClient(r) \/ AuthUrl(r) \/ ValidateResponse(r)
         \/ RefuseResponse(r) \/ Accepting(r) \/ AuthenticateToken(r)
         \/ Naming(r) \/ Finish(r)
  PROVE  Changes(r)
<1>1. CASE Arrives(r)
  BY <1>1, ArrivesStep DEF Changes, Arrived, Came
<1>2. CASE Moving(r)
  BY <1>2, MovingStep DEF Changes, Worked, WorkedOn
<1>3. CASE LoadClient(r)
  BY <1>3, LoadClientStep DEF Changes, Clienting, OpenPcs
<1>4. CASE RegisterClient(r)
  BY <1>4, RegisterClientStep DEF Changes, Clienting, OpenPcs
<1>5. CASE PersistClient(r)
  BY <1>5, PersistClientStep DEF Changes, Clienting, OpenPcs
<1>6. CASE AuthUrl(r)
  BY <1>6, AuthUrlStep DEF Changes, OpenPcs
<1>7. CASE ValidateResponse(r)
  BY <1>7, ValidateResponseStep DEF Changes, Refused, Claiming, OpenPcs
<1>8. CASE RefuseResponse(r)
  BY <1>8, RefuseResponseStep DEF Changes, Refused, OpenPcs
<1>9. CASE Accepting(r)
  BY <1>9, AcceptingClaims, AcceptWebIdStep DEF Changes, Accepted, Claimed, OpenPcs
<1>10. CASE AuthenticateToken(r)
  BY <1>10, AuthenticateTokenStep DEF Changes, Refused, Claiming, OpenPcs
<1>11. CASE Naming(r)
  BY <1>11, NamingStep DEF Changes, Accepted, OpenPcs
<1>12. CASE Finish(r)
  BY <1>12, FinishStep DEF Changes, OnlyMoves, OpenPcs
<1> QED
  BY <1>1, <1>2, <1>3, <1>4, <1>5, <1>6, <1>7, <1>8, <1>9, <1>10, <1>11, <1>12

-----------------------------------------------------------------------------
(***************************************************************************)
(* The types are kept.                                                     *)
(***************************************************************************)
\* A callback is for a flow that is at a provider, and for a code of ours
\* that was given out.
Returning ==
  \A r \in Requests :
    req[r].kind = "callback" /\ req[r].pc \in {"client", "register", "persist", "exchange"} =>
      /\ req[r].flow \in Flows /\ req[r].issuer = req[req[r].flow].issuer
      /\ req[r].flow \in OwnFlows => grants[req[r].flow] # None

Sound == Types /\ AllFit /\ Returning

\* The step of one request.
Steps(r) ==
  \/ Arrives(r) \/ Moving(r) \/ LoadClient(r) \/ RegisterClient(r)
  \/ PersistClient(r) \/ AuthUrl(r) \/ ValidateResponse(r)
  \/ RefuseResponse(r) \/ Accepting(r) \/ AuthenticateToken(r)
  \/ Naming(r) \/ Finish(r)

LEMMA ChangesFrame ==
  ASSUME Types, AllFit, NEW r \in Requests, Changes(r)
  PROVE  /\ req' \in [Requests -> ReqTypes] /\ AllFit'
         /\ \A q \in Requests : q # r => req'[q] = req[q]
         /\ req[r].pc \in OpenPcs \cup {"idle"}
         /\ req'[r].pc # "idle"
         /\ req[r].pc # "idle" => Stays(req[r], req'[r])
<1>1. PICK y \in ReqTypes :
         /\ Goes(r, y) /\ Fit(y) /\ y.pc # "idle"
         /\ req[r].pc # "idle" => Stays(req[r], y)
  BY DEF Changes
<1>2. /\ req' \in [Requests -> ReqTypes]
      /\ req'[r] = y
      /\ \A q \in Requests : q # r => req'[q] = req[q]
  BY <1>1, OneChanges
<1>3. \A q \in Requests : Fit(req'[q])
  BY <1>1, <1>2 DEF AllFit
<1> QED
  BY <1>1, <1>2, <1>3 DEF AllFit, Changes

\* What is at a provider stays there.
LEMMA FlowsStay ==
  ASSUME Types, AllFit, NEW r \in Requests, Changes(r), NEW f \in Flows
  PROVE  /\ f \in Flows' /\ req'[f] = req[f] /\ f # r
         /\ f \in OwnFlows' <=> f \in OwnFlows
<1>1. f \in Requests /\ req[f].pc = "done" /\ req[f].answer = "provider"
  BY DEF Flows
<1>2. f # r
  BY <1>1, ChangesFrame DEF OpenPcs
<1>3. req'[f] = req[f]
  BY <1>1, <1>2, ChangesFrame
<1> QED
  BY <1>1, <1>2, <1>3 DEF Flows, OwnFlows

\* A code that was given out is not taken back.
LEMMA GrantsStay ==
  ASSUME Types, Granted, NEW f \in Requests, grants[f] # None
  PROVE  grants'[f] # None
  BY LoggedOutIsOut DEF Types, Granted, LoggedIn

LEMMA StepsGrant ==
  ASSUME Types, AllFit, NEW r \in Requests, Steps(r)
  PROVE  Granted
<1>1. CASE Arrives(r)
  BY <1>1, ArrivesStep
<1>2. CASE Moving(r)
  BY <1>2, MovingStep DEF Granted, Quiet
<1>3. CASE ~Arrives(r) /\ ~Moving(r)
  BY <1>3 DEF Steps, Granted, LoadClient, RegisterClient, PersistClient, AuthUrl,
     ValidateResponse, RefuseResponse, Accepting, WebIdFromClaims, ProfileConfirms,
     AcceptWebId, AuthenticateToken, Naming, MatchPassword, CreateAccount, Finish, Quiet
<1> QED
  BY <1>1, <1>2, <1>3

\* How a request comes to a step of its clients.
LEMMA StepsReturn ==
  ASSUME Types, AllFit, NEW r \in Requests, Steps(r), req'[r].kind = "callback",
         req'[r].pc \in {"client", "register", "persist", "exchange"}
  PROVE  \/ Arrives(r) /\ CameBack(req'[r])
         \/ /\ req[r].pc \in {"client", "register", "persist", "exchange"}
            /\ req'[r].flow = req[r].flow /\ req'[r].issuer = req[r].issuer
            /\ Stays(req[r], req'[r])
<1> DEFINE Same == /\ req[r].pc \in {"client", "register", "persist", "exchange"}
                   /\ req'[r].flow = req[r].flow /\ req'[r].issuer = req[r].issuer
                   /\ Stays(req[r], req'[r])
<1>1. CASE Arrives(r)
  <2>1. PICK b \in Browsers, y \in ReqTypes : Goes(r, y) /\ Came(y, b) /\ CameBack(y)
    BY <1>1, ArrivesStep DEF Arrived
  <2> QED
    BY <1>1, <2>1, OneChanges
<1>2. CASE Moving(r)
  <2>1. PICK y \in ReqTypes : Goes(r, y) /\ WorkedOn(req[r], y)
    BY <1>2, MovingStep DEF Worked
  <2>2. req'[r] = y
    BY <2>1, OneChanges
  <2> QED
    BY <2>1, <2>2 DEF WorkedOn
<1>3. CASE LoadClient(r)
  <2>1. PICK y \in ReqTypes : Goes(r, y) /\ Clienting(req[r], y)
    BY <1>3, LoadClientStep
  <2>2. req'[r] = y /\ req[r].pc = "client"
    BY <1>3, <2>1, OneChanges, LoadClientStep
  <2>3. Same
    BY <2>1, <2>2 DEF Clienting
  <2> QED
    BY <2>3
<1>4. CASE RegisterClient(r)
  <2>1. PICK y \in ReqTypes : Goes(r, y) /\ Clienting(req[r], y)
    BY <1>4, RegisterClientStep
  <2>2. req'[r] = y /\ req[r].pc = "register"
    BY <1>4, <2>1, OneChanges, RegisterClientStep
  <2>3. Same
    BY <2>1, <2>2 DEF Clienting
  <2> QED
    BY <2>3
<1>5. CASE PersistClient(r)
  <2>1. PICK y \in ReqTypes : Goes(r, y) /\ Clienting(req[r], y)
    BY <1>5, PersistClientStep
  <2>2. req'[r] = y /\ req[r].pc = "persist"
    BY <1>5, <2>1, OneChanges, PersistClientStep
  <2>3. Same
    BY <2>1, <2>2 DEF Clienting
  <2> QED
    BY <2>3
<1>6. CASE AuthUrl(r)
  <2>1. PICK y \in ReqTypes : Goes(r, y) /\ y.pc = "finish"
    BY <1>6, AuthUrlStep
  <2> QED
    BY <2>1, OneChanges
<1>7. CASE ValidateResponse(r)
  <2>1. PICK y \in ReqTypes : Goes(r, y) /\ y.pc \in {"finish", "claims"}
    BY <1>7, ValidateResponseStep DEF Refused, Claiming
  <2> QED
    BY <2>1, OneChanges
<1>8. CASE RefuseResponse(r)
  <2>1. PICK y \in ReqTypes : Goes(r, y) /\ y.pc = "finish"
    BY <1>8, RefuseResponseStep DEF Refused
  <2> QED
    BY <2>1, OneChanges
<1>9. CASE Accepting(r)
  <2>1. PICK y \in ReqTypes : Goes(r, y) /\ y.pc \in {"finish", "page"}
    BY <1>9, AcceptingClaims, AcceptWebIdStep DEF Accepted
  <2> QED
    BY <2>1, OneChanges
<1>10. CASE AuthenticateToken(r)
  <2>1. PICK y \in ReqTypes : Goes(r, y) /\ y.pc \in {"finish", "claims"}
    BY <1>10, AuthenticateTokenStep DEF Refused, Claiming
  <2> QED
    BY <2>1, OneChanges
<1>11. CASE Naming(r)
  <2>1. PICK y \in ReqTypes : Goes(r, y) /\ y.pc \in {"finish", "page"}
    BY <1>11, NamingStep DEF Accepted
  <2> QED
    BY <2>1, OneChanges
<1>12. CASE Finish(r)
  <2>1. PICK y \in ReqTypes : Goes(r, y) /\ y.pc = "done"
    BY <1>12, FinishStep
  <2> QED
    BY <2>1, OneChanges
<1> QED
  BY <1>1, <1>2, <1>3, <1>4, <1>5, <1>6, <1>7, <1>8, <1>9, <1>10, <1>11, <1>12 DEF Steps

LEMMA ReturningStep ==
  ASSUME Sound, NEW r \in Requests, Steps(r)
  PROVE  Returning'
<1>1. Changes(r) /\ Granted
  BY StepChanges, StepsGrant DEF Sound, Steps
<1>2. SUFFICES ASSUME NEW q \in Requests, req'[q].kind = "callback",
                      req'[q].pc \in {"client", "register", "persist", "exchange"}
               PROVE  /\ req'[q].flow \in Flows'
                      /\ req'[q].issuer = req'[req'[q].flow].issuer
                      /\ req'[q].flow \in OwnFlows' => grants'[req'[q].flow] # None
  BY DEF Returning
<1>3. \E f \in Flows :
        /\ req'[q].flow = f /\ req'[q].issuer = req[f].issuer
        /\ f \in OwnFlows => grants[f] # None
  <2>1. CASE q # r
    <3>1. req'[q] = req[q]
      BY <1>1, <2>1, ChangesFrame DEF Sound
    <3> QED
      BY <1>2, <3>1 DEF Sound, Returning
  <2>2. CASE q = r /\ CameBack(req'[q])
    BY <1>2, <2>2 DEF CameBack
  <2>3. CASE /\ q = r
             /\ req[r].pc \in {"client", "register", "persist", "exchange"}
             /\ req'[r].flow = req[r].flow /\ req'[r].issuer = req[r].issuer
             /\ Stays(req[r], req'[r])
    BY <1>2, <2>3 DEF Sound, Returning, Stays
  <2> QED
    BY <1>2, <2>1, <2>2, <2>3, StepsReturn DEF Sound
<1>4. PICK f \in Flows :
        /\ req'[q].flow = f /\ req'[q].issuer = req[f].issuer
        /\ f \in OwnFlows => grants[f] # None
  BY <1>3
<1>5. f \in Flows' /\ req'[f] = req[f] /\ (f \in OwnFlows' <=> f \in OwnFlows)
  BY <1>1, FlowsStay DEF Sound
<1>6. f \in Requests
  BY DEF Flows
<1> QED
  BY <1>1, <1>4, <1>5, <1>6, GrantsStay DEF Sound

\* The proofs there may be: a password, a signup, or an issuer.
LEMMA ProvesTyped ==
  ASSUME Types, NEW b \in Browsers, NEW user \in WebIds,
         NEW how \in {Password, SignedUp} \cup ClaimIssuers, Proves(b, user, how)
  PROVE  /\ entitled' \in [Browsers -> SUBSET Proofs] /\ proved' \subseteq Proofs
<1>1. [user |-> user, how |-> how] \in Proofs
  BY DEF Proofs, ClaimIssuers
<1> QED
  BY <1>1 DEF Types, Proves

\* What the stores are after a step of one request.
LEMMA StoreTypes ==
  ASSUME Sound, NEW r \in Requests, Steps(r)
  PROVE  /\ session' \in [Browsers -> Sessions]
         /\ clients' \in [Issuers -> ClientOrNot]
         /\ opClients' \subseteq Requests
         /\ grants' \in [Requests -> UserOrNot]
         /\ issued' \subseteq WebIds
         /\ spent' \subseteq Requests
         /\ doubled' \subseteq Issuers
         /\ entitled' \in [Browsers -> SUBSET Proofs]
         /\ proved' \subseteq Proofs
         /\ traffic' \in Traffics
<1> USE DEF Sound
<1>0. Fit(req[r]) /\ req[r] \in ReqTypes /\ Types
  BY DEF Types, AllFit
<1>1. CASE Arrives(r)
  <2>1. UNCHANGED <<session, clients, opClients, issued, spent, doubled, entitled,
                    proved, traffic>> /\ Granted
    BY <1>1, ArrivesStep
  <2>2. grants' \in [Requests -> UserOrNot]
    BY <1>0, <2>1, UsersAreTyped DEF Granted, Types, LoggedIn
  <2> QED
    BY <1>0, <2>1, <2>2 DEF Types
<1>2. CASE Moving(r)
  BY <1>0, <1>2, MovingStep DEF Quiet, Types
<1>3. CASE LoadClient(r)
  <2>1. req[r].issuer \in Issuers
    BY <1>0, <1>3 DEF Fit, FitData, LoadClient
  <2>2. doubled' \subseteq doubled \cup {req[r].issuer}
    BY <1>3 DEF LoadClient
  <2>3. UNCHANGED <<session, clients, opClients, grants, issued, spent, entitled,
                    proved, traffic>>
    BY <1>3 DEF LoadClient
  <2> QED
    BY <1>0, <2>1, <2>2, <2>3 DEF Types
<1>4. CASE RegisterClient(r)
  BY <1>0, <1>4, RegisterClientStep DEF RegisterClient, Types
<1>5. CASE PersistClient(r)
  <2>1. clients' = [clients EXCEPT ![req[r].issuer] = req[r].client]
    BY <1>5 DEF PersistClient
  <2>2. req[r].client \in ClientOrNot
    BY <1>0 DEF ReqTypes
  <2> QED
    BY <1>0, <1>5, <2>1, <2>2 DEF PersistClient, Types
<1>6. CASE AuthUrl(r)
  BY <1>0, <1>6 DEF AuthUrl, Quiet, Types
<1>7. CASE ValidateResponse(r)
  <2>1. /\ req[r].kind = "callback" /\ req[r].pc = "exchange" /\ req[r].flow \in Requests
    BY <1>0, <1>7 DEF Fit, FitKind, ValidateResponse
  <2>2. req[r].flow \in OwnFlows => grants[req[r].flow] \in WebIds
    BY <1>0, <2>1 DEF Returning, Types, UserOrNot
  <2>3. issued' \subseteq WebIds
    BY <1>0, <1>7, <2>2, ValidateResponseStep DEF Types
  <2>4. spent' \subseteq Requests
    BY <1>0, <1>7, <2>1 DEF ValidateResponse, Types
  <2>5. UNCHANGED <<session, clients, opClients, grants, doubled, entitled, proved, traffic>>
    BY <1>7 DEF ValidateResponse
  <2> QED
    BY <1>0, <2>3, <2>4, <2>5 DEF Types
<1>8. CASE RefuseResponse(r)
  BY <1>0, <1>8 DEF RefuseResponse, Quiet, Types
<1>9. CASE Accepting(r)
  <2>1. Claimed(req[r]) /\ AcceptWebId(r)
    BY <1>9, AcceptingClaims
  <2>2. /\ req[r].by \in Browsers /\ req[r].webId \in WebIds
        /\ req[r].issuer \in {Password, SignedUp} \cup ClaimIssuers
    BY <1>0, <2>1 DEF Fit, FitData, Claimed
  <2>3. Proves(req[r].by, req[r].webId, req[r].issuer)
    BY <2>1, AcceptWebIdStep
  <2>4. entitled' \in [Browsers -> SUBSET Proofs] /\ proved' \subseteq Proofs
    BY <1>0, <2>2, <2>3, ProvesTyped
  <2>5. UNCHANGED <<session, clients, opClients, grants, issued, spent, doubled, traffic>>
    BY <2>1 DEF AcceptWebId
  <2> QED
    BY <1>0, <2>4, <2>5 DEF Types
<1>10. CASE AuthenticateToken(r)
  BY <1>0, <1>10 DEF AuthenticateToken, Quiet, Types
<1>11. CASE Naming(r)
  <2>1. req[r].pc \in {"match", "account"} /\ Proves(req[r].by, req[r].webId, WordOf(req[r]))
    BY <1>11, NamingStep
  <2>2. /\ req[r].by \in Browsers /\ req[r].webId \in WebIds
        /\ WordOf(req[r]) \in {Password, SignedUp} \cup ClaimIssuers
    BY <1>0, <2>1 DEF Fit, FitData, WordOf
  <2>3. entitled' \in [Browsers -> SUBSET Proofs] /\ proved' \subseteq Proofs
    BY <1>0, <2>1, <2>2, ProvesTyped
  <2>4. UNCHANGED <<session, clients, opClients, grants, issued, spent, doubled, traffic>>
    BY <1>11 DEF Naming, MatchPassword, CreateAccount
  <2> QED
    BY <1>0, <2>3, <2>4 DEF Types
<1>12. CASE Finish(r)
  <2> DEFINE b == req[r].by
             saved == req[r].copy # req[r].orig
  <2>1. /\ session' = IF saved THEN [session EXCEPT ![b] = req[r].copy] ELSE session
        /\ entitled' = IF saved /\ req[r].kind = "logout"
                         THEN [entitled EXCEPT ![b] = StillHeld(r)] ELSE entitled
        /\ UNCHANGED <<clients, opClients, grants, issued, spent, doubled, proved, traffic>>
    BY <1>12 DEF Finish
  <2>2. req[r].copy \in Sessions /\ b \in Browsers
    BY <1>0, <1>12 DEF ReqTypes, Fit, FitData, Finish
  <2>3. StillHeld(r) \subseteq Proofs
    BY <1>0, <2>2 DEF StillHeld, Types
  <2>4. session' \in [Browsers -> Sessions]
    BY <1>0, <2>1, <2>2 DEF Types
  <2>5. entitled' \in [Browsers -> SUBSET Proofs]
    BY <1>0, <2>1, <2>3 DEF Types
  <2> QED
    BY <1>0, <2>1, <2>4, <2>5 DEF Types
<1> QED
  BY <1>1, <1>2, <1>3, <1>4, <1>5, <1>6, <1>7, <1>8, <1>9, <1>10, <1>11, <1>12 DEF Steps

LEMMA SoundVisits ==
  ASSUME Sound, NEW r \in Requests, Steps(r)
  PROVE  Sound'
<1>1. Changes(r)
  BY StepChanges DEF Sound, Steps
<1>2. req' \in [Requests -> ReqTypes] /\ AllFit'
  BY <1>1, ChangesFrame DEF Sound
<1>3. Types'
  BY <1>2, StoreTypes DEF Types
<1> QED
  BY <1>2, <1>3, ReturningStep DEF Sound

LEMMA SoundLost ==
  ASSUME Sound, LoginsLost
  PROVE  Sound'
<1>1. /\ req' \in [Requests -> ReqTypes]
      /\ \A r \in Requests :
           /\ OnlyMoves(req[r], req'[r]) /\ Fit(req'[r])
           /\ req'[r].pc = IF req[r].pc \in {"idle", "done"} THEN req[r].pc ELSE "lost"
  BY LostRequests DEF Sound
<1>2. Types'
  BY <1>1, NewSessionFields, NoneIsTyped DEF Sound, Types, LoginsLost
<1>3. AllFit' /\ Returning'
  BY <1>1 DEF AllFit, Returning
<1> QED
  BY <1>2, <1>3 DEF Sound

LEMMA SoundUnchanged ==
  ASSUME Sound, UNCHANGED lvars
  PROVE  Sound'
<1>1. Types' /\ AllFit'
  BY DEF Sound, Types, AllFit, lvars
<1>2. Flows' = Flows /\ OwnFlows' = OwnFlows
  BY DEF Flows, OwnFlows, lvars
<1>3. Returning'
  BY <1>2 DEF Sound, Returning, lvars
<1> QED
  BY <1>1, <1>3 DEF Sound

LEMMA SoundInitially ==
  ASSUME LoginInit
  PROVE  Sound
<1>1. \A r \in Requests : req[r] = NoRequest
  BY DEF LoginInit
<1>2. Types
  BY NewSessionFields, NoRequestFields, NoneIsTyped DEF LoginInit, Types
<1>3. Fit(NoRequest)
  BY NoRequestFields, NewSessionFields, LoggedOutIsOut DEF Fit, FitData, FitKind, FitUser,
     Claimed, LoggedIn
<1> QED
  BY <1>1, <1>2, <1>3, NoRequestFields DEF Sound, AllFit, Returning

\* The types of the module, as the sets above have them.
LEMMA TypesAreRight ==
  ASSUME Sound
  PROVE  LoginTypeOK
<1>1. ASSUME NEW r \in Requests
      PROVE  /\ req[r].pc \in {"idle", "stuck", "done", "lost"} \cup RemotePcs \cup LocalPcs
             /\ req[r].copy \in Sessions
             /\ req[r].orig \in Sessions
             /\ req[r].pc # "idle" => req[r].by \in Browsers
             /\ req[r].actsFor \in WebIds \cup {None}
             /\ req[r].query \subseteq Queries
             /\ req[r].client \in Requests \cup {NoClient}
  <2>1. req[r] \in ReqTypes /\ Fit(req[r])
    BY DEF Sound, Types, AllFit
  <2>2. req[r].pc \in {"idle", "stuck", "done", "lost"} \cup RemotePcs \cup LocalPcs
    BY <2>1 DEF ReqTypes, Pcs, RemotePcs, LocalPcs
  <2>3. /\ req[r].copy \in Sessions /\ req[r].orig \in Sessions
        /\ req[r].actsFor \in WebIds \cup {None} /\ req[r].query \subseteq Queries
        /\ req[r].client \in Requests \cup {NoClient}
    BY <2>1 DEF ReqTypes, UserOrNot, QuerySets, ClientOrNot
  <2> QED
    BY <2>1, <2>2, <2>3 DEF Fit, FitData
<1> QED
  BY <1>1 DEF Sound, Types, LoginTypeOK, UserOrNot, ClientOrNot

-----------------------------------------------------------------------------
(***************************************************************************)
(* Who a session is logged in as.                                          *)
(***************************************************************************)
\* The steps that leave the user of their request alone.
Keeping(r) ==
  \/ Moving(r) \/ LoadClient(r) \/ RegisterClient(r) \/ PersistClient(r)
  \/ AuthUrl(r) \/ ValidateResponse(r) \/ RefuseResponse(r) \/ AuthenticateToken(r)

LEMMA KeepingStep ==
  ASSUME Types, AllFit, NEW r \in Requests, Keeping(r)
  PROVE  /\ req[r].pc \in OpenPcs
         /\ Stays(req[r], req'[r]) /\ req'[r].copy.user = req[r].copy.user
         /\ req'[r].copy.pending \subseteq req[r].copy.pending \cup {r}
         /\ AuthUrl(r) \/ req'[r].copy.pending = req[r].copy.pending
         /\ req'[r].answer # "returned"
         /\ UNCHANGED <<session, entitled, proved>>
<1>1. CASE Moving(r)
  <2>1. PICK y \in ReqTypes : Goes(r, y) /\ WorkedOn(req[r], y)
    BY <1>1, MovingStep DEF Worked
  <2> QED
    BY <1>1, <2>1, OneChanges, MovingStep DEF WorkedOn, Special, Quiet
<1>2. CASE LoadClient(r)
  <2>1. PICK y \in ReqTypes : Goes(r, y) /\ Clienting(req[r], y)
    BY <1>2, LoadClientStep
  <2> QED
    BY <1>2, <2>1, OneChanges DEF Clienting, LoadClient, OpenPcs
<1>3. CASE RegisterClient(r)
  <2>1. PICK y \in ReqTypes : Goes(r, y) /\ Clienting(req[r], y)
    BY <1>3, RegisterClientStep
  <2> QED
    BY <1>3, <2>1, OneChanges DEF Clienting, RegisterClient, OpenPcs
<1>4. CASE PersistClient(r)
  <2>1. PICK y \in ReqTypes : Goes(r, y) /\ Clienting(req[r], y)
    BY <1>4, PersistClientStep
  <2> QED
    BY <1>4, <2>1, OneChanges DEF Clienting, PersistClient, OpenPcs
<1>5. CASE AuthUrl(r)
  <2>1. PICK y \in ReqTypes :
          /\ Goes(r, y) /\ Stays(req[r], y) /\ y.copy.user = req[r].copy.user
          /\ y.copy.pending = req[r].copy.pending \cup {r} /\ y.answer = "provider"
    BY <1>5, AuthUrlStep
  <2> QED
    BY <1>5, <2>1, OneChanges DEF AuthUrl, Quiet, OpenPcs
<1>6. CASE ValidateResponse(r)
  <2>1. PICK y \in ReqTypes :
          /\ Goes(r, y) /\ Stays(req[r], y) /\ y.copy = req[r].copy /\ y.answer # "returned"
    BY <1>6, ValidateResponseStep DEF Refused, Claiming
  <2> QED
    BY <1>6, <2>1, OneChanges DEF ValidateResponse, OpenPcs
<1>7. CASE RefuseResponse(r)
  <2>1. PICK y \in ReqTypes : Goes(r, y) /\ Refused(req[r], y)
    BY <1>7, RefuseResponseStep
  <2> QED
    BY <1>7, <2>1, OneChanges DEF RefuseResponse, Refused, Quiet, OpenPcs
<1>8. CASE AuthenticateToken(r)
  <2>1. PICK y \in ReqTypes :
          /\ Goes(r, y) /\ Stays(req[r], y) /\ y.copy = req[r].copy /\ y.answer # "returned"
    BY <1>8, AuthenticateTokenStep DEF Refused, Claiming
  <2> QED
    BY <1>8, <2>1, OneChanges DEF AuthenticateToken, Quiet, OpenPcs
<1> QED
  BY <1>1, <1>2, <1>3, <1>4, <1>5, <1>6, <1>7, <1>8 DEF Keeping

\* The others: an arrival, a proof, an answer.
LEMMA ArrivesChange ==
  ASSUME Types, AllFit, NEW r \in Requests, Arrives(r)
  PROVE  /\ req[r].pc = "idle"
         /\ \E b \in Browsers : Came(req'[r], b) /\ CameBack(req'[r])
         /\ UNCHANGED <<session, clients, issued, doubled, entitled, proved>>
<1>1. PICK b \in Browsers, y \in ReqTypes : Goes(r, y) /\ Came(y, b) /\ CameBack(y)
  BY ArrivesStep DEF Arrived
<1> QED
  BY <1>1, OneChanges, ArrivesStep

Proving(r) == Accepting(r) \/ Naming(r)

\* What a user is known by when they are accepted.
ProofOf(x) == IF x.pc \in {"match", "account"} THEN WordOf(x) ELSE x.issuer

LEMMA ProvingStep ==
  ASSUME Types, AllFit, NEW r \in Requests, Proving(r)
  PROVE  /\ Claimed(req[r]) \/ req[r].pc \in {"match", "account"}
         /\ Accepted(req[r], req'[r])
         /\ req'[r].answer = "returned" => Claimed(req[r])
         /\ Proves(req[r].by, req[r].webId, ProofOf(req[r]))
         /\ UNCHANGED <<session, clients, grants, issued, doubled>>
<1>1. CASE Accepting(r)
  <2>1. Claimed(req[r]) /\ AcceptWebId(r)
    BY <1>1, AcceptingClaims
  <2>2. /\ \E y \in ReqTypes : Goes(r, y) /\ Accepted(req[r], y)
        /\ Proves(req[r].by, req[r].webId, req[r].issuer)
    BY <2>1, AcceptWebIdStep
  <2>3. PICK y \in ReqTypes : Goes(r, y) /\ Accepted(req[r], y)
    BY <2>2
  <2>4. ProofOf(req[r]) = req[r].issuer
    BY <2>1 DEF ProofOf, Claimed
  <2>5. UNCHANGED <<session, clients, grants, issued, doubled>>
    BY <2>1 DEF AcceptWebId
  <2> QED
    BY <2>1, <2>2, <2>3, <2>4, <2>5, OneChanges
<1>2. CASE Naming(r)
  <2>1. PICK y \in ReqTypes : Goes(r, y) /\ Accepted(req[r], y) /\ y.answer # "returned"
    BY <1>2, NamingStep
  <2>2. /\ req[r].pc \in {"match", "account"}
        /\ Proves(req[r].by, req[r].webId, WordOf(req[r]))
    BY <1>2, NamingStep
  <2>3. UNCHANGED <<session, clients, grants, issued, doubled>>
    BY <1>2 DEF Naming, MatchPassword, CreateAccount
  <2>4. ProofOf(req[r]) = WordOf(req[r])
    BY <2>2 DEF ProofOf
  <2> QED
    BY <2>1, <2>2, <2>3, <2>4, OneChanges
<1> QED
  BY <1>1, <1>2 DEF Proving

LEMMA FinishChange ==
  ASSUME Types, AllFit, NEW r \in Requests, Finish(r)
  PROVE  LET x == req[r] IN
         /\ x.pc = "finish" /\ req'[r].pc = "done" /\ OnlyMoves(x, req'[r])
         /\ session' = IF x.copy # x.orig THEN [session EXCEPT ![x.by] = x.copy]
                       ELSE session
         /\ entitled' = IF x.copy # x.orig /\ x.kind = "logout"
                        THEN [entitled EXCEPT ![x.by] = StillHeld(r)] ELSE entitled
         /\ UNCHANGED <<clients, grants, issued, doubled, proved>>
         /\ x.by \in Browsers
<1>1. PICK y \in ReqTypes : Goes(r, y) /\ OnlyMoves(req[r], y) /\ y.pc = "done"
  BY FinishStep
<1>2. req[r].pc = "finish" /\ req[r].by \in Browsers
  BY DEF Finish, AllFit, Fit, FitData
<1> QED
  BY <1>1, <1>2, OneChanges DEF Finish

LEMMA StepKinds ==
  ASSUME NEW r, Steps(r)
  PROVE  Arrives(r) \/ Keeping(r) \/ Proving(r) \/ Finish(r)
  BY DEF Steps, Keeping, Proving

\* Requests under way, by their steps.
LEMMA OpenIs ==
  \A r : r \in Open <=> r \in Requests /\ req[r].pc \in OpenPcs
  BY DEF Open, OpenPcs, RemotePcs, LocalPcs

UsersOf(proofs) == {e.user : e \in proofs}

Entitles ==
  /\ \A b \in Browsers : LoggedIn(session[b]) => session[b].user \in UsersOf(entitled[b])
  /\ \A r \in Requests : req[r].pc \in OpenPcs /\ LoggedIn(req[r].copy) =>
       req[r].copy.user \in UsersOf(entitled[req[r].by])

LEMMA EntitledIs ==
  UserIsEntitled <=> Entitles
  BY OpenIs DEF UserIsEntitled, Entitles, UsersOf

LEMMA EntitledStep ==
  ASSUME Sound, UserIsEntitled, NEW r \in Requests, Steps(r)
  PROVE  UserIsEntitled'
<1>0. Types /\ AllFit /\ Changes(r)
  BY StepChanges DEF Sound, Steps
<1>1. Entitles
  BY EntitledIs
<1>2. \A q \in Requests : q # r => req'[q] = req[q]
  BY <1>0, ChangesFrame
<1>3. Entitles'
  <2>1. CASE Arrives(r)
    <3>1. PICK b \in Browsers : Came(req'[r], b)
      BY <1>0, <2>1, ArrivesChange
    <3>2. UNCHANGED <<session, entitled>>
      BY <1>0, <2>1, ArrivesChange
    <3>3. LoggedIn(req'[r].copy) => req'[r].copy.user \in UsersOf(entitled'[req'[r].by])
      BY <1>1, <3>1, <3>2, LoggedOutIsOut DEF Came, LoggedIn, Entitles
    <3> QED
      BY <1>1, <1>2, <3>2, <3>3 DEF Entitles
  <2>2. CASE Keeping(r)
    <3>1. /\ req[r].pc \in OpenPcs /\ Stays(req[r], req'[r])
          /\ req'[r].copy.user = req[r].copy.user /\ UNCHANGED <<session, entitled>>
      BY <1>0, <2>2, KeepingStep
    <3>2. LoggedIn(req'[r].copy) => req'[r].copy.user \in UsersOf(entitled'[req'[r].by])
      BY <1>1, <3>1 DEF Stays, LoggedIn, Entitles
    <3> QED
      BY <1>1, <1>2, <3>1, <3>2 DEF Entitles
  <2>3. CASE Proving(r)
    <3>1. /\ Accepted(req[r], req'[r]) /\ UNCHANGED session
          /\ Proves(req[r].by, req[r].webId, ProofOf(req[r]))
          /\ req[r].pc # "idle"
      BY <1>0, <2>3, ProvingStep DEF Claimed
    <3>2. req[r].by \in Browsers
      BY <1>0, <3>1 DEF AllFit, Fit, FitData
    <3> DEFINE e == [user |-> req[r].webId, how |-> ProofOf(req[r])]
    <3>3. entitled' = [entitled EXCEPT ![req[r].by] = entitled[req[r].by] \cup {e}]
      BY <3>1 DEF Proves
    <3>4. e.user = req[r].webId
      OBVIOUS
    <3> HIDE DEF e
    <3>5. \A b \in Browsers : entitled[b] \subseteq entitled'[b]
      BY <1>0, <3>3 DEF Types
    <3>6. e \in entitled'[req[r].by]
      BY <1>0, <3>2, <3>3 DEF Types
    <3>7. \A b \in Browsers : UsersOf(entitled[b]) \subseteq UsersOf(entitled'[b])
      BY <3>5 DEF UsersOf
    <3>8. req'[r].copy.user \in UsersOf(entitled'[req'[r].by])
      BY <3>1, <3>4, <3>6 DEF UsersOf, Accepted, Stays
    <3>9. \A q \in Requests : req[q].pc \in OpenPcs => req[q].by \in Browsers
      BY <1>0 DEF AllFit, Fit, FitData, OpenPcs
    <3> QED
      BY <1>1, <1>2, <3>1, <3>7, <3>8, <3>9 DEF Entitles
  <2>4. CASE Finish(r)
    <3> DEFINE x == req[r]
    <3>1. /\ x.pc = "finish" /\ req'[r].pc = "done" /\ x.by \in Browsers
          /\ session' = IF x.copy # x.orig THEN [session EXCEPT ![x.by] = x.copy] ELSE session
          /\ entitled' = IF x.copy # x.orig /\ x.kind = "logout"
                        THEN [entitled EXCEPT ![x.by] = StillHeld(r)] ELSE entitled
      BY <1>0, <2>4, FinishChange
    <3>2. "done" \notin OpenPcs /\ "finish" \in OpenPcs
      BY DEF OpenPcs
    <3>3. \A b \in Browsers : session'[b] =
            IF b = x.by /\ x.copy # x.orig THEN x.copy ELSE session[b]
      BY <1>0, <3>1 DEF Types
    <3>4. CASE ~(x.copy # x.orig /\ x.kind = "logout")
      <4>1. entitled' = entitled
        BY <3>1, <3>4
      <4> QED
        BY <1>1, <1>2, <3>1, <3>2, <3>3, <4>1 DEF Entitles
    <3>5. CASE x.copy # x.orig /\ x.kind = "logout"
      <4>1. \A b \in Browsers : entitled'[b] = IF b = x.by THEN StillHeld(r) ELSE entitled[b]
        BY <1>0, <3>1, <3>5 DEF Types
      <4>2. ~LoggedIn(x.copy)
        BY <1>0, <3>5 DEF AllFit, Fit, FitUser
      <4>3. \A b \in Browsers : LoggedIn(session'[b]) => session'[b].user \in UsersOf(entitled'[b])
        BY <1>1, <3>3, <3>5, <4>1, <4>2 DEF Entitles
      <4>4. ASSUME NEW q \in Requests, req'[q].pc \in OpenPcs, LoggedIn(req'[q].copy)
            PROVE  req'[q].copy.user \in UsersOf(entitled'[req'[q].by])
        <5>1. q # r /\ req'[q] = req[q]
          BY <1>2, <3>1, <3>2, <4>4
        <5>2. req[q].copy.user \in UsersOf(entitled[req[q].by]) /\ req[q].by \in Browsers
          BY <1>0, <1>1, <4>4, <5>1 DEF Entitles, AllFit, Fit, FitData, OpenPcs
        <5>3. PICK e \in entitled[req[q].by] : e.user = req[q].copy.user
          BY <5>2 DEF UsersOf
        <5>4. CASE req[q].by = x.by
          <6>1. q \in Open \ {r}
            BY <4>4, <5>1, OpenIs
          <6>2. e \in StillHeld(r)
            BY <5>3, <5>4, <6>1 DEF StillHeld
          <6> QED
            BY <3>1, <4>1, <5>1, <5>3, <5>4, <6>2 DEF UsersOf
        <5>5. CASE req[q].by # x.by
          BY <4>1, <5>1, <5>2, <5>5 DEF UsersOf
        <5> QED
          BY <5>4, <5>5
      <4> QED
        BY <4>3, <4>4 DEF Entitles
    <3> QED
      BY <3>4, <3>5
  <2> QED
    BY <2>1, <2>2, <2>3, <2>4, StepKinds
<1> QED
  BY <1>3, EntitledIs, PTL

-----------------------------------------------------------------------------
(***************************************************************************)
(* Logins are kept, and end where they began.                              *)
(***************************************************************************)
\* What LoginsAreKept says of one step.
Kept ==
  \A b \in Browsers :
    LoggedIn(session[b]) /\ ~LoggedIn(session'[b]) =>
      \/ phase' = "down"
      \/ \E r \in Requests :
           /\ req[r].pc = "finish" /\ req'[r].pc = "done" /\ req[r].by = b
           /\ req[r].kind = "logout" \/ req[r].orig # session[b]

LEMMA KeptStep ==
  ASSUME Sound, NEW r \in Requests, Steps(r)
  PROVE  Kept
<1>0. Types /\ AllFit
  BY DEF Sound
<1>1. CASE ~Finish(r)
  <2>1. session' = session
    BY <1>0, <1>1, StepKinds, ArrivesChange, KeepingStep, ProvingStep
  <2> QED
    BY <2>1 DEF Kept
<1>2. CASE Finish(r)
  <2> DEFINE x == req[r]
  <2>1. /\ x.pc = "finish" /\ req'[r].pc = "done"
        /\ session' = IF x.copy # x.orig THEN [session EXCEPT ![x.by] = x.copy] ELSE session
    BY <1>0, <1>2, FinishChange
  <2>2. FitUser(x)
    BY <1>0 DEF AllFit, Fit
  <2>3. ASSUME NEW b \in Browsers, LoggedIn(session[b]), ~LoggedIn(session'[b])
        PROVE  x.by = b /\ (x.kind = "logout" \/ x.orig # session[b])
    <3>1. session'[b] = x.copy /\ x.by = b
      BY <1>0, <2>1, <2>3 DEF Types
    <3> QED
      BY <2>2, <2>3, <3>1 DEF FitUser
  <2> QED
    BY <2>1, <2>3 DEF Kept
<1> QED
  BY <1>1, <1>2

\* A request that is answered is only sent.
LEMMA OnlyFinish ==
  ASSUME NEW r, Steps(r), req[r].pc \in {"finish", "done", "lost", "stuck"}
  PROVE  req[r].pc = "finish" /\ Finish(r)
<1>1. ~Arrives(r)
  BY DEF Arrives, GetLogin, LoginPassword, Signup, SelectProvider, Callback, Bearer,
     Authorize, Page, WalletGet, Prove, Present, Logout, InTraffic
<1>2. ~Moving(r)
  BY DEF Moving, FindUser, FindUserFails, RefusePassword, AskProfile, ServePage, SigningKey,
     PreferredProviderFor, RefuseSignup, ProfileDenies, ProfileNames, RemoteFails, RemotePcs
<1>3. /\ ~LoadClient(r) /\ ~RegisterClient(r) /\ ~PersistClient(r) /\ ~AuthUrl(r)
      /\ ~ValidateResponse(r) /\ ~RefuseResponse(r) /\ ~AuthenticateToken(r)
      /\ ~Naming(r)
  BY DEF LoadClient, RegisterClient, PersistClient, AuthUrl, ValidateResponse,
     RefuseResponse, AuthenticateToken, Naming, MatchPassword, CreateAccount
<1>4. ~Accepting(r)
  BY DEF Accepting, WebIdFromClaims, ProfileConfirms
<1> QED
  BY <1>1, <1>2, <1>3, <1>4 DEF Steps, Finish

\* How a request comes to have claims.
LEMMA StepsClaim ==
  ASSUME Types, AllFit, NEW r \in Requests, Steps(r), Claimed(req'[r])
  PROVE  /\ req'[r].flow = req[r].flow /\ Stays(req[r], req'[r])
         /\ req'[r].copy.pending = req[r].copy.pending
         /\ \/ /\ Claimed(req[r])
               /\ req'[r].issuer = req[r].issuer /\ req'[r].webId = req[r].webId
            \/ /\ ValidateResponse(r) /\ req[r].flow \in req[r].copy.pending
               /\ \/ /\ req[r].flow \in OwnFlows /\ req'[r].webId = grants[req[r].flow]
                     /\ issued' = issued \cup {req'[r].webId}
                  \/ /\ req[r].flow \notin OwnFlows
                     /\ req'[r].issuer = IssuerOf[req[req[r].flow].issuer]
                     /\ req[r].kind = "callback" /\ req[r].pc = "exchange"
            \/ /\ AuthenticateToken(r) /\ req[r].kind = "bearer"
               /\ req'[r].issuer = ServerUri => req'[r].webId \in issued
<1>1. CASE Arrives(r)
  BY <1>1, ArrivesChange DEF Came, Claimed
<1>2. CASE Moving(r)
  <2>1. PICK y \in ReqTypes : Goes(r, y) /\ WorkedOn(req[r], y)
    BY <1>2, MovingStep DEF Worked
  <2> QED
    BY <2>1, OneChanges DEF WorkedOn
<1>3. CASE LoadClient(r)
  <2>1. PICK y \in ReqTypes : Goes(r, y) /\ y.pc \in {"exchange", "authUrl", "register"}
    BY <1>3, LoadClientStep
  <2> QED
    BY <2>1, OneChanges DEF Claimed
<1>4. CASE RegisterClient(r)
  <2>1. PICK y \in ReqTypes : Goes(r, y) /\ y.pc = "persist"
    BY <1>4, RegisterClientStep
  <2> QED
    BY <2>1, OneChanges DEF Claimed
<1>5. CASE PersistClient(r)
  <2>1. PICK y \in ReqTypes : Goes(r, y) /\ y.pc \in {"exchange", "authUrl"}
    BY <1>5, PersistClientStep
  <2> QED
    BY <2>1, OneChanges DEF Claimed
<1>6. CASE AuthUrl(r)
  <2>1. PICK y \in ReqTypes : Goes(r, y) /\ y.pc = "finish"
    BY <1>6, AuthUrlStep
  <2> QED
    BY <2>1, OneChanges DEF Claimed
<1>7. CASE ValidateResponse(r)
  <2>1. PICK y \in ReqTypes :
              /\ Goes(r, y)
              /\ \/ Refused(req[r], y) /\ y.answer = "401"
                 \/ \E webId \in WebIds, issuer \in ClaimIssuers :
                      /\ Claiming(req[r], y, webId, issuer)
                      /\ \/ req[r].flow \in OwnFlows /\ webId = grants[req[r].flow]
                         \/ /\ req[r].flow \notin OwnFlows
                            /\ issuer = IssuerOf[req[req[r].flow].issuer]
    BY <1>7, ValidateResponseStep
  <2>2. req'[r] = y
    BY <2>1, OneChanges
  <2>3. ~Refused(req[r], y)
    BY <2>2 DEF Refused, Claimed
  <2>4. PICK webId \in WebIds, issuer \in ClaimIssuers :
             /\ Claiming(req[r], y, webId, issuer)
             /\ \/ req[r].flow \in OwnFlows /\ webId = grants[req[r].flow]
                \/ /\ req[r].flow \notin OwnFlows
                   /\ issuer = IssuerOf[req[req[r].flow].issuer]
    BY <2>1, <2>3
  <2>5. /\ req[r].pc = "exchange" /\ req[r].flow \in req[r].copy.pending
        /\ req[r].flow \in OwnFlows => issued' = issued \cup {grants[req[r].flow]}
    BY <1>7, ValidateResponseStep
  <2>6. req[r].kind = "callback"
    BY <2>5 DEF AllFit, Fit, FitKind
  <2> QED
    BY <1>7, <2>2, <2>4, <2>5, <2>6 DEF Claiming
<1>8. CASE RefuseResponse(r)
  <2>1. PICK y \in ReqTypes : Goes(r, y) /\ y.pc = "finish"
    BY <1>8, RefuseResponseStep DEF Refused
  <2> QED
    BY <2>1, OneChanges DEF Claimed
<1>9. CASE Accepting(r) \/ Naming(r)
  BY <1>9, ProvingStep DEF Proving, Accepted, Claimed
<1>10. CASE AuthenticateToken(r)
  <2>1. PICK y \in ReqTypes :
              /\ Goes(r, y)
              /\ \/ Refused(req[r], y)
                 \/ \E webId \in WebIds, issuer \in ClaimIssuers :
                      /\ Claiming(req[r], y, webId, issuer)
                      /\ issuer = ServerUri => webId \in issued
    BY <1>10, AuthenticateTokenStep
  <2>2. req'[r] = y
    BY <2>1, OneChanges
  <2>3. ~Refused(req[r], y)
    BY <2>2 DEF Refused, Claimed
  <2>4. PICK webId \in WebIds, issuer \in ClaimIssuers :
             /\ Claiming(req[r], y, webId, issuer)
             /\ issuer = ServerUri => webId \in issued
    BY <2>1, <2>3
  <2>5. req[r].kind = "bearer"
    BY <1>10 DEF AllFit, Fit, FitKind, AuthenticateToken
  <2> QED
    BY <1>10, <2>2, <2>4, <2>5 DEF Claiming
<1>11. CASE Finish(r)
  BY <1>11, FinishChange DEF Claimed
<1> QED
  BY <1>1, <1>2, <1>3, <1>4, <1>5, <1>6, <1>7, <1>8, <1>9, <1>10, <1>11 DEF Steps

\* A flow that browser b has begun, by what requests are at.
BegunIn(rq, f, b) ==
  /\ f \in Requests /\ rq[f].by = b
  /\ rq[f].pc \in {"finish", "done"} /\ rq[f].answer = "provider"

\* Only its own flows are in a session, and a callback with claims, or one
\* that was taken for a login, was for a flow of its browser.
Tracked ==
  /\ \A b \in Browsers : \A f \in session[b].pending : BegunIn(req, f, b)
  /\ \A q \in Requests : req[q].pc \in OpenPcs =>
       \A f \in req[q].copy.pending : BegunIn(req, f, req[q].by)
  /\ \A q \in Requests :
       req[q].kind = "callback" /\ (Claimed(req[q]) \/ req[q].answer = "returned") =>
         req[req[q].flow].by = req[q].by /\ req[req[q].flow].pc # "idle"

LEMMA BegunStays ==
  ASSUME Sound, NEW r \in Requests, Steps(r), NEW f, NEW b, BegunIn(req, f, b)
  PROVE  BegunIn(req', f, b)
<1>1. Changes(r) /\ Types /\ AllFit
  BY StepChanges DEF Sound, Steps
<1>2. CASE f # r
  <2>1. req'[f] = req[f]
    BY <1>1, <1>2, ChangesFrame DEF BegunIn
  <2> QED
    BY <2>1 DEF BegunIn
<1>3. CASE f = r
  <2>1. Finish(r)
    BY <1>3, OnlyFinish DEF BegunIn
  <2> QED
    BY <1>1, <1>3, <2>1, FinishChange DEF BegunIn, OnlyMoves, Stays
<1> QED
  BY <1>2, <1>3

LEMMA TrackedStep ==
  ASSUME Sound, Tracked, NEW r \in Requests, Steps(r)
  PROVE  Tracked'
<1>0. Types /\ AllFit /\ Changes(r)
  BY StepChanges DEF Sound, Steps
<1>1. /\ \A q \in Requests : q # r => req'[q] = req[q]
      /\ req'[r].pc # "idle" /\ (req[r].pc # "idle" => Stays(req[r], req'[r]))
  BY <1>0, ChangesFrame
<1>2. \A f, b : BegunIn(req, f, b) => BegunIn(req', f, b)
  BY BegunStays
<1>3. \A b \in Browsers : \A f \in session'[b].pending : BegunIn(req, f, b)
  <2>1. CASE ~Finish(r)
    <3>1. session' = session
      BY <1>0, <2>1, StepKinds, ArrivesChange, KeepingStep, ProvingStep
    <3> QED
      BY <3>1 DEF Tracked
  <2>2. CASE Finish(r)
    <3>1. /\ req[r].pc = "finish" /\ req[r].by \in Browsers
          /\ session' = IF req[r].copy # req[r].orig
                        THEN [session EXCEPT ![req[r].by] = req[r].copy] ELSE session
      BY <1>0, <2>2, FinishChange
    <3>2. req[r].pc \in OpenPcs
      BY <3>1 DEF OpenPcs
    <3> QED
      BY <1>0, <3>1, <3>2 DEF Tracked, Types
  <2> QED
    BY <2>1, <2>2
<1>4. ASSUME NEW f \in req'[r].copy.pending, req'[r].pc \in OpenPcs
      PROVE  BegunIn(req', f, req'[r].by)
  <2>1. CASE Arrives(r)
    <3>1. PICK b \in Browsers : Came(req'[r], b)
      BY <1>0, <2>1, ArrivesChange
    <3>2. f \in session[b].pending /\ req'[r].by = b
      BY <1>4, <3>1 DEF Came
    <3> QED
      BY <1>2, <3>2 DEF Tracked
  <2>2. CASE Keeping(r)
    <3>1. /\ req[r].pc \in OpenPcs /\ req'[r].by = req[r].by
          /\ req'[r].copy.pending \subseteq req[r].copy.pending \cup {r}
          /\ AuthUrl(r) \/ req'[r].copy.pending = req[r].copy.pending
      BY <1>0, <2>2, KeepingStep DEF Stays
    <3>2. CASE f \in req[r].copy.pending
      BY <1>2, <3>1, <3>2 DEF Tracked
    <3>3. CASE f \notin req[r].copy.pending
      <4>1. AuthUrl(r) /\ f = r
        BY <1>4, <3>1, <3>3
      <4>2. PICK y \in ReqTypes : Goes(r, y) /\ y.pc = "finish" /\ y.answer = "provider"
        BY <1>0, <4>1, AuthUrlStep
      <4>3. req'[r] = y
        BY <1>0, <4>2, OneChanges
      <4> QED
        BY <4>1, <4>2, <4>3 DEF BegunIn
    <3> QED
      BY <3>2, <3>3
  <2>3. CASE Proving(r)
    <3>1. /\ req[r].pc \in OpenPcs /\ req'[r].by = req[r].by
          /\ req'[r].copy.pending = req[r].copy.pending
      BY <1>0, <2>3, ProvingStep DEF Accepted, Stays, Claimed, OpenPcs
    <3> QED
      BY <1>2, <1>4, <3>1 DEF Tracked
  <2>4. CASE Finish(r)
    BY <1>0, <1>4, <2>4, FinishChange DEF OpenPcs
  <2> QED
    BY <2>1, <2>2, <2>3, <2>4, StepKinds
<1>5. ASSUME req'[r].kind = "callback", Claimed(req'[r]) \/ req'[r].answer = "returned"
      PROVE  req'[r].flow \in Requests /\ req'[req'[r].flow].by = req'[r].by
             /\ req'[req'[r].flow].pc # "idle"
  <2>1. /\ req'[r].flow = req[r].flow /\ Stays(req[r], req'[r]) /\ req[r].pc # "idle"
        /\ req[req[r].flow].by = req[r].by /\ req[req[r].flow].pc # "idle"
    <3>1. CASE Claimed(req'[r])
      <4>1. /\ req'[r].flow = req[r].flow /\ Stays(req[r], req'[r])
            /\ Claimed(req[r]) \/ req[r].flow \in req[r].copy.pending
        BY <1>0, <1>5, <3>1, StepsClaim DEF Stays
      <4>2. req[r].pc # "idle" /\ req[r].pc \in OpenPcs
        <5>1. ~Arrives(r)
          BY <1>0, <3>1, ArrivesChange DEF Came, Claimed
        <5> QED
          BY <1>0, <3>1, <5>1, StepKinds, KeepingStep, ProvingStep, FinishChange
             DEF Claimed, OpenPcs
      <4> QED
        BY <1>5, <4>1, <4>2 DEF Tracked, BegunIn, Stays
    <3>2. CASE req'[r].answer = "returned"
      <4>1. ~Arrives(r) /\ ~Keeping(r)
        BY <1>0, <3>2, ArrivesChange, KeepingStep DEF Came
      <4>2. CASE Proving(r)
        BY <1>0, <1>5, <3>2, <4>2, ProvingStep DEF Accepted, Stays, Tracked, Claimed
      <4>3. CASE Finish(r)
        BY <1>0, <1>5, <3>2, <4>3, FinishChange DEF OnlyMoves, Stays, Tracked
      <4> QED
        BY <4>1, <4>2, <4>3, StepKinds
    <3> QED
      BY <1>5, <3>1, <3>2
  <2>2. req[r].flow \in Requests
    BY <1>0, <1>5, <2>1 DEF AllFit, Fit, FitKind, Stays
  <2> QED
    BY <1>1, <2>1, <2>2 DEF Stays
<1>6. \A q \in Requests :
        q # r /\ req[q].kind = "callback" /\ (Claimed(req[q]) \/ req[q].answer = "returned") =>
          req'[req[q].flow].by = req[q].by /\ req'[req[q].flow].pc # "idle"
  <2> SUFFICES ASSUME NEW q \in Requests, q # r, req[q].kind = "callback",
                      Claimed(req[q]) \/ req[q].answer = "returned"
               PROVE  req'[req[q].flow].by = req[q].by /\ req'[req[q].flow].pc # "idle"
    OBVIOUS
  <2>1. req[q].flow \in Requests
    BY <1>0 DEF AllFit, Fit, FitKind
  <2>2. req[req[q].flow].by = req[q].by /\ req[req[q].flow].pc # "idle"
    BY DEF Tracked
  <2> QED
    BY <1>1, <2>1, <2>2 DEF Stays
<1>7. \A q \in Requests :
        req'[q].kind = "callback" /\ (Claimed(req'[q]) \/ req'[q].answer = "returned") =>
          req'[req'[q].flow].by = req'[q].by /\ req'[req'[q].flow].pc # "idle"
  BY <1>1, <1>5, <1>6
<1>8. \A q \in Requests : req'[q].pc \in OpenPcs =>
        \A f \in req'[q].copy.pending : BegunIn(req', f, req'[q].by)
  <2> SUFFICES ASSUME NEW q \in Requests, req'[q].pc \in OpenPcs,
                      NEW f \in req'[q].copy.pending
               PROVE  BegunIn(req', f, req'[q].by)
    OBVIOUS
  <2>1. CASE q = r
    BY <1>4, <2>1
  <2>2. CASE q # r
    BY <1>1, <1>2, <2>2 DEF Tracked
  <2> QED
    BY <2>1, <2>2
<1> QED
  BY <1>2, <1>3, <1>7, <1>8 DEF Tracked

\* The users, and the flows, when the process ends, when nothing changes, and
\* at the start.
LEMMA PathsLost ==
  ASSUME Sound, LoginsLost
  PROVE  /\ UserIsEntitled'
         /\ Tracked => Tracked'
         /\ \A r \in Requests : req'[r].pc \notin OpenPcs
<1>1. \A r \in Requests :
        /\ OnlyMoves(req[r], req'[r])
        /\ req'[r].pc = IF req[r].pc \in {"idle", "done"} THEN req[r].pc ELSE "lost"
  BY LostRequests DEF Sound
<1>2. \A b \in Browsers : session'[b].user = None /\ session'[b].pending = {}
  BY NewSessionFields DEF LoginsLost
<1>3. \A r \in Requests : req'[r].pc \notin OpenPcs
  BY <1>1 DEF OpenPcs
<1>4. Entitles'
  BY <1>2, <1>3, LoggedOutIsOut DEF Entitles, LoggedIn
<1>5. UserIsEntitled'
  BY <1>4, EntitledIs, PTL
<1>6. ASSUME Tracked PROVE Tracked'
  <2>1. ASSUME NEW q \in Requests, req'[q].kind = "callback",
               Claimed(req'[q]) \/ req'[q].answer = "returned"
        PROVE  req'[req'[q].flow].by = req'[q].by /\ req'[req'[q].flow].pc # "idle"
    <3>1. /\ req[q].kind = "callback" /\ req[q].answer = "returned"
          /\ req[q].flow \in Requests /\ req'[q].flow = req[q].flow
      BY <1>1, <1>3, <2>1 DEF OnlyMoves, Stays, Claimed, Sound, AllFit, Fit, FitKind, OpenPcs
    <3>2. req[req[q].flow].by = req[q].by /\ req[req[q].flow].pc # "idle"
      BY <1>6, <3>1 DEF Tracked
    <3> QED
      BY <1>1, <3>1, <3>2 DEF OnlyMoves, Stays
  <2> QED
    BY <1>2, <1>3, <2>1 DEF Tracked
<1> QED
  BY <1>3, <1>5, <1>6

LEMMA PathsUnchanged ==
  ASSUME UNCHANGED lvars
  PROVE  /\ UserIsEntitled => UserIsEntitled'
         /\ Tracked => Tracked'
  BY DEF lvars, UserIsEntitled, Tracked, Open

LEMMA PathsInitially ==
  ASSUME LoginInit
  PROVE  UserIsEntitled /\ Tracked
<1>1. \A r \in Requests : req[r] = NoRequest
  BY DEF LoginInit
<1>2. \A b \in Browsers : session[b] = NewSession
  BY DEF LoginInit
<1>3. Entitles
  BY <1>1, <1>2, NewSessionFields, NoRequestFields, LoggedOutIsOut DEF Entitles, LoggedIn, OpenPcs
<1>4. Tracked
  BY <1>1, <1>2, NewSessionFields, NoRequestFields DEF Tracked, Claimed, OpenPcs
<1> QED
  BY <1>3, <1>4, EntitledIs

\* A login ends in the browser it began in, because its flow is one of that
\* browser's session.
LEMMA TrackedEnds ==
  ASSUME Tracked
  PROVE  LoginsEndWhereBegun
  BY DEF Tracked, LoginsEndWhereBegun

-----------------------------------------------------------------------------
(***************************************************************************)
(* Our own provider only vouches for whom somebody else has vouched for:   *)
(* by induction on how users come into sessions, codes and tokens.         *)
(***************************************************************************)

\* Somebody but our own provider has proved the user.
KnownIn(proofs, user) == \E e \in proofs : e.user = user /\ e.how # ServerUri

Traced ==
  /\ \A b \in Browsers : \A e \in entitled[b] : KnownIn(proved, e.user)
  /\ \A user \in issued : KnownIn(proved, user)
  /\ \A f \in Requests : grants[f] # None => KnownIn(proved, grants[f])
  /\ \A r \in Requests : Claimed(req[r]) /\ req[r].issuer = ServerUri =>
       req[r].webId \in issued

LEMMA KnownGrows ==
  ASSUME NEW proofs, NEW more, proofs \subseteq more, NEW user, KnownIn(proofs, user)
  PROVE  KnownIn(more, user)
  BY DEF KnownIn

\* What is proved stays proved, and what a step adds to the proofs of a
\* browser is known.
LEMMA ProofsGrow ==
  ASSUME Sound, Traced, NEW r \in Requests, Steps(r)
  PROVE  /\ proved \subseteq proved'
         /\ \A b \in Browsers : \A e \in entitled'[b] : KnownIn(proved', e.user)
<1>0. Types /\ AllFit
  BY DEF Sound
<1>1. CASE Arrives(r) \/ Keeping(r)
  <2>1. UNCHANGED <<entitled, proved>>
    BY <1>0, <1>1, ArrivesChange, KeepingStep
  <2> QED
    BY <2>1 DEF Traced
<1>2. CASE Proving(r)
  <2> DEFINE x == req[r]
             e == [user |-> x.webId, how |-> ProofOf(x)]
  <2>1. /\ Claimed(x) \/ x.pc \in {"match", "account"}
        /\ Proves(x.by, x.webId, ProofOf(x))
    BY <1>0, <1>2, ProvingStep
  <2>2. /\ entitled' = [entitled EXCEPT ![x.by] = entitled[x.by] \cup {e}]
        /\ proved' = proved \cup {e}
    BY <2>1 DEF Proves
  <2> e.user = x.webId /\ e.how = ProofOf(x)
    OBVIOUS
  <2> HIDE DEF e, x
  <2>3. KnownIn(proved', e.user)
    <3>1. CASE ProofOf(x) # ServerUri
      <4>1. e \in proved'
        BY <2>2
      <4> QED
        BY <3>1, <4>1 DEF KnownIn
    <3>2. CASE ProofOf(x) = ServerUri
      <4>1. Claimed(x) /\ x.issuer = ServerUri
        BY <2>1, <3>2, LoginAssumption DEF ProofOf, WordOf
      <4>2. KnownIn(proved, x.webId)
        BY <4>1 DEF Traced, x
      <4> QED
        BY <2>2, <4>2 DEF KnownIn
    <3> QED
      BY <3>1, <3>2
  <2>4. proved \subseteq proved'
    BY <2>2
  <2>5. ASSUME NEW b \in Browsers, NEW d \in entitled'[b] PROVE KnownIn(proved', d.user)
    <3>1. d \in entitled[b] \/ d = e
      BY <1>0, <2>2 DEF Types
    <3>2. CASE d \in entitled[b]
      BY <2>4, <3>2, KnownGrows DEF Traced
    <3> QED
      BY <2>3, <3>1, <3>2
  <2> QED
    BY <2>4, <2>5
<1>3. CASE Finish(r)
  <2>1. /\ proved' = proved
        /\ entitled' = entitled \/ entitled' = [entitled EXCEPT ![req[r].by] = StillHeld(r)]
        /\ req[r].by \in Browsers
    BY <1>0, <1>3, FinishChange
  <2>2. StillHeld(r) \subseteq entitled[req[r].by]
    BY DEF StillHeld
  <2>3. \A b \in Browsers : entitled'[b] \subseteq entitled[b]
    BY <1>0, <2>1, <2>2 DEF Types
  <2> QED
    BY <2>1, <2>3 DEF Traced
<1> QED
  BY <1>0, <1>1, <1>2, <1>3, StepKinds

LEMMA TracedStep ==
  ASSUME Sound, Traced, UserIsEntitled, NEW r \in Requests, Steps(r)
  PROVE  Traced'
<1>0. Types /\ AllFit /\ Changes(r)
  BY StepChanges DEF Sound, Steps
<1>1. /\ proved \subseteq proved'
      /\ \A b \in Browsers : \A e \in entitled'[b] : KnownIn(proved', e.user)
  BY ProofsGrow
<1>2. \A user : KnownIn(proved, user) => KnownIn(proved', user)
  BY <1>1, KnownGrows
<1>3. \A q \in Requests : q # r => req'[q] = req[q]
  BY <1>0, ChangesFrame
<1>4. \A f \in Requests : grants'[f] # None => KnownIn(proved', grants'[f])
  <2>1. Granted
    BY <1>0, StepsGrant
  <2>2. CASE UNCHANGED grants
    BY <1>2, <2>2 DEF Traced
  <2>3. CASE \E b \in Browsers, f \in Requests :
               LoggedIn(session[b]) /\ grants' = [grants EXCEPT ![f] = session[b].user]
    <3>1. PICK b \in Browsers, g \in Requests :
            LoggedIn(session[b]) /\ grants' = [grants EXCEPT ![g] = session[b].user]
      BY <2>3
    <3>2. PICK e \in entitled[b] : e.user = session[b].user
      BY <3>1, EntitledIs DEF Entitles, UsersOf
    <3>3. KnownIn(proved', session[b].user)
      BY <1>2, <3>2 DEF Traced
    <3> QED
      BY <1>0, <1>2, <3>1, <3>3 DEF Types, Traced
  <2> QED
    BY <2>1, <2>2, <2>3 DEF Granted
<1>5. \/ issued' = issued
      \/ /\ req[r].pc = "exchange" /\ req[r].flow \in OwnFlows
         /\ issued' = issued \cup {grants[req[r].flow]}
  <2>1. CASE ValidateResponse(r)
    BY <1>0, <2>1, ValidateResponseStep
  <2>2. CASE Arrives(r)
    BY <1>0, <2>2, ArrivesChange
  <2>3. CASE ~ValidateResponse(r) /\ ~Arrives(r)
    <3>1. CASE Moving(r)
      BY <1>0, <3>1, MovingStep DEF Quiet
    <3>2. CASE ~Moving(r)
      BY <2>3, <3>2 DEF Steps, LoadClient, RegisterClient, PersistClient, AuthUrl,
         RefuseResponse, Accepting, WebIdFromClaims, ProfileConfirms,
         AcceptWebId, AuthenticateToken, Naming, MatchPassword, CreateAccount, Finish, Quiet
    <3> QED
      BY <3>1, <3>2
  <2> QED
    BY <2>1, <2>2, <2>3
<1>6. \A user \in issued' : KnownIn(proved', user)
  <2>1. CASE issued' = issued
    BY <1>2, <2>1 DEF Traced
  <2>2. CASE /\ req[r].pc = "exchange" /\ req[r].flow \in OwnFlows
             /\ issued' = issued \cup {grants[req[r].flow]}
    <3>1. req[r].kind = "callback" /\ req[r].flow \in Requests
      BY <1>0, <2>2 DEF AllFit, Fit, FitKind
    <3>2. grants[req[r].flow] # None
      BY <2>2, <3>1 DEF Sound, Returning
    <3> QED
      BY <1>2, <2>2, <3>1, <3>2 DEF Traced
  <2> QED
    BY <1>5, <2>1, <2>2
<1>7. ASSUME Claimed(req'[r]), req'[r].issuer = ServerUri
      PROVE  req'[r].webId \in issued'
  <2>1. \/ /\ Claimed(req[r])
           /\ req'[r].issuer = req[r].issuer /\ req'[r].webId = req[r].webId
        \/ issued' = issued \cup {req'[r].webId}
        \/ /\ req[r].flow \notin OwnFlows
           /\ req'[r].issuer = IssuerOf[req[req[r].flow].issuer]
           /\ req[r].kind = "callback" /\ req[r].pc = "exchange"
        \/ req'[r].webId \in issued
    BY <1>0, <1>7, StepsClaim
  <2>2. CASE /\ req[r].flow \notin OwnFlows
             /\ req'[r].issuer = IssuerOf[req[req[r].flow].issuer]
             /\ req[r].kind = "callback" /\ req[r].pc = "exchange"
    BY <1>7, <2>2 DEF Sound, Returning, OwnFlows
  <2> QED
    BY <1>5, <1>7, <2>1, <2>2 DEF Traced
<1>8. \A q \in Requests : Claimed(req'[q]) /\ req'[q].issuer = ServerUri =>
        req'[q].webId \in issued'
  <2> SUFFICES ASSUME NEW q \in Requests, Claimed(req'[q]), req'[q].issuer = ServerUri
               PROVE  req'[q].webId \in issued'
    OBVIOUS
  <2>1. CASE q # r
    BY <1>3, <1>5, <2>1 DEF Traced
  <2> QED
    BY <1>7, <2>1
<1> QED
  BY <1>1, <1>4, <1>6, <1>8 DEF Traced

LEMMA TracedOtherwise ==
  /\ Sound /\ Traced /\ LoginsLost => Traced'
  /\ Traced /\ UNCHANGED lvars => Traced'
  /\ LoginInit => Traced
<1>1. ASSUME Sound, Traced, LoginsLost PROVE Traced'
  <2>1. \A r \in Requests : req'[r].pc \notin OpenPcs
    BY <1>1, PathsLost
  <2>2. \A r \in Requests : ~Claimed(req'[r])
    BY <2>1 DEF Claimed, OpenPcs
  <2> QED
    BY <1>1, <2>2 DEF Traced, LoginsLost
<1>2. ASSUME Traced, UNCHANGED lvars PROVE Traced'
  BY <1>2 DEF Traced, lvars
<1>3. ASSUME LoginInit PROVE Traced
  <2>1. \A r \in Requests : ~Claimed(req[r])
    BY <1>3, NoRequestFields DEF LoginInit, Claimed
  <2> QED
    BY <1>3, <2>1 DEF Traced, LoginInit
<1> QED
  BY <1>1, <1>2, <1>3

LEMMA TracedCodes ==
  ASSUME Traced
  PROVE  CodesTraceBack
  BY DEF Traced, CodesTraceBack, KnownIn

-----------------------------------------------------------------------------
(***************************************************************************)
(* Who an issuer speaks for.                                               *)
(***************************************************************************)

\* A domain that matches hosts the web identifier: itself, or one label below.
LEMMA MatchingHosts ==
  ASSUME NEW issuer, NEW w \in Urls, DomainMatches(issuer, w)
  PROVE  HostedBy(issuer, w)
<1>1. CASE issuer = Origin(w)
  BY <1>1 DEF Origin, HostedBy, Urls
<1>2. CASE IsSubdomain(Origin(w), issuer)
  <2> DEFINE h == w.host
             first == <<h[1]>>
  <2>1. /\ h \in Seq(STRING) /\ h # <<>> /\ Tail(h) = issuer.host
        /\ w.scheme = issuer.scheme
    BY <1>2 DEF IsSubdomain, Origin, Urls
  <2>2. Len(h) \in Nat /\ Len(h) > 0
    BY <2>1
  <2>3. h[1] \in {h[i] : i \in 1 .. Len(h)}
    BY <2>2
  <2>4. h = first \o Tail(h)
    <3> HIDE DEF h
    <3>1. Tail(h) \in Seq(STRING) /\ Len(Tail(h)) = Len(h) - 1
          /\ \A i \in 1 .. Len(Tail(h)) : Tail(h)[i] = h[i + 1]
      BY <2>1, HeadTailProperties
    <3>2. first \in Seq(STRING) /\ Len(first) = 1 /\ first[1] = h[1]
      BY <2>1, <2>2, ElementOfSeq
    <3> HIDE DEF first
    <3>3. /\ first \o Tail(h) \in Seq(STRING)
          /\ Len(first \o Tail(h)) = Len(h)
          /\ \A i \in 1 .. Len(h) :
               (first \o Tail(h))[i] = IF i = 1 THEN first[1] ELSE Tail(h)[i - 1]
      BY <2>2, <3>1, <3>2, ConcatProperties
    <3>4. \A i \in 1 .. Len(h) : (first \o Tail(h))[i] = h[i]
      BY <2>2, <3>1, <3>2, <3>3
    <3> QED
      BY <2>1, <3>3, <3>4, SeqEqual
  <2> HIDE DEF h
  <2>5. w.host = first \o issuer.host /\ h = w.host
    BY <2>1, <2>4 DEF h
  <2> QED
    BY <2>1, <2>3, <2>5 DEF HostedBy
<1> QED
  BY <1>1, <1>2 DEF DomainMatches

\* What the claims are accepted for.
LEMMA AcceptedIsConfirmed ==
  ASSUME Types, AllFit, NEW r \in Requests, Accepting(r)
  PROVE  LET x == req[r] IN
         \/ HostedBy(x.issuer, x.webId)
         \/ \E issuer \in {LinkHeader[x.webId], ProfileIssuer[x.webId]} :
              issuer # None /\ x.issuer = Origin(issuer)
<1> DEFINE x == req[r]
<1>1. x.webId \in Urls /\ x.issuer # None
  BY AcceptingClaims, LoginAssumption DEF AllFit, Fit, FitData, Claimed
<1>2. DomainMatches(x.issuer, x.webId) \/ DiscoverProviderFor(x.webId) = x.issuer
  BY DEF Accepting, WebIdFromClaims, ProfileConfirms
<1>3. CASE DomainMatches(x.issuer, x.webId)
  BY <1>1, <1>3, MatchingHosts
<1>4. CASE DiscoverProviderFor(x.webId) = x.issuer
  BY <1>1, <1>4 DEF DiscoverProviderFor, ParseProviderLink
<1> QED
  BY <1>2, <1>3, <1>4

LEMMA VerifiedStep ==
  ASSUME Sound, VerifiedIssuer, NEW r \in Requests, Steps(r)
  PROVE  VerifiedIssuer'
<1>0. Types /\ AllFit
  BY DEF Sound
<1>1. CASE proved' = proved
  BY <1>1 DEF VerifiedIssuer
<1>2. CASE Proving(r)
  <2> DEFINE x == req[r]
             e == [user |-> x.webId, how |-> ProofOf(x)]
  <2>1. proved' = proved \cup {e}
    BY <1>0, <1>2, ProvingStep DEF Proves
  <2>2. \/ e.how \in {Password, SignedUp}
        \/ HostedBy(e.how, e.user)
        \/ \E issuer \in {LinkHeader[e.user], ProfileIssuer[e.user]} :
             issuer # None /\ e.how = Origin(issuer)
    <3>1. e.user = x.webId /\ e.how = ProofOf(x)
      OBVIOUS
    <3> HIDE DEF e
    <3>2. CASE x.pc \in {"match", "account"}
      BY <3>1, <3>2 DEF ProofOf, WordOf
    <3>3. CASE x.pc \notin {"match", "account"}
      <4>1. Accepting(r)
        BY <1>2, <3>3 DEF Proving, Naming, MatchPassword, CreateAccount
      <4>2. ProofOf(x) = x.issuer
        BY <3>3 DEF ProofOf
      <4> QED
        BY <1>0, <3>1, <4>1, <4>2, AcceptedIsConfirmed
    <3> QED
      BY <3>2, <3>3
  <2> HIDE DEF e
  <2> QED
    BY <2>1, <2>2 DEF VerifiedIssuer
<1> QED
  BY <1>0, <1>1, <1>2, StepKinds, ArrivesChange, KeepingStep, FinishChange

-----------------------------------------------------------------------------
(***************************************************************************)
(* The clients of an issuer that was not registered with twice at a time:  *)
(* one request makes the client, while there is none, and everybody has    *)
(* that one.                                                               *)
(***************************************************************************)
Makes(x) == x.pc \in {"register", "persist"}
Uses(x) == x.pc \in {"authUrl", "exchange"}

\* The client of x is the one that the store has, or the issuer is doubled.
HasClient(x, stored, twice) ==
  x.issuer \in twice \/ (stored[x.issuer] # NoClient /\ x.client = stored[x.issuer])

InSession(f) ==
  \/ \E b \in Browsers : f \in session[b].pending
  \/ \E q \in Requests : req[q].pc \in OpenPcs /\ f \in req[q].copy.pending

OneClient ==
  /\ \A p, q \in Requests :
       Makes(req[p]) /\ Makes(req[q]) /\ req[p].issuer = req[q].issuer =>
         p = q \/ req[p].issuer \in doubled
  /\ \A q \in Requests :
       /\ Makes(req[q]) => req[q].issuer \in doubled \/ clients[req[q].issuer] = NoClient
       /\ req[q].pc = "persist" => req[q].client = q
       /\ Uses(req[q]) => HasClient(req[q], clients, doubled)
       /\ InSession(q) => HasClient(req[q], clients, doubled)
  /\ ClientIsKnown

\* Only the creation of a request puts its flow into a session.
LEMMA SessionsGrow ==
  ASSUME Sound, NEW r \in Requests, Steps(r), NEW f \in Requests, InSession(f)'
  PROVE  InSession(f) \/ (AuthUrl(r) /\ f = r)
<1>0. Types /\ AllFit /\ Changes(r)
  BY StepChanges DEF Sound, Steps
<1>1. \A q \in Requests : q # r => req'[q] = req[q]
  BY <1>0, ChangesFrame
<1>2. CASE Arrives(r)
  <2>1. PICK b \in Browsers : Came(req'[r], b)
    BY <1>0, <1>2, ArrivesChange
  <2>2. session' = session
    BY <1>0, <1>2, ArrivesChange
  <2> QED
    BY <1>1, <2>1, <2>2 DEF Came, InSession
<1>3. CASE Keeping(r)
  <2>1. /\ req[r].pc \in OpenPcs /\ session' = session
        /\ req'[r].copy.pending \subseteq req[r].copy.pending \cup {r}
        /\ AuthUrl(r) \/ req'[r].copy.pending = req[r].copy.pending
    BY <1>0, <1>3, KeepingStep
  <2> QED
    BY <1>1, <2>1 DEF InSession
<1>4. CASE Proving(r)
  <2>1. /\ req[r].pc \in OpenPcs /\ session' = session
        /\ req'[r].copy.pending = req[r].copy.pending
    BY <1>0, <1>4, ProvingStep DEF Accepted, Claimed, OpenPcs
  <2> QED
    BY <1>1, <2>1 DEF InSession
<1>5. CASE Finish(r)
  <2>1. /\ req[r].pc = "finish" /\ req[r].by \in Browsers
        /\ session' = IF req[r].copy # req[r].orig
                      THEN [session EXCEPT ![req[r].by] = req[r].copy] ELSE session
        /\ req'[r].pc = "done"
    BY <1>0, <1>5, FinishChange
  <2>2. req[r].pc \in OpenPcs /\ req'[r].pc \notin OpenPcs
    BY <2>1 DEF OpenPcs
  <2>3. \A b \in Browsers : session'[b] = session[b] \/ session'[b] = req[r].copy
    BY <1>0, <2>1 DEF Types
  <2> QED
    BY <1>1, <2>2, <2>3 DEF InSession
<1> QED
  BY <1>0, <1>2, <1>3, <1>4, <1>5, StepKinds

\* The steps that have to do with clients, and the others.
ClientStep(r) == LoadClient(r) \/ RegisterClient(r) \/ PersistClient(r) \/ AuthUrl(r)

LEMMA OtherSteps ==
  ASSUME Types, AllFit, NEW r \in Requests, Steps(r), ~ClientStep(r)
  PROVE  /\ ~Makes(req'[r]) /\ ~Uses(req'[r])
         /\ UNCHANGED <<clients, doubled>>
         /\ req'[r].pc = "finish" /\ req'[r].answer = "wrongClient" =>
              /\ Uses(req[r]) /\ req[r].kind = "callback"
              /\ req[r].flow \in req[r].copy.pending
              /\ req[r].client # req[req[r].flow].client
              /\ req'[r].issuer = req[r].issuer
<1>1. CASE Arrives(r)
  BY <1>1, ArrivesChange DEF Came, Makes, Uses
<1>2. CASE Moving(r)
  <2>1. PICK y \in ReqTypes : Goes(r, y) /\ WorkedOn(req[r], y)
    BY <1>2, MovingStep DEF Worked
  <2>2. req'[r] = y /\ Quiet
    BY <1>2, <2>1, OneChanges, MovingStep
  <2> QED
    BY <2>1, <2>2 DEF WorkedOn, Special, Makes, Uses, Quiet
<1>3. CASE ValidateResponse(r)
  <2>1. PICK y \in ReqTypes :
          /\ Goes(r, y)
          /\ \/ Refused(req[r], y) /\ y.answer = "401"
             \/ \E webId \in WebIds, issuer \in ClaimIssuers : Claiming(req[r], y, webId, issuer)
    BY <1>3, ValidateResponseStep
  <2>2. req'[r] = y /\ UNCHANGED <<clients, doubled>>
    BY <1>3, <2>1, OneChanges DEF ValidateResponse
  <2> QED
    BY <2>1, <2>2 DEF Refused, Claiming, Makes, Uses
<1>4. CASE RefuseResponse(r)
  <2>1. req[r].pc = "exchange"
    BY <1>4, RefuseResponseStep
  <2>2. PICK y \in ReqTypes :
          /\ Goes(r, y) /\ Refused(req[r], y)
          /\ y.answer = "wrongClient" =>
               req[r].flow \in req[r].copy.pending /\ req[r].client # req[req[r].flow].client
    BY <1>4, RefuseResponseStep
  <2>3. req'[r] = y /\ UNCHANGED <<clients, doubled>>
    BY <1>4, <2>2, OneChanges DEF RefuseResponse, Quiet
  <2>4. req[r].kind = "callback"
    BY <2>1 DEF AllFit, Fit, FitKind
  <2> QED
    BY <2>1, <2>2, <2>3, <2>4 DEF Refused, Makes, Uses
<1>5. CASE AuthenticateToken(r)
  <2>1. PICK y \in ReqTypes :
          /\ Goes(r, y)
          /\ \/ Refused(req[r], y) /\ y.answer \in {"401", "403"}
             \/ \E webId \in WebIds, issuer \in ClaimIssuers : Claiming(req[r], y, webId, issuer)
    BY <1>5, AuthenticateTokenStep
  <2>2. req'[r] = y /\ UNCHANGED <<clients, doubled>>
    BY <1>5, <2>1, OneChanges DEF AuthenticateToken, Quiet
  <2> QED
    BY <2>1, <2>2 DEF Refused, Claiming, Makes, Uses
<1>6. CASE Proving(r)
  BY <1>6, ProvingStep DEF Accepted, Makes, Uses
<1>7. CASE Finish(r)
  BY <1>7, FinishChange DEF Makes, Uses
<1> QED
  BY <1>1, <1>2, <1>3, <1>4, <1>5, <1>6, <1>7, StepKinds DEF Keeping, ClientStep

\* What stays as it was has its client as before.
LEMMA HasClientStays ==
  ASSUME NEW x, NEW stored, NEW twice, NEW more, twice \subseteq more,
         HasClient(x, stored, twice)
  PROVE  HasClient(x, stored, more)
  BY DEF HasClient

\* The flows of sessions keep their clients: none of them is worked on but
\* by being answered.
LEMMA FlowsKeepClients ==
  ASSUME Sound, Tracked, NEW r \in Requests, Steps(r), NEW f \in Requests, InSession(f)
  PROVE  req'[f].issuer = req[f].issuer /\ req'[f].client = req[f].client
<1>0. Types /\ AllFit /\ Changes(r)
  BY StepChanges DEF Sound, Steps
<1>1. CASE f # r
  BY <1>0, <1>1, ChangesFrame
<1>2. CASE f = r
  <2>1. req[r].pc \in {"finish", "done"}
    BY <1>2 DEF InSession, Tracked, BegunIn
  <2>2. Finish(r)
    BY <2>1, OnlyFinish
  <2> QED
    BY <1>0, <1>2, <2>2, FinishChange DEF OnlyMoves
<1> QED
  BY <1>1, <1>2

LEMMA OneClientOther ==
  ASSUME Sound, Tracked, OneClient, NEW r \in Requests, Steps(r), ~ClientStep(r)
  PROVE  OneClient'
<1>0. Types /\ AllFit /\ Changes(r)
  BY StepChanges DEF Sound, Steps
<1>1. \A q \in Requests : q # r => req'[q] = req[q]
  BY <1>0, ChangesFrame
<1>2. /\ ~Makes(req'[r]) /\ ~Uses(req'[r])
      /\ clients' = clients /\ doubled' = doubled
      /\ req'[r].pc = "finish" /\ req'[r].answer = "wrongClient" =>
           /\ Uses(req[r]) /\ req[r].kind = "callback"
           /\ req[r].flow \in req[r].copy.pending
           /\ req[r].client # req[req[r].flow].client
           /\ req'[r].issuer = req[r].issuer
  BY <1>0, OtherSteps
<1>3. ASSUME NEW q \in Requests, InSession(q)'
      PROVE  HasClient(req'[q], clients', doubled')
  <2>1. InSession(q)
    BY <1>3, SessionsGrow DEF ClientStep
  <2>2. req'[q].issuer = req[q].issuer /\ req'[q].client = req[q].client
    BY <2>1, FlowsKeepClients
  <2> QED
    BY <1>2, <2>1, <2>2 DEF OneClient, HasClient
<1>4. ASSUME NEW q \in Requests
      PROVE  /\ Makes(req'[q]) => req'[q].issuer \in doubled' \/ clients'[req'[q].issuer] = NoClient
             /\ req'[q].pc = "persist" => req'[q].client = q
             /\ Uses(req'[q]) => HasClient(req'[q], clients', doubled')
  BY <1>1, <1>2 DEF OneClient, Makes
<1>5. \A p, q \in Requests :
        Makes(req'[p]) /\ Makes(req'[q]) /\ req'[p].issuer = req'[q].issuer =>
          p = q \/ req'[p].issuer \in doubled'
  BY <1>1, <1>2 DEF OneClient
<1>6. ASSUME NEW q \in Requests, req'[q].pc = "finish", req'[q].answer = "wrongClient"
      PROVE  req'[q].issuer \in doubled'
  <2>1. CASE q # r
    BY <1>1, <1>2, <1>6, <2>1 DEF OneClient, ClientIsKnown
  <2>2. CASE q = r
    <3>1. /\ Uses(req[r]) /\ req[r].kind = "callback"
          /\ req[r].flow \in req[r].copy.pending
          /\ req[r].client # req[req[r].flow].client
          /\ req'[r].issuer = req[r].issuer
      BY <1>2, <1>6, <2>2
    <3>2. req[r].flow \in Requests /\ req[r].pc \in OpenPcs
      BY <1>0, <3>1 DEF AllFit, Fit, FitKind, Uses, OpenPcs
    <3>3. InSession(req[r].flow)
      BY <3>1, <3>2 DEF InSession
    <3>4. HasClient(req[r], clients, doubled) /\ HasClient(req[req[r].flow], clients, doubled)
      BY <3>1, <3>2, <3>3 DEF OneClient
    <3>5. req[r].issuer = req[req[r].flow].issuer
      <4>1. req[r].pc = "exchange"
        BY <1>0, <3>1 DEF AllFit, Fit, FitKind, Uses
      <4> QED
        BY <3>1, <4>1 DEF Sound, Returning
    <3> QED
      BY <1>2, <2>2, <3>1, <3>4, <3>5 DEF HasClient
  <2> QED
    BY <2>1, <2>2
<1> QED
  BY <1>3, <1>4, <1>5, <1>6 DEF OneClient, ClientIsKnown

\* The five ways in which a request comes by its client and on with it.
Found(r) ==
  /\ clients[req[r].issuer] # NoClient /\ req'[r].client = clients[req[r].issuer]
  /\ Uses(req'[r]) /\ UNCHANGED <<clients, doubled>>

FoundNone(r) ==
  /\ clients[req[r].issuer] = NoClient
  /\ req'[r].pc = "register" /\ clients' = clients
  /\ doubled' = IF Registering(req[r].issuer) = {} THEN doubled
                ELSE doubled \cup {req[r].issuer}

Registered(r) ==
  /\ req[r].pc = "register" /\ req'[r].pc = "persist" /\ req'[r].client = r
  /\ UNCHANGED <<clients, doubled>>

Persisted(r) ==
  /\ req[r].pc = "persist" /\ Uses(req'[r]) /\ req'[r].client = req[r].client
  /\ clients' = [clients EXCEPT ![req[r].issuer] = req[r].client]
  /\ doubled' = doubled

SentOff(r) ==
  /\ req[r].pc = "authUrl" /\ req'[r].pc = "finish" /\ req'[r].client = req[r].client
  /\ UNCHANGED <<clients, doubled>>

LEMMA ClientStepIs ==
  ASSUME Types, AllFit, NEW r \in Requests, ClientStep(r)
  PROVE  /\ req[r].issuer \in Issuers /\ req'[r].issuer = req[r].issuer
         /\ req'[r].answer # "wrongClient"
         /\ \/ ~AuthUrl(r) /\ (Found(r) \/ FoundNone(r) \/ Registered(r) \/ Persisted(r))
            \/ SentOff(r)
<1>1. CASE LoadClient(r)
  <2>1. req[r].pc = "client" /\ ~AuthUrl(r)
    BY <1>1 DEF LoadClient, AuthUrl
  <2>2. PICK y \in ReqTypes :
          /\ Goes(r, y) /\ Clienting(req[r], y)
          /\ \/ /\ clients[req[r].issuer] # NoClient /\ y.client = clients[req[r].issuer]
                /\ y.pc = IF req[r].kind = "callback" THEN "exchange" ELSE "authUrl"
                /\ UNCHANGED doubled
             \/ /\ clients[req[r].issuer] = NoClient /\ y.pc = "register"
                /\ doubled' = IF Registering(req[r].issuer) = {} THEN doubled
                              ELSE doubled \cup {req[r].issuer}
    BY <1>1, LoadClientStep
  <2>3. req'[r] = y /\ clients' = clients
    BY <1>1, <2>2, OneChanges DEF LoadClient
  <2>4. req[r].issuer \in Issuers
    BY <2>1 DEF AllFit, Fit, FitData
  <2> QED
    BY <2>1, <2>2, <2>3, <2>4 DEF Clienting, Found, FoundNone, Uses
<1>2. CASE RegisterClient(r)
  <2>1. req[r].pc = "register" /\ ~AuthUrl(r)
    BY <1>2 DEF RegisterClient, AuthUrl
  <2>2. PICK y \in ReqTypes :
          Goes(r, y) /\ Clienting(req[r], y) /\ y.pc = "persist" /\ y.client = r
    BY <1>2, RegisterClientStep
  <2>3. req'[r] = y /\ clients' = clients /\ doubled' = doubled
    BY <1>2, <2>2, OneChanges DEF RegisterClient
  <2>4. req[r].issuer \in Issuers
    BY <2>1 DEF AllFit, Fit, FitData
  <2> QED
    BY <2>1, <2>2, <2>3, <2>4 DEF Clienting, Registered
<1>3. CASE PersistClient(r)
  <2>1. req[r].pc = "persist" /\ ~AuthUrl(r)
    BY <1>3 DEF PersistClient, AuthUrl
  <2>2. PICK y \in ReqTypes :
          /\ Goes(r, y) /\ Clienting(req[r], y) /\ y.client = req[r].client
          /\ y.pc = IF req[r].kind = "callback" THEN "exchange" ELSE "authUrl"
    BY <1>3, PersistClientStep
  <2>3. /\ req'[r] = y /\ doubled' = doubled
        /\ clients' = [clients EXCEPT ![req[r].issuer] = req[r].client]
    BY <1>3, <2>2, OneChanges DEF PersistClient
  <2>4. req[r].issuer \in Issuers
    BY <2>1 DEF AllFit, Fit, FitData
  <2> QED
    BY <2>1, <2>2, <2>3, <2>4 DEF Clienting, Persisted, Uses
<1>4. CASE AuthUrl(r)
  <2>1. req[r].pc = "authUrl"
    BY <1>4 DEF AuthUrl
  <2>2. PICK y \in ReqTypes :
          /\ Goes(r, y) /\ y.pc = "finish" /\ y.answer = "provider"
          /\ y.issuer = req[r].issuer /\ y.client = req[r].client
    BY <1>4, AuthUrlStep
  <2>3. req'[r] = y /\ clients' = clients /\ doubled' = doubled
    BY <1>4, <2>2, OneChanges DEF AuthUrl, Quiet
  <2>4. req[r].issuer \in Issuers
    BY <2>1 DEF AllFit, Fit, FitData
  <2> QED
    BY <2>1, <2>2, <2>3, <2>4 DEF SentOff
<1> QED
  BY <1>1, <1>2, <1>3, <1>4 DEF ClientStep

LEMMA OneClientStep ==
  ASSUME Sound, Tracked, OneClient, NEW r \in Requests, Steps(r), ClientStep(r)
  PROVE  OneClient'
<1>0. Types /\ AllFit /\ Changes(r)
  BY StepChanges DEF Sound, Steps
<1>1. \A q \in Requests : q # r => req'[q] = req[q]
  BY <1>0, ChangesFrame
<1>2. /\ req[r].issuer \in Issuers /\ req'[r].issuer = req[r].issuer
      /\ req'[r].answer # "wrongClient"
      /\ \/ ~AuthUrl(r) /\ (Found(r) \/ FoundNone(r) \/ Registered(r) \/ Persisted(r))
         \/ SentOff(r)
  BY <1>0, ClientStepIs
<1>3. doubled \subseteq doubled'
  BY <1>2 DEF Found, FoundNone, Registered, Persisted, SentOff
\* The store: the same, or with the client of the one that made it.
<1>4. ASSUME NEW x, HasClient(x, clients, doubled)
      PROVE  HasClient(x, clients', doubled')
  <2>1. CASE ~Persisted(r)
    <3>1. clients' = clients
      BY <1>2, <2>1 DEF Found, FoundNone, Registered, SentOff
    <3> QED
      BY <1>3, <1>4, <3>1, HasClientStays
  <2>2. CASE Persisted(r)
    <3>1. doubled' = doubled /\ Makes(req[r])
          /\ clients' = [clients EXCEPT ![req[r].issuer] = req[r].client]
      BY <2>2 DEF Persisted, Makes
    <3>2. req[r].issuer \in doubled \/ clients[req[r].issuer] = NoClient
      BY <3>1 DEF OneClient
    <3>3. CASE x.issuer = req[r].issuer
      BY <1>4, <3>1, <3>2, <3>3 DEF HasClient
    <3>4. CASE x.issuer # req[r].issuer
      <4>1. clients'[x.issuer] = clients[x.issuer]
        BY <1>0, <3>1, <3>4 DEF Types
      <4> QED
        BY <1>4, <3>1, <4>1 DEF HasClient
    <3> QED
      BY <3>3, <3>4
  <2> QED
    BY <2>1, <2>2
<1>5. Uses(req'[r]) \/ SentOff(r) => HasClient(req'[r], clients', doubled')
  <2>1. CASE Found(r)
    BY <1>2, <2>1 DEF Found, HasClient
  <2>2. CASE FoundNone(r) \/ Registered(r)
    BY <2>2 DEF FoundNone, Registered, Uses, SentOff
  <2>3. CASE Persisted(r)
    <3>1. req[r].client = r /\ r # NoClient
      BY <2>3, LoginAssumption DEF OneClient, Persisted, NoClient
    <3> QED
      BY <1>0, <1>2, <2>3, <3>1 DEF Persisted, HasClient, Types
  <2>4. CASE SentOff(r)
    <3>1. HasClient(req[r], clients, doubled)
      BY <2>4 DEF SentOff, OneClient, Uses
    <3>2. HasClient(req[r], clients', doubled')
      BY <1>4, <3>1
    <3> QED
      BY <1>2, <2>4, <3>2 DEF SentOff, HasClient
  <2> QED
    BY <1>2, <2>1, <2>2, <2>3, <2>4
<1>6. ASSUME NEW q \in Requests, InSession(q)'
      PROVE  HasClient(req'[q], clients', doubled')
  <2>1. CASE InSession(q)
    <3>1. req'[q].issuer = req[q].issuer /\ req'[q].client = req[q].client
      BY <2>1, FlowsKeepClients
    <3>2. HasClient(req[q], clients, doubled)
      BY <2>1 DEF OneClient
    <3>3. HasClient(req[q], clients', doubled')
      BY <1>4, <3>2
    <3> QED
      BY <3>1, <3>3 DEF HasClient
  <2>2. CASE AuthUrl(r) /\ q = r
    BY <1>2, <1>5, <2>2
  <2> QED
    BY <1>6, <2>1, <2>2, SessionsGrow
\* The maker of a client is alone with its issuer.
<1>7. ASSUME Makes(req'[r])
      PROVE  /\ req'[r].issuer \in doubled' \/ clients'[req'[r].issuer] = NoClient
             /\ req'[r].pc = "persist" => req'[r].client = r
             /\ \A q \in Requests : q # r /\ Makes(req[q]) /\ req[q].issuer = req[r].issuer =>
                  req[r].issuer \in doubled'
  <2>1. CASE FoundNone(r)
    <3>1. \A q \in Requests : Makes(req[q]) /\ req[q].issuer = req[r].issuer =>
            q \in Registering(req[r].issuer)
      BY DEF Makes, Registering
    <3> QED
      BY <1>2, <2>1, <3>1 DEF FoundNone
  <2>2. CASE Registered(r)
    <3>1. Makes(req[r])
      BY <2>2 DEF Registered, Makes
    <3> QED
      BY <1>2, <2>2, <3>1 DEF Registered, OneClient
  <2> QED
    BY <1>2, <1>7, <2>1, <2>2 DEF Found, Persisted, SentOff, Uses, Makes
<1>8. ASSUME NEW q \in Requests, Makes(req'[q])
      PROVE  req'[q].issuer \in doubled' \/ clients'[req'[q].issuer] = NoClient
  <2>1. CASE q = r
    BY <1>7, <1>8, <2>1
  <2>2. CASE q # r
    <3>1. req'[q] = req[q] /\ Makes(req[q])
      BY <1>1, <1>8, <2>2
    <3>2. req[q].issuer \in doubled \/ clients[req[q].issuer] = NoClient
      BY <3>1 DEF OneClient
    <3>3. CASE Persisted(r)
      <4>1. /\ Makes(req[r]) /\ clients' = [clients EXCEPT ![req[r].issuer] = req[r].client]
        BY <3>3 DEF Persisted, Makes
      <4>2. req[q].issuer = req[r].issuer => req[q].issuer \in doubled
        BY <2>2, <3>1, <4>1 DEF OneClient
      <4>3. req[q].issuer # req[r].issuer => clients'[req[q].issuer] = clients[req[q].issuer]
        BY <1>0, <4>1 DEF Types
      <4> QED
        BY <1>3, <3>1, <3>2, <4>2, <4>3
    <3>4. CASE ~Persisted(r)
      <4>1. clients' = clients
        BY <1>2, <3>4 DEF Found, FoundNone, Registered, SentOff
      <4> QED
        BY <1>3, <3>1, <3>2, <4>1
    <3> QED
      BY <3>3, <3>4
  <2> QED
    BY <2>1, <2>2
<1>9. ASSUME NEW p \in Requests, NEW q \in Requests, Makes(req'[p]), Makes(req'[q]),
             req'[p].issuer = req'[q].issuer
      PROVE  p = q \/ req'[p].issuer \in doubled'
  BY <1>1, <1>2, <1>3, <1>7, <1>9 DEF OneClient
<1>10. ASSUME NEW q \in Requests
       PROVE  /\ req'[q].pc = "persist" => req'[q].client = q
              /\ Uses(req'[q]) => HasClient(req'[q], clients', doubled')
  <2>1. CASE q = r
    BY <1>5, <1>7, <2>1 DEF Makes
  <2>2. CASE q # r
    <3>1. req'[q] = req[q]
      BY <1>1, <2>2
    <3>2. Uses(req[q]) => HasClient(req[q], clients, doubled)
      BY DEF OneClient
    <3>3. req[q].pc = "persist" => req[q].client = q
      BY DEF OneClient
    <3> QED
      BY <1>4, <3>1, <3>2, <3>3
  <2> QED
    BY <2>1, <2>2
<1>11. ClientIsKnown'
  BY <1>1, <1>2, <1>3 DEF OneClient, ClientIsKnown
<1> QED
  BY <1>6, <1>8, <1>9, <1>10, <1>11 DEF OneClient

LEMMA OneClientOtherwise ==
  /\ Sound /\ OneClient /\ LoginsLost => OneClient'
  /\ OneClient /\ UNCHANGED lvars => OneClient'
  /\ LoginInit => OneClient
<1>1. ASSUME Sound, OneClient, LoginsLost PROVE OneClient'
  <2>1. \A r \in Requests : req'[r].pc \notin OpenPcs
    BY <1>1, PathsLost
  <2>2. \A r \in Requests : ~Makes(req'[r]) /\ ~Uses(req'[r]) /\ req'[r].pc # "finish"
                            /\ req'[r].pc # "persist"
    BY <2>1 DEF Makes, Uses, OpenPcs
  <2>3. \A f \in Requests : ~InSession(f)'
    BY <1>1, <2>1, NewSessionFields DEF InSession, LoginsLost
  <2> QED
    BY <2>2, <2>3 DEF OneClient, ClientIsKnown
<1>2. ASSUME OneClient, UNCHANGED lvars PROVE OneClient'
  BY <1>2 DEF OneClient, ClientIsKnown, InSession, lvars
<1>3. ASSUME LoginInit PROVE OneClient
  <2>1. \A r \in Requests : ~Makes(req[r]) /\ ~Uses(req[r]) /\ req[r].pc = "idle"
    BY <1>3, NoRequestFields DEF LoginInit, Makes, Uses
  <2>2. \A f \in Requests : ~InSession(f)
    BY <1>3, <2>1, NewSessionFields DEF LoginInit, InSession, OpenPcs
  <2> QED
    BY <2>1, <2>2 DEF OneClient, ClientIsKnown
<1> QED
  BY <1>1, <1>2, <1>3
=============================================================================
