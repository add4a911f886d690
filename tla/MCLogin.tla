------------------------------ MODULE MCLogin -------------------------------
(***************************************************************************)
(* A small instance of AuthServer: the server and one other provider, a    *)
(* local user and one of another site, two browsers. Each behaviour has    *)
(* the traffic of one of the rows of SmallTraffics.                        *)
(***************************************************************************)
EXTENDS AuthServer

CONSTANTS b1, b2

Url(labels) == [scheme |-> "https", host |-> labels, path |-> ""]
At(url, path) == [url EXCEPT !.path = path]

Server == Url(<<"example", "com">>)
Idp == Url(<<"idp", "net">>)
AliceSite == Url(<<"alice", "example", "com">>)

Alice == At(AliceSite, "/web#id")
Bob == At(Url(<<"bob", "org">>), "/#me")

MCWebIds == {Alice, Bob}

\* Every account's site shows the server's own configuration.
MCProviders == {Server, Idp, AliceSite}
MCIssuerOf == [p \in MCProviders |-> IF p = Idp THEN Idp ELSE Server]

MCLinkHeader == [w \in MCWebIds |-> None]
MCProfileIssuer == [w \in MCWebIds |-> IF w = Bob THEN At(Idp, "/") ELSE None]

Claims(iss, webid, sub, isUri, aud) ==
  [iss |-> iss, webid |-> webid, sub |-> sub, subIsUri |-> isUri, aud |-> {aud}]

MCTokenClaims ==
  { Claims(Idp, Bob, None, FALSE, Server), Claims(Idp, Alice, None, FALSE, Server),
    Claims(Idp, None, None, FALSE, Server), Claims(Idp, Bob, None, FALSE, Idp),
    Claims(Server, None, Alice, TRUE, AliceSite) }

MCNames == {"alice", "mail", "nobody"}
MCAlias == [n \in MCNames |-> IF n = "mail" THEN "alice" ELSE None]
MCRecord == [n \in MCNames |-> IF n = "alice" THEN Alice ELSE None]

Traffic(kinds, browsers, open, posts, page, faults) ==
  [kinds |-> kinds, browsers |-> browsers, open |-> open, posts |-> posts,
   welcome |-> page, crashes |-> faults]

SmallTraffics == {
  \* passwords, logouts and what else a session is used for, side by side
  Traffic(<<{"getLogin", "password"}, {"password"},
            {"logout", "prove", "page", "walletGet"}>>, {b1}, 2, 0, FALSE, 0),
  Traffic(<<{"password"}, {"present", "getLogin"}>>, {b1}, 1, 0, FALSE, 0),
  \* two browsers and another provider
  Traffic(<<{"selectProvider"}, {"callback"}, {"callback"}>>,
          {b1, b2}, 2, 0, FALSE, 0),
  \* two registrations at a time
  Traffic(<<{"selectProvider"}, {"selectProvider"}, {"callback"}>>,
          {b1}, 2, 0, FALSE, 0),
  \* the server as its own provider, one request after the other; a fault
  Traffic(<<{"selectProvider"}, {"authorize"}, {"getLogin"}, {"password"},
            {"authorize"}, {"callback"}, {"bearer", "logout"}>>,
          {b1}, 1, 0, FALSE, 1),
  \* a signup beside other uses of the session, and the codes it is given
  Traffic(<<{"signup"}, {"prove", "page"}, {"logout"}>>, {b1}, 2, 0, FALSE, 0),
  Traffic(<<{"selectProvider"}, {"signup"}, {"authorize"}, {"callback"}>>,
          {b1}, 1, 0, FALSE, 0),
  \* tokens beside a session
  Traffic(<<{"bearer"}, {"logout", "page"}, {"bearer", "page"}>>,
          {b1}, 2, 0, FALSE, 0),
  \* a restart in the middle of a login
  Traffic(<<{"selectProvider", "password"}, {"callback", "page"}>>,
          {b1}, 1, 0, FALSE, 1),
  \* the start, with faults, and the transactions
  Traffic(<<>>, {b1}, 0, 0, TRUE, 2),
  Traffic(<<>>, {b1}, 0, 3, FALSE, 1) }
=============================================================================
