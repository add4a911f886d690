----------------------------- MODULE WebIdOidc ------------------------------
(***************************************************************************)
(* The decisions of the OpenID Connect code that need no state: which web  *)
(* identifiers an issuer speaks for, which provider a web identifier       *)
(* names, which audience a token may have, and what an error is answered   *)
(* with.                                                                   *)
(*                                                                         *)
(* A URL is a record of its scheme, its host as a sequence of labels and   *)
(* its path; an issuer is a URL, usually one with an empty path.           *)
(***************************************************************************)
EXTENDS Naturals, Sequences, FiniteSets

CONSTANTS
  None,          \* no value: undefined, null or the empty string
  ServerUri,     \* where this server is, and the issuer of its provider
  Providers,     \* the origins that answer for an OpenID configuration
  IssuerOf,      \* the issuer that the configuration at an origin names
  LinkHeader,    \* web identifier -> issuer in the Link header of an OPTIONS
  ProfileIssuer  \* web identifier -> issuer in the profile document

\* This server is a provider, and one that names itself.
ASSUME ProviderAssumption ==
  /\ ServerUri \in Providers
  /\ None \notin Providers
  /\ ServerUri.path = ""
  /\ IssuerOf[ServerUri] = ServerUri

Origin(url) == [url EXCEPT !.path = ""]

-----------------------------------------------------------------------------
(* Who speaks for a web identifier.                                        *)

IsSubdomain(subdomain, domain) ==
  /\ subdomain.scheme = domain.scheme
  /\ subdomain.host # <<>>
  /\ Tail(subdomain.host) = domain.host

DomainMatches(issuer, webId) ==
  \/ issuer = Origin(webId)
  \/ IsSubdomain(Origin(webId), issuer)

\* What the comment of domainMatches asks for, said of the names alone: the
\* host of the web identifier is the issuer's, or one label in front of it.
HostedBy(issuer, webId) ==
  /\ webId.scheme = issuer.scheme
  /\ \/ webId.host = issuer.host
     \/ \E label \in {webId.host[i] : i \in 1 .. Len(webId.host)} :
          webId.host = <<label>> \o issuer.host

\* The web identifier of claims, None where extractWebId throws: the `webid`
\* claim first, then a subject that is a URI.
ExtractWebId(claims) ==
  CASE claims.iss # None /\ claims.webid # None -> claims.webid
    [] claims.iss # None /\ claims.webid = None /\ claims.subIsUri -> claims.sub
    [] OTHER -> None

FilterAudience(audiences) ==
  \E aud \in audiences : DomainMatches(ServerUri, aud)

-----------------------------------------------------------------------------
(* Discovery. Every request to another site can also fail.                 *)

\* What was typed without a scheme is taken for a secure site (the names here
\* do not begin with "http").
NormalizeUri(uri) ==
  IF uri.scheme = "" THEN [uri EXCEPT !.scheme = "https"] ELSE uri

ProviderExists(uri) == Origin(uri) \in Providers

ParseProviderLink(webId) == LinkHeader[webId]

\* The header first, then the profile; the origin of either, None where
\* validateProviderUri throws.
DiscoverProviderFor(webId) ==
  LET issuer == IF ParseProviderLink(webId) # None
                  THEN ParseProviderLink(webId)
                  ELSE ProfileIssuer[webId]
  IN  IF issuer = None THEN None ELSE Origin(issuer)

\* What webIdFromClaims accepts.
ConfirmedBy(issuer, webId) ==
  DomainMatches(issuer, webId) \/ DiscoverProviderFor(webId) = issuer

-----------------------------------------------------------------------------
(* The names the server gives out, and the errors it answers with.         *)

\* ServerHost.accountUriFor.
AccountUriFor(name) == [ServerUri EXCEPT !.host = <<name>> \o ServerUri.host]

\* UserAccount.accountUri: the site of a web identifier.
AccountUri(webId) == Origin(webId)

\* A cookie goes to the server's host and to every host below it; a name of
\* one label gets no domain, and its cookie only goes back to itself.
CookieGoesTo(host) ==
  \/ host = ServerUri.host
  \/ /\ Len(ServerUri.host) > 1
     /\ Len(host) > Len(ServerUri.host)
     /\ SubSeq(host, Len(host) - Len(ServerUri.host) + 1, Len(host))
          = ServerUri.host

\* A bearer header without a token turns every error into a 400.
StatusCodeFor(status, header) == IF header = "empty" THEN 400 ELSE status
=============================================================================
