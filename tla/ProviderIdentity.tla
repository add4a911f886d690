-------------------------- MODULE ProviderIdentity --------------------------
(***************************************************************************)
(* What the key store of an OpenID provider promises: the provider gets    *)
(* one identity in its life. Before that it has none, and once it has one  *)
(* it keeps it, whatever happens to the processes that serve it.           *)
(***************************************************************************)
CONSTANTS Identities, NoIdentity

VARIABLE identity

Init == identity = NoIdentity

Choose == identity = NoIdentity /\ identity' \in Identities

Spec == Init /\ [][Choose]_identity
=============================================================================
