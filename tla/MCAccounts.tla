----------------------------- MODULE MCAccounts ------------------------------
(***************************************************************************)
(* Small instances of Accounts: two people who sign up, one after or       *)
(* beside the other, somebody who asks for a link, and one or two who      *)
(* follow it.                                                              *)
(***************************************************************************)
EXTENDS Accounts

CONSTANTS r1, r2, r3, r4, r5, alice, bob, other, home

\* alice and bob have a host each; other is one more WebID at alice's.
HostOf == [w \in WebIds |-> IF w = bob THEN bob ELSE alice]

\* Two signups, a link and a deletion.
DeletionKinds ==
  [r \in Requests |-> CASE r = r1 -> {"signup"}
                        [] r = r2 -> {"signup", "invalid"}
                        [] r = r3 -> {"askDelete", "askReset"}
                        [] r = r4 -> {"confirm", "change"}]

\* The first signs up for alice.  The second signs up for alice or for bob,
\* with an address of its own or with that of the first; as bob with the WebID
\* of alice's account; as alice with another WebID; and as bob with the id of
\* alice's record for an address.
DeletionBodies ==
  [r \in Requests |->
    IF r = r1
    THEN {[name |-> alice, account |-> alice, email |-> home]}
    ELSE {[name |-> alice, account |-> alice, email |-> None],
          [name |-> bob, account |-> bob, email |-> home],
          [name |-> bob, account |-> alice, email |-> home],
          [name |-> alice, account |-> other, email |-> home],
          [name |-> bob, account |-> bob, email |-> alice]}]

\* The link of one deletion followed once more.
TwiceKinds ==
  [r \in Requests |-> CASE r = r1 -> {"signup"}
                        [] r = r2 -> {"signup"}
                        [] r = r3 -> {"askDelete"}
                        [] r \in {r4, r5} -> {"confirm"}]

TwiceBodies ==
  [r \in Requests |-> {[name |-> alice, account |-> alice, email |-> home]}]

\* alice signs up, and somebody as bob with the WebID of alice's account.
SignupKinds == [r \in Requests |-> {"signup"}]

SignupBodies ==
  [r \in Requests |->
    {[name |-> IF r = r1 THEN alice ELSE bob, account |-> alice,
      email |-> None]}]
=============================================================================
