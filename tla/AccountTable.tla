----------------------------- MODULE AccountTable -----------------------------
(***************************************************************************)
(* What the accounts promise to the people who sign up for them.  A free   *)
(* name is taken in one step, credentials and files together; nobody takes *)
(* it over; and it only becomes free again by a link that was mailed to    *)
(* the address of the one who has it.  The promise ends for an account on  *)
(* which requests get in each other's way, and for one that a signup for   *)
(* another name comes to by its WebID.                                     *)
(***************************************************************************)
CONSTANTS Requests, Accounts, Keys, Files, None

VARIABLES
  account,  \* account[a]: who has the account, with which address and files
  spoilt,   \* the accounts about which nothing is promised any more
  over,     \* the requests that can sign up for nothing any more
  invited   \* those for whom a link that deletes their account was mailed

vars == <<account, spoilt, over, invited>>

Init ==
  /\ account = [a \in Accounts |-> None]
  /\ spoilt = {}
  /\ over = {}
  /\ invited = {}

SignUp(r, a, email) ==
  /\ account[a] = None /\ a \notin spoilt
  /\ r \notin over
  /\ account' = [account EXCEPT ![a] =
                  [by |-> r, email |-> email, files |-> [f \in Files |-> r]]]
  /\ over' = over \cup {r}
  /\ UNCHANGED <<spoilt, invited>>

\* r mails the link to somebody who has, or had, an account.
Invite(r, owner) ==
  /\ owner \in over
  /\ invited' = invited \cup {owner}
  /\ over' = over \cup {r}
  /\ UNCHANGED <<account, spoilt>>

Remove(a) ==
  /\ account[a] # None
  /\ account[a].email # None /\ account[a].by \in invited
  /\ account' = [account EXCEPT ![a] = None]
  /\ UNCHANGED <<spoilt, over, invited>>

Spoil(some) ==
  /\ account' = [a \in Accounts |-> IF a \in some THEN None ELSE account[a]]
  /\ spoilt' = spoilt \cup some
  /\ UNCHANGED <<over, invited>>

\* Requests end without an effect; with the process, so do the links.
GiveUp ==
  /\ UNCHANGED <<spoilt, account>>
  /\ over \subseteq over' /\ over' \subseteq Requests
  /\ invited' \in {invited, {}}

Next ==
  \/ GiveUp
  \/ \E some \in SUBSET Accounts : Spoil(some)
  \/ \E a \in Accounts : Remove(a)
  \/ \E r, owner \in Requests : Invite(r, owner)
  \/ \E r \in Requests, a \in Accounts, email \in Keys \cup {None} :
       SignUp(r, a, email)

Spec == Init /\ [][Next]_vars
=============================================================================
