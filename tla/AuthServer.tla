----------------------------- MODULE AuthServer -----------------------------
(***************************************************************************)
(* The part of the server that knows who is asking, as a whole: its start, *)
(* the sessions and logins, and the transactions of the grant negotiation  *)
(* endpoint, which share one process and end with it.                      *)
(***************************************************************************)
EXTENDS Login, Transactions

vars == <<pvars, lvars, tvars>>

Init ==
  /\ ProviderInit
  /\ LoginInit
  /\ TransactionsInit
  /\ hasWelcome = traffic.welcome

\* The traffic also says how many posts there are and how often the process
\* or a step of its start may fail.
Start ==
  /\ Starting
  /\ crashes' <= traffic.crashes
  /\ UNCHANGED <<lvars, tvars>>

Visit == Visiting /\ UNCHANGED tvars

Post ==
  /\ Serving
  /\ Posting
  /\ Cardinality({p \in Posts : post'[p].pc # "idle"}) <= traffic.posts
  /\ UNCHANGED <<pvars, lvars>>

Crash ==
  /\ ProcessEnds
  /\ crashes' <= traffic.crashes
  /\ LoginsLost
  /\ TransactionsLost

Next == Start \/ Visit \/ Post \/ Crash

\* What the process can do it does: the steps of its start, of the copy of
\* the page, and of a request that waits for no other site. Nothing is said
\* of other sites, which may never answer: no request to them has a timeout.
Fairness ==
  /\ WF_vars(Start /\ LoadProviderConfig)
  /\ WF_vars(Start /\ InitProviderKeychain)
  /\ WF_vars(Start /\ SaveProviderConfig)
  /\ \A f \in SiteFiles : WF_vars(Start /\ CopyTemplateContainer(f))
  /\ WF_vars(Start /\ ProcessHandlebarFile)
  /\ \A r \in Requests : WF_vars(LocalStep(r) /\ UNCHANGED tvars)

Spec == Init /\ [][Next]_vars /\ Fairness

-----------------------------------------------------------------------------
(* Properties.                                                             *)

\* The types of all the parts.
TypeOK ==
  /\ ProviderTypeOK
  /\ LoginTypeOK
  /\ TransactionTypeOK

\* The name of r was looked up, and no record came of it.
RecordUnread(r) ==
  req[r].pc = "stuck" /\ req[r].name # None /\ req[r].webId = None

=============================================================================
