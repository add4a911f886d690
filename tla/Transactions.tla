---------------------------- MODULE Transactions ----------------------------
(***************************************************************************)
(* The endpoint of the grant negotiation protocol: a client posts what it  *)
(* wants and is given a handle; a later post with that handle is answered  *)
(* from the stored transaction. The store is in the memory of the process. *)
(*                                                                         *)
(* A transaction that is loaded goes through the constructor a new request *)
(* goes through, which reads other names than it writes: the keys are      *)
(* always lost, and what else is depends on what the store hands back, the *)
(* object it was given or the one its JSON form describes. The store is    *)
(* not in the repository: a load may do either.                            *)
(***************************************************************************)
EXTENDS Naturals, FiniteSets

CONSTANTS
  NoTx,          \* no transaction, no handle, nothing asked for
  Posts,         \* the posts to the endpoint
  Handles        \* the handles a generator may come up with

\* A transaction names the post its resources came with, the one its keys
\* came with, and its own handle.
Transaction == [resources : Posts \cup {NoTx}, keys : Posts \cup {NoTx},
                handle : Handles]

ASSUME TransactionAssumption ==
  /\ NoTx \notin Transaction
  /\ NoTx \notin Posts
  /\ NoTx \notin Handles

VARIABLES
  txs,      \* the store: handle -> transaction, or NoTx
  post,     \* what each post is at
  drawn,    \* the handles drawn so far
  lost      \* the handles whose transactions went with a process

tvars == <<txs, post, drawn, lost>>

NoPost == [pc |-> "idle", given |-> NoTx, tx |-> NoTx, status |-> 0]

TransactionsInit ==
  /\ txs = [h \in Handles |-> NoTx]
  /\ post = [p \in Posts |-> NoPost]
  /\ drawn = {}
  /\ lost = {}

PostGoes(p, changed) == post' = [post EXCEPT ![p] = changed]

Answer(p, status) ==
  PostGoes(p, [post[p] EXCEPT !.pc = "done", !.status = status])

\* A body without keys, resources or interaction.
RefusePost(p) ==
  /\ post[p].pc = "idle"
  /\ Answer(p, 400)
  /\ UNCHANGED <<txs, drawn, lost>>

ReceivePost(p) ==
  /\ post[p].pc = "idle"
  /\ \E h \in {NoTx} \cup {post[q].tx.handle : q \in {o \in Posts :
                 post[o].pc = "done" /\ post[o].status = 200}} :
       PostGoes(p, [post[p] EXCEPT !.given = h,
                      !.pc = IF h = NoTx THEN "parse" ELSE "load"])
  /\ UNCHANGED <<txs, drawn, lost>>

\* The constructor of a transaction: a handle is drawn unless there is one.
Construct(p, resources, keys, handle) ==
  IF handle # NoTx
    THEN /\ PostGoes(p, [post[p] EXCEPT !.pc = "store",
              !.tx = [resources |-> resources, keys |-> keys, handle |-> handle]])
         /\ UNCHANGED drawn
    ELSE \E h \in Handles \ drawn :
         /\ PostGoes(p, [post[p] EXCEPT !.pc = "store",
              !.tx = [resources |-> resources, keys |-> keys, handle |-> h]])
         /\ drawn' = drawn \cup {h}

ParseTransaction(p) ==
  /\ post[p].pc = "parse"
  /\ Construct(p, p, p, NoTx)
  /\ UNCHANGED <<txs, lost>>

\* Mutant: the stored handle with what this post asks for.
LoadOver(p) ==
  /\ post[p].pc = "load"
  /\ LET tx == txs[post[p].given] IN
       IF tx = NoTx THEN Answer(p, 500) /\ UNCHANGED drawn
                    ELSE Construct(p, p, p, tx.handle)
  /\ UNCHANGED <<txs, lost>>

\* Mutant: a transaction that is continued leaves the store.
LoadOnce(p) ==
  /\ post[p].pc = "load"
  /\ LET tx == txs[post[p].given] IN
       IF tx = NoTx THEN Answer(p, 500) /\ UNCHANGED drawn
                    ELSE Construct(p, tx.resources, NoTx, NoTx)
  /\ txs' = [txs EXCEPT ![post[p].given] = NoTx]
  /\ UNCHANGED lost

\* `key` of the stored object is not `keys` of the parameters; its JSON form
\* has `handle` for `handles` and nothing of the rest. A handle the store
\* does not know yields null, which the constructor cannot take apart.
LoadTransaction(p) ==
  /\ post[p].pc = "load"
  /\ LET tx == txs[post[p].given] IN
       IF tx = NoTx
         THEN Answer(p, 500) /\ UNCHANGED drawn
         ELSE \/ Construct(p, tx.resources, NoTx, tx.handle)
              \/ Construct(p, NoTx, NoTx, NoTx)
  /\ UNCHANGED <<txs, lost>>

StoreTransaction(p) ==
  /\ post[p].pc = "store"
  /\ txs' = [txs EXCEPT ![post[p].tx.handle] = post[p].tx]
  /\ Answer(p, 200)
  /\ UNCHANGED <<drawn, lost>>

HandlePost(p) ==
  \/ ParseTransaction(p)
  \/ LoadTransaction(p)
  \/ StoreTransaction(p)

Posting ==
  \E p \in Posts : RefusePost(p) \/ ReceivePost(p) \/ HandlePost(p)

\* The end of the process: the store goes, and so do the posts under way.
TransactionsLost ==
  /\ txs' = [h \in Handles |-> NoTx]
  /\ post' = [p \in Posts |->
                IF post[p].pc \in {"idle", "done"} THEN post[p]
                ELSE [post[p] EXCEPT !.pc = "done"]]
  /\ lost' = lost \cup {h \in Handles : txs[h] # NoTx}
  /\ UNCHANGED drawn

-----------------------------------------------------------------------------
(* Properties.                                                             *)

\* The types of the endpoint.
TransactionTypeOK ==
  /\ txs \in [Handles -> Transaction \cup {NoTx}]
  /\ \A p \in Posts :
       /\ post[p].pc \in {"idle", "parse", "load", "store", "done"}
       /\ post[p].given \in Handles \cup {NoTx}
       /\ post[p].tx \in Transaction \cup {NoTx}
       /\ post[p].status \in {0, 200, 400, 500}
  /\ drawn \subseteq Handles
  /\ lost \subseteq drawn

\* The post that began the transaction of a handle.
Opened(p, h) ==
  post[p].given = NoTx /\ post[p].tx # NoTx /\ post[p].tx.handle = h

\* What is stored under a handle is what the client that was given the
\* handle asked for, or nothing; never what another client asked for
\* (handlePost stores what it loaded, or a copy of it, after an await).
TransactionsApart ==
  \A h \in Handles, p \in Posts :
    txs[h] # NoTx /\ Opened(p, h) => txs[h].resources \in {p, NoTx}

\* A handle that a client was answered with serves until the process ends:
\* only what was lost with a process makes a continued post fail
\* (storeTransaction comes before the answer, loadTransaction finds it).
HandlesServe ==
  \A p \in Posts : post[p].status = 500 => post[p].given \in lost
=============================================================================
