------------------------- MODULE AuthServer_proofs --------------------------
(***************************************************************************)
(* Proofs about the start of the server, the transactions of the grant     *)
(* negotiation endpoint, and the properties of the whole.                  *)
(***************************************************************************)
EXTENDS AuthServer, Login_proofs, TLAPS

-----------------------------------------------------------------------------
(***************************************************************************)
(* Transactions.                                                           *)
(***************************************************************************)
PostPcs == {"idle", "parse", "load", "store", "done"}
Statuses == {0, 200, 400, 500}
HandleOrNot == Handles \cup {NoTx}
TxOrNot == Transaction \cup {NoTx}

PostTypes == [pc : PostPcs, given : HandleOrNot, tx : TxOrNot, status : Statuses]

\* The types, as one function set for the posts.
TxTypes ==
  /\ txs \in [Handles -> Transaction \cup {NoTx}]
  /\ post \in [Posts -> PostTypes]
  /\ drawn \subseteq Handles
  /\ lost \subseteq drawn

\* Every handle in use was drawn, a transaction is stored under its own
\* handle, and a post has one as soon as it has come to the store.
HandlesDrawn ==
  /\ \A h \in Handles : txs[h] # NoTx => h \in drawn /\ txs[h].handle = h
  /\ \A p \in Posts :
       /\ post[p].tx # NoTx => post[p].tx.handle \in drawn
       /\ post[p].pc = "store" \/ post[p].status = 200 => post[p].tx # NoTx
       /\ post[p].pc \in {"idle", "parse", "load"} => post[p].tx = NoTx
       /\ post[p].pc \in {"idle", "parse"} => post[p].given = NoTx
       /\ post[p].pc = "load" => post[p].given # NoTx
       /\ post[p].pc # "done" => post[p].status = 0

\* Also the transaction that a post is about to store is its client's.
PostsApart ==
  /\ TransactionsApart
  /\ \A p, q \in Posts :
       post[p].tx # NoTx /\ Opened(q, post[p].tx.handle) =>
         post[p].tx.resources \in {q, NoTx}

\* The handles of answers, and those that were sent back, are there or lost.
HandlesKept ==
  /\ HandlesServe
  /\ \A p \in Posts :
       /\ post[p].status = 200 =>
            post[p].tx.handle \in lost \/ txs[post[p].tx.handle] # NoTx
       /\ post[p].given # NoTx =>
            post[p].given \in lost \/ txs[post[p].given] # NoTx

TxInv == TxTypes /\ HandlesDrawn /\ PostsApart /\ HandlesKept

\* What the posts may be at, each by itself.
LEMMA PostConstants ==
  /\ \A pc \in {"idle", "parse", "load", "store", "done"} : pc \in PostPcs
  /\ \A status \in {0, 200, 400, 500} : status \in Statuses
  /\ NoTx \in HandleOrNot /\ NoTx \in TxOrNot
  /\ \A h \in Handles : h \in HandleOrNot
  /\ \A tx \in Transaction : tx \in TxOrNot
  BY DEF PostPcs, Statuses, HandleOrNot, TxOrNot

LEMMA TxInitially == TransactionsInit => TxInv
<1> SUFFICES ASSUME TransactionsInit PROVE TxInv
  OBVIOUS
<1>1. TxTypes
  <2>1. NoPost \in PostTypes
    BY PostConstants DEF NoPost, PostTypes
  <2> QED
    BY <2>1 DEF TransactionsInit, TxTypes
<1>2. \A p \in Posts : post[p] = NoPost
  BY DEF TransactionsInit
<1>3. \A h \in Handles : txs[h] = NoTx
  BY DEF TransactionsInit
<1> QED
  BY <1>1, <1>2, <1>3 DEF TxInv, HandlesDrawn, PostsApart, HandlesKept,
     TransactionsApart, HandlesServe, Opened, NoPost

\* What a post is at changes as the endpoint says, and nothing of the others.
LEMMA PostChanges ==
  ASSUME TxTypes, NEW p \in Posts, NEW y \in PostTypes,
         post' = [post EXCEPT ![p] = y]
  PROVE  /\ post' \in [Posts -> PostTypes]
         /\ post'[p] = y
         /\ \A q \in Posts : q # p => post'[q] = post[q]
  BY DEF TxTypes

\* The store tells a transaction from none.
LEMMA TransactionIsOne == NoTx \notin Transaction
  BY TransactionAssumption

\* The answer of a post.
LEMMA AnswerPost ==
  ASSUME TxTypes, NEW p \in Posts, NEW status \in Statuses, Answer(p, status)
  PROVE  /\ post' \in [Posts -> PostTypes]
         /\ post'[p].pc = "done" /\ post'[p].status = status
         /\ post'[p].tx = post[p].tx /\ post'[p].given = post[p].given
         /\ \A q \in Posts : q # p => post'[q] = post[q]
<1> DEFINE y == [post[p] EXCEPT !.pc = "done", !.status = status]
<1>1. post' = [post EXCEPT ![p] = y]
  BY DEF Answer, PostGoes
<1>2. post[p] \in PostTypes /\ "done" \in PostPcs
  BY PostConstants DEF TxTypes
<1>3. /\ y \in PostTypes
      /\ y.pc = "done" /\ y.status = status
      /\ y.tx = post[p].tx /\ y.given = post[p].given
  BY <1>2, Zenon DEF PostTypes
<1> HIDE DEF y
<1> QED
  BY <1>1, <1>3, PostChanges

\* A post that is answered before it comes to the store.
LEMMA RefusePostTx ==
  ASSUME TxInv, NEW p \in Posts, RefusePost(p)
  PROVE  TxInv'
<1>1. /\ Answer(p, 400) /\ 400 \in Statuses
      /\ UNCHANGED <<txs, drawn, lost>>
      /\ post[p].pc = "idle"
  BY PostConstants DEF RefusePost
<1>2. /\ post' \in [Posts -> PostTypes]
      /\ post'[p].pc = "done" /\ post'[p].status = 400
      /\ post'[p].tx = post[p].tx /\ post'[p].given = post[p].given
      /\ \A q \in Posts : q # p => post'[q] = post[q]
  BY <1>1, AnswerPost DEF TxInv
<1> QED
  BY <1>1, <1>2 DEF TxInv, TxTypes, HandlesDrawn, PostsApart, HandlesKept,
     TransactionsApart, HandlesServe, Opened

LEMMA ReceivePostTx ==
  ASSUME TxInv, NEW p \in Posts, ReceivePost(p)
  PROVE  TxInv'
<1>1. PICK h \in {NoTx} \cup {post[q].tx.handle : q \in {o \in Posts :
                 post[o].pc = "done" /\ post[o].status = 200}} :
        PostGoes(p, [post[p] EXCEPT !.given = h,
                      !.pc = IF h = NoTx THEN "parse" ELSE "load"])
  BY DEF ReceivePost
<1> DEFINE pc == IF h = NoTx THEN "parse" ELSE "load"
           y == [post[p] EXCEPT !.given = h, !.pc = pc]
<1>2. UNCHANGED <<txs, drawn, lost>> /\ post[p].pc = "idle"
  BY DEF ReceivePost
<1>3. post[p] \in PostTypes
  BY DEF TxInv, TxTypes
<1>4. h # NoTx => \E q \in Posts : post[q].status = 200 /\ h = post[q].tx.handle
  BY <1>1
<1>5. h # NoTx => h \in Handles /\ (h \in lost \/ txs[h] # NoTx)
  BY <1>4 DEF TxInv, TxTypes, HandlesDrawn, HandlesKept
<1>6. h \in HandleOrNot /\ pc \in PostPcs
  BY <1>5, PostConstants
<1>7. /\ h = NoTx => pc = "parse"
      /\ h # NoTx => pc = "load"
  OBVIOUS
<1>8. post' = [post EXCEPT ![p] = y]
  BY <1>1 DEF PostGoes
<1> HIDE DEF pc
<1>9. /\ y \in PostTypes
      /\ y.pc = pc /\ y.status = post[p].status
      /\ y.tx = post[p].tx /\ y.given = h
  BY <1>3, <1>6, Zenon DEF PostTypes
<1> HIDE DEF y
<1>10. /\ post' \in [Posts -> PostTypes] /\ post'[p] = y
       /\ \A q \in Posts : q # p => post'[q] = post[q]
  BY <1>8, <1>9, PostChanges DEF TxInv
<1>11. post[p].tx = NoTx /\ post[p].status = 0
  BY <1>2 DEF TxInv, HandlesDrawn
<1> QED
  BY <1>2, <1>5, <1>7, <1>9, <1>10, <1>11 DEF TxInv, TxTypes, HandlesDrawn,
     PostsApart, HandlesKept, TransactionsApart, HandlesServe, Opened

\* The constructor: a post comes to the store with the handle it has, or with
\* one that was never drawn.
LEMMA ConstructPost ==
  ASSUME TxTypes, NEW p \in Posts, NEW res \in Posts \cup {NoTx},
         NEW ks \in Posts \cup {NoTx}, NEW handle \in Handles \cup {NoTx},
         Construct(p, res, ks, handle)
  PROVE  \E h \in Handles :
           /\ post' \in [Posts -> PostTypes]
           /\ post'[p].pc = "store" /\ post'[p].status = post[p].status
           /\ post'[p].given = post[p].given
           /\ post'[p].tx \in Transaction
           /\ post'[p].tx.handle = h /\ post'[p].tx.resources = res
           /\ \A q \in Posts : q # p => post'[q] = post[q]
           /\ \/ handle = h /\ drawn' = drawn
              \/ handle = NoTx /\ h \notin drawn /\ drawn' = drawn \cup {h}
<1>1. \E h \in Handles :
        /\ post' = [post EXCEPT ![p] = [post[p] EXCEPT !.pc = "store",
             !.tx = [resources |-> res, keys |-> ks, handle |-> h]]]
        /\ \/ handle = h /\ drawn' = drawn
           \/ handle = NoTx /\ h \notin drawn /\ drawn' = drawn \cup {h}
  <2>1. CASE handle # NoTx
    <3>1. handle \in Handles
      BY <2>1
    <3> QED
      BY <2>1, <3>1, Zenon DEF Construct, PostGoes
  <2>2. CASE handle = NoTx
    BY <2>2, Zenon DEF Construct, PostGoes
  <2> QED
    BY <2>1, <2>2
<1>2. PICK h \in Handles :
        /\ post' = [post EXCEPT ![p] = [post[p] EXCEPT !.pc = "store",
             !.tx = [resources |-> res, keys |-> ks, handle |-> h]]]
        /\ \/ handle = h /\ drawn' = drawn
           \/ handle = NoTx /\ h \notin drawn /\ drawn' = drawn \cup {h}
  BY <1>1, Zenon
<1> DEFINE tx == [resources |-> res, keys |-> ks, handle |-> h]
           y == [post[p] EXCEPT !.pc = "store", !.tx = tx]
<1>3. tx \in Transaction /\ tx.handle = h /\ tx.resources = res
  BY DEF Transaction
<1>4. post' = [post EXCEPT ![p] = y]
  BY <1>2
<1> HIDE DEF tx
<1>5. post[p] \in PostTypes /\ "store" \in PostPcs /\ tx \in TxOrNot
  BY <1>3, PostConstants DEF TxTypes
<1>6. /\ y \in PostTypes /\ y.pc = "store" /\ y.tx = tx
      /\ y.status = post[p].status /\ y.given = post[p].given
  BY <1>5, Zenon DEF PostTypes
<1> HIDE DEF y
<1>7. /\ post' \in [Posts -> PostTypes] /\ post'[p] = y
      /\ \A q \in Posts : q # p => post'[q] = post[q]
  BY <1>4, <1>6, PostChanges
<1> QED
  BY <1>2, <1>3, <1>6, <1>7

LEMMA ParseTransactionTx ==
  ASSUME TxInv, NEW p \in Posts, ParseTransaction(p)
  PROVE  TxInv'
<1>1. /\ Construct(p, p, p, NoTx)
      /\ UNCHANGED <<txs, lost>>
      /\ post[p].pc = "parse" /\ post[p].given = NoTx /\ post[p].status = 0
  BY DEF ParseTransaction, TxInv, HandlesDrawn
<1>2. PICK h \in Handles :
           /\ post' \in [Posts -> PostTypes]
           /\ post'[p].pc = "store" /\ post'[p].status = post[p].status
           /\ post'[p].given = post[p].given
           /\ post'[p].tx \in Transaction
           /\ post'[p].tx.handle = h /\ post'[p].tx.resources = p
           /\ \A q \in Posts : q # p => post'[q] = post[q]
           /\ h \notin drawn /\ drawn' = drawn \cup {h}
  BY <1>1, ConstructPost, TransactionAssumption DEF TxInv
<1>3. post'[p].tx # NoTx
  BY <1>2, TransactionIsOne
<1>4. TxTypes' /\ HandlesDrawn'
  BY <1>1, <1>2, <1>3 DEF TxInv, TxTypes, HandlesDrawn
<1>5. \A q \in Posts : q # p => ~ Opened(q, h)'
  BY <1>2 DEF TxInv, HandlesDrawn, Opened
<1>6. \A q \in Posts, k \in Handles : q # p => (Opened(q, k)' <=> Opened(q, k))
  BY <1>2 DEF Opened
<1>7. \A k \in Handles : Opened(p, k)' => k = h
  BY <1>2 DEF Opened
<1>8. txs[h] = NoTx
  BY <1>2 DEF TxInv, HandlesDrawn
<1>9. TransactionsApart'
  BY <1>1, <1>6, <1>7, <1>8 DEF TxInv, PostsApart, TransactionsApart
<1>10. \A o \in Posts : o # p /\ post[o].tx # NoTx => post[o].tx.handle # h
  BY <1>2 DEF TxInv, HandlesDrawn
<1>11. \A o \in Posts : post[o].tx # NoTx => post[o].tx.handle \in Handles
  BY DEF TxInv, TxTypes, HandlesDrawn
<1>12. PostsApart'
  <2> SUFFICES ASSUME NEW o \in Posts, NEW q \in Posts,
                      post'[o].tx # NoTx, Opened(q, post[o].tx.handle)'
               PROVE  post'[o].tx.resources \in {q, NoTx}
    BY <1>9 DEF PostsApart
  <2>1. CASE o = p
    BY <2>1, <1>2, <1>5
  <2>2. CASE o # p
    <3>1. post'[o] = post[o] /\ post[o].tx.handle \in Handles
      BY <1>2, <2>2, <1>11
    <3>2. q # p
      BY <3>1, <1>7, <1>10, <2>2
    <3>3. Opened(q, post[o].tx.handle)
      BY <3>1, <3>2, <1>2 DEF Opened
    <3> QED
      BY <3>1, <3>3 DEF TxInv, PostsApart
  <2> QED
    BY <2>1, <2>2
<1>13. HandlesKept'
  BY <1>1, <1>2 DEF TxInv, HandlesKept, HandlesServe
<1> QED
  BY <1>4, <1>12, <1>13 DEF TxInv

\* A handle that the store does not know is lost; the object or its JSON form
\* is the client's own, or nothing.
LEMMA LoadTransactionTx ==
  ASSUME TxInv, NEW p \in Posts, LoadTransaction(p)
  PROVE  TxInv'
<1> DEFINE given == post[p].given
           tx == txs[given]
<1>1. /\ post[p].pc = "load" /\ UNCHANGED <<txs, lost>>
      /\ given # NoTx /\ post[p].tx = NoTx /\ post[p].status = 0
  BY DEF LoadTransaction, TxInv, HandlesDrawn
<1>2. post[p] \in PostTypes
  BY DEF TxInv, TxTypes
<1>3. given \in Handles
  BY <1>1, <1>2 DEF PostTypes, HandleOrNot
<1>4. CASE tx = NoTx
  <2>1. Answer(p, 500) /\ UNCHANGED drawn /\ 500 \in Statuses
    BY <1>4, PostConstants DEF LoadTransaction
  <2>2. /\ post' \in [Posts -> PostTypes]
        /\ post'[p].pc = "done" /\ post'[p].status = 500
        /\ post'[p].tx = post[p].tx /\ post'[p].given = post[p].given
        /\ \A q \in Posts : q # p => post'[q] = post[q]
    BY <2>1, AnswerPost DEF TxInv
  <2>3. given \in lost
    BY <1>1, <1>4 DEF TxInv, HandlesKept
  <2> QED
    BY <1>1, <2>1, <2>2, <2>3 DEF TxInv, TxTypes, HandlesDrawn, PostsApart,
       HandlesKept, TransactionsApart, HandlesServe, Opened
<1>5. CASE tx # NoTx
  <2>1. tx \in Transaction /\ tx.handle = given /\ given \in drawn
    BY <1>3, <1>5 DEF TxInv, TxTypes, HandlesDrawn
  <2>2. tx.resources \in Posts \cup {NoTx} /\ tx.handle \in Handles \cup {NoTx}
    BY <2>1 DEF Transaction
  <2>3. \/ Construct(p, tx.resources, NoTx, tx.handle)
        \/ Construct(p, NoTx, NoTx, NoTx)
    BY <1>5, Zenon DEF LoadTransaction
  <2>4. \E h \in Handles, res \in {tx.resources, NoTx} :
           /\ post' \in [Posts -> PostTypes]
           /\ post'[p].pc = "store" /\ post'[p].status = post[p].status
           /\ post'[p].given = post[p].given
           /\ post'[p].tx \in Transaction
           /\ post'[p].tx.handle = h /\ post'[p].tx.resources = res
           /\ \A q \in Posts : q # p => post'[q] = post[q]
           /\ \/ given = h /\ drawn' = drawn
              \/ res = NoTx /\ h \notin drawn /\ drawn' = drawn \cup {h}
    <3>1. CASE Construct(p, tx.resources, NoTx, tx.handle)
      <4> HIDE DEF tx
      <4>1. \E h \in Handles :
           /\ post' \in [Posts -> PostTypes]
           /\ post'[p].pc = "store" /\ post'[p].status = post[p].status
           /\ post'[p].given = post[p].given
           /\ post'[p].tx \in Transaction
           /\ post'[p].tx.handle = h /\ post'[p].tx.resources = tx.resources
           /\ \A q \in Posts : q # p => post'[q] = post[q]
           /\ \/ tx.handle = h /\ drawn' = drawn
              \/ tx.handle = NoTx /\ h \notin drawn /\ drawn' = drawn \cup {h}
        BY <2>2, <3>1, ConstructPost DEF TxInv
      <4> QED
        BY <4>1, <2>1, <1>1
    <3>2. CASE Construct(p, NoTx, NoTx, NoTx)
      BY <3>2, ConstructPost, TransactionAssumption DEF TxInv
    <3> QED
      BY <2>3, <3>1, <3>2
  <2>5. PICK h \in Handles, res \in {tx.resources, NoTx} :
           /\ post' \in [Posts -> PostTypes]
           /\ post'[p].pc = "store" /\ post'[p].status = post[p].status
           /\ post'[p].given = post[p].given
           /\ post'[p].tx \in Transaction
           /\ post'[p].tx.handle = h /\ post'[p].tx.resources = res
           /\ \A q \in Posts : q # p => post'[q] = post[q]
           /\ \/ given = h /\ drawn' = drawn
              \/ res = NoTx /\ h \notin drawn /\ drawn' = drawn \cup {h}
    BY <2>4
  <2>6. post'[p].tx # NoTx
    BY <2>5, TransactionIsOne
  <2>7. TxTypes' /\ HandlesDrawn'
    BY <1>1, <2>1, <2>5, <2>6 DEF TxInv, TxTypes, HandlesDrawn
  <2>8. \A q \in Posts, k \in Handles : Opened(q, k)' <=> q # p /\ Opened(q, k)
    BY <1>1, <2>5 DEF Opened
  <2>9. \A o \in Posts : post[o].tx # NoTx => post[o].tx.handle \in Handles
    BY DEF TxInv, TxTypes, HandlesDrawn
  <2>10. TransactionsApart'
    BY <1>1, <2>8 DEF TxInv, PostsApart, TransactionsApart
  <2>11. PostsApart'
    <3> SUFFICES ASSUME NEW o \in Posts, NEW q \in Posts,
                        post'[o].tx # NoTx, Opened(q, post[o].tx.handle)'
                 PROVE  post'[o].tx.resources \in {q, NoTx}
      BY <2>10 DEF PostsApart
    <3>1. CASE o = p
      <4>1. Opened(q, h)
        BY <3>1, <2>5, <2>8
      <4>2. CASE h = given
        <5>1. tx.resources \in {q, NoTx}
          BY <4>1, <4>2, <1>5, <1>3 DEF TxInv, PostsApart, TransactionsApart
        <5> QED
          BY <5>1, <3>1, <2>5
      <4>3. CASE h \notin drawn
        BY <4>1, <4>3 DEF TxInv, HandlesDrawn, Opened
      <4> QED
        BY <4>2, <4>3, <2>5
    <3>2. CASE o # p
      BY <3>2, <2>5, <2>8, <2>9 DEF TxInv, PostsApart
    <3> QED
      BY <3>1, <3>2
  <2>12. HandlesKept'
    BY <1>1, <2>5 DEF TxInv, HandlesKept, HandlesServe
  <2> QED
    BY <2>7, <2>11, <2>12 DEF TxInv
<1> QED
  BY <1>4, <1>5

LEMMA StoreTransactionTx ==
  ASSUME TxInv, NEW p \in Posts, StoreTransaction(p)
  PROVE  TxInv'
<1> DEFINE tx == post[p].tx
<1>1. /\ post[p].pc = "store" /\ UNCHANGED <<drawn, lost>>
      /\ txs' = [txs EXCEPT ![tx.handle] = tx]
      /\ Answer(p, 200) /\ 200 \in Statuses
  BY PostConstants DEF StoreTransaction
<1>2. tx # NoTx /\ tx \in Transaction /\ tx.handle \in drawn /\ tx.handle \in Handles
  BY <1>1 DEF TxInv, TxTypes, HandlesDrawn, PostTypes, TxOrNot
<1>3. /\ post' \in [Posts -> PostTypes]
      /\ post'[p].pc = "done" /\ post'[p].status = 200
      /\ post'[p].tx = post[p].tx /\ post'[p].given = post[p].given
      /\ \A q \in Posts : q # p => post'[q] = post[q]
  BY <1>1, AnswerPost DEF TxInv
<1>4. \A h \in Handles : txs'[h] = IF h = tx.handle THEN tx ELSE txs[h]
  BY <1>1 DEF TxInv, TxTypes
<1>5. TxTypes'
  BY <1>1, <1>2, <1>3 DEF TxInv, TxTypes
<1>6. HandlesDrawn'
  BY <1>1, <1>2, <1>3, <1>4 DEF TxInv, HandlesDrawn
<1>7. \A q \in Posts : post'[q].tx = post[q].tx /\ post'[q].given = post[q].given
  BY <1>3
<1>8. PostsApart'
  BY <1>2, <1>4, <1>7 DEF TxInv, PostsApart, TransactionsApart, Opened
<1>9. \A q \in Posts : post[q].tx # NoTx => post[q].tx.handle \in Handles
  BY DEF TxInv, TxTypes, HandlesDrawn
<1>10. \A q \in Posts : post[q].given # NoTx => post[q].given \in Handles
  BY DEF TxInv, TxTypes, PostTypes, HandleOrNot
<1>11. HandlesKept'
  BY <1>1, <1>2, <1>3, <1>4, <1>9, <1>10 DEF TxInv, HandlesDrawn, HandlesKept,
     HandlesServe
<1> QED
  BY <1>5, <1>6, <1>8, <1>11 DEF TxInv

\* The end of the process.
LEMMA LostTx ==
  ASSUME TxInv, TransactionsLost
  PROVE  TxInv'
<1> DEFINE gone == {h \in Handles : txs[h] # NoTx}
<1>1. /\ txs' = [h \in Handles |-> NoTx]
      /\ post' = [p \in Posts |->
                IF post[p].pc \in {"idle", "done"} THEN post[p]
                ELSE [post[p] EXCEPT !.pc = "done"]]
      /\ lost' = lost \cup gone /\ UNCHANGED drawn
  BY DEF TransactionsLost
<1>2. \A p \in Posts : post[p] \in PostTypes /\ "done" \in PostPcs
  BY PostConstants DEF TxInv, TxTypes
<1>3. \A p \in Posts :
        /\ post'[p] \in PostTypes
        /\ post'[p].pc = IF post[p].pc = "idle" THEN "idle" ELSE "done"
        /\ post'[p].tx = post[p].tx /\ post'[p].given = post[p].given
        /\ post'[p].status = post[p].status
  <2> TAKE p \in Posts
  <2>1. CASE post[p].pc \in {"idle", "done"}
    BY <1>1, <1>2, <2>1
  <2>2. CASE post[p].pc \notin {"idle", "done"}
    BY <1>1, <1>2, <2>2 DEF PostTypes
  <2> QED
    BY <2>1, <2>2
<1>4. TxTypes'
  BY <1>1, <1>3 DEF TxInv, TxTypes, HandlesDrawn
<1>5. \A h \in Handles : txs'[h] = NoTx
  BY <1>1
<1>6. HandlesDrawn'
  BY <1>1, <1>3, <1>5 DEF TxInv, HandlesDrawn
<1>7. PostsApart'
  BY <1>3, <1>5 DEF TxInv, PostsApart, TransactionsApart, Opened
<1>8. \A q \in Posts : post[q].tx # NoTx => post[q].tx.handle \in Handles
  BY DEF TxInv, TxTypes, HandlesDrawn
<1>9. \A q \in Posts : post[q].given # NoTx => post[q].given \in Handles
  BY DEF TxInv, TxTypes, PostTypes, HandleOrNot
<1>10. HandlesKept'
  BY <1>1, <1>3, <1>8, <1>9 DEF TxInv, HandlesDrawn, HandlesKept, HandlesServe
<1> QED
  BY <1>4, <1>6, <1>7, <1>10 DEF TxInv

\* The endpoint as a whole.
LEMMA PostingTx ==
  ASSUME TxInv, Posting \/ UNCHANGED tvars
  PROVE  TxInv'
<1>1. CASE Posting
  <2>1. PICK p \in Posts : RefusePost(p) \/ ReceivePost(p) \/ HandlePost(p)
    BY <1>1 DEF Posting
  <2> QED
    BY <2>1, RefusePostTx, ReceivePostTx, ParseTransactionTx, LoadTransactionTx,
       StoreTransactionTx DEF HandlePost
<1>2. CASE UNCHANGED tvars
  BY <1>2 DEF tvars, TxInv, TxTypes, HandlesDrawn, PostsApart, HandlesKept,
     TransactionsApart, HandlesServe, Opened
<1> QED
  BY <1>1, <1>2

-----------------------------------------------------------------------------
(***************************************************************************)
(* The start.                                                              *)
(***************************************************************************)
\* What is signed with is what is saved, and nothing is signed before.
KeysFit ==
  /\ phase = "keychain" => keys = config
  /\ phase = "saving" => config = NoKeys /\ keys \in KeyChains
  /\ phase = "serving" => keys = config /\ config \in KeyChains
  /\ config \notin KeyChains => signed = {}
  /\ config \in KeyChains => signed \subseteq {config}

\* The types but those of the flags, and those of the flags.
StartTypes ==
  /\ phase \in Phases
  /\ config \in KeyChains \cup {NoKeys, Torn}
  /\ keys \in KeyChains \cup {NoKeys}
  /\ generated \subseteq KeyChains
  /\ signed \subseteq KeyChains
  /\ welcome \in {"idle", "copying", "processing"}
  /\ site \subseteq SiteFiles
  /\ crashes \in 0 .. MaxCrashes

Flags == rendered \in BOOLEAN /\ interrupted \in BOOLEAN /\ hasWelcome \in BOOLEAN

StartInv == StartTypes /\ Flags /\ KeysFit /\ WelcomeIsWhole

\* How the saved configuration may change.
IdentityKept ==
  \/ config' = config
  \/ config = NoKeys /\ config' \in KeyChains \cup {Torn}

\* A request changes nothing of the start, but that a token is signed while
\* the server serves.
Requested ==
  \/ UNCHANGED pvars
  \/ /\ Serving /\ Sign
     /\ UNCHANGED <<phase, config, keys, generated, welcome, site, rendered,
                    interrupted, hasWelcome, crashes>>

\* All that happens to the start.
StartChanges == Starting \/ ProcessEnds \/ Requested

LEMMA StartInitially == ProviderInit => StartInv
<1> SUFFICES ASSUME ProviderInit PROVE StartInv
  OBVIOUS
<1>1. StartTypes
  BY StartAssumption DEF ProviderInit, StartTypes, Phases
<1>2. Flags
  BY Zenon DEF ProviderInit, Flags
<1>3. KeysFit
  BY StartAssumption DEF ProviderInit, KeysFit
<1>4. WelcomeIsWhole
  BY DEF ProviderInit, WelcomeIsWhole
<1> QED
  BY <1>1, <1>2, <1>3, <1>4 DEF StartInv

LEMMA NewKeyChainType ==
  ASSUME KeyChains \ generated # {}
  PROVE  NewKeyChain \in KeyChains
  BY DEF NewKeyChain

\* The types of the start.
LEMMA StartTypesStep ==
  ASSUME StartTypes, KeysFit, StartChanges
  PROVE  StartTypes'
<1>1. CASE CreateApp
  BY <1>1, StartAssumption DEF CreateApp, StartTypes, KeysFit, Phases
<1>2. CASE LoadProviderConfig
  BY <1>2, StartAssumption DEF LoadProviderConfig, StartTypes, KeysFit, Phases
<1>3. CASE InitProviderKeychain
  BY <1>3, StartAssumption, NewKeyChainType DEF InitProviderKeychain, StartTypes, KeysFit, Phases
<1>4. CASE SaveProviderConfig
  BY <1>4, StartAssumption DEF SaveProviderConfig, StartTypes, KeysFit, Phases
<1>5. CASE StartFails
  BY <1>5, StartAssumption DEF StartFails, StartTypes, KeysFit, Phases
<1>6. ASSUME NEW f \in SiteFiles, CopyTemplateContainer(f)
      PROVE  StartTypes'
  BY <1>6, StartAssumption DEF CopyTemplateContainer, StartTypes, KeysFit, Phases
<1>7. CASE ProcessHandlebarFile
  BY <1>7, StartAssumption DEF ProcessHandlebarFile, StartTypes, KeysFit, Phases
<1>8. CASE WelcomeFails
  BY <1>8, StartAssumption DEF WelcomeFails, StartTypes, KeysFit, Phases
<1>9. CASE ProcessEnds
  BY <1>9, StartAssumption DEF ProcessEnds, StartTypes, KeysFit, Phases
<1>10. CASE Requested
  BY <1>10, StartAssumption DEF Requested, Serving, Sign, pvars, StartTypes, KeysFit, Phases
<1> QED
  BY <1>1, <1>2, <1>3, <1>4, <1>5, <1>6, <1>7, <1>8, <1>9, <1>10 DEF StartChanges, Starting

\* The flags.
LEMMA FlagsStep ==
  ASSUME Flags, StartChanges
  PROVE  Flags'
<1>1. CASE CreateApp
  BY <1>1, Zenon DEF CreateApp, Flags
<1>2. CASE LoadProviderConfig
  BY <1>2, Zenon DEF LoadProviderConfig, Flags
<1>3. CASE InitProviderKeychain
  BY <1>3, Zenon DEF InitProviderKeychain, Flags
<1>4. CASE SaveProviderConfig
  BY <1>4, Zenon DEF SaveProviderConfig, Flags
<1>5. CASE StartFails
  BY <1>5, Zenon DEF StartFails, Flags
<1>6. ASSUME NEW f \in SiteFiles, CopyTemplateContainer(f)
      PROVE  Flags'
  BY <1>6, Zenon DEF CopyTemplateContainer, Flags
<1>7. CASE ProcessHandlebarFile
  BY <1>7, Zenon DEF ProcessHandlebarFile, Flags
<1>8. CASE WelcomeFails
  BY <1>8, Zenon DEF WelcomeFails, Flags
<1>9. CASE ProcessEnds
  BY <1>9, Zenon DEF ProcessEnds, Flags
<1>10. CASE Requested
  BY <1>10, Zenon DEF Requested, Serving, Sign, pvars, Flags
<1> QED
  BY <1>1, <1>2, <1>3, <1>4, <1>5, <1>6, <1>7, <1>8, <1>9, <1>10 DEF StartChanges, Starting

\* The key chain: a start either loads what is saved or saves what it made.
LEMMA KeysFitStep ==
  ASSUME StartTypes, KeysFit, StartChanges
  PROVE  KeysFit'
<1>1. CASE CreateApp
  BY <1>1, StartAssumption DEF CreateApp, StartTypes, KeysFit
<1>2. CASE LoadProviderConfig
  BY <1>2, StartAssumption DEF LoadProviderConfig, StartTypes, KeysFit
<1>3. CASE InitProviderKeychain
  BY <1>3, StartAssumption, NewKeyChainType DEF InitProviderKeychain, StartTypes, KeysFit
<1>4. CASE SaveProviderConfig
  BY <1>4, StartAssumption DEF SaveProviderConfig, StartTypes, KeysFit
<1>5. CASE StartFails
  BY <1>5, StartAssumption DEF StartFails, StartTypes, KeysFit
<1>6. ASSUME NEW f \in SiteFiles, CopyTemplateContainer(f)
      PROVE  KeysFit'
  BY <1>6, StartAssumption DEF CopyTemplateContainer, StartTypes, KeysFit
<1>7. CASE ProcessHandlebarFile
  BY <1>7, StartAssumption DEF ProcessHandlebarFile, StartTypes, KeysFit
<1>8. CASE WelcomeFails
  BY <1>8, StartAssumption DEF WelcomeFails, StartTypes, KeysFit
<1>9. CASE ProcessEnds
  BY <1>9, StartAssumption DEF ProcessEnds, StartTypes, KeysFit
<1>10. CASE Requested
  BY <1>10, StartAssumption DEF Requested, Serving, Sign, pvars, StartTypes, KeysFit
<1> QED
  BY <1>1, <1>2, <1>3, <1>4, <1>5, <1>6, <1>7, <1>8, <1>9, <1>10 DEF StartChanges, Starting

\* The welcome page.
LEMMA WelcomeStep ==
  ASSUME WelcomeIsWhole, StartChanges
  PROVE  WelcomeIsWhole'
<1>1. CASE CreateApp
  BY <1>1, Zenon DEF CreateApp, WelcomeIsWhole
<1>2. CASE LoadProviderConfig
  BY <1>2, Zenon DEF LoadProviderConfig, WelcomeIsWhole
<1>3. CASE InitProviderKeychain
  BY <1>3, Zenon DEF InitProviderKeychain, WelcomeIsWhole
<1>4. CASE SaveProviderConfig
  BY <1>4, Zenon DEF SaveProviderConfig, WelcomeIsWhole
<1>5. CASE StartFails
  BY <1>5, Zenon DEF StartFails, WelcomeIsWhole
<1>6. ASSUME NEW f \in SiteFiles, CopyTemplateContainer(f)
      PROVE  WelcomeIsWhole'
  BY <1>6, Zenon DEF CopyTemplateContainer, WelcomeIsWhole
<1>7. CASE ProcessHandlebarFile
  BY <1>7, Zenon DEF ProcessHandlebarFile, WelcomeIsWhole
<1>8. CASE WelcomeFails
  BY <1>8, Zenon DEF WelcomeFails, WelcomeIsWhole
<1>9. CASE ProcessEnds
  BY <1>9, Zenon DEF ProcessEnds, WelcomeIsWhole
<1>10. CASE Requested
  BY <1>10, Zenon DEF Requested, Serving, Sign, pvars, WelcomeIsWhole
<1> QED
  BY <1>1, <1>2, <1>3, <1>4, <1>5, <1>6, <1>7, <1>8, <1>9, <1>10 DEF StartChanges, Starting

\* The identity.
LEMMA IdentityStep ==
  ASSUME StartTypes, KeysFit, StartChanges
  PROVE  IdentityKept
<1>1. CASE CreateApp
  BY <1>1, StartAssumption DEF CreateApp, StartTypes, KeysFit, IdentityKept
<1>2. CASE LoadProviderConfig
  BY <1>2, StartAssumption DEF LoadProviderConfig, StartTypes, KeysFit, IdentityKept
<1>3. CASE InitProviderKeychain
  BY <1>3, StartAssumption DEF InitProviderKeychain, StartTypes, KeysFit, IdentityKept
<1>4. CASE SaveProviderConfig
  BY <1>4, StartAssumption DEF SaveProviderConfig, StartTypes, KeysFit, IdentityKept
<1>5. CASE StartFails
  BY <1>5, StartAssumption DEF StartFails, StartTypes, KeysFit, IdentityKept
<1>6. ASSUME NEW f \in SiteFiles, CopyTemplateContainer(f)
      PROVE  IdentityKept
  BY <1>6, StartAssumption DEF CopyTemplateContainer, StartTypes, KeysFit, IdentityKept
<1>7. CASE ProcessHandlebarFile
  BY <1>7, StartAssumption DEF ProcessHandlebarFile, StartTypes, KeysFit, IdentityKept
<1>8. CASE WelcomeFails
  BY <1>8, StartAssumption DEF WelcomeFails, StartTypes, KeysFit, IdentityKept
<1>9. CASE ProcessEnds
  BY <1>9, StartAssumption DEF ProcessEnds, StartTypes, KeysFit, IdentityKept
<1>10. CASE Requested
  BY <1>10, StartAssumption DEF Requested, Serving, Sign, pvars, StartTypes, KeysFit, IdentityKept
<1> QED
  BY <1>1, <1>2, <1>3, <1>4, <1>5, <1>6, <1>7, <1>8, <1>9, <1>10 DEF StartChanges, Starting

LEMMA StartStep ==
  ASSUME StartInv, StartChanges
  PROVE  StartInv' /\ IdentityKept
  BY StartTypesStep, FlagsStep, KeysFitStep, WelcomeStep, IdentityStep DEF StartInv

\* Only the end of the process stops the serving.
LEMMA ServesOn ==
  ASSUME phase = "serving", Starting \/ Requested
  PROVE  phase' = "serving"
<1>1. \A f \in SiteFiles : CopyTemplateContainer(f) => phase' = phase
  BY DEF CopyTemplateContainer
<1> QED
  BY <1>1 DEF Starting, Requested, pvars, CreateApp, LoadProviderConfig,
     InitProviderKeychain, SaveProviderConfig, StartFails, ProcessHandlebarFile,
     WelcomeFails

-----------------------------------------------------------------------------
(***************************************************************************)
(* The whole.                                                              *)
(***************************************************************************)

\* A request is only under way while the server serves.
OpenServing == \A r \in Requests : req[r].pc \in OpenPcs => phase = "serving"

Inv ==
  /\ TxInv /\ StartInv /\ OpenServing
  /\ Sound /\ UserIsEntitled /\ Tracked /\ Traced /\ VerifiedIssuer /\ OneClient

\* A visit is a step of one request, and one that the server can take.
LEMMA VisitRequested ==
  ASSUME Inv, Visit
  PROVE  /\ \E r \in Requests : Steps(r)
         /\ Serving /\ Requested
<1>1. PICK r \in Requests : Steps(r)
  BY VisitCases DEF Visit, Steps
<1>2. Changes(r) /\ Types /\ AllFit
  BY <1>1, StepChanges DEF Inv, Sound, Steps
<1>3. Serving
  <2>1. CASE Arrives(r)
    BY <2>1 DEF Arrives, GetLogin, LoginPassword, Signup, SelectProvider,
       Callback, Bearer,
       Authorize, Page, WalletGet, Prove, Present, Logout, InTraffic
  <2>2. CASE ~Arrives(r)
    <3>1. req[r].pc \in OpenPcs
      <4>1. CASE Keeping(r)
        BY <1>2, <4>1, KeepingStep
      <4>2. CASE Proving(r)
        BY <1>2, <4>2, ProvingStep DEF Claimed, OpenPcs
      <4>3. CASE Finish(r)
        BY <4>3 DEF Finish, OpenPcs
      <4> QED
        BY <1>1, <1>2, <2>2, <4>1, <4>2, <4>3, StepKinds
    <3> QED
      BY <3>1 DEF Inv, OpenServing, Serving
  <2> QED
    BY <2>1, <2>2
<1>4. Requested
  <2>1. CASE Arrives(r)
    BY <2>1 DEF Requested, Arrives, GetLogin, LoginPassword, Signup, SelectProvider,
       Callback, Bearer,
       Authorize, Page, WalletGet, Prove, Present, Logout, Offline
  <2>2. CASE Moving(r)
    BY <1>2, <2>2, MovingStep DEF Requested
  <2>3. CASE ValidateResponse(r)
    BY <1>3, <2>3 DEF Requested, ValidateResponse, pvars
  <2>4. CASE ~Arrives(r) /\ ~Moving(r) /\ ~ValidateResponse(r)
    BY <1>1, <2>4 DEF Steps, Requested, LoadClient, RegisterClient, PersistClient, AuthUrl,
       RefuseResponse, Accepting, WebIdFromClaims, ProfileConfirms, AcceptWebId,
       AuthenticateToken, Naming, MatchPassword, CreateAccount, Finish, Offline
  <2> QED
    BY <2>1, <2>2, <2>3, <2>4
<1> QED
  BY <1>1, <1>3, <1>4

LEMMA InvInitially == Init => Inv
<1> SUFFICES ASSUME Init PROVE Inv
  OBVIOUS
<1>1. TxInv /\ StartInv
  BY TxInitially, StartInitially DEF Init
<1>2. Sound /\ UserIsEntitled /\ Tracked /\ Traced /\ OneClient
  BY SoundInitially, PathsInitially, TracedOtherwise, OneClientOtherwise DEF Init
<1>3. OpenServing
  BY NoRequestFields DEF Init, LoginInit, OpenServing, OpenPcs
<1>4. VerifiedIssuer
  BY DEF Init, LoginInit, VerifiedIssuer
<1> QED
  BY <1>1, <1>2, <1>3, <1>4 DEF Inv

LEMMA InvVisit ==
  ASSUME Inv, Visit
  PROVE  Inv' /\ IdentityKept /\ Kept
<1>1. PICK r \in Requests : Steps(r)
  BY VisitRequested
<1>2. Serving /\ Requested
  BY VisitRequested
<1>3. StartInv' /\ IdentityKept /\ phase' = "serving"
  BY <1>2, StartStep, ServesOn DEF Inv, StartChanges, Serving
<1>4. TxInv'
  BY PostingTx DEF Inv, Visit
<1>5. Sound' /\ UserIsEntitled' /\ Tracked' /\ Traced' /\ VerifiedIssuer'
  BY <1>1, SoundVisits, EntitledStep, TrackedStep, TracedStep, VerifiedStep DEF Inv
<1>6. OneClient'
  BY <1>1, OneClientOther, OneClientStep DEF Inv
<1>7. Kept
  BY <1>1, KeptStep DEF Inv
<1> QED
  BY <1>3, <1>4, <1>5, <1>6, <1>7 DEF Inv, OpenServing

LEMMA InvIdle ==
  ASSUME Inv, UNCHANGED lvars
  PROVE  /\ Sound' /\ UserIsEntitled' /\ Tracked' /\ Traced' /\ VerifiedIssuer'
         /\ OneClient' /\ Kept
<1>1. VerifiedIssuer' /\ Kept
  BY DEF Inv, VerifiedIssuer, Kept, lvars
<1> QED
  BY <1>1, SoundUnchanged, PathsUnchanged, TracedOtherwise, OneClientOtherwise DEF Inv

\* Every step keeps the invariant, chooses no second identity and forgets no
\* login.
LEMMA InvStep == Inv /\ [Next]_vars => Inv' /\ IdentityKept /\ Kept
<1> SUFFICES ASSUME Inv, [Next]_vars PROVE Inv' /\ IdentityKept /\ Kept
  OBVIOUS
<1>1. CASE Start
  <2>1. StartInv' /\ IdentityKept
    BY <1>1, StartStep DEF Inv, Start, StartChanges
  <2>2. TxInv'
    BY <1>1, PostingTx DEF Inv, Start
  <2>3. OpenServing'
    BY <1>1, ServesOn DEF Inv, OpenServing, Start, lvars
  <2> QED
    BY <1>1, <2>1, <2>2, <2>3, InvIdle DEF Inv, Start
<1>2. CASE Visit
  BY <1>2, InvVisit
<1>3. CASE Post \/ UNCHANGED vars
  <2>1. UNCHANGED <<pvars, lvars>> /\ (Posting \/ UNCHANGED tvars)
    BY <1>3 DEF Post, vars
  <2>2. StartInv' /\ IdentityKept
    BY <2>1, StartStep DEF Inv, StartChanges, Requested
  <2>3. TxInv'
    BY <2>1, PostingTx DEF Inv
  <2>4. OpenServing'
    BY <2>1 DEF Inv, OpenServing, lvars, pvars
  <2> QED
    BY <2>1, <2>2, <2>3, <2>4, InvIdle DEF Inv
<1>4. CASE Crash
  <2>1. ProcessEnds /\ LoginsLost /\ TransactionsLost
    BY <1>4 DEF Crash
  <2>2. StartInv' /\ IdentityKept
    BY <2>1, StartStep DEF Inv, StartChanges
  <2>3. TxInv'
    BY <2>1, LostTx DEF Inv
  <2>4. Sound' /\ UserIsEntitled' /\ Tracked' /\ Traced' /\ OneClient'
    BY <2>1, SoundLost, PathsLost, TracedOtherwise, OneClientOtherwise DEF Inv
  <2>5. OpenServing'
    BY <2>1, PathsLost DEF Inv, OpenServing
  <2>6. VerifiedIssuer'
    BY <2>1 DEF Inv, VerifiedIssuer, LoginsLost
  <2>7. Kept
    BY <2>1 DEF Kept, ProcessEnds
  <2> QED
    BY <2>2, <2>3, <2>4, <2>5, <2>6, <2>7 DEF Inv
<1> QED
  BY <1>1, <1>2, <1>3, <1>4 DEF Next

LEMMA InvHolds == Spec => [](Inv)
  BY InvInitially, InvStep, PTL DEF Spec

\* The types of the start, the logins and the transactions, for every number
\* of requests, browsers, users and restarts.
THEOREM TypesCorrect == Spec => []TypeOK
<1>1. StartInv => ProviderTypeOK
  BY Zenon DEF StartInv, StartTypes, Flags, ProviderTypeOK
<1>2. TxInv => TransactionTypeOK
  BY DEF TxInv, TxTypes, TransactionTypeOK, PostTypes, PostPcs, Statuses, HandleOrNot, TxOrNot
<1>3. Inv => TypeOK
  BY <1>1, <1>2, TypesAreRight DEF Inv, TypeOK
<1> QED
  BY <1>3, InvHolds, PTL

\* Tokens are signed with the key chain that the server starts with next time,
\* wherever the start or the serving is cut off.
THEOREM TokensSurvive == Spec => []TokensSurviveRestart
<1>1. Inv => TokensSurviveRestart
  BY DEF Inv, StartInv, KeysFit, TokensSurviveRestart, Serving
<1> QED
  BY <1>1, InvHolds, PTL

\* Only a fault leaves an index page that was copied and never processed.
THEOREM WelcomeWhole == Spec => []WelcomeIsWhole
<1>1. Inv => WelcomeIsWhole
  BY DEF Inv, StartInv
<1> QED
  BY <1>1, InvHolds, PTL

\* The start implements the promise of a provider's key store: one identity,
\* chosen once and kept through every restart.
THEOREM OneIdentity == Spec => KeysChosenOnce
<1> DEFINE identity == IF config = Torn THEN NoKeys ELSE config
<1>1. Init => Identity!Init
  BY StartAssumption DEF Init, ProviderInit, Identity!Init
<1>2. Inv /\ [Next]_vars => [Identity!Choose]_identity
  BY InvStep DEF IdentityKept, Identity!Choose
<1> QED
  BY <1>1, <1>2, InvHolds, PTL DEF Spec, KeysChosenOnce, Identity!Spec

\* No two clients of the grant negotiation endpoint share a transaction.
THEOREM ClientsApart == Spec => []TransactionsApart
<1>1. Inv => TransactionsApart
  BY DEF Inv, TxInv, PostsApart
<1> QED
  BY <1>1, InvHolds, PTL

\* A handle that was given out serves until the process ends.
THEOREM HandlesGoOn == Spec => []HandlesServe
<1>1. Inv => HandlesServe
  BY DEF Inv, TxInv, HandlesKept
<1> QED
  BY <1>1, InvHolds, PTL

\* Nobody is logged in without a proof: by the cases of how a user comes into
\* a session, and what other requests may put back after a logout.
THEOREM EntitledAlways == Spec => []UserIsEntitled
<1>1. Inv => UserIsEntitled
  BY DEF Inv
<1> QED
  BY <1>1, InvHolds, PTL

\* Our provider's codes go back to a password or to another provider, by
\* induction over sessions, codes and tokens at a time.
THEOREM CodesAreFounded == Spec => []CodesTraceBack
<1>1. Inv => CodesTraceBack
  BY TracedCodes DEF Inv
<1> QED
  BY <1>1, InvHolds, PTL

\* Every issuer that was believed was entitled to be, by its name or by the
\* header or the profile of the web identifier.
THEOREM IssuersAreVerified == Spec => []VerifiedIssuer
<1>1. Inv => VerifiedIssuer
  BY DEF Inv
<1> QED
  BY <1>1, InvHolds, PTL

\* Only two registrations at a time make a login fail for its client: while
\* one request makes a client nobody else has one, and then all have it.
THEOREM ClientsAreKnown == Spec => []ClientIsKnown
<1>1. Inv => ClientIsKnown
  BY DEF Inv, OneClient
<1> QED
  BY <1>1, InvHolds, PTL

\* A callback logs in the browser that began the flow, since only the flows
\* of a browser are in its session and in the copies of it.
THEOREM LoginsEndAtHome == Spec => []LoginsEndWhereBegun
<1>1. Inv => LoginsEndWhereBegun
  BY TrackedEnds DEF Inv
<1> QED
  BY <1>1, InvHolds, PTL

\* A login is only forgotten by a logout, by a request that had seen an older
\* session, or with the process.
THEOREM LoginsKept == Spec => LoginsAreKept
<1>1. Inv /\ [Next]_vars =>
        [\A b \in Browsers :
           LoggedIn(session[b]) /\ ~LoggedIn(session'[b]) =>
             \/ phase' = "down"
             \/ \E r \in Requests :
                  /\ req[r].pc = "finish" /\ req'[r].pc = "done" /\ req[r].by = b
                  /\ req[r].kind = "logout" \/ req[r].orig # session[b]]_session
  BY InvStep DEF Kept
<1> QED
  BY <1>1, InvHolds, PTL DEF Spec, LoginsAreKept
=============================================================================
