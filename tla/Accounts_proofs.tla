--------------------------- MODULE Accounts_proofs ---------------------------
(***************************************************************************)
(* Proofs about the accounts, for any number of requests, accounts, WebIDs,*)
(* addresses and template files.  A request that creates or deletes an     *)
(* account has it for itself and came by its name, or the account is       *)
(* tangled, so that what the request relies on only changes by its own     *)
(* steps.                                                                  *)
(***************************************************************************)
EXTENDS Accounts, TLAPS

-----------------------------------------------------------------------------
(***************************************************************************)
(* The inductive invariant.                                                *)
(***************************************************************************)
Creating == {"provision", "did", "keys", "saveUser", "saveAlias"}

Deleting == {"removeAlias", "removeUser", "findStorage", "removeStorage"}

\* A request at one of these steps has stored its record, or never will.
Old == {"saveAlias", "done", "lost"}

ArgOK(r) ==
  /\ Live(r) => arg[r].account \in WebIds /\ arg[r].name \in Accounts
  /\ pc[r] = "lookup" =>
       \/ arg[r].kind = "signup" /\ arg[r].todo = Template
       \/ arg[r].kind \in Links
  /\ pc[r] \in {"recovery", "mailing"} => arg[r].kind \in Links
  /\ Live(r) /\ arg[r].kind \in Links =>
       arg[r].account \in Accounts /\ arg[r].key \in Keys
  /\ pc[r] \in {"idle", "lookup", "recovery"} => tokens[r] = None
  /\ pc[r] \in Creating => arg[r].kind = "signup"
  /\ pc[r] = "saveAlias" => arg[r].key # None
  /\ pc[r] \in Deleting =>
       /\ arg[r].kind = "confirm"
       /\ arg[r].token \in Requests
       /\ tokens[arg[r].token] # None
       /\ arg[r].account = tokens[arg[r].token].account
       /\ arg[r].name = arg[r].account
       /\ arg[r].key = tokens[arg[r].token].email

\* How far the signup or the deletion r has come with an account.
Progress(r) ==
  LET a == Place(r) IN
  Live(r) /\ a \notin tangled =>
    /\ pc[r] = "provision" =>
         \A f \in Template \ arg[r].todo : storage[a][f] = r
    /\ pc[r] \in {"did", "keys", "saveUser"} =>
         \A f \in Template : storage[a][f] = r
    /\ pc[r] \in {"keys", "saveUser"} => storage[a]["did"] = r
    /\ pc[r] = "saveUser" => storage[a]["keys"] = r
    /\ pc[r] \in {"provision", "did", "keys", "saveUser", "findStorage",
                  "removeStorage"} =>
         users[a] = None
    /\ pc[r] = "saveAlias" =>
         IsUser(a) /\ users[a].by = r /\ users[a].email = arg[r].key
    /\ pc[r] = "removeUser" =>
         \A k \in Keys : IsAlias(k) => Home[users[k].to] # a
    /\ arg[r].kind \in Links /\ pc[r] \in {"lookup", "recovery"} =>
         arg[r].key = a /\ arg[r].account = a

Sound(a) ==
  a \notin tangled =>
    /\ users[a] # None =>
         IsUser(a) /\ \A f \in Files : storage[a][f] = users[a].by
    /\ \A k \in Keys : IsAlias(k) /\ Home[users[k].to] = a =>
         users[k].to = a /\ IsUser(a) /\ users[a].email = k
    /\ Exists(a) /\ users[a] = None /\ a \notin interrupted =>
         \E r \in Requests : Works(r, a) /\ pc[r] # "lookup"

RecordOK(k) == IsUser(k) => pc[users[k].by] \in Old

\* The address in a token is that of the record it was made for.
TokenOK(t) ==
  tokens[t] # None =>
    LET a == tokens[t].account IN
    /\ pc[tokens[t].of] \in Old
    /\ a \notin tangled /\ IsUser(a) /\ users[a].by = tokens[t].of =>
         users[a].email = tokens[t].email

IInv ==
  /\ TypeOK
  /\ Tangles \subseteq tangled
  /\ \A r \in Requests : ArgOK(r) /\ Progress(r) /\ TokenOK(r)
  /\ \A a \in Accounts : Sound(a)
  /\ \A k \in Keys : RecordOK(k)

-----------------------------------------------------------------------------
(***************************************************************************)
(* WebIDs, records and places.                                             *)
(***************************************************************************)
LEMMA HomeFacts ==
  /\ Accounts \subseteq WebIds /\ WebIds \subseteq Keys
  /\ \A w \in WebIds : Home[w] \in Accounts
  /\ \A a \in Accounts : Home[a] = a
BY AccountsAssumption DEF Keys

LEMMA RecordFacts ==
  ASSUME TypeOK, NEW k \in Keys
  PROVE  /\ IsUser(k) => /\ users[k] \in Users /\ users[k].by \in Requests
                         /\ users[k].email \in Keys \cup {None}
         /\ IsAlias(k) => users[k] \in Aliases /\ users[k].to \in WebIds
         /\ users[k] # None => IsUser(k) \/ IsAlias(k)
         /\ ~(IsUser(k) /\ IsAlias(k))
BY DEF TypeOK, Users, Aliases, IsUser, IsAlias

LEMMA NewRecords ==
  /\ \A r \in Requests, e \in Keys \cup {None} :
       LET user == [kind |-> "user", by |-> r, email |-> e] IN
       user \in Users /\ user # None
  /\ \A w \in WebIds :
       LET alias == [kind |-> "alias", to |-> w] IN
       alias \in Aliases /\ alias # None
<1>1. ASSUME NEW r \in Requests, NEW e \in Keys \cup {None}
      PROVE  [kind |-> "user", by |-> r, email |-> e] \in Users
  BY DEF Users
<1>2. ASSUME NEW w \in WebIds PROVE [kind |-> "alias", to |-> w] \in Aliases
  BY DEF Aliases
<1>3. None \notin Users /\ None \notin Aliases
  BY AccountsAssumption
<1>4. QED BY <1>1, <1>2, <1>3

LEMMA PlaceType ==
  ASSUME NEW r \in Requests, ArgOK(r), Live(r)
  PROVE  Place(r) \in Accounts /\ arg[r].account \in WebIds
BY HomeFacts DEF ArgOK, Place

\* Whoever works on an account that is not tangled came by its name.
LEMMA ByName ==
  ASSUME IInv, NEW r \in Requests, NEW a \in Accounts, Works(r, a),
         a \notin tangled
  PROVE  /\ Place(r) = a /\ arg[r].account = a /\ arg[r].name = a
         /\ arg[r].key \in WebIds => Home[arg[r].key] # a
BY HomeFacts DEF IInv, Tangles, ByItsName, Place

-----------------------------------------------------------------------------
(***************************************************************************)
(* A step of r leaves the others, and the accounts it does not work on,    *)
(* alone.                                                                  *)
(***************************************************************************)
OthersStay(r) ==
  \A q \in Requests \ {r} : pc'[q] = pc[q] /\ arg'[q] = arg[q]

TokensStay ==
  \A t \in Requests : tokens[t] # None =>
    /\ tokens'[t] # None
    /\ tokens'[t].account = tokens[t].account
    /\ tokens'[t].email = tokens[t].email
    /\ tokens'[t].of = tokens[t].of

\* No alias that leads to account a appears.
NoNewAlias(a) ==
  \A k \in Keys :
    IsAlias(k)' /\ Home[users'[k].to] = a => users'[k] = users[k]

Local(r) ==
  /\ OthersStay(r)
  /\ \A q \in Requests \ {r} : tokens'[q] = tokens[q]
  /\ TokensStay
  /\ \A a \in Accounts : ~Works(r, a) =>
       storage'[a] = storage[a] /\ users'[a] = users[a] /\ NoNewAlias(a)
  /\ interrupted \subseteq interrupted'

LEMMA SameUsers ==
  ASSUME users' = users, NEW a
  PROVE  NoNewAlias(a)
BY DEF NoNewAlias

LEMMA EndStays ==
  ASSUME TypeOK, NEW r \in Requests, NEW code, End(r, code)
  PROVE  OthersStay(r)
BY DEF TypeOK, End, OthersStay

LEMMA ArriveLocal ==
  ASSUME TypeOK, NEW r \in Requests, Arrive(r)
  PROVE  Local(r)
<1>1. Kept
  BY DEF Arrive, Invalid, Signup, AskForLink, ConfirmDelete, ChangePassword
<1>2. OthersStay(r)
  BY EndStays
     DEF TypeOK, Arrive, Invalid, Signup, AskForLink, ConfirmDelete,
         ChangePassword, Goto, OthersStay
<1>3. QED BY <1>1, <1>2, SameUsers DEF Kept, Local, TokensStay

LEMMA ServeLocal ==
  ASSUME IInv, NEW r \in Requests, Serve(r)
  PROVE  Local(r)
<1>1. TypeOK /\ ArgOK(r)
  BY DEF IInv
<1>2. CASE \/ CancelIfAccountExists(r) \/ LoadUser(r) \/ NoRecoveryEmail(r)
           \/ SendMail(r) \/ FailMail(r) \/ FollowAlias(r) \/ FindStorage(r)
  <2>1. UNCHANGED <<storage, users, tokens, interrupted>>
    BY <1>2 DEF CancelIfAccountExists, LoadUser, NoRecoveryEmail, SendMail,
                FailMail, FollowAlias, FindStorage, Kept
  <2>2. OthersStay(r)
    BY <1>1, <1>2, EndStays
       DEF TypeOK, CancelIfAccountExists, LoadUser, NoRecoveryEmail, SendMail,
           FailMail, FollowAlias, FindStorage, Goto, OthersStay
  <2>3. QED BY <2>1, <2>2, SameUsers DEF Local, TokensStay
<1>3. CASE ProvisionFile(r) \/ SaveDidDocument(r) \/ SaveKeys(r)
  <2> DEFINE a == Place(r)
  <2>1. a \in Accounts /\ Works(r, a)
    BY <1>1, <1>3, PlaceType
       DEF ArgOK, Creating, ProvisionFile, SaveDidDocument, SaveKeys, Works,
           Working, Live, LivePcs
  <2>2. \E f : Writes(r, f)
    BY <1>3 DEF ProvisionFile, SaveDidDocument, SaveKeys
  <2>3. \A b \in Accounts : b # a => storage'[b] = storage[b]
    BY <1>1, <2>2 DEF Writes, TypeOK
  <2>4. OthersStay(r)
    BY <1>1, <1>3
       DEF TypeOK, ProvisionFile, SaveDidDocument, SaveKeys, Goto, OthersStay
  <2>5. UNCHANGED <<users, tokens, interrupted>>
    BY <1>3 DEF ProvisionFile, SaveDidDocument, SaveKeys
  <2>6. QED BY <2>1, <2>3, <2>4, <2>5, SameUsers DEF Local, TokensStay
<1>4. CASE SaveUser(r)
  <2> DEFINE w == arg[r].account
             user == [kind |-> "user", by |-> r, email |-> arg[r].key]
  <2>1. /\ pc[r] = "saveUser" /\ arg[r].kind = "signup"
        /\ w \in WebIds /\ arg[r].key \in Keys \cup {None}
        /\ UNCHANGED <<storage, tokens, interrupted>>
        /\ users' = [users EXCEPT ![w] = user]
    BY <1>1, <1>4
       DEF SaveUser, ArgOK, Creating, Live, LivePcs, Working, TypeOK, Args
  <2>2. Works(r, Home[w])
    BY <2>1 DEF Works, Working, Place
  <2>3. ASSUME NEW k \in Keys
        PROVE  users'[k] = users[k] \/ (k = w /\ ~IsAlias(k)')
    <3>1. k = w => users'[k] = user
      BY <1>1, <2>1, <2>3 DEF TypeOK
    <3>2. users'[k].kind = "user" => ~IsAlias(k)'
      BY DEF IsAlias
    <3>3. QED BY <1>1, <2>1, <3>1, <3>2 DEF TypeOK
  <2>4. OthersStay(r)
    BY <1>1, <1>4, EndStays DEF TypeOK, SaveUser, Goto, OthersStay
  <2>5. ASSUME NEW b \in Accounts, ~Works(r, b)
        PROVE  users'[b] = users[b] /\ NoNewAlias(b)
    BY <2>2, <2>3, <2>5, HomeFacts DEF NoNewAlias
  <2>6. QED BY <2>1, <2>4, <2>5 DEF Local, TokensStay
<1>5. CASE SaveAliasUserRecord(r)
  <2> DEFINE w == arg[r].account
             e == arg[r].key
             alias == [kind |-> "alias", to |-> w]
  <2>1. /\ pc[r] = "saveAlias" /\ arg[r].kind = "signup"
        /\ w \in WebIds /\ e \in Keys
        /\ UNCHANGED <<storage, tokens, interrupted>>
        /\ users' = [users EXCEPT ![e] = alias]
    BY <1>1, <1>5
       DEF SaveAliasUserRecord, ArgOK, Creating, Live, LivePcs, Working,
           TypeOK, Args
  <2>2. Works(r, Home[w]) /\ (e \in WebIds => Works(r, Home[e]))
    BY <2>1 DEF Works, Working, Place
  <2>3. ASSUME NEW k \in Keys
        PROVE  users'[k] = users[k] \/ (k = e /\ users'[k].to = w)
    <3>1. k = e => users'[k] = alias
      BY <1>1, <2>1, <2>3 DEF TypeOK
    <3>2. QED BY <1>1, <2>1, <3>1 DEF TypeOK
  <2>4. OthersStay(r)
    BY <1>1, <1>5, EndStays DEF SaveAliasUserRecord
  <2>5. ASSUME NEW b \in Accounts, ~Works(r, b)
        PROVE  users'[b] = users[b] /\ NoNewAlias(b)
    BY <2>2, <2>3, <2>5, HomeFacts DEF NoNewAlias
  <2>6. QED BY <2>1, <2>4, <2>5 DEF Local, TokensStay
<1>6. CASE \/ FailSignup(r) \/ FailDelete(r) \/ DeleteAccountStorage(r)
           \/ LoseStorage(r)
  <2>1. /\ UNCHANGED <<storage, users, tokens>>
        /\ interrupted \subseteq interrupted'
    BY <1>6 DEF FailSignup, FailDelete, DeleteAccountStorage, LoseStorage
  <2>2. OthersStay(r)
    BY <1>1, <1>6, EndStays
       DEF FailSignup, FailDelete, DeleteAccountStorage, LoseStorage
  <2>3. QED BY <2>1, <2>2, SameUsers DEF Local, TokensStay
<1>7. CASE GenerateToken(r)
  <2>1. UNCHANGED <<storage, users, interrupted>> /\ tokens[r] = None
    BY <1>1, <1>7 DEF GenerateToken, ArgOK
  <2>2. OthersStay(r) /\ \A q \in Requests \ {r} : tokens'[q] = tokens[q]
    BY <1>1, <1>7 DEF TypeOK, GenerateToken, Goto, OthersStay
  <2>3. QED BY <2>1, <2>2, SameUsers DEF Local, TokensStay
<1>8. CASE RemoveAlias(r) \/ RemoveUser(r)
  <2>1. PICK k0 : /\ users' = [users EXCEPT ![k0] = None]
                  /\ k0 \in WebIds => Works(r, Home[k0])
    <3>1. pc[r] \in {"removeAlias", "removeUser"} /\ arg[r].kind = "confirm"
      BY <1>1, <1>8 DEF RemoveAlias, RemoveUser, ArgOK, Deleting
    <3>2. arg[r].key \in WebIds => Works(r, Home[arg[r].key])
      BY <3>1 DEF Works, Working
    <3>3. Works(r, Home[arg[r].account])
      BY <3>1 DEF Works, Working, Place
    <3>4. QED BY <1>8, <3>2, <3>3 DEF RemoveAlias, RemoveUser
  <2>2. \A k \in Keys : users'[k] = users[k] \/ (k = k0 /\ users'[k] = None)
    BY <1>1, <2>1 DEF TypeOK
  <2>3. OthersStay(r) /\ UNCHANGED <<storage, tokens, interrupted>>
    BY <1>1, <1>8 DEF TypeOK, RemoveAlias, RemoveUser, Goto, OthersStay
  <2>4. ASSUME NEW b \in Accounts, ~Works(r, b)
        PROVE  users'[b] = users[b] /\ NoNewAlias(b)
    BY <2>1, <2>2, <2>4, HomeFacts DEF NoNewAlias, IsAlias
  <2>5. QED BY <2>3, <2>4 DEF Local, TokensStay
<1>9. CASE RemoveStorage(r)
  <2> DEFINE a == Place(r)
  <2>1. a \in Accounts /\ Works(r, a)
    BY <1>1, <1>9, PlaceType
       DEF ArgOK, Deleting, RemoveStorage, Works, Working, Live, LivePcs
  <2>2. \A b \in Accounts : b # a => storage'[b] = storage[b]
    <3>1. PICK f \in Files : storage' = [storage EXCEPT ![Place(r)][f] = None]
      BY <1>9 DEF RemoveStorage
    <3>2. QED BY <1>1, <3>1 DEF TypeOK
  <2>3. OthersStay(r)
    BY <1>1, <1>9 DEF TypeOK, RemoveStorage, Goto, OthersStay
  <2>4. UNCHANGED <<users, tokens, interrupted>>
    BY <1>9 DEF RemoveStorage
  <2>5. QED BY <2>1, <2>2, <2>3, <2>4, SameUsers DEF Local, TokensStay
<1>10. QED
  BY <1>2, <1>3, <1>4, <1>5, <1>6, <1>7, <1>8, <1>9 DEF Serve

-----------------------------------------------------------------------------
(***************************************************************************)
(* What a step of r means for the other requests, for the accounts it does *)
(* not work on, and for records and tokens.                                *)
(***************************************************************************)
LEMMA Exclusive ==
  ASSUME IInv, NEW q \in Requests, NEW r \in Requests, q # r,
         NEW a \in Accounts, Works(q, a), Works(r, a)
  PROVE  a \in tangled
BY DEF IInv, Tangles

LEMMA OthersKeep ==
  ASSUME IInv, NEW r \in Requests, Local(r), tangled \subseteq tangled',
         NEW q \in Requests \ {r}
  PROVE  ArgOK(q)' /\ Progress(q)'
<1>1. ArgOK(q) /\ Progress(q)
  BY DEF IInv
<1>2. pc'[q] = pc[q] /\ arg'[q] = arg[q] /\ tokens'[q] = tokens[q]
      /\ Place(q)' = Place(q)
  BY DEF Local, OthersStay, Place
<1>3. ArgOK(q)'
  BY <1>1, <1>2 DEF ArgOK, Local, TokensStay, Live
<1>4. CASE pc[q] \in Creating \cup Deleting /\ Place(q) \notin tangled
  <2>1. PICK a \in Accounts : a = Place(q) /\ Works(q, a)
    BY <1>1, <1>4, PlaceType
       DEF ArgOK, Creating, Deleting, Works, Working, Live, LivePcs
  <2>2. ~Works(r, a)
    BY <1>4, <2>1, Exclusive
  <2>3. storage'[a] = storage[a] /\ users'[a] = users[a] /\ NoNewAlias(a)
    BY <2>1, <2>2 DEF Local
  <2>4. IsUser(a) => IsUser(a)'
    BY <2>3 DEF IsUser
  <2>5. (\A k \in Keys : IsAlias(k) => Home[users[k].to] # a)
          => \A k \in Keys : IsAlias(k)' => Home[users'[k].to] # a
    BY <2>3 DEF NoNewAlias, IsAlias
  <2>6. Live(q) /\ arg[q].kind \notin Links
    BY <1>1, <1>4 DEF ArgOK, Creating, Deleting, Links, Live, LivePcs, Working
  <2>7. Progress(q)'
    BY <1>1, <1>2, <1>4, <2>1, <2>3, <2>4, <2>5, <2>6 DEF Progress
  <2>8. QED BY <1>3, <2>7
<1>5. CASE pc[q] \notin Creating \cup Deleting \/ Place(q) \in tangled
  BY <1>1, <1>2, <1>3, <1>5 DEF Progress, Creating, Deleting, Live
<1>6. QED BY <1>4, <1>5

\* Nothing happens to an account that r does not work on.
LEMMA ElsewhereSound ==
  ASSUME IInv, NEW r \in Requests, Local(r), tangled \subseteq tangled',
         NEW a \in Accounts, ~Works(r, a)
  PROVE  Sound(a)'
<1>1. Sound(a)
  BY DEF IInv
<1>2. storage'[a] = storage[a] /\ users'[a] = users[a] /\ NoNewAlias(a)
  BY DEF Local
<1>3. \A k \in Keys : IsAlias(k)' /\ Home[users'[k].to] = a =>
        users'[k] = users[k] /\ IsAlias(k)
  BY <1>2 DEF NoNewAlias, IsAlias
<1>4. \A q \in Requests : Works(q, a) /\ pc[q] # "lookup" =>
        Works(q, a)' /\ pc'[q] # "lookup"
  BY DEF Local, OthersStay, Works, Place
<1>5. a \notin interrupted' => a \notin interrupted
  BY DEF Local
<1>6. IsUser(a)' <=> IsUser(a)
  BY <1>2 DEF IsUser
<1>7. QED BY <1>1, <1>2, <1>3, <1>4, <1>5, <1>6 DEF Sound, Exists

\* A step that stores no record and makes no token keeps what they say.
LEMMA RecordsKeep ==
  ASSUME IInv, tangled \subseteq tangled',
         \A q \in Requests : pc[q] \in Old => pc'[q] \in Old,
         \A k \in Keys : users'[k] = users[k] \/ ~IsUser(k)',
         \A t \in Requests : tokens'[t] # None =>
           /\ tokens[t] # None
           /\ tokens'[t].account = tokens[t].account
           /\ tokens'[t].email = tokens[t].email
           /\ tokens'[t].of = tokens[t].of
  PROVE  /\ \A k \in Keys : RecordOK(k)'
         /\ \A t \in Requests : TokenOK(t)'
<1>1. TypeOK
  BY DEF IInv
<1>2. ASSUME NEW k \in Keys, IsUser(k)'
      PROVE  IsUser(k) /\ users'[k] = users[k]
  BY <1>2 DEF IsUser
<1>3. ASSUME NEW k \in Keys PROVE RecordOK(k)'
  <2>1. RecordOK(k)
    BY DEF IInv
  <2>2. IsUser(k) => users[k].by \in Requests
    BY <1>1, RecordFacts
  <2>3. QED BY <1>2, <2>1, <2>2 DEF RecordOK
<1>4. ASSUME NEW t \in Requests PROVE TokenOK(t)'
  <2>1. TokenOK(t)
    BY DEF IInv
  <2>2. tokens[t] # None => tokens[t].of \in Requests
                              /\ tokens[t].account \in Keys
    BY <1>1, HomeFacts DEF TypeOK, Tokens
  <2>3. QED BY <1>2, <2>1, <2>2 DEF TokenOK
<1>5. QED BY <1>3, <1>4

-----------------------------------------------------------------------------
(***************************************************************************)
(* Type correctness.                                                       *)
(***************************************************************************)
LEMMA NoArgType == NoArg \in Args
BY DEF NoArg, Args

LEMMA EndType ==
  ASSUME TypeOK, NEW r \in Requests, NEW code \in {200, 400, 500}, End(r, code)
  PROVE  /\ up' \in BOOLEAN
         /\ pc' \in [Requests -> LivePcs \cup {"idle", "done", "lost"}]
         /\ arg' \in [Requests -> Args]
         /\ answer' \in [Requests -> {0, 200, 400, 500}]
         /\ crashes' \in 0..MaxCrashes
BY NoArgType DEF TypeOK, End

LEMMA GotoType ==
  ASSUME TypeOK, NEW r \in Requests, NEW step \in LivePcs, Goto(r, step)
  PROVE  /\ up' \in BOOLEAN
         /\ pc' \in [Requests -> LivePcs \cup {"idle", "done", "lost"}]
         /\ answer' \in [Requests -> {0, 200, 400, 500}]
         /\ crashes' \in 0..MaxCrashes
BY DEF TypeOK, Goto

\* Writing or removing one file.
LEMMA StorageType ==
  ASSUME TypeOK, NEW a \in Accounts, NEW f \in Files,
         NEW v \in Requests \cup {None},
         storage' = [storage EXCEPT ![a][f] = v]
  PROVE  storage' \in [Accounts -> [Files -> Requests \cup {None}]]
<1>1. [storage[a] EXCEPT ![f] = v] \in [Files -> Requests \cup {None}]
  BY DEF TypeOK
<1>2. QED BY <1>1 DEF TypeOK

\* Storing a record or an alias, or removing one.
LEMMA UsersType ==
  ASSUME TypeOK, NEW k, NEW v \in Users \cup Aliases \cup {None},
         users' = [users EXCEPT ![k] = v]
  PROVE  users' \in [Keys -> Users \cup Aliases \cup {None}]
BY DEF TypeOK

LEMMA ArriveType ==
  ASSUME TypeOK, tangled' \subseteq Accounts, NEW r \in Requests, Arrive(r)
  PROVE  TypeOK'
<1> USE DEF LivePcs, Working
<1>1. CASE Invalid(r) \/ ChangePassword(r)
  BY <1>1, EndType DEF Invalid, ChangePassword, Kept, TypeOK
<1>2. CASE Signup(r)
  <2>1. PICK body \in Bodies[r] :
          arg' = [arg EXCEPT ![r] =
                   [kind |-> "signup", name |-> body.name,
                    account |-> body.account, key |-> body.email,
                    token |-> None, todo |-> Template]]
    BY <1>2 DEF Signup
  <2>2. body \in AllBodies
    BY <2>1, AccountsAssumption
  <2>3. /\ body.name \in Accounts /\ body.account \in WebIds
        /\ body.email \in Keys \cup {None}
    BY <2>2 DEF AllBodies
  <2>4. arg' \in [Requests -> Args]
    BY <2>1, <2>3 DEF Args, TypeOK
  <2>5. QED BY <1>2, <2>4, GotoType DEF Signup, Kept, TypeOK
<1>3. CASE AskForLink(r)
  <2>1. PICK kind \in Links, a \in Accounts :
          arg' = [arg EXCEPT ![r] =
                   [kind |-> kind, name |-> a, account |-> a, key |-> a,
                    token |-> None, todo |-> {}]]
    BY <1>3 DEF AskForLink
  <2>2. arg' \in [Requests -> Args]
    BY <2>1, HomeFacts DEF Args, TypeOK, Links
  <2>3. QED BY <1>3, <2>2, GotoType DEF AskForLink, Kept, TypeOK
<1>4. CASE ConfirmDelete(r)
  <2>1. PICK m \in mail :
          \/ End(r, 400)
          \/ /\ Verified("delete-account", m.token)
             /\ arg' = [arg EXCEPT ![r] =
                         [kind |-> "confirm", token |-> m.token, todo |-> {},
                          name |-> tokens[m.token].account,
                          account |-> tokens[m.token].account,
                          key |-> tokens[m.token].email]]
             /\ Goto(r, "removeAlias")
    BY <1>4 DEF ConfirmDelete
  <2>2. m.token \in Requests
    BY DEF TypeOK
  <2>3. CASE End(r, 400)
    BY <1>4, <2>3, EndType DEF ConfirmDelete, Kept, TypeOK
  <2>4. CASE /\ Verified("delete-account", m.token)
             /\ arg' = [arg EXCEPT ![r] =
                         [kind |-> "confirm", token |-> m.token, todo |-> {},
                          name |-> tokens[m.token].account,
                          account |-> tokens[m.token].account,
                          key |-> tokens[m.token].email]]
             /\ Goto(r, "removeAlias")
    <3>1. tokens[m.token] \in Tokens
      BY <2>2, <2>4 DEF Verified, TypeOK
    <3>2. tokens[m.token].account \in Accounts /\ tokens[m.token].email \in Keys
      BY <3>1 DEF Tokens
    <3>3. arg' \in [Requests -> Args]
      BY <2>2, <2>4, <3>2, HomeFacts DEF Args, TypeOK
    <3>4. QED
      BY <1>4, <2>4, <3>3, GotoType DEF ConfirmDelete, Kept, TypeOK
  <2>5. QED BY <2>1, <2>3, <2>4
<1>5. QED BY <1>1, <1>2, <1>3, <1>4 DEF Arrive

LEMMA ServeType ==
  ASSUME TypeOK, tangled' \subseteq Accounts, NEW r \in Requests, ArgOK(r),
         Serve(r)
  PROVE  TypeOK'
<1> USE DEF LivePcs, Working
<1>1. Live(r) => /\ Place(r) \in Accounts
                 /\ arg[r].account \in WebIds
  BY PlaceType
<1>2. arg[r] \in Args
  BY DEF TypeOK
<1>3. CASE \/ CancelIfAccountExists(r) \/ LoadUser(r) \/ NoRecoveryEmail(r)
           \/ FailMail(r) \/ FindStorage(r)
  BY <1>3, EndType, GotoType
     DEF CancelIfAccountExists, LoadUser, NoRecoveryEmail, FailMail,
         FindStorage, Kept, TypeOK
<1>4. CASE ProvisionFile(r)
  <2>1. PICK f \in arg[r].todo :
          /\ Writes(r, f)
          /\ arg' = [arg EXCEPT ![r].todo = @ \ {f}]
          /\ Goto(r, IF arg[r].todo = {f} THEN "did" ELSE "provision")
    BY <1>4 DEF ProvisionFile
  <2>2. f \in Files
    BY <1>2, <2>1 DEF Args, Files
  <2>3. storage' \in [Accounts -> [Files -> Requests \cup {None}]]
    BY <1>1, <1>4, <2>1, <2>2, StorageType DEF Writes, ProvisionFile, Live
  <2>4. arg' \in [Requests -> Args]
    BY <1>2, <2>1 DEF Args, TypeOK
  <2>5. QED BY <1>4, <2>1, <2>3, <2>4, GotoType DEF ProvisionFile, TypeOK
<1>5. CASE SaveDidDocument(r) \/ SaveKeys(r)
  <2>1. storage' \in [Accounts -> [Files -> Requests \cup {None}]]
    BY <1>1, <1>5, StorageType
       DEF SaveDidDocument, SaveKeys, Writes, Files, DidFiles, Live
  <2>2. QED BY <1>5, <2>1, GotoType DEF SaveDidDocument, SaveKeys, TypeOK
<1>6. CASE SaveUser(r)
  <2>1. arg[r].key \in Keys \cup {None}
    BY <1>2 DEF Args
  <2>2. users' \in [Keys -> Users \cup Aliases \cup {None}]
    BY <1>6, <2>1, NewRecords, UsersType DEF SaveUser
  <2>3. QED BY <1>6, <2>2, EndType, GotoType DEF SaveUser, TypeOK
<1>7. CASE SaveAliasUserRecord(r)
  <2>1. arg[r].account \in WebIds
    BY <1>1, <1>7 DEF SaveAliasUserRecord, Live
  <2>2. users' \in [Keys -> Users \cup Aliases \cup {None}]
    BY <1>7, <2>1, NewRecords, UsersType DEF SaveAliasUserRecord
  <2>3. QED BY <1>7, <2>2, EndType DEF SaveAliasUserRecord, TypeOK
<1>8. CASE FailSignup(r) \/ FailDelete(r)
  <2>1. interrupted' \subseteq Accounts
    BY <1>1, <1>8 DEF FailSignup, FailDelete, TypeOK, Live
  <2>2. PICK code \in {200, 400, 500} : End(r, code)
    BY <1>8 DEF FailSignup, FailDelete
  <2>3. QED BY <1>8, <2>1, <2>2, EndType DEF FailSignup, FailDelete, TypeOK
<1>9. CASE DeleteAccountStorage(r) \/ LoseStorage(r)
  <2>1. spent' \subseteq Requests /\ unseen' \subseteq Requests
        /\ interrupted' \subseteq Accounts
    BY <1>1, <1>9
       DEF DeleteAccountStorage, LoseStorage, ArgOK, Deleting, Live, TypeOK
  <2>2. QED
    BY <1>9, <2>1, EndType DEF DeleteAccountStorage, LoseStorage, TypeOK
<1>10. CASE GenerateToken(r)
  <2>1. arg[r].account \in Accounts /\ arg[r].key \in Keys
    BY <1>10 DEF GenerateToken, ArgOK, Live
  <2>2. /\ users[arg[r].key].by \in Requests
        /\ users[arg[r].key].email \in Keys
    BY <1>10, <2>1, RecordFacts DEF GenerateToken, HasEmail
  <2>3. tokens' \in [Requests -> Tokens \cup {None}]
    BY <1>10, <2>1, <2>2 DEF GenerateToken, TypeOK, Tokens
  <2>4. QED BY <1>10, <2>3, GotoType DEF GenerateToken, TypeOK
<1>11. CASE SendMail(r)
  BY <1>11, EndType DEF SendMail, TypeOK, ArgOK
<1>12. CASE RemoveAlias(r) \/ RemoveUser(r)
  <2>1. users' \in [Keys -> Users \cup Aliases \cup {None}]
    BY <1>12, UsersType DEF RemoveAlias, RemoveUser
  <2>2. QED BY <1>12, <2>1, GotoType DEF RemoveAlias, RemoveUser, TypeOK
<1>13. CASE RemoveStorage(r)
  <2>1. storage' \in [Accounts -> [Files -> Requests \cup {None}]]
    BY <1>1, <1>13, StorageType DEF RemoveStorage, Live
  <2>2. QED BY <1>13, <2>1, GotoType DEF RemoveStorage, TypeOK
<1>14. CASE FollowAlias(r)
  <2>1. arg[r].key \in Keys
    BY <1>14 DEF FollowAlias, ArgOK, Live
  <2>2. users[arg[r].key].to \in Keys
    BY <1>14, <2>1, RecordFacts, HomeFacts DEF FollowAlias
  <2>3. [arg[r] EXCEPT !.key = users[arg[r].key].to] \in Args
    BY <1>2, <2>2 DEF Args
  <2>4. arg' \in [Requests -> Args]
    BY <1>14, <2>3 DEF FollowAlias, TypeOK
  <2>5. QED BY <1>14, <2>4, GotoType DEF FollowAlias, Kept, TypeOK
<1>15. QED
  BY <1>3, <1>4, <1>5, <1>6, <1>7, <1>8, <1>9, <1>10, <1>11, <1>12, <1>13,
     <1>14
     DEF Serve

LEMMA StepType ==
  ASSUME IInv, Step, tangled' = tangled \cup Tangles'
  PROVE  TypeOK'
<1>1. TypeOK /\ \A r \in Requests : ArgOK(r)
  BY DEF IInv
<1>2. tangled' \subseteq Accounts
  BY <1>1 DEF TypeOK, Tangles
<1>3. ASSUME NEW r \in Requests, Expire(r) PROVE TypeOK'
  <2>1. [tokens[r] EXCEPT !.live = FALSE] \in Tokens
    <3>1. tokens[r] \in Tokens
      BY <1>1, <1>3 DEF Expire, TypeOK
    <3>2. QED BY <3>1 DEF Tokens
  <2>2. QED BY <1>1, <1>2, <1>3, <2>1 DEF Expire, TypeOK
<1>4. CASE Crash
  <2>1. crashes' \in 0..MaxCrashes
    BY <1>1, <1>4, AccountsAssumption DEF Crash, TypeOK
  <2>2. /\ up' \in BOOLEAN
        /\ arg' \in [Requests -> Args]
        /\ tokens' \in [Requests -> Tokens \cup {None}]
        /\ interrupted' \subseteq Accounts
    BY <1>1, <1>4, NoArgType DEF Crash, TypeOK
  <2>3. pc' \in [Requests -> LivePcs \cup {"idle", "done", "lost"}]
    BY <1>1, <1>4 DEF Crash, TypeOK
  <2>4. QED BY <1>1, <1>2, <1>4, <2>1, <2>2, <2>3 DEF Crash, TypeOK
<1>5. CASE Restart
  BY <1>1, <1>2, <1>5 DEF Restart, TypeOK
<1>6. QED
  BY <1>1, <1>2, <1>3, <1>4, <1>5, ArriveType, ServeType DEF Step

-----------------------------------------------------------------------------
(***************************************************************************)
(* What a step of r means for r itself and for the account it works on.    *)
(***************************************************************************)
\* A request that has ended relies on nothing, one that begins on little.
LEMMA EndKeeps ==
  ASSUME TypeOK, NEW r \in Requests, NEW code, End(r, code)
  PROVE  ArgOK(r)' /\ Progress(r)'
<1>1. pc'[r] = "done"
  BY DEF End, TypeOK
<1>2. QED
  BY <1>1 DEF ArgOK, Progress, Live, LivePcs, Working, Creating, Deleting

LEMMA LookupKeeps ==
  ASSUME NEW r \in Requests, pc'[r] = "lookup", tokens'[r] = None,
         arg'[r].account \in WebIds, arg'[r].name \in Accounts,
         \/ arg'[r].kind = "signup" /\ arg'[r].todo = Template
         \/ /\ arg'[r].kind \in Links
            /\ arg'[r].account \in Accounts
            /\ arg'[r].key = arg'[r].account
  PROVE  ArgOK(r)' /\ Progress(r)'
<1>1. ArgOK(r)'
  BY HomeFacts DEF ArgOK, Creating, Deleting, Links
<1>2. arg'[r].kind \in Links => Place(r)' = arg'[r].account
  BY HomeFacts DEF Place, Links
<1>3. Progress(r)'
  BY <1>2 DEF Progress, Links
<1>4. QED BY <1>1, <1>3

LEMMA ArriveKeeps ==
  ASSUME IInv, NEW r \in Requests, Arrive(r)
  PROVE  /\ ArgOK(r)' /\ Progress(r)'
         /\ \A a \in Accounts : ~Works(r, a)
         /\ pc[r] \notin Old
         /\ UNCHANGED <<users, tokens>>
<1>1. TypeOK /\ ArgOK(r)
  BY DEF IInv
<1>2. pc[r] = "idle"
  BY DEF Arrive, Arrives, Invalid, Signup, AskForLink, ConfirmDelete,
         ChangePassword
<1>3. UNCHANGED <<users, tokens, storage>>
  BY DEF Arrive, Kept, Invalid, Signup, AskForLink, ConfirmDelete,
         ChangePassword
<1>4. ASSUME Invalid(r) \/ ChangePassword(r)
     PROVE  ArgOK(r)' /\ Progress(r)'
  BY <1>1, <1>4, EndKeeps DEF Invalid, ChangePassword
<1>5. ASSUME Signup(r) \/ AskForLink(r)
     PROVE  ArgOK(r)' /\ Progress(r)'
  <2>1. CASE Signup(r)
    <3>1. PICK body \in Bodies[r] :
            arg' = [arg EXCEPT ![r] =
                     [kind |-> "signup", name |-> body.name,
                      account |-> body.account, key |-> body.email,
                      token |-> None, todo |-> Template]]
      BY <2>1 DEF Signup
    <3>2. body \in AllBodies
      BY <3>1, AccountsAssumption
    <3>3. body.name \in Accounts /\ body.account \in WebIds
      BY <3>2 DEF AllBodies
    <3>4. arg'[r] = [kind |-> "signup", name |-> body.name,
                     account |-> body.account, key |-> body.email,
                     token |-> None, todo |-> Template]
      BY <1>1, <3>1 DEF TypeOK
    <3>5. pc'[r] = "lookup" /\ tokens'[r] = None
      BY <1>1, <1>2, <1>3, <2>1 DEF Signup, Goto, TypeOK, ArgOK
    <3>6. QED BY <3>3, <3>4, <3>5, LookupKeeps
  <2>2. CASE AskForLink(r)
    <3>1. PICK kind \in Links, a \in Accounts :
            arg' = [arg EXCEPT ![r] =
                     [kind |-> kind, name |-> a, account |-> a, key |-> a,
                      token |-> None, todo |-> {}]]
      BY <2>2 DEF AskForLink
    <3>2. arg'[r] = [kind |-> kind, name |-> a, account |-> a, key |-> a,
                     token |-> None, todo |-> {}]
      BY <1>1, <3>1 DEF TypeOK
    <3>3. pc'[r] = "lookup" /\ tokens'[r] = None
      BY <1>1, <1>2, <1>3, <2>2 DEF AskForLink, Goto, TypeOK, ArgOK
    <3>4. QED BY <3>2, <3>3, LookupKeeps, HomeFacts
  <2>3. QED BY <1>5, <2>1, <2>2
<1>6. ASSUME ConfirmDelete(r)
     PROVE  ArgOK(r)' /\ Progress(r)'
  <2>1. CASE End(r, 400)
    BY <1>1, <2>1, EndKeeps
  <2>2. CASE ~End(r, 400)
    <3>1. PICK m \in mail :
            /\ Verified("delete-account", m.token)
            /\ arg' = [arg EXCEPT ![r] =
                        [kind |-> "confirm", token |-> m.token, todo |-> {},
                         name |-> tokens[m.token].account,
                         account |-> tokens[m.token].account,
                         key |-> tokens[m.token].email]]
            /\ Goto(r, "removeAlias")
      BY <1>6, <2>2 DEF ConfirmDelete
    <3>2. m.token \in Requests /\ tokens[m.token] # None
      BY <1>1, <3>1 DEF TypeOK, Verified
    <3>3. tokens[m.token].account \in Accounts
      BY <1>1, <3>2 DEF TypeOK, Tokens
    <3>4. /\ pc'[r] = "removeAlias"
          /\ arg'[r] = [kind |-> "confirm", token |-> m.token, todo |-> {},
                        name |-> tokens[m.token].account,
                        account |-> tokens[m.token].account,
                        key |-> tokens[m.token].email]
      BY <1>1, <3>1 DEF TypeOK, Goto
    <3>5. QED
      BY <1>3, <3>2, <3>3, <3>4, HomeFacts
         DEF ArgOK, Progress, Creating, Deleting, Links
  <2>3. QED BY <2>1, <2>2
<1>7. QED
  BY <1>2, <1>3, <1>4, <1>5, <1>6 DEF Arrive, Works, Working, Old

LEMMA LinkKeeps ==
  ASSUME IInv, NEW r \in Requests, tangled \subseteq tangled',
         \/ LoadUser(r) \/ FollowAlias(r) \/ NoRecoveryEmail(r)
         \/ GenerateToken(r) \/ SendMail(r) \/ FailMail(r)
  PROVE  /\ ArgOK(r)' /\ Progress(r)'
         /\ \A a \in Accounts : ~Works(r, a)
         /\ pc[r] \notin Old
<1>1. TypeOK /\ ArgOK(r) /\ Progress(r)
  BY DEF IInv
<1>2. arg[r].kind \in Links /\ pc[r] \in {"lookup", "recovery", "mailing"}
  BY <1>1 DEF ArgOK, LoadUser, FollowAlias, NoRecoveryEmail, GenerateToken,
              SendMail, FailMail
<1>3. /\ Live(r) /\ arg[r].account \in Accounts /\ arg[r].key \in Keys
      /\ arg[r].name \in Accounts /\ Place(r) = arg[r].account
  BY <1>1, <1>2, HomeFacts DEF ArgOK, Live, LivePcs, Working, Place
<1>4. ASSUME NoRecoveryEmail(r) \/ SendMail(r) \/ FailMail(r)
     PROVE  ArgOK(r)' /\ Progress(r)'
  BY <1>1, <1>4, EndKeeps DEF NoRecoveryEmail, SendMail, FailMail
<1>5. ASSUME LoadUser(r)
     PROVE  ArgOK(r)' /\ Progress(r)'
  <2>1. CASE End(r, 400)
    BY <1>1, <2>1, EndKeeps
  <2>2. CASE Goto(r, "recovery") /\ arg' = arg
    <3>1. pc'[r] = "recovery" /\ pc[r] = "lookup"
      BY <1>1, <1>5, <2>2 DEF Goto, TypeOK, LoadUser
    <3>2. tokens'[r] = None
      BY <1>1, <1>5, <3>1 DEF LoadUser, Kept, ArgOK
    <3>3. ArgOK(r)'
      BY <1>2, <1>3, <2>2, <3>1, <3>2, HomeFacts DEF ArgOK, Creating, Deleting
    <3>4. Place(r)' = Place(r)
      BY <2>2 DEF Place
    <3>5. Progress(r)'
      BY <1>1, <1>2, <1>3, <2>2, <3>1, <3>4 DEF Progress
    <3>6. QED BY <3>3, <3>5
  <2>3. QED BY <1>5, <2>1, <2>2 DEF LoadUser
<1>6. ASSUME GenerateToken(r)
     PROVE  ArgOK(r)' /\ Progress(r)'
  <2>1. pc'[r] = "mailing" /\ arg' = arg
    BY <1>1, <1>6 DEF GenerateToken, Goto, TypeOK
  <2>2. ArgOK(r)'
    BY <1>2, <1>3, <2>1, HomeFacts DEF ArgOK, Creating, Deleting
  <2>3. Progress(r)'
    BY <2>1 DEF Progress
  <2>4. QED BY <2>2, <2>3
<1>7. ASSUME FollowAlias(r)
     PROVE  ArgOK(r)' /\ Progress(r)'
  <2>1. /\ pc[r] = "recovery" /\ pc'[r] = "recovery" /\ tokens' = tokens
        /\ IsAlias(arg[r].key) /\ users[arg[r].key].to \in WebIds
    BY <1>1, <1>3, <1>7, RecordFacts DEF FollowAlias, Goto, Kept, TypeOK
  <2>2. /\ arg'[r].kind = arg[r].kind /\ arg'[r].account = arg[r].account
        /\ arg'[r].name = arg[r].name /\ arg'[r].key \in Keys
    <3>1. arg[r] \in Args
      BY <1>1 DEF TypeOK
    <3>2. arg' = [arg EXCEPT ![r].key = users[arg[r].key].to]
      BY <1>7 DEF FollowAlias
    <3>3. QED BY <1>1, <2>1, <3>1, <3>2, HomeFacts DEF TypeOK, Args
  <2>3. ArgOK(r)'
    BY <1>1, <1>2, <1>3, <2>1, <2>2, HomeFacts
       DEF ArgOK, Creating, Deleting
  <2>4. Place(r)' = arg[r].account
    BY <1>3, <2>2 DEF Place
  <2>5. arg[r].account \in tangled
    <3>1. SUFFICES ASSUME arg[r].account \notin tangled PROVE FALSE
      OBVIOUS
    <3>2. IsAlias(arg[r].account)
      BY <1>1, <1>2, <1>3, <2>1, <3>1 DEF Progress
    <3>3. ~IsUser(arg[r].account) /\ users[arg[r].account] # None
      BY <1>1, <1>3, <3>2, RecordFacts, HomeFacts DEF IsAlias
    <3>4. QED BY <1>3, <3>1, <3>3 DEF IInv, Sound
  <2>6. Progress(r)'
    BY <2>4, <2>5 DEF Progress
  <2>7. QED BY <2>3, <2>6
<1>8. QED BY <1>2, <1>4, <1>5, <1>6, <1>7 DEF Works, Links, Old

\* The account is looked up by the name: if the storage to be written is that
\* of another one, it is tangled.
LEMMA CancelKeeps ==
  ASSUME IInv, NEW r \in Requests, CancelIfAccountExists(r), Local(r),
         tangled \subseteq tangled'
  PROVE  /\ ArgOK(r)' /\ Progress(r)'
         /\ \A a \in Accounts : Sound(a)'
<1>1. /\ TypeOK /\ ArgOK(r)
      /\ UNCHANGED <<storage, users, tokens, interrupted>>
      /\ pc[r] = "lookup" /\ arg[r].kind = "signup"
  BY DEF IInv, CancelIfAccountExists, Kept, Asked
<1>2. arg[r].todo = Template /\ Live(r)
  BY <1>1 DEF ArgOK, Live, LivePcs, Working, Links
<1>3. PICK a \in Accounts : a = Place(r)
  BY <1>1, <1>2, PlaceType
<1>4. Works(r, a)
  BY <1>1, <1>3 DEF Works, Working
<1>5. \A b \in Accounts : Sound(b)'
  <2> SUFFICES ASSUME NEW b \in Accounts PROVE Sound(b)'
    OBVIOUS
  <2>1. Sound(b)
    BY DEF IInv
  <2>2. \A q \in Requests : Works(q, b) /\ pc[q] # "lookup" =>
          Works(q, b)' /\ pc'[q] # "lookup"
    BY <1>1 DEF Local, OthersStay, Works, Place
  <2>3. QED BY <1>1, <2>1, <2>2 DEF Sound, Exists, IsUser, IsAlias
<1>6. CASE Exists(arg[r].name)
  BY <1>1, <1>5, <1>6, EndKeeps DEF CancelIfAccountExists
<1>7. CASE ~Exists(arg[r].name)
  <2>1. pc' = [pc EXCEPT ![r] = "provision"] /\ arg' = arg
    BY <1>7 DEF CancelIfAccountExists, Goto
  <2>2. ArgOK(r)'
    BY <1>1, <1>2, <2>1
       DEF ArgOK, Live, LivePcs, Working, Creating, Deleting, TypeOK, Links
  <2>3. a \notin tangled => users[a] = None
    <3>1. SUFFICES ASSUME a \notin tangled, users[a] # None PROVE FALSE
      OBVIOUS
    <3>2. ~Exists(a)
      BY <1>4, <1>7, <3>1, ByName
    <3>3. IsUser(a) /\ storage[a][RootAcl] = users[a].by
      BY <3>1, AccountsAssumption DEF IInv, Sound, Files
    <3>4. users[a].by \in Requests
      BY <1>1, <3>3, RecordFacts, HomeFacts
    <3>5. QED BY <3>2, <3>3, <3>4, AccountsAssumption DEF Exists
  <2>4. Place(r)' = a
    BY <1>3, <2>1 DEF Place
  <2>5. Progress(r)'
    BY <1>1, <1>2, <2>1, <2>3, <2>4 DEF Progress, TypeOK, Links
  <2>6. QED BY <1>5, <2>2, <2>5
<1>8. QED BY <1>6, <1>7

\* Writing a file f of the account.
LEMMA WriteKeeps ==
  ASSUME IInv, NEW r \in Requests, NEW a \in Accounts, a = Place(r),
         ProvisionFile(r) \/ SaveDidDocument(r) \/ SaveKeys(r),
         tangled \subseteq tangled'
  PROVE  /\ ArgOK(r)' /\ Progress(r)'
         /\ Sound(a)'
<1>1. TypeOK /\ ArgOK(r) /\ Progress(r)
  BY DEF IInv
<1>2. /\ pc[r] \in {"provision", "did", "keys"}
      /\ UNCHANGED <<users, tokens, interrupted>>
  BY DEF ProvisionFile, SaveDidDocument, SaveKeys
<1>3. Live(r) /\ arg[r].kind = "signup" /\ arg[r] \in Args
  BY <1>1, <1>2 DEF ArgOK, Live, LivePcs, Working, Creating, TypeOK
<1>4. PICK f \in Files :
        /\ Writes(r, f)
        /\ \/ /\ pc[r] = "provision" /\ f \in arg[r].todo
              /\ arg' = [arg EXCEPT ![r].todo = @ \ {f}]
              /\ Goto(r, IF arg[r].todo = {f} THEN "did" ELSE "provision")
           \/ /\ pc[r] = "did" /\ f = "did"
              /\ arg' = arg /\ Goto(r, "keys")
           \/ /\ pc[r] = "keys" /\ f = "keys"
              /\ arg' = arg /\ Goto(r, "saveUser")
  BY <1>3 DEF ProvisionFile, SaveDidDocument, SaveKeys, Files, DidFiles, Args
<1>5. storage'[a] = [storage[a] EXCEPT ![f] = r]
  BY <1>1, <1>3, <1>4 DEF Writes, TypeOK
<1>6. \A g \in Files : storage'[a][g] = IF g = f THEN r ELSE storage[a][g]
  BY <1>1, <1>3, <1>5 DEF TypeOK
<1>7. /\ arg'[r].account = arg[r].account
      /\ arg'[r].name = arg[r].name
      /\ arg'[r].kind = "signup"
      /\ pc[r] = "provision" => arg'[r].todo = arg[r].todo \ {f}
  BY <1>1, <1>3, <1>4 DEF TypeOK, Args
<1>8. \/ pc[r] = "provision" /\ pc'[r] = "provision"
      \/ pc[r] = "provision" /\ pc'[r] = "did" /\ arg[r].todo = {f}
      \/ pc[r] = "did" /\ pc'[r] = "keys" /\ f = "did"
      \/ pc[r] = "keys" /\ pc'[r] = "saveUser" /\ f = "keys"
  BY <1>1, <1>4 DEF Goto, TypeOK
<1>9. ArgOK(r)'
  BY <1>1, <1>3, <1>7, <1>8 DEF ArgOK, Deleting, Links
<1>10. Template \subseteq Files /\ "did" \in Files /\ "keys" \in Files
       /\ "did" \notin Template /\ "keys" \notin Template
  BY AccountsAssumption DEF Files, DidFiles
<1>11. Place(r)' = a
  BY <1>7 DEF Place
<1>12. ASSUME a \notin tangled'
       PROVE  a \notin tangled /\ users'[a] = None
  BY <1>1, <1>2, <1>3, <1>12 DEF Progress
<1>13. Progress(r)'
  <2> SUFFICES ASSUME a \notin tangled'
               PROVE  Progress(r)'
    BY <1>11 DEF Progress
  <2>1. CASE pc'[r] = "provision"
    BY <1>1, <1>3, <1>6, <1>7, <1>8, <1>10, <1>11, <1>12, <2>1
       DEF Progress, Links
  <2>2. CASE pc'[r] = "did"
    BY <1>1, <1>3, <1>6, <1>7, <1>8, <1>10, <1>11, <1>12, <2>2
       DEF Progress, Links
  <2>3. CASE pc'[r] = "keys"
    BY <1>1, <1>3, <1>6, <1>7, <1>8, <1>10, <1>11, <1>12, <2>3
       DEF Progress, Links
  <2>4. CASE pc'[r] = "saveUser"
    BY <1>1, <1>3, <1>6, <1>7, <1>8, <1>10, <1>11, <1>12, <2>4
       DEF Progress, Links
  <2>5. QED BY <1>8, <2>1, <2>2, <2>3, <2>4
<1>14. Sound(a)'
  <2>1. Sound(a)
    BY DEF IInv
  <2>2. Works(r, a)' /\ pc'[r] # "lookup"
    BY <1>7, <1>8, <1>11 DEF Works, Working
  <2>3. QED BY <1>2, <1>12, <2>1, <2>2 DEF Sound, IsUser, IsAlias
<1>15. QED BY <1>9, <1>13, <1>14

\* Storing the record, for the account that is complete then.
LEMMA SaveUserKeeps ==
  ASSUME IInv, NEW r \in Requests, NEW a \in Accounts, a = Place(r),
         SaveUser(r), tangled \subseteq tangled'
  PROVE  /\ ArgOK(r)' /\ Progress(r)'
         /\ Sound(a)'
<1> DEFINE user == [kind |-> "user", by |-> r, email |-> arg[r].key]
<1>1. TypeOK /\ ArgOK(r) /\ Progress(r) /\ Sound(a)
  BY DEF IInv
<1>2. /\ pc[r] = "saveUser"
      /\ users' = [users EXCEPT ![arg[r].account] = user]
      /\ UNCHANGED <<storage, tokens, interrupted>>
  BY DEF SaveUser
<1>3. /\ arg[r].kind = "signup" /\ Live(r)
      /\ arg[r].account \in WebIds /\ arg[r].key \in Keys \cup {None}
  BY <1>1, <1>2 DEF ArgOK, Live, LivePcs, Working, Creating, TypeOK, Args
<1>4. Works(r, a)
  BY <1>2, <1>3 DEF Works, Working
<1>5. user # None /\ user.kind = "user" /\ user.by = r /\ user.email = arg[r].key
  BY <1>3, NewRecords
<1>6. ASSUME a \notin tangled'
      PROVE  /\ arg[r].account = a /\ users'[a] = user
             /\ users[a] = None
             /\ \A f \in Files : storage[a][f] = r
  <2>1. a \notin tangled /\ arg[r].account = a
    BY <1>4, <1>6, ByName
  <2>2. users'[a] = user
    BY <1>1, <1>2, <2>1, HomeFacts DEF TypeOK
  <2>3. users[a] = None /\ \A f \in Files : storage[a][f] = r
    BY <1>1, <1>2, <1>3, <2>1 DEF Progress, Files, DidFiles
  <2>4. QED BY <2>1, <2>2, <2>3
<1>7. ArgOK(r)' /\ Progress(r)'
  <2>1. CASE End(r, 200)
    BY <1>1, <2>1, EndKeeps
  <2>2. CASE arg[r].key # None /\ Goto(r, "saveAlias") /\ arg' = arg
    <3>1. pc'[r] = "saveAlias" /\ Place(r)' = a
      BY <1>1, <2>2 DEF Goto, TypeOK, Place
    <3>2. ArgOK(r)'
      BY <1>1, <1>3, <2>2, <3>1 DEF ArgOK, Deleting, Links
    <3>3. a \notin tangled' =>
            IsUser(a)' /\ users'[a].by = r /\ users'[a].email = arg[r].key
      BY <1>5, <1>6 DEF IsUser
    <3>4. Progress(r)'
      BY <1>3, <2>2, <3>1, <3>3 DEF Progress, Links
    <3>5. QED BY <3>2, <3>4
  <2>3. QED BY <2>1, <2>2 DEF SaveUser
<1>8. Sound(a)'
  <2>1. SUFFICES ASSUME a \notin tangled'
                 PROVE  Sound(a)'
    BY DEF Sound
  <2>2. IsUser(a)' /\ users'[a].by = r /\ users'[a] # None
    BY <1>5, <1>6, <2>1 DEF IsUser
  <2>3. ASSUME NEW k \in Keys, IsAlias(k)', Home[users'[k].to] = a
        PROVE  FALSE
    <3>1. users'[k] = users[k]
      <4>1. users'[k] = user \/ users'[k] = users[k]
        BY <1>1, <1>2 DEF TypeOK
      <4>2. users'[k] # user
        BY <1>5, <2>3 DEF IsAlias
      <4>3. QED BY <4>1, <4>2
    <3>2. IsAlias(k) /\ Home[users[k].to] = a
      BY <2>3, <3>1 DEF IsAlias
    <3>3. QED BY <1>1, <1>6, <2>1, <3>2 DEF Sound, IsUser
  <2>4. QED BY <1>2, <1>6, <2>1, <2>2, <2>3 DEF Sound
<1>9. QED BY <1>7, <1>8

\* Storing the alias.  If the address is an id of this account, it is tangled.
LEMMA SaveAliasKeeps ==
  ASSUME IInv, NEW r \in Requests, NEW a \in Accounts, a = Place(r),
         SaveAliasUserRecord(r), tangled \subseteq tangled'
  PROVE  /\ ArgOK(r)' /\ Progress(r)'
         /\ Sound(a)'
<1> DEFINE alias == [kind |-> "alias", to |-> arg[r].account]
<1>1. TypeOK /\ ArgOK(r) /\ Progress(r) /\ Sound(a)
  BY DEF IInv
<1>2. /\ pc[r] = "saveAlias" /\ arg[r].key \in Keys
      /\ users' = [users EXCEPT ![arg[r].key] = alias]
      /\ UNCHANGED <<storage, tokens, interrupted>>
  BY <1>1 DEF SaveAliasUserRecord, ArgOK, TypeOK, Args
<1>3. Live(r) /\ arg[r].kind = "signup"
  BY <1>1, <1>2 DEF ArgOK, Live, LivePcs, Working, Creating
<1>4. Works(r, a)
  BY <1>2, <1>3 DEF Works, Working
<1>5. Sound(a)'
  <2>1. SUFFICES ASSUME a \notin tangled'
                 PROVE  Sound(a)'
    BY DEF Sound
  <2>2. /\ a \notin tangled /\ arg[r].account = a
        /\ arg[r].key \in WebIds => Home[arg[r].key] # a
    BY <1>4, <2>1, ByName
  <2>3. arg[r].key # a
    BY <2>2, HomeFacts
  <2>4. IsUser(a) /\ users[a].email = arg[r].key
    BY <1>1, <1>2, <1>3, <2>2 DEF Progress
  <2>5. users'[a] = users[a] /\ IsUser(a)'
    <3>1. users'[a] = users[a]
      BY <1>1, <1>2, <2>3, HomeFacts DEF TypeOK
    <3>2. QED BY <2>4, <3>1 DEF IsUser
  <2>6. ASSUME NEW k \in Keys, IsAlias(k)', Home[users'[k].to] = a
        PROVE  users'[k].to = a /\ users[a].email = k
    <3>1. CASE k = arg[r].key
      <4>1. users'[k] = alias
        BY <1>1, <1>2, <3>1 DEF TypeOK
      <4>2. users'[k].to = a
        BY <2>2, <4>1
      <4>3. QED BY <2>4, <3>1, <4>2
    <3>2. CASE k # arg[r].key
      <4>1. users'[k] = users[k]
        BY <1>1, <1>2, <3>2 DEF TypeOK
      <4>2. IsAlias(k) /\ Home[users[k].to] = a
        BY <2>6, <4>1 DEF IsAlias
      <4>3. QED BY <1>1, <2>2, <4>1, <4>2 DEF Sound
    <3>3. QED BY <3>1, <3>2
  <2>7. users[a] # None
    BY <2>4 DEF IsUser
  <2>8. QED BY <1>1, <1>2, <2>2, <2>5, <2>6, <2>7 DEF Sound
<1>6. QED BY <1>1, <1>5, EndKeeps DEF SaveAliasUserRecord

\* Giving up.
LEMMA FailKeeps ==
  ASSUME IInv, NEW r \in Requests, NEW a \in Accounts, a = Place(r),
         FailSignup(r) \/ FailDelete(r) \/ LoseStorage(r),
         tangled \subseteq tangled'
  PROVE  /\ ArgOK(r)' /\ Progress(r)'
         /\ Sound(a)'
<1>1. TypeOK /\ Sound(a)
  BY DEF IInv
<1>2. UNCHANGED <<storage, users, tokens>> /\ a \in interrupted'
  BY DEF FailSignup, FailDelete, LoseStorage
<1>3. Sound(a)'
  BY <1>1, <1>2 DEF Sound, IsUser, IsAlias
<1>4. ArgOK(r)' /\ Progress(r)'
  BY <1>1, EndKeeps DEF FailSignup, FailDelete, LoseStorage
<1>5. QED BY <1>3, <1>4

\* Removing the alias: no other one leads to the account, unless the token is
\* of an earlier account of that name.
LEMMA RemoveAliasKeeps ==
  ASSUME IInv, NEW r \in Requests, NEW a \in Accounts, a = Place(r),
         RemoveAlias(r), tangled \subseteq tangled'
  PROVE  /\ ArgOK(r)' /\ Progress(r)'
         /\ Sound(a)'
<1> DEFINE t == arg[r].token
<1>1. TypeOK /\ ArgOK(r) /\ Sound(a)
  BY DEF IInv
<1>2. /\ pc[r] = "removeAlias" /\ pc'[r] = "removeUser"
      /\ users' = [users EXCEPT ![arg[r].key] = None]
      /\ UNCHANGED <<arg, storage, tokens, interrupted>>
  BY <1>1 DEF RemoveAlias, Goto, TypeOK
<1>3. \A k \in Keys :
        users'[k] = IF k = arg[r].key THEN None ELSE users[k]
  BY <1>1, <1>2 DEF TypeOK
<1>4. ArgOK(r)'
  BY <1>1, <1>2 DEF ArgOK, Creating, Deleting, Links, Live, LivePcs, Working
<1>5. /\ arg[r].kind = "confirm" /\ t \in Requests /\ tokens[t] # None
      /\ arg[r].account = tokens[t].account /\ arg[r].key = tokens[t].email
  BY <1>1, <1>2 DEF ArgOK, Deleting
<1>6. Works(r, a) /\ Works(r, a)' /\ pc'[r] # "lookup" /\ Place(r)' = a
  BY <1>2, <1>5 DEF Works, Working, Place
<1>7. ASSUME a \notin tangled'
      PROVE  /\ a \notin tangled /\ users'[a] = users[a]
             /\ \A k \in Keys : IsAlias(k)' => Home[users'[k].to] # a
  <2>1. /\ a \notin tangled /\ arg[r].account = a
        /\ arg[r].key \in WebIds => Home[arg[r].key] # a
    BY <1>6, <1>7, ByName
  <2>2. arg[r].key # a
    BY <2>1, HomeFacts
  <2>3. IsUser(a) => users[a].by = tokens[t].of
    BY <1>2, <2>1 DEF IInv, Tangles, Outdated
  <2>4. IsUser(a) => users[a].email = arg[r].key
    BY <1>5, <2>1, <2>3 DEF IInv, TokenOK
  <2>5. ASSUME NEW k \in Keys, IsAlias(k)' PROVE Home[users'[k].to] # a
    <3>1. k # arg[r].key /\ users'[k] = users[k] /\ IsAlias(k)
      BY <1>3, <2>5 DEF IsAlias
    <3>2. QED BY <1>1, <2>1, <2>4, <3>1 DEF Sound
  <2>6. QED BY <1>3, <2>1, <2>2, <2>5, HomeFacts
<1>8. Progress(r)'
  BY <1>2, <1>5, <1>6, <1>7 DEF Progress, Links
<1>9. Sound(a)'
  BY <1>1, <1>2, <1>6, <1>7 DEF Sound, IsUser
<1>10. QED BY <1>4, <1>8, <1>9

LEMMA RemoveUserKeeps ==
  ASSUME IInv, NEW r \in Requests, NEW a \in Accounts, a = Place(r),
         RemoveUser(r), tangled \subseteq tangled'
  PROVE  /\ ArgOK(r)' /\ Progress(r)'
         /\ Sound(a)'
<1>1. TypeOK /\ ArgOK(r) /\ Progress(r)
  BY DEF IInv
<1>2. /\ pc[r] = "removeUser" /\ pc'[r] = "findStorage"
      /\ users' = [users EXCEPT ![arg[r].account] = None]
      /\ UNCHANGED <<arg, storage, tokens, interrupted>>
  BY <1>1 DEF RemoveUser, Goto, TypeOK
<1>3. arg[r].kind = "confirm" /\ Live(r)
  BY <1>1, <1>2 DEF ArgOK, Deleting, Live, LivePcs, Working
<1>4. ArgOK(r)'
  BY <1>1, <1>2 DEF ArgOK, Creating, Deleting, Links, Live, LivePcs, Working
<1>5. Works(r, a) /\ Works(r, a)' /\ pc'[r] # "lookup" /\ Place(r)' = a
  BY <1>2, <1>3 DEF Works, Working, Place
<1>6. ASSUME a \notin tangled'
      PROVE  /\ users'[a] = None
             /\ \A k \in Keys : IsAlias(k)' => Home[users'[k].to] # a
  <2>1. a \notin tangled /\ arg[r].account = a
    BY <1>5, <1>6, ByName
  <2>2. users'[a] = None
    BY <1>1, <1>2, <2>1, HomeFacts DEF TypeOK
  <2>3. ASSUME NEW k \in Keys, IsAlias(k)' PROVE Home[users'[k].to] # a
    <3>1. users'[k] = users[k] /\ IsAlias(k)
      BY <1>1, <1>2, <2>3 DEF IsAlias, TypeOK
    <3>2. QED BY <1>1, <1>2, <1>3, <2>1, <3>1 DEF Progress
  <2>4. QED BY <2>2, <2>3
<1>7. Progress(r)'
  BY <1>2, <1>3, <1>5, <1>6 DEF Progress, Links
<1>8. Sound(a)'
  BY <1>2, <1>5, <1>6 DEF Sound
<1>9. QED BY <1>4, <1>7, <1>8

LEMMA RemoveStorageKeeps ==
  ASSUME IInv, NEW r \in Requests, NEW a \in Accounts, a = Place(r),
         FindStorage(r) \/ RemoveStorage(r) \/ DeleteAccountStorage(r),
         tangled \subseteq tangled'
  PROVE  /\ ArgOK(r)' /\ Progress(r)'
         /\ Sound(a)'
<1>1. TypeOK /\ ArgOK(r) /\ Progress(r) /\ Sound(a)
  BY DEF IInv
<1>2. /\ pc[r] \in {"findStorage", "removeStorage"}
      /\ UNCHANGED <<users, tokens, interrupted>>
  BY DEF FindStorage, RemoveStorage, DeleteAccountStorage, Kept
<1>3. arg[r].kind = "confirm" /\ Live(r)
  BY <1>1, <1>2 DEF ArgOK, Deleting, Live, LivePcs, Working
<1>4. a \notin tangled' => users'[a] = None
  BY <1>1, <1>2, <1>3 DEF Progress
<1>5. CASE FindStorage(r) \/ RemoveStorage(r)
  <2>1. pc'[r] = "removeStorage" /\ arg' = arg /\ Place(r)' = a
    BY <1>1, <1>5 DEF FindStorage, RemoveStorage, Goto, TypeOK, Place
  <2>2. ArgOK(r)'
    BY <1>1, <1>2, <1>3, <2>1
       DEF ArgOK, Creating, Deleting, Links, Live, LivePcs, Working
  <2>3. Progress(r)'
    BY <1>3, <1>4, <2>1 DEF Progress, Links
  <2>4. Works(r, a)' /\ pc'[r] # "lookup"
    BY <1>3, <2>1 DEF Works, Working
  <2>5. Sound(a)'
    BY <1>1, <1>2, <1>4, <2>4 DEF Sound, IsUser, IsAlias
  <2>6. QED BY <2>2, <2>3, <2>5
<1>6. CASE DeleteAccountStorage(r)
  <2>1. ~Exists(a)'
    BY <1>6, AccountsAssumption DEF DeleteAccountStorage, Exists, Files
  <2>2. Sound(a)'
    BY <1>1, <1>2, <1>4, <2>1 DEF Sound, IsUser, IsAlias
  <2>3. QED BY <1>1, <1>6, <2>2, EndKeeps DEF DeleteAccountStorage
<1>7. QED BY <1>5, <1>6

-----------------------------------------------------------------------------
(***************************************************************************)
(* Records and tokens.                                                     *)
(***************************************************************************)
\* No token was made for a record that is only being stored now.
LEMMA SaveUserRecords ==
  ASSUME IInv, NEW r \in Requests, SaveUser(r), tangled \subseteq tangled'
  PROVE  /\ \A q \in Requests : TokenOK(q)'
         /\ \A k \in Keys : RecordOK(k)'
<1> DEFINE user == [kind |-> "user", by |-> r, email |-> arg[r].key]
<1>1. TypeOK /\ tokens' = tokens /\ pc[r] = "saveUser"
  BY DEF IInv, SaveUser
<1>2. \A k \in Keys : users'[k] = users[k] \/ users'[k] = user
  BY <1>1 DEF SaveUser, TypeOK
<1>3. pc'[r] \in Old /\ \A q \in Requests : pc[q] \in Old => pc'[q] \in Old
  BY <1>1 DEF SaveUser, End, Goto, TypeOK, Old
<1>4. ASSUME NEW k \in Keys, IsUser(k)'
      PROVE  users'[k].by = r \/ (users'[k] = users[k] /\ IsUser(k))
  BY <1>2, <1>4 DEF IsUser
<1>5. ASSUME NEW k \in Keys PROVE RecordOK(k)'
  <2>1. RecordOK(k)
    BY DEF IInv
  <2>2. IsUser(k) => users[k].by \in Requests
    BY <1>1, RecordFacts
  <2>3. QED BY <1>3, <1>4, <2>1, <2>2 DEF RecordOK
<1>6. ASSUME NEW q \in Requests PROVE TokenOK(q)'
  <2>1. TokenOK(q)
    BY DEF IInv
  <2>2. tokens[q] # None => tokens[q].of \in Requests
                              /\ tokens[q].account \in Keys
    BY <1>1, HomeFacts DEF TypeOK, Tokens
  <2>3. tokens[q] # None => tokens[q].of # r
    BY <1>1, <2>1 DEF TokenOK, Old
  <2>4. QED BY <1>1, <1>3, <1>4, <2>1, <2>2, <2>3 DEF TokenOK
<1>7. QED BY <1>5, <1>6

\* For an account that is not tangled, the record found is its own.
LEMMA GenerateTokenRecords ==
  ASSUME IInv, NEW r \in Requests, GenerateToken(r), tangled \subseteq tangled'
  PROVE  /\ \A q \in Requests : TokenOK(q)'
         /\ \A k \in Keys : RecordOK(k)'
<1>1. /\ TypeOK /\ ArgOK(r) /\ Progress(r) /\ users' = users
      /\ pc[r] = "recovery" /\ Live(r)
  BY DEF IInv, GenerateToken, Live, LivePcs
<1>2. /\ arg[r].kind \in Links /\ arg[r].account \in Accounts
      /\ arg[r].key \in Keys /\ IsUser(arg[r].key)
      /\ Place(r) = arg[r].account
  BY <1>1, HomeFacts DEF GenerateToken, HasEmail, ArgOK, Place
<1>3. \A q \in Requests : pc[q] \in Old => pc'[q] \in Old
  BY <1>1 DEF GenerateToken, Goto, TypeOK, Old
<1>4. ASSUME NEW k \in Keys, IsUser(k)
      PROVE  users[k].by \in Requests /\ pc[users[k].by] \in Old
  BY <1>1, <1>4, RecordFacts DEF IInv, RecordOK
<1>5. \A k : IsUser(k)' <=> IsUser(k)
  BY <1>1 DEF IsUser
<1>6. ASSUME NEW q \in Requests PROVE TokenOK(q)'
  <2>1. CASE q = r
    <3>1. /\ tokens'[r].account = arg[r].account
          /\ tokens'[r].email = users[arg[r].key].email
          /\ tokens'[r].of = users[arg[r].key].by
      BY <1>1 DEF GenerateToken, TypeOK
    <3>2. arg[r].account \notin tangled => arg[r].key = arg[r].account
      BY <1>1, <1>2 DEF Progress
    <3>3. pc'[users[arg[r].key].by] \in Old
      BY <1>2, <1>3, <1>4
    <3>4. QED BY <1>1, <2>1, <3>1, <3>2, <3>3 DEF TokenOK
  <2>2. CASE q # r
    <3>1. tokens'[q] = tokens[q] /\ TokenOK(q)
      BY <1>1, <2>2 DEF GenerateToken, TypeOK, IInv
    <3>2. tokens[q] # None => tokens[q].of \in Requests
      BY <1>1 DEF TypeOK, Tokens
    <3>3. QED BY <1>1, <1>3, <1>5, <3>1, <3>2 DEF TokenOK
  <2>3. QED BY <2>1, <2>2
<1>7. \A k \in Keys : RecordOK(k)'
  BY <1>1, <1>3, <1>4, <1>5 DEF RecordOK
<1>8. QED BY <1>6, <1>7

-----------------------------------------------------------------------------
(***************************************************************************)
(* The invariant is inductive.                                             *)
(***************************************************************************)
Good ==
  /\ \A r \in Requests : ArgOK(r) /\ Progress(r) /\ TokenOK(r)
  /\ \A a \in Accounts : Sound(a)
  /\ \A k \in Keys : RecordOK(k)

\* The step of a request that stores no record and makes no token.
LEMMA StepOfOne ==
  ASSUME IInv, NEW r \in Requests, Local(r), tangled \subseteq tangled',
         ArgOK(r)' /\ Progress(r)',
         \A a \in Accounts : Works(r, a) => Sound(a)',
         \A q \in Requests : TokenOK(q)',
         \A k \in Keys : RecordOK(k)'
  PROVE  Good'
<1>1. \A q \in Requests : ArgOK(q)' /\ Progress(q)'
  BY OthersKeep
<1>2. \A a \in Accounts : Sound(a)'
  BY ElsewhereSound
<1>3. QED BY <1>1, <1>2 DEF Good

LEMMA ArriveGood ==
  ASSUME IInv, NEW r \in Requests, Arrive(r), tangled \subseteq tangled'
  PROVE  Good'
<1>1. Local(r)
  BY ArriveLocal DEF IInv
<1>2. \A q \in Requests : pc[q] \in Old => pc'[q] \in Old
  BY <1>1, ArriveKeeps DEF Local, OthersStay
<1>3. (\A q \in Requests : TokenOK(q)') /\ (\A k \in Keys : RecordOK(k)')
  BY <1>2, ArriveKeeps, RecordsKeep
<1>4. QED BY <1>1, <1>3, ArriveKeeps, StepOfOne

LEMMA ServeGood ==
  ASSUME IInv, NEW r \in Requests, Serve(r), tangled \subseteq tangled'
  PROVE  Good'
<1>1. Local(r) /\ TypeOK
  BY ServeLocal DEF IInv
<1>2. ArgOK(r)' /\ Progress(r)' /\ \A a \in Accounts : Works(r, a) => Sound(a)'
  <2>1. CASE \/ LoadUser(r) \/ FollowAlias(r) \/ NoRecoveryEmail(r)
             \/ GenerateToken(r) \/ SendMail(r) \/ FailMail(r)
    BY <2>1, LinkKeeps
  <2>2. CASE CancelIfAccountExists(r)
    BY <1>1, <2>2, CancelKeeps
  <2>3. CASE ~ \/ LoadUser(r) \/ FollowAlias(r) \/ NoRecoveryEmail(r)
               \/ GenerateToken(r) \/ SendMail(r) \/ FailMail(r)
               \/ CancelIfAccountExists(r)
    <3>1. PICK a \in Accounts : a = Place(r)
      <4>1. pc[r] \in Creating \cup Deleting
        BY <2>3 DEF Serve, Creating, Deleting, ProvisionFile, SaveDidDocument,
                    SaveKeys, SaveUser, SaveAliasUserRecord, FailSignup,
                    RemoveAlias, RemoveUser, FindStorage, LoseStorage,
                    RemoveStorage, DeleteAccountStorage, FailDelete
      <4>2. Live(r)
        BY <4>1 DEF Creating, Deleting, Live, LivePcs, Working
      <4>3. QED BY <4>2, PlaceType DEF IInv
    <3>2. ArgOK(r)' /\ Progress(r)' /\ Sound(a)'
      BY <2>3, <3>1, WriteKeeps, SaveUserKeeps, SaveAliasKeeps, FailKeeps,
         RemoveAliasKeeps, RemoveUserKeeps, RemoveStorageKeeps DEF Serve
    <3>3. ASSUME NEW b \in Accounts, Works(r, b) PROVE Sound(b)'
      <4>1. b \notin tangled' => b = a
        BY <3>1, <3>3, ByName
      <4>2. QED BY <3>2, <4>1 DEF Sound
    <3>4. QED BY <3>2, <3>3
  <2>4. QED BY <2>1, <2>2, <2>3
<1>3. (\A q \in Requests : TokenOK(q)') /\ (\A k \in Keys : RecordOK(k)')
  <2>1. CASE SaveUser(r)
    BY <2>1, SaveUserRecords
  <2>2. CASE GenerateToken(r)
    BY <2>2, GenerateTokenRecords
  <2>3. CASE ~SaveUser(r) /\ ~GenerateToken(r)
    <3>1. /\ tokens' = tokens
          /\ \A k \in Keys : users'[k] = users[k] \/ ~IsUser(k)'
      <4>1. CASE SaveAliasUserRecord(r)
        <5>1. \A k \in Keys :
                \/ users'[k] = users[k]
                \/ users'[k] = [kind |-> "alias", to |-> arg[r].account]
          BY <1>1, <4>1 DEF SaveAliasUserRecord, TypeOK
        <5>2. QED BY <4>1, <5>1 DEF SaveAliasUserRecord, IsUser
      <4>2. CASE RemoveAlias(r) \/ RemoveUser(r)
        <5>1. \A k \in Keys : users'[k] = users[k] \/ users'[k] = None
          BY <1>1, <4>2 DEF RemoveAlias, RemoveUser, TypeOK
        <5>2. QED BY <4>2, <5>1 DEF RemoveAlias, RemoveUser, IsUser
      <4>3. CASE ~SaveAliasUserRecord(r) /\ ~RemoveAlias(r) /\ ~RemoveUser(r)
        BY <2>3, <4>3
           DEF Serve, Kept, CancelIfAccountExists, ProvisionFile,
               SaveDidDocument, SaveKeys, FailSignup, LoadUser, FollowAlias,
               NoRecoveryEmail, SendMail, FailMail, FindStorage, LoseStorage,
               RemoveStorage, DeleteAccountStorage, FailDelete
      <4>4. QED BY <4>1, <4>2, <4>3
    <3>2. pc[r] \in Old => pc'[r] \in Old
      <4>1. SUFFICES ASSUME pc[r] \in Old PROVE pc'[r] \in Old
        OBVIOUS
      <4>2. SaveAliasUserRecord(r) \/ FailSignup(r)
        BY <2>3, <4>1
           DEF Old, Serve, CancelIfAccountExists, Asked, ProvisionFile,
               SaveDidDocument, SaveKeys, LoadUser, FollowAlias,
               NoRecoveryEmail, SendMail, FailMail, RemoveAlias, RemoveUser,
               FindStorage, LoseStorage, RemoveStorage, DeleteAccountStorage,
               FailDelete
      <4>3. QED
        BY <1>1, <4>2 DEF SaveAliasUserRecord, FailSignup, End, TypeOK, Old
    <3>3. \A q \in Requests : pc[q] \in Old => pc'[q] \in Old
      BY <1>1, <3>2 DEF Local, OthersStay
    <3>4. QED BY <3>1, <3>3, RecordsKeep
  <2>4. QED BY <2>1, <2>2, <2>3
<1>4. QED BY <1>1, <1>2, <1>3, StepOfOne

\* The process ends in the middle of anything.
LEMMA CrashGood ==
  ASSUME IInv, Crash, tangled \subseteq tangled'
  PROVE  Good'
<1>1. /\ TypeOK /\ UNCHANGED <<storage, users>>
      /\ \A q \in Requests :
           /\ tokens'[q] = None
           /\ pc'[q] = IF Live(q) THEN "lost" ELSE pc[q]
  BY DEF IInv, Crash
<1>2. \A q \in Requests : pc'[q] \in {"idle", "done", "lost"}
  BY <1>1 DEF TypeOK, Live
<1>3. \A q \in Requests : ArgOK(q)' /\ Progress(q)'
  BY <1>1, <1>2
     DEF ArgOK, Progress, Live, LivePcs, Working, Creating, Deleting
<1>4. \A q \in Requests : pc[q] \in Old => pc'[q] \in Old
  BY <1>1 DEF Old
<1>5. (\A q \in Requests : TokenOK(q)') /\ (\A k \in Keys : RecordOK(k)')
  BY <1>1, <1>4, RecordsKeep
<1>6. ASSUME NEW a \in Accounts PROVE Sound(a)'
  <2>1. Sound(a)
    BY DEF IInv
  <2>2. a \notin interrupted' =>
          a \notin interrupted /\ \A q \in Requests : ~Works(q, a)
    BY DEF Crash
  <2>3. QED BY <1>1, <2>1, <2>2 DEF Sound, Exists, IsUser, IsAlias
<1>7. QED BY <1>3, <1>5, <1>6 DEF Good

\* A token that expires is still the same.
LEMMA ExpireKeeps ==
  ASSUME TypeOK, NEW r \in Requests, Expire(r), NEW t \in Requests
  PROVE  /\ tokens'[t] = None <=> tokens[t] = None
         /\ tokens[t] # None =>
              /\ tokens'[t].account = tokens[t].account
              /\ tokens'[t].email = tokens[t].email
              /\ tokens'[t].of = tokens[t].of
<1>1. tokens[r] # None /\ tokens[r] \in Tokens
  BY DEF Expire, TypeOK
<1>2. tokens' = [tokens EXCEPT ![r] = [tokens[r] EXCEPT !.live = FALSE]]
  BY DEF Expire
<1>3. /\ [tokens[r] EXCEPT !.live = FALSE] \in Tokens
      /\ [tokens[r] EXCEPT !.live = FALSE].account = tokens[r].account
      /\ [tokens[r] EXCEPT !.live = FALSE].email = tokens[r].email
      /\ [tokens[r] EXCEPT !.live = FALSE].of = tokens[r].of
  BY <1>1 DEF Tokens
<1>4. [tokens[r] EXCEPT !.live = FALSE] # None
  BY <1>3, AccountsAssumption
<1>5. QED BY <1>1, <1>2, <1>3, <1>4 DEF TypeOK

\* Tokens expire, or the process starts again.
LEMMA IdleGood ==
  ASSUME IInv, tangled \subseteq tangled',
         Restart \/ \E r \in Requests : Expire(r)
  PROVE  Good'
<1>1. TypeOK /\ UNCHANGED <<pc, arg, storage, users, interrupted>>
  BY DEF IInv, Restart, Expire
<1>2. \A t \in Requests :
        /\ tokens'[t] = None <=> tokens[t] = None
        /\ tokens[t] # None =>
             /\ tokens'[t].account = tokens[t].account
             /\ tokens'[t].email = tokens[t].email
             /\ tokens'[t].of = tokens[t].of
  <2>1. CASE Restart
    BY <2>1 DEF Restart
  <2>2. QED BY <1>1, <2>1, ExpireKeeps
<1>3. ASSUME NEW r \in Requests PROVE ArgOK(r)' /\ Progress(r)'
  <2>1. ArgOK(r) /\ Progress(r)
    BY DEF IInv
  <2>2. ArgOK(r)'
    BY <1>1, <1>2, <2>1 DEF ArgOK, Live
  <2>3. Progress(r)'
    BY <1>1, <2>1 DEF Progress, Live, Place, IsUser, IsAlias
  <2>4. QED BY <2>2, <2>3
<1>4. ASSUME NEW a \in Accounts PROVE Sound(a)'
  BY <1>1 DEF IInv, Sound, Exists, Works, Place, IsUser, IsAlias
<1>5. (\A q \in Requests : TokenOK(q)') /\ (\A k \in Keys : RecordOK(k)')
  BY <1>1, <1>2, RecordsKeep
<1>6. QED BY <1>3, <1>4, <1>5 DEF Good

LEMMA NextInv ==
  ASSUME IInv, [Next]_vars
  PROVE  IInv'
<1>1. CASE Next
  <2>1. tangled' = tangled \cup Tangles'
    BY <1>1 DEF Next
  <2>2. TypeOK'
    BY <1>1, <2>1, StepType DEF Next
  <2>3. Good'
    BY <1>1, <2>1, ArriveGood, ServeGood, CrashGood, IdleGood DEF Next, Step
  <2>4. QED BY <2>1, <2>2, <2>3 DEF IInv, Good
<1>2. CASE UNCHANGED vars
  <2>1. TypeOK'
    BY <1>2 DEF vars, IInv, TypeOK
  <2>2. Tangles' \subseteq tangled'
    BY <1>2 DEF vars, IInv, Tangles, Works, ByItsName, Outdated, Place, IsUser
  <2>3. Good'
    BY <1>2
       DEF vars, IInv, Good, ArgOK, Progress, TokenOK, Sound, RecordOK, Exists,
           Live, Works, Place, IsUser, IsAlias
  <2>4. QED BY <2>1, <2>2, <2>3 DEF IInv, Good
<1>3. QED BY <1>1, <1>2

LEMMA InitInv == Init => IInv
<1> SUFFICES ASSUME Init PROVE IInv
  OBVIOUS
<1>1. TypeOK
  BY NoArgType, AccountsAssumption DEF Init, TypeOK
<1>2. Tangles \subseteq tangled
  BY DEF Init, Tangles, Works, Outdated, Working
<1>3. ASSUME NEW r \in Requests PROVE ArgOK(r) /\ Progress(r) /\ TokenOK(r)
  BY DEF Init, ArgOK, Progress, TokenOK, Live, LivePcs, Working, Creating,
         Deleting
<1>4. ASSUME NEW a \in Accounts PROVE Sound(a)
  BY AccountsAssumption, HomeFacts DEF Init, Sound, Exists, Files, IsAlias
<1>5. ASSUME NEW k \in Keys PROVE RecordOK(k)
  BY DEF Init, RecordOK, IsUser
<1>6. QED BY <1>1, <1>2, <1>3, <1>4, <1>5 DEF IInv

LEMMA Invariance == Spec => []IInv
BY InitInv, NextInv, PTL DEF Spec

\* The variables keep their types in every behaviour of the account requests.
THEOREM AccountTypes == Spec => []TypeOK
<1>1. IInv => TypeOK
  BY DEF IInv
<1>2. QED BY <1>1, Invariance, PTL

\* However many attempts at an account's signup failed or were killed, what it
\* holds was written by the one whose credentials it has, as long as those who
\* work on it come one after the other and by its name.
THEOREM AccountsHaveOneOwner == Spec => []OneOwner
<1>1. IInv => OneOwner
  BY DEF IInv, Sound, OneOwner, IsUser
<1>2. QED BY <1>1, Invariance, PTL

\* No failure or crash between two writes of the credential store, and no
\* other use of its keys, leaves an alias of such an account that leads nowhere.
THEOREM AliasesAlwaysLead == Spec => []AliasesLead
<1>1. ASSUME IInv, NEW k \in Keys, IsAlias(k), Home[users[k].to] \notin tangled
      PROVE  IsUser(users[k].to) /\ users[users[k].to].email = k
  <2>1. PICK a \in Accounts : a = Home[users[k].to]
    BY <1>1, RecordFacts, HomeFacts DEF IInv
  <2>2. Sound(a)
    BY <1>1 DEF IInv
  <2>3. users[k].to = a /\ IsUser(a) /\ users[a].email = k
    BY <1>1, <2>1, <2>2 DEF Sound
  <2>4. QED BY <2>3
<1>2. IInv => AliasesLead
  BY <1>1 DEF AliasesLead
<1>3. QED BY <1>2, Invariance, PTL

\* An account without credentials is being worked on, or was given up.
THEOREM NoOrphansLeft == Spec => []NoOrphans
<1>1. IInv => NoOrphans
  BY DEF IInv, Sound, NoOrphans
<1>2. QED BY <1>1, Invariance, PTL

\* A confirmed deletion is complete, but for a storage that it could not look
\* at.
THEOREM DeletionsAreComplete == Spec => DeletedIsGone
<1>1. ASSUME IInv, [Next]_vars, NEW r \in Requests,
             pc[r] \in {"findStorage", "removeStorage"}, pc'[r] = "done",
             answer'[r] = 200, arg[r].account \notin tangled'
      PROVE  /\ users'[arg[r].account] = None
             /\ \A k \in Keys : IsAlias(k)' => users'[k].to # arg[r].account
             /\ \/ r \in unseen'
                \/ \A f \in Files : storage'[arg[r].account][f] = None
  <2>1. TypeOK /\ ArgOK(r) /\ Progress(r) /\ Live(r)
    BY <1>1 DEF IInv, Live, LivePcs, Working
  <2>2. tokens[arg[r].token] \in Tokens
        /\ arg[r].account = tokens[arg[r].token].account
    BY <1>1, <2>1 DEF ArgOK, Deleting, TypeOK
  <2>3. PICK a \in Accounts : a = arg[r].account /\ a = Place(r)
    BY <2>2, HomeFacts DEF Tokens, Place
  <2>4. a \notin tangled
    BY <1>1, <2>3 DEF Next, vars
  <2>5. DeleteAccountStorage(r) \/ LoseStorage(r)
    <3>1. PICK q \in Requests : Arrive(q) \/ Serve(q)
      BY <1>1, <2>1 DEF Next, vars, Step, Expire, Crash, Restart, Live,
                        LivePcs, Working
    <3>2. Local(q)
      BY <1>1, <2>1, <3>1, ArriveLocal, ServeLocal
    <3>3. q = r
      BY <1>1, <3>2 DEF Local, OthersStay
    <3>4. ~Arrive(r)
      BY <1>1 DEF Arrive, Arrives, Invalid, Signup, AskForLink, ConfirmDelete,
                  ChangePassword
    <3>5. ~RemoveStorage(r) /\ ~FindStorage(r) /\ ~FailDelete(r)
      BY <1>1, <2>1 DEF RemoveStorage, FindStorage, FailDelete, Goto, End,
                        TypeOK
    <3>6. QED
      BY <1>1, <3>1, <3>3, <3>4, <3>5
         DEF Serve, CancelIfAccountExists, Asked, ProvisionFile,
             SaveDidDocument, SaveKeys, SaveUser, SaveAliasUserRecord,
             FailSignup, LoadUser, FollowAlias, NoRecoveryEmail,
             GenerateToken, SendMail, FailMail, RemoveAlias, RemoveUser
  <2>6. users[a] = None
    BY <1>1, <2>1, <2>3, <2>4 DEF Progress
  <2>7. UNCHANGED <<users, storage>>
    BY <2>5 DEF DeleteAccountStorage, LoseStorage
  <2>8. ASSUME NEW k \in Keys, IsAlias(k)' PROVE users'[k].to # a
    <3>1. IsAlias(k) /\ users'[k] = users[k]
      BY <2>7, <2>8 DEF IsAlias
    <3>2. Sound(a)
      BY <1>1 DEF IInv
    <3>3. QED BY <2>4, <2>6, <3>1, <3>2, HomeFacts DEF Sound, IsUser
  <2>9. r \in unseen' \/ \A f \in Files : storage'[a][f] = None
    BY <2>3, <2>5, <2>7 DEF DeleteAccountStorage, LoseStorage
  <2>10. QED BY <2>3, <2>6, <2>7, <2>8, <2>9
<1>2. IInv /\ [Next]_vars =>
        [\A r \in Requests :
           LET a == arg[r].account IN
           /\ pc[r] \in {"findStorage", "removeStorage"} /\ pc'[r] = "done"
           /\ answer'[r] = 200 /\ a \notin tangled'
           =>
             /\ users'[a] = None
             /\ \A k \in Keys : IsAlias(k)' => users'[k].to # a
             /\ r \in unseen' \/ \A f \in Files : storage'[a][f] = None]_vars
  BY <1>1
<1>3. QED BY <1>2, Invariance, PTL DEF Spec, DeletedIsGone

-----------------------------------------------------------------------------
(***************************************************************************)
(* The accounts implement AccountTable.  The links that are used were      *)
(* mailed, and only an arriving request tangles an account.                *)
(***************************************************************************)
LinkOK ==
  /\ \A m \in mail : pc[m.token] \in Old
  /\ \A r \in Requests : pc[r] \in Deleting =>
       [link |-> "askDelete", token |-> arg[r].token] \in mail

\* Every other step of a request leaves the mail and the records alone.
LEMMA OnlyThese ==
  ASSUME NEW r \in Requests, Serve(r)
  PROVE  /\ SendMail(r) \/ mail' = mail
         /\ GenerateToken(r) \/ tokens' = tokens
         /\ \/ SaveUser(r) \/ SaveAliasUserRecord(r)
            \/ RemoveAlias(r) \/ RemoveUser(r)
            \/ users' = users
BY DEF Serve, Kept, CancelIfAccountExists, ProvisionFile, SaveDidDocument,
       SaveKeys, SaveUser, SaveAliasUserRecord, FailSignup, LoadUser,
       FollowAlias, NoRecoveryEmail, GenerateToken, SendMail, FailMail,
       RemoveAlias, RemoveUser, FindStorage, LoseStorage, RemoveStorage,
       DeleteAccountStorage, FailDelete

\* What a request that goes on was about, and where it was.
LEMMA GoesOn ==
  ASSUME TypeOK, NEW r \in Requests, Serve(r), pc'[r] # "done"
  PROVE  /\ pc[r] \in LivePcs
         /\ arg'[r].kind = arg[r].kind /\ arg'[r].account = arg[r].account
         /\ arg'[r].name = arg[r].name /\ arg'[r].token = arg[r].token
         /\ arg'[r].key = arg[r].key \/ pc'[r] = "recovery"
         /\ pc'[r] \in Old => SaveUser(r)
         /\ pc'[r] \in Working => pc[r] \in Working
         /\ pc'[r] \in Deleting => pc[r] \in Deleting
         /\ pc'[r] \in {"removeAlias", "removeUser"} => RemoveAlias(r)
<1>1. arg[r] \in Args
  BY DEF TypeOK
<1>2. CASE ProvisionFile(r)
  <2>1. PICK f \in arg[r].todo : arg' = [arg EXCEPT ![r].todo = @ \ {f}]
    BY <1>2 DEF ProvisionFile
  <2>2. /\ arg'[r].kind = arg[r].kind /\ arg'[r].account = arg[r].account
        /\ arg'[r].name = arg[r].name /\ arg'[r].token = arg[r].token
        /\ arg'[r].key = arg[r].key
    BY <1>1, <2>1 DEF TypeOK, Args
  <2>3. pc[r] = "provision" /\ pc'[r] \in {"provision", "did"}
    BY <1>2 DEF ProvisionFile, Goto, TypeOK
  <2>4. QED BY <2>2, <2>3 DEF LivePcs, Working, Deleting, Old
<1>3. CASE FollowAlias(r)
  <2>1. arg' = [arg EXCEPT ![r].key = users[arg[r].key].to]
    BY <1>3 DEF FollowAlias
  <2>2. /\ arg'[r].kind = arg[r].kind /\ arg'[r].account = arg[r].account
        /\ arg'[r].name = arg[r].name /\ arg'[r].token = arg[r].token
    BY <1>1, <2>1 DEF TypeOK, Args
  <2>3. pc[r] = "recovery" /\ pc'[r] = "recovery"
    BY <1>3 DEF FollowAlias, Goto, TypeOK
  <2>4. QED BY <2>2, <2>3 DEF LivePcs, Working, Deleting, Old
<1>4. CASE ~ProvisionFile(r) /\ ~FollowAlias(r)
  <2>1. arg' = arg
    BY <1>4
       DEF TypeOK, Serve, End, CancelIfAccountExists, SaveDidDocument,
           SaveKeys, SaveUser, SaveAliasUserRecord, FailSignup, LoadUser,
           NoRecoveryEmail, GenerateToken, SendMail, FailMail, RemoveAlias,
           RemoveUser, FindStorage, LoseStorage, RemoveStorage,
           DeleteAccountStorage, FailDelete
  <2>2. \/ /\ pc[r] \in {"lookup", "did", "keys"}
           /\ pc'[r] \in {"provision", "keys", "saveUser", "recovery"}
        \/ pc[r] = "saveUser" /\ pc'[r] = "saveAlias" /\ SaveUser(r)
        \/ pc[r] = "recovery" /\ pc'[r] = "mailing"
        \/ pc[r] = "removeAlias" /\ pc'[r] = "removeUser" /\ RemoveAlias(r)
        \/ pc[r] = "removeUser" /\ pc'[r] = "findStorage"
        \/ /\ pc[r] \in {"findStorage", "removeStorage"}
           /\ pc'[r] = "removeStorage"
    BY <1>4
       DEF TypeOK, Serve, End, Goto, CancelIfAccountExists, Asked,
           SaveDidDocument, SaveKeys, SaveUser, SaveAliasUserRecord,
           FailSignup, LoadUser, NoRecoveryEmail, GenerateToken, SendMail,
           FailMail, RemoveAlias, RemoveUser, FindStorage, LoseStorage,
           RemoveStorage, DeleteAccountStorage, FailDelete
  <2>3. QED
    BY <2>1, <2>2 DEF LivePcs, Working, Deleting, Old
<1>5. QED BY <1>2, <1>3, <1>4

LEMMA OldStays ==
  ASSUME IInv, Step, NEW q \in Requests, pc[q] \in Old
  PROVE  pc'[q] \in Old
<1>1. TypeOK
  BY DEF IInv
<1>2. CASE Crash \/ Restart
  BY <1>2 DEF Crash, Restart, Old
<1>3. ASSUME NEW r \in Requests, Arrive(r) \/ Serve(r) \/ Expire(r)
      PROVE  pc'[q] \in Old
  <2>1. CASE Expire(r)
    BY <2>1 DEF Expire
  <2>2. CASE Arrive(r)
    BY <1>1, <2>2, ArriveLocal, ArriveKeeps DEF Local, OthersStay
  <2>3. CASE Serve(r)
    <3>1. Local(r)
      BY <2>3, ServeLocal
    <3>2. q = r => pc'[q] = "done" \/ SaveUser(r) \/ pc'[q] \in Old
      <4>1. SUFFICES ASSUME q = r, pc'[r] # "done" PROVE FALSE
        OBVIOUS
      <4>2. pc[r] = "saveAlias"
        BY <1>1, <2>3, <4>1, GoesOn DEF Old, LivePcs, Working
      <4>3. SaveAliasUserRecord(r) \/ FailSignup(r)
        BY <2>3, <4>2
           DEF Serve, CancelIfAccountExists, Asked, ProvisionFile,
               SaveDidDocument, SaveKeys, SaveUser, LoadUser, FollowAlias,
               NoRecoveryEmail, GenerateToken, SendMail, FailMail, RemoveAlias,
               RemoveUser, FindStorage, LoseStorage, RemoveStorage,
               DeleteAccountStorage, FailDelete
      <4>4. QED
        BY <1>1, <4>1, <4>3 DEF SaveAliasUserRecord, FailSignup, End, TypeOK
    <3>3. ~(q = r /\ SaveUser(r))
      BY DEF SaveUser, Old
    <3>4. QED BY <3>1, <3>2, <3>3 DEF Local, OthersStay, Old
  <2>4. QED BY <1>3, <2>1, <2>2, <2>3
<1>4. QED BY <1>2, <1>3 DEF Step

\* A mail is sent with the answer, and never taken back.
LEMMA MailGrows ==
  ASSUME IInv, Step
  PROVE  /\ mail \subseteq mail'
         /\ \A m \in mail' \ mail : pc'[m.token] \in Old
<1>1. TypeOK
  BY DEF IInv
<1>2. CASE Crash \/ Restart
  BY <1>2 DEF Crash, Restart
<1>3. ASSUME NEW r \in Requests, Arrive(r) \/ Serve(r) \/ Expire(r)
      PROVE  \/ mail' = mail
             \/ SendMail(r)
  BY <1>3, OnlyThese
     DEF Expire, Arrive, Kept, Invalid, Signup, AskForLink, ConfirmDelete,
         ChangePassword
<1>4. ASSUME NEW r \in Requests, SendMail(r)
      PROVE  /\ mail \subseteq mail'
             /\ \A m \in mail' \ mail : pc'[m.token] \in Old
  BY <1>1, <1>4 DEF SendMail, End, TypeOK, Old
<1>5. QED BY <1>2, <1>3, <1>4 DEF Step

LEMMA LinkNext ==
  ASSUME IInv, LinkOK, [Next]_vars
  PROVE  LinkOK'
<1>1. TypeOK
  BY DEF IInv
<1>2. CASE UNCHANGED vars
  BY <1>2 DEF vars, LinkOK
<1>3. CASE Next
  <2>1. Step
    BY <1>3 DEF Next
  <2>2. \A m \in mail' : pc'[m.token] \in Old
    <3>1. ASSUME NEW m \in mail PROVE pc'[m.token] \in Old
      <4>1. m.token \in Requests
        BY <1>1 DEF TypeOK
      <4>2. QED BY <2>1, <4>1, OldStays DEF LinkOK
    <3>2. QED BY <2>1, <3>1, MailGrows
  <2>3. ASSUME NEW q \in Requests, pc'[q] \in Deleting
        PROVE  [link |-> "askDelete", token |-> arg'[q].token] \in mail'
    <3>1. CASE pc'[q] = pc[q] /\ arg'[q] = arg[q]
      BY <2>1, <2>3, <3>1, MailGrows DEF LinkOK
    <3>2. ~Crash
      BY <2>3 DEF Crash, Deleting, Live, LivePcs, Working
    <3>3. CASE Restart \/ \E r \in Requests : Expire(r)
      BY <3>1, <3>3 DEF Restart, Expire
    <3>4. ASSUME NEW r \in Requests, Arrive(r) \/ Serve(r), q # r
          PROVE  pc'[q] = pc[q] /\ arg'[q] = arg[q]
      BY <1>1, <3>4, ArriveLocal, ServeLocal DEF Local, OthersStay
    <3>5. CASE Serve(q)
      <4>1. pc'[q] # "done"
        BY <2>3 DEF Deleting
      <4>2. pc[q] \in Deleting /\ arg'[q].token = arg[q].token
        BY <1>1, <2>3, <3>5, <4>1, GoesOn
      <4>3. QED BY <2>1, <4>2, MailGrows DEF LinkOK
    <3>6. CASE Arrive(q)
      <4>1. ConfirmDelete(q) /\ ~End(q, 400)
        BY <1>1, <2>3, <3>6
           DEF Arrive, Invalid, Signup, AskForLink, ChangePassword, End, Goto,
               TypeOK, Deleting
      <4>2. PICK m \in mail :
              /\ m.link = "askDelete"
              /\ arg' = [arg EXCEPT ![q] =
                          [kind |-> "confirm", token |-> m.token, todo |-> {},
                           name |-> tokens[m.token].account,
                           account |-> tokens[m.token].account,
                           key |-> tokens[m.token].email]]
        BY <4>1 DEF ConfirmDelete
      <4>3. arg'[q].token = m.token
        BY <1>1, <4>2 DEF TypeOK
      <4>4. m = [link |-> "askDelete", token |-> m.token]
        BY <1>1, <4>2 DEF TypeOK
      <4>5. QED BY <2>1, <4>3, <4>4, MailGrows
    <3>7. QED BY <2>1, <3>1, <3>2, <3>3, <3>4, <3>5, <3>6 DEF Step
  <2>4. QED BY <2>2, <2>3 DEF LinkOK
<1>4. QED BY <1>2, <1>3

\* What a request does for an account it works on already tangles no other.
LEMMA ServeTangles ==
  ASSUME IInv, NEW r \in Requests, Serve(r), Good'
  PROVE  Tangles' \subseteq tangled
<1>1. TypeOK /\ Local(r)
  BY ServeLocal DEF IInv
<1>2. ASSUME NEW q \in Requests, NEW a \in Accounts, Works(q, a)'
      PROVE  Works(q, a) /\ (ByItsName(q, a) => ByItsName(q, a)')
  <2>1. CASE q = r
    <3>1. pc'[r] # "done" /\ pc'[r] # "recovery"
      BY <1>2, <2>1 DEF Works, Working
    <3>2. QED BY <1>1, <1>2, <2>1, <3>1, GoesOn DEF Works, Place, ByItsName
  <2>2. CASE q # r
    BY <1>1, <1>2, <2>2 DEF Local, OthersStay, Works, Place, ByItsName
  <2>3. QED BY <2>1, <2>2
<1>3. ASSUME NEW q \in Requests, NEW a \in Accounts, Outdated(q, a)',
             a \notin tangled
      PROVE  FALSE
  <2>1. pc'[q] \in {"removeAlias", "removeUser"} /\ arg'[q].account = a
    BY <1>3 DEF Outdated
  <2>2. Works(q, a)
    <3>1. arg'[q].kind = "confirm"
      BY <2>1 DEF Good, ArgOK, Deleting
    <3>2. Place(q)' = a
      BY <2>1, HomeFacts DEF Place
    <3>3. Works(q, a)'
      BY <2>1, <3>1, <3>2 DEF Works, Working
    <3>4. QED BY <1>2, <3>3
  <2>3. q = r => RemoveAlias(r)
    BY <1>1, <2>1, GoesOn
  <2>4. pc[q] \in {"removeAlias", "removeUser"} /\ arg'[q] = arg[q]
    BY <1>1, <2>1, <2>3 DEF RemoveAlias, Local, OthersStay
  <2>5. tokens[arg[q].token] # None /\ arg[q].token \in Requests
    BY <2>4 DEF IInv, ArgOK, Deleting
  <2>6. tokens'[arg[q].token].of = tokens[arg[q].token].of
    BY <1>1, <2>5 DEF Local, TokensStay
  <2>7. users'[a] = users[a]
    <3>1. CASE q = r
      <4>1. arg[r].key # a
        BY <1>3, <2>2, <3>1, ByName, HomeFacts
      <4>2. QED BY <1>1, <2>3, <3>1, <4>1, HomeFacts DEF RemoveAlias, TypeOK
    <3>2. CASE q # r
      <4>1. ~Works(r, a)
        BY <1>3, <2>2, <3>2, Exclusive
      <4>2. QED BY <1>1, <4>1 DEF Local
    <3>3. QED BY <3>1, <3>2
  <2>8. Outdated(q, a)
    BY <1>3, <2>4, <2>6, <2>7 DEF Outdated, IsUser
  <2>9. QED BY <1>3, <2>8 DEF IInv, Tangles
<1>4. ASSUME NEW a \in Tangles' PROVE a \in tangled
  <2>1. CASE \E p, q \in Requests : p # q /\ Works(p, a)' /\ Works(q, a)'
    BY <1>2, <1>4, <2>1, Exclusive DEF Tangles
  <2>2. CASE \E q \in Requests : Works(q, a)' /\ ~ByItsName(q, a)'
    BY <1>2, <1>4, <2>2 DEF Tangles, IInv
  <2>3. CASE \E q \in Requests : Outdated(q, a)'
    BY <1>3, <1>4, <2>3 DEF Tangles
  <2>4. QED BY <1>4, <2>1, <2>2, <2>3 DEF Tangles
<1>5. QED BY <1>4

LEMMA ArriveTangles ==
  ASSUME IInv, NEW r \in Requests, Arrive(r)
  PROVE  Tangles' \subseteq tangled \cup {a \in Accounts : Works(r, a)'}
<1>1. TypeOK /\ Local(r) /\ UNCHANGED <<users, tokens>>
  BY ArriveLocal, ArriveKeeps DEF IInv
<1>2. \A q \in Requests \ {r} : pc'[q] = pc[q] /\ arg'[q] = arg[q]
  BY <1>1 DEF Local, OthersStay
<1>3. ASSUME NEW q \in Requests, q # r, NEW a \in Accounts
      PROVE  /\ Works(q, a)' => Works(q, a)
             /\ ByItsName(q, a) => ByItsName(q, a)'
             /\ Outdated(q, a)' => Outdated(q, a)
  BY <1>1, <1>2, <1>3 DEF Works, Place, ByItsName, Outdated, IsUser
<1>4. ASSUME NEW a \in Accounts, Outdated(r, a)'
      PROVE  Works(r, a)'
  <2>1. pc'[r] \in {"removeAlias", "removeUser"} /\ arg'[r].account = a
    BY <1>4 DEF Outdated
  <2>2. arg'[r].kind = "confirm"
    BY <2>1, ArriveKeeps DEF ArgOK, Deleting
  <2>3. Place(r)' = a
    BY <2>1, HomeFacts DEF Place
  <2>4. QED BY <2>1, <2>2, <2>3 DEF Works, Working
<1>5. ASSUME NEW a \in Tangles', ~Works(r, a)' PROVE a \in tangled
  <2>1. CASE \E p, q \in Requests : p # q /\ Works(p, a)' /\ Works(q, a)'
    BY <1>3, <1>5, <2>1, Exclusive DEF Tangles
  <2>2. CASE \E q \in Requests : Works(q, a)' /\ ~ByItsName(q, a)'
    BY <1>3, <1>5, <2>2 DEF Tangles, IInv
  <2>3. CASE \E q \in Requests : Outdated(q, a)'
    BY <1>3, <1>4, <1>5, <2>3 DEF Tangles, IInv
  <2>4. QED BY <1>5, <2>1, <2>2, <2>3 DEF Tangles
<1>6. QED BY <1>5 DEF Tangles

\* The state of AccountTable that the state of the accounts stands for.
Entry(a) ==
  IF ~IsUser(a) \/ a \in tangled THEN None
  ELSE [by |-> users[a].by, email |-> users[a].email, files |-> storage[a]]

Held == [a \in Accounts |-> Entry(a)]

Over == {r \in Requests : pc[r] \in {"saveAlias", "done", "lost"}}

Invited ==
  {tokens[t].of : t \in
    {t \in Requests :
       tokens[t] # None /\ [link |-> "askDelete", token |-> t] \in mail}}

\* A step that changes no account and makes nobody's link.
LEMMA GivesUp ==
  ASSUME IInv, Step, tangled' = tangled,
         \A a \in Accounts : Entry(a)' = Entry(a),
         Invited' \in {Invited, {}}
  PROVE  Table!GiveUp
<1>1. Over \subseteq Over' /\ Over' \subseteq Requests
  BY OldStays DEF Over, Old
<1>2. Held' = Held
  BY DEF Held
<1>3. QED BY <1>1, <1>2 DEF Table!GiveUp, Held, Entry, Over, Invited

\* An account is the same if its files only change while it has no record.
LEMMA SameEntry ==
  ASSUME NEW a \in Accounts, tangled' = tangled,
         a \notin tangled =>
           /\ users'[a] = users[a]
           /\ users[a] = None \/ storage'[a] = storage[a]
  PROVE  Entry(a)' = Entry(a)
BY DEF Entry, IsUser

\* The tokens and the links of a mail that is not sent.
LEMMA SameInvited ==
  ASSUME mail' = mail,
         \A t \in Requests : [link |-> "askDelete", token |-> t] \in mail =>
           /\ tokens'[t] = None <=> tokens[t] = None
           /\ tokens[t] # None => tokens'[t].of = tokens[t].of
  PROVE  Invited' = Invited
BY DEF Invited

LEMMA ArriveMaps ==
  ASSUME IInv, Step, NEW r \in Requests, Arrive(r),
         tangled' = tangled \cup Tangles'
  PROVE  Table!GiveUp \/ \E some \in SUBSET Accounts : Table!Spoil(some)
<1>1. TypeOK /\ Local(r)
  BY ArriveLocal DEF IInv
<1>2. UNCHANGED <<storage, users, tokens, mail>>
  BY DEF Arrive, Kept, Invalid, Signup, AskForLink, ConfirmDelete,
         ChangePassword
<1>3. Invited' = Invited
  BY <1>2, SameInvited
<1>4. CASE tangled' = tangled
  BY <1>2, <1>3, <1>4, GivesUp, SameEntry
<1>5. CASE tangled' # tangled
  <2>1. PICK a \in Tangles' : a \notin tangled
    BY <1>5
  <2>2. a \in Accounts /\ Works(r, a)'
    BY <2>1, ArriveTangles
  <2>3. PICK some \in SUBSET Accounts : some = Tangles'
    <3>1. Tangles' \subseteq Accounts
      BY DEF Tangles
    <3>2. QED BY <3>1
  <2>4. Over' = Over
    <3>1. pc'[r] \notin Old
      <4>1. pc'[r] \in {"lookup", "removeAlias", "done"}
        BY <1>1 DEF Arrive, Invalid, Signup, AskForLink, ConfirmDelete,
                    ChangePassword, End, Goto, TypeOK
      <4>2. QED BY <2>2, <4>1 DEF Works, Working, Old
    <3>2. pc[r] \notin Old
      BY ArriveKeeps
    <3>3. QED BY <1>1, <3>1, <3>2 DEF Local, OthersStay, Over, Old
  <2>5. Held' = [b \in Accounts |-> IF b \in some THEN None ELSE Held[b]]
    <3>1. ASSUME NEW b \in Accounts
          PROVE  Entry(b)' = IF b \in some THEN None ELSE Entry(b)
      BY <1>2, <2>3 DEF Entry, IsUser
    <3>2. QED BY <3>1 DEF Held
  <2>6. Table!Spoil(some)
    BY <1>3, <2>3, <2>4, <2>5 DEF Table!Spoil, Held, Entry, Over, Invited
  <2>7. QED BY <2>3, <2>6
<1>6. QED BY <1>4, <1>5

\* Storing the record makes the account, as it has all its files.
LEMMA SaveUserMaps ==
  ASSUME IInv, Step, NEW r \in Requests, SaveUser(r), tangled' = tangled,
         NEW a \in Accounts, a = arg[r].account, a \notin tangled,
         NEW email \in Keys \cup {None}, email = arg[r].key
  PROVE  Table!SignUp(r, a, email)
<1> DEFINE user == [kind |-> "user", by |-> r, email |-> email]
<1>1. /\ TypeOK /\ ArgOK(r) /\ Progress(r) /\ pc[r] = "saveUser"
      /\ Live(r) /\ Place(r) = a
  BY HomeFacts DEF IInv, SaveUser, Live, LivePcs, Working, Place
<1>2. users[a] = None /\ \A f \in Files : storage[a][f] = r
  BY <1>1 DEF Progress, Files, DidFiles
<1>3. storage[a] = [f \in Files |-> r]
  BY <1>1, <1>2 DEF TypeOK
<1>4. /\ users' = [users EXCEPT ![a] = user]
      /\ UNCHANGED <<storage, tokens, mail>>
  BY DEF SaveUser
<1>5. user # None
  BY NewRecords
<1>6. Held' = [Held EXCEPT ![a] = [by |-> r, email |-> email,
                                   files |-> [f \in Files |-> r]]]
  <2>1. Entry(a)' = [by |-> r, email |-> email,
                     files |-> [f \in Files |-> r]]
    <3>1. users'[a] = user /\ storage'[a] = [f \in Files |-> r]
      BY <1>1, <1>3, <1>4, HomeFacts DEF TypeOK
    <3>2. users'[a].kind = "user" /\ users'[a].by = r /\ users'[a].email = email
      BY <3>1
    <3>3. IsUser(a)'
      BY <1>5, <3>1, <3>2 DEF IsUser
    <3>4. QED BY <3>1, <3>2, <3>3 DEF Entry
  <2>2. ASSUME NEW b \in Accounts, b # a
        PROVE  Entry(b)' = Entry(b)
    <3>1. users'[b] = users[b] /\ storage'[b] = storage[b]
      BY <1>1, <1>4, <2>2, HomeFacts DEF TypeOK
    <3>2. QED BY <3>1, SameEntry
  <2>3. QED BY <2>1, <2>2 DEF Held
<1>7. Held[a] = None
  BY <1>2 DEF Held, Entry, IsUser
<1>8. r \notin Over /\ Over' = Over \cup {r}
  <2>1. pc'[r] \in Old /\ \A q \in Requests \ {r} : pc'[q] = pc[q]
    BY <1>1 DEF SaveUser, End, Goto, TypeOK, Old
  <2>2. QED BY <1>1, <2>1 DEF Over, Old
<1>9. Invited' = Invited
  BY <1>4, SameInvited
<1>10. QED
  BY <1>6, <1>7, <1>8, <1>9
     DEF Table!SignUp, Held, Entry, Over, Invited

\* Removing the record: its link was mailed to the one whose account it is.
LEMMA RemoveUserMaps ==
  ASSUME IInv, LinkOK, NEW r \in Requests, RemoveUser(r),
         tangled' = tangled, NEW a \in Accounts, a = arg[r].account,
         a \notin tangled, users[a] # None
  PROVE  Table!Remove(a)
<1> DEFINE t == arg[r].token
<1>1. TypeOK /\ ArgOK(r) /\ pc[r] = "removeUser"
  BY DEF IInv, RemoveUser
<1>2. t \in Requests /\ tokens[t] # None /\ a = tokens[t].account
  BY <1>1 DEF ArgOK, Deleting
<1>3. /\ users' = [users EXCEPT ![a] = None]
      /\ UNCHANGED <<storage, tokens, mail>>
  BY DEF RemoveUser
<1>4. IsUser(a) /\ users[a].by \in Requests
      /\ users[a].email \in Keys \cup {None}
  <2>1. Sound(a)
    BY DEF IInv
  <2>2. IsUser(a)
    BY <2>1 DEF Sound
  <2>3. QED BY <1>1, <2>2, RecordFacts, HomeFacts
<1>5. users[a].by = tokens[t].of
  BY <1>1, <1>2, <1>4 DEF IInv, Tangles, Outdated
<1>6. users[a].email = tokens[t].email
  BY <1>2, <1>4, <1>5 DEF IInv, TokenOK
<1>7. tokens[t].email \in Keys
  BY <1>1, <1>2 DEF TypeOK, Tokens
<1>8. Held[a] # None /\ Held[a].email # None /\ Held[a].by \in Invited
  <2> DEFINE entry == [by |-> users[a].by, email |-> users[a].email,
                       files |-> storage[a]]
  <2>1. Held[a] = entry
    BY <1>4 DEF Held, Entry
  <2>2. entry \in [by : Requests, email : Keys \cup {None},
                   files : [Files -> Requests \cup {None}]]
    <3>1. storage[a] \in [Files -> Requests \cup {None}]
      BY <1>1 DEF TypeOK
    <3>2. QED BY <1>4, <3>1
  <2>3. users[a].by \in Invited
    <3>1. [link |-> "askDelete", token |-> t] \in mail
      BY <1>1 DEF LinkOK, Deleting
    <3>2. QED BY <1>2, <1>5, <3>1 DEF Invited
  <2>4. QED
    BY <1>6, <1>7, <2>1, <2>2, <2>3, AccountsAssumption
<1>9. Held' = [Held EXCEPT ![a] = None]
  <2>1. ASSUME NEW b \in Accounts
        PROVE  Entry(b)' = IF b = a THEN None ELSE Entry(b)
    <3>1. b # a => users'[b] = users[b] /\ storage'[b] = storage[b]
      BY <1>1, <1>3, HomeFacts DEF TypeOK
    <3>2. b = a => users'[b] = None
      BY <1>1, <1>3, HomeFacts DEF TypeOK
    <3>3. QED BY <3>1, <3>2, SameEntry DEF Entry, IsUser
  <2>2. QED BY <2>1 DEF Held
<1>10. Over' = Over
  BY <1>1 DEF RemoveUser, Goto, TypeOK, Over
<1>11. Invited' = Invited
  BY <1>3, SameInvited
<1>12. QED
  BY <1>8, <1>9, <1>10, <1>11 DEF Table!Remove, Held, Entry, Over, Invited

\* Only those whose signup has come to an end are mailed a link.
LEMMA SendMailMaps ==
  ASSUME IInv, Step, NEW r \in Requests, SendMail(r), tangled' = tangled
  PROVE  Table!GiveUp \/ \E owner \in Requests : Table!Invite(r, owner)
<1>1. TypeOK /\ TokenOK(r) /\ pc[r] = "mailing"
  BY DEF IInv, SendMail
<1>2. /\ UNCHANGED <<storage, users, tokens>>
      /\ mail' = mail \cup {[link |-> arg[r].kind, token |-> r]}
  BY DEF SendMail
<1>3. \A a \in Accounts : Entry(a)' = Entry(a)
  BY <1>2, SameEntry
<1>4. \A t \in Requests :
        [link |-> "askDelete", token |-> t] \in mail' <=>
          \/ [link |-> "askDelete", token |-> t] \in mail
          \/ t = r /\ arg[r].kind = "askDelete"
  BY <1>2
<1>5. CASE arg[r].kind # "askDelete" \/ tokens[r] = None
  <2>1. Invited' = Invited
    BY <1>2, <1>4, <1>5 DEF Invited
  <2>2. QED BY <1>3, <2>1, GivesUp
<1>6. CASE arg[r].kind = "askDelete" /\ tokens[r] # None
  <2>1. PICK owner \in Requests : owner = tokens[r].of
    BY <1>1, <1>6 DEF TypeOK, Tokens
  <2>2. owner \in Over
    BY <1>1, <1>6, <2>1 DEF TokenOK, Over, Old
  <2>3. Invited' = Invited \cup {owner}
    BY <1>2, <1>4, <1>6, <2>1 DEF Invited
  <2>4. Over' = Over \cup {r}
    BY <1>1 DEF SendMail, End, TypeOK, Over
  <2>5. Held' = Held
    BY <1>3 DEF Held
  <2>6. Table!Invite(r, owner)
    BY <2>2, <2>3, <2>4, <2>5
       DEF Table!Invite, Held, Entry, Over, Invited
  <2>7. QED BY <2>1, <2>6
<1>7. QED BY <1>5, <1>6

LEMMA ServeMaps ==
  ASSUME IInv, LinkOK, Step, NEW r \in Requests, Serve(r), tangled' = tangled
  PROVE  Table!Next
<1>1. TypeOK /\ ArgOK(r) /\ Progress(r) /\ Local(r)
  BY ServeLocal DEF IInv
<1>2. CASE SendMail(r)
  BY <1>2, SendMailMaps DEF Table!Next
<1>3. CASE ~SendMail(r)
  <2>1. mail' = mail
    BY <1>3, OnlyThese
  <2>2. Invited' = Invited
    <3>1. CASE ~GenerateToken(r)
      BY <2>1, <3>1, OnlyThese, SameInvited
    <3>2. CASE GenerateToken(r)
      <4>1. [link |-> "askDelete", token |-> r] \notin mail
        <5>1. pc[r] \notin Old
          BY <3>2 DEF GenerateToken, Old
        <5>2. QED BY <5>1 DEF LinkOK
      <4>2. \A t \in Requests \ {r} : tokens'[t] = tokens[t]
        BY <1>1 DEF Local
      <4>3. QED BY <2>1, <4>1, <4>2, SameInvited
    <3>3. QED BY <3>1, <3>2
  <2>3. ASSUME NEW b \in Accounts,
               \/ ~Works(r, b) \/ b \in tangled
               \/ /\ ~SaveUser(r)
                  /\ RemoveUser(r) => users[b] = None
        PROVE  Entry(b)' = Entry(b)
    <3>1. CASE ~Works(r, b) \/ b \in tangled
      BY <1>1, <3>1, SameEntry DEF Local
    <3>2. CASE Works(r, b) /\ b \notin tangled
      <4>1. Place(r) = b /\ arg[r].account = b /\ arg[r].key # b
        BY <3>2, ByName, HomeFacts
      <4>2. users'[b] = users[b]
        <5>1. CASE RemoveUser(r)
          <6>1. users' = [users EXCEPT ![b] = None] /\ users[b] = None
            BY <2>3, <3>2, <4>1, <5>1 DEF RemoveUser
          <6>2. QED BY <1>1, <6>1, HomeFacts DEF TypeOK
        <5>2. CASE RemoveAlias(r) \/ SaveAliasUserRecord(r)
          BY <1>1, <4>1, <5>2, HomeFacts
             DEF RemoveAlias, SaveAliasUserRecord, TypeOK
        <5>3. QED BY <2>3, <3>2, <5>1, <5>2, OnlyThese
      <4>3. users[b] = None \/ storage' = storage
        <5>1. CASE storage' # storage
          <6>1. ProvisionFile(r) \/ SaveDidDocument(r) \/ SaveKeys(r)
                \/ RemoveStorage(r)
            BY <5>1
               DEF Serve, Kept, CancelIfAccountExists, SaveUser,
                   SaveAliasUserRecord, FailSignup, LoadUser, FollowAlias,
                   NoRecoveryEmail, GenerateToken, SendMail, FailMail,
                   RemoveAlias, RemoveUser, FindStorage, LoseStorage,
                   DeleteAccountStorage, FailDelete
          <6>2. pc[r] \in {"provision", "did", "keys", "removeStorage"}
            BY <6>1 DEF ProvisionFile, SaveDidDocument, SaveKeys, RemoveStorage
          <6>3. QED
            BY <1>1, <3>2, <4>1, <6>2 DEF Progress, Live, LivePcs, Working
        <5>2. QED BY <5>1
      <4>4. QED BY <4>2, <4>3, SameEntry
    <3>3. QED BY <3>1, <3>2
  <2>4. CASE \A b \in Accounts :
               \/ ~Works(r, b) \/ b \in tangled
               \/ /\ ~SaveUser(r)
                  /\ RemoveUser(r) => users[b] = None
    <3>1. Table!GiveUp
      BY <2>2, <2>3, <2>4, GivesUp
    <3>2. QED BY <3>1 DEF Table!Next
  <2>5. ASSUME NEW a \in Accounts, Works(r, a), a \notin tangled,
               SaveUser(r) \/ (RemoveUser(r) /\ users[a] # None)
        PROVE  Table!Next
    <3>1. a = arg[r].account
      BY <2>5, ByName
    <3>2. CASE SaveUser(r)
      <4>1. PICK email \in Keys \cup {None} : email = arg[r].key
        BY <1>1 DEF TypeOK, Args
      <4>2. Table!SignUp(r, a, email)
        BY <2>5, <3>1, <3>2, <4>1, SaveUserMaps
      <4>3. QED BY <4>2 DEF Table!Next
    <3>3. CASE RemoveUser(r) /\ users[a] # None
      <4>1. Table!Remove(a)
        BY <2>5, <3>1, <3>3, RemoveUserMaps
      <4>2. QED BY <4>1 DEF Table!Next
    <3>4. QED BY <2>5, <3>2, <3>3
  <2>6. QED BY <2>4, <2>5
<1>4. QED BY <1>2, <1>3

\* Time passes, the process ends or starts again: no account changes.
LEMMA IdleMaps ==
  ASSUME IInv, Step, tangled' = tangled \cup Tangles',
         Crash \/ Restart \/ \E r \in Requests : Expire(r)
  PROVE  Table!GiveUp
<1>1. TypeOK /\ UNCHANGED <<storage, users, mail>>
  BY DEF IInv, Crash, Restart, Expire
<1>2. CASE Crash
  <2>1. Tangles' = {}
    BY <1>2 DEF Crash, Tangles, Works, Outdated, Live, LivePcs, Working
  <2>2. Invited' = {}
    BY <1>2 DEF Crash, Invited
  <2>3. tangled' = tangled
    BY <2>1
  <2>4. QED BY <1>1, <2>2, <2>3, SameEntry, GivesUp
<1>3. CASE Restart \/ \E r \in Requests : Expire(r)
  <2>1. \A t \in Requests :
          /\ tokens'[t] = None <=> tokens[t] = None
          /\ tokens[t] # None => tokens'[t].of = tokens[t].of
    BY <1>1, <1>3, ExpireKeeps DEF Restart
  <2>2. UNCHANGED <<pc, arg>>
    BY <1>3 DEF Restart, Expire
  <2>3. \A q \in Requests, a \in Accounts : Outdated(q, a)' => Outdated(q, a)
    <3>1. ASSUME NEW q \in Requests, NEW a \in Accounts, Outdated(q, a)'
          PROVE  Outdated(q, a)
      <4>1. tokens[arg[q].token] # None /\ arg[q].token \in Requests
        BY <2>2, <3>1 DEF IInv, ArgOK, Outdated, Deleting
      <4>2. QED BY <1>1, <2>1, <2>2, <3>1, <4>1 DEF Outdated, IsUser
    <3>2. QED BY <3>1
  <2>4. Tangles' \subseteq Tangles
    BY <2>2, <2>3 DEF Tangles, Works, Place, ByItsName
  <2>5. tangled' = tangled
    BY <2>4 DEF IInv
  <2>6. Invited' = Invited
    BY <1>1, <2>1, SameInvited
  <2>7. \A a \in Accounts : Entry(a)' = Entry(a)
    BY <1>1, <2>5, SameEntry
  <2>8. QED BY <2>5, <2>6, <2>7, GivesUp
<1>4. QED BY <1>2, <1>3

LEMMA NextMaps ==
  ASSUME IInv, LinkOK, [Next]_vars
  PROVE  [Table!Next]_(Table!vars)
<1>1. CASE UNCHANGED vars
  BY <1>1 DEF vars, Table!vars, IsUser
<1>2. CASE Next
  <2>1. Step /\ tangled' = tangled \cup Tangles'
    BY <1>2 DEF Next
  <2>2. CASE Crash \/ Restart \/ \E r \in Requests : Expire(r)
    BY <2>1, <2>2, IdleMaps DEF Table!Next
  <2>3. ASSUME NEW r \in Requests, Arrive(r)
        PROVE  Table!Next
    BY <2>1, <2>3, ArriveMaps DEF Table!Next
  <2>4. ASSUME NEW r \in Requests, Serve(r)
        PROVE  Table!Next
    <3>1. Good'
      BY <2>1, <2>4, ServeGood
    <3>2. tangled' = tangled
      BY <2>1, <2>4, <3>1, ServeTangles
    <3>3. QED BY <2>1, <2>4, <3>2, ServeMaps
  <2>5. QED BY <2>1, <2>2, <2>3, <2>4 DEF Step
<1>3. QED BY <1>1, <1>2

LEMMA InitMaps ==
  ASSUME Init
  PROVE  LinkOK /\ Table!Init
<1>1. LinkOK
  BY DEF Init, LinkOK, Deleting
<1>2. Held = [a \in Accounts |-> None]
  <2>1. \A a \in Accounts : ~IsUser(a)
    BY HomeFacts DEF Init, IsUser
  <2>2. QED BY <2>1 DEF Held, Entry
<1>3. Over = {} /\ Invited = {} /\ tangled = {}
  BY DEF Init, Over, Invited
<1>4. QED
  BY <1>1, <1>2, <1>3 DEF Table!Init, Held, Entry, Over, Invited

\* A signup or a deletion, however it is interrupted and whatever else runs,
\* is one step for the account it is about: nobody comes to hold an account
\* that is held already, or loses one without a link that was mailed to them.
THEOREM AccountsAreATable == Spec => ImplementsAccountTable
<1>1. Init => LinkOK /\ Table!Init
  BY InitMaps
<1>2. IInv /\ LinkOK /\ [Next]_vars => LinkOK' /\ [Table!Next]_(Table!vars)
  BY LinkNext, NextMaps
<1>3. QED
  BY <1>1, <1>2, Invariance, PTL DEF Spec, ImplementsAccountTable, Table!Spec
=============================================================================
