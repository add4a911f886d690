------------------------------- MODULE Accounts -------------------------------
(***************************************************************************)
(* The accounts of a multi-user server (src/accounts): signing up, asking  *)
(* for a mail with a link, deleting the account by that link and resetting *)
(* its password.  The requests work on the storage of the account, on the  *)
(* credential store (src/authentication/user-credential-store.js) and on   *)
(* the token service, which lives in the memory of the process.            *)
(*                                                                         *)
(* A request is a process whose steps are the stretches of code between    *)
(* two awaits.  Nothing locks an account between the steps.                *)
(*                                                                         *)
(* An account is a username, the host of that name with its storage, and   *)
(* the WebID made from it, which stands for the account below.  A signup   *)
(* may name any other WebID besides: one at the same host, the one of      *)
(* another account, or one of a host that is nobody's name.                *)
(***************************************************************************)
EXTENDS Naturals

CONSTANTS
  Requests,     \* the requests, each of them sent once
  Kinds,        \* Kinds[r]: what r may ask for
  Bodies,       \* Bodies[r]: what r may say if it is a signup
  Accounts,     \* the hosts that have a storage, by their own WebID
  WebIds,       \* all WebIDs
  Home,         \* Home[w]: the account at whose host the WebID w is
  Emails,       \* the other words one may give for a recovery address
  Template,     \* the files of the account template
  RootAcl,      \* the one whose presence says that the account exists
  MaxCrashes,   \* bounds how often the process is killed
  None          \* no request, account, address, record or token

DidFiles == {"did", "keys"}
Files == Template \cup DidFiles

\* What the credential store is keyed by.  Nothing keeps apart the ids of
\* users, made of their WebIDs, and the addresses, which nobody validates.
Keys == WebIds \cup Emails

\* The fields of a signup: the username, the WebID (the one of the username if
\* the form names none) and the recovery address.
AllBodies == [name : Accounts, account : WebIds, email : Keys \cup {None}]

Users == [kind : {"user"}, by : Requests, email : Keys \cup {None}]

Aliases == [kind : {"alias"}, to : WebIds]

Tokens == [domain : {"delete-account"}, account : Accounts, email : Keys,
           of : Requests, live : BOOLEAN]

ASSUME AccountsAssumption ==
  /\ Kinds \in [Requests -> SUBSET {"signup", "askDelete", "askReset",
                                    "confirm", "change", "invalid"}]
  /\ Bodies \in [Requests -> SUBSET AllBodies]
  /\ Accounts \subseteq WebIds
  /\ Home \in [WebIds -> Accounts]
  /\ \A a \in Accounts : Home[a] = a
  /\ RootAcl \in Template
  /\ Template \cap DidFiles = {}
  /\ MaxCrashes \in Nat
  /\ None \notin Requests \cup Keys \cup Users \cup Aliases \cup Tokens
  /\ None \notin [by : Requests, email : Keys \cup {None},
                  files : [Files -> Requests \cup {None}]]

VARIABLES
  up,          \* the server process runs
  pc,          \* pc[r]: the step request r is at
  arg,         \* arg[r]: the account, address and token it is about
  answer,      \* answer[r]: the HTTP status it was answered with, 0 for none
  storage,     \* storage[a][f]: the signup that wrote file f of account a
  users,       \* users[k]: the credentials stored under the key k, or the
               \* alias that leads to those of a WebID
  tokens,      \* tokens[r]: the token generated for request r
  mail,        \* the links that have been mailed
  spent,       \* history: the tokens whose deletion was carried out
  tangled,     \* history: accounts two requests worked on at once, or one
               \* that came by another name, or one with a token made for an
               \* earlier account of that name
  interrupted, \* history: accounts a request gave up on in the middle
  unseen,      \* history: deletions that could not look at the storage
  crashes      \* how often the process was killed

vars == <<up, pc, arg, answer, storage, users, tokens, mail, spent, tangled,
          interrupted, unseen, crashes>>

Working == {"lookup", "provision", "did", "keys", "saveUser", "saveAlias",
            "removeAlias", "removeUser", "findStorage", "removeStorage"}

LivePcs == Working \cup {"recovery", "mailing"}

NoArg == [kind |-> "none", name |-> None, account |-> None, key |-> None,
          token |-> None, todo |-> {}]

\* key: the address a signup gave or a token holds, or, for a request that
\* asks for a link, the key whose record it looks up.
Args ==
  [kind : {"none", "signup", "askDelete", "askReset", "confirm"},
   name : Accounts \cup {None}, account : WebIds \cup {None},
   key : Keys \cup {None}, token : Requests \cup {None},
   todo : SUBSET Template]

Live(r) == pc[r] \in LivePcs

IsUser(k) == users[k] # None /\ users[k].kind = "user"

IsAlias(k) == users[k] # None /\ users[k].kind = "alias"

\* The account whose storage r writes or removes.
Place(r) == Home[arg[r].account]

\* r is creating or deleting account a, or uses an id of a as an address.
Works(r, a) ==
  /\ pc[r] \in Working
  /\ arg[r].kind \in {"signup", "confirm"}
  /\ \/ Place(r) = a
     \/ arg[r].key \in WebIds /\ Home[arg[r].key] = a

\* r works on account a as the account of the name it gave.
ByItsName(r, a) ==
  /\ arg[r].name = a /\ arg[r].account = a
  /\ arg[r].key \in WebIds => Home[arg[r].key] # a

\* r deletes account a by a token of an earlier account of that name.
Outdated(r, a) ==
  /\ pc[r] \in {"removeAlias", "removeUser"}
  /\ arg[r].account = a
  /\ IsUser(a) /\ users[a].by # tokens[arg[r].token].of

Init ==
  /\ up = TRUE
  /\ pc = [r \in Requests |-> "idle"]
  /\ arg = [r \in Requests |-> NoArg]
  /\ answer = [r \in Requests |-> 0]
  /\ storage = [a \in Accounts |-> [f \in Files |-> None]]
  /\ users = [k \in Keys |-> None]
  /\ tokens = [r \in Requests |-> None]
  /\ mail = {}
  /\ spent = {}
  /\ tangled = {}
  /\ interrupted = {}
  /\ unseen = {}
  /\ crashes = 0

-----------------------------------------------------------------------------
(***************************************************************************)
(* How a step ends.  The histories follow from the state: see Next.        *)
(***************************************************************************)
Goto(r, step) ==
  /\ pc' = [pc EXCEPT ![r] = step]
  /\ UNCHANGED <<up, answer, crashes>>

End(r, code) ==
  /\ pc' = [pc EXCEPT ![r] = "done"]
  /\ answer' = [answer EXCEPT ![r] = code]
  /\ arg' = [arg EXCEPT ![r] = NoArg]
  /\ UNCHANGED <<up, crashes>>

Kept == UNCHANGED <<storage, users, tokens, mail, spent, interrupted, unseen>>

Arrives(r, kind) == up /\ pc[r] = "idle" /\ kind \in Kinds[r]

Asked(r, kind) == pc[r] = "lookup" /\ arg[r].kind = kind

\* accountUrlExists(): the root `.acl` is there.
Exists(a) == storage[a][RootAcl] # None

\* A name or a password is missing or malformed, or the token is.
Invalid(r) == Arrives(r, "invalid") /\ End(r, 400) /\ Kept

-----------------------------------------------------------------------------
(***************************************************************************)
(* Signing up: the template's files, the DID document and its keys, and at *)
(* last the credentials.  That the account is not there yet is looked up   *)
(* by the username; everything else goes by the WebID.                     *)
(***************************************************************************)
Signup(r) ==
  /\ Arrives(r, "signup")
  /\ \E body \in Bodies[r] :
       arg' = [arg EXCEPT ![r] =
                [kind |-> "signup", name |-> body.name,
                 account |-> body.account, key |-> body.email,
                 token |-> None, todo |-> Template]]
  /\ Goto(r, "lookup")
  /\ Kept

\* Mutant: nobody looks whether the account exists.
NeverCancel(r) ==
  /\ Asked(r, "signup")
  /\ Goto(r, "provision")
  /\ UNCHANGED arg
  /\ Kept

CancelIfAccountExists(r) ==
  /\ Asked(r, "signup")
  /\ \/ Exists(arg[r].name) /\ End(r, 400)
     \/ /\ ~Exists(arg[r].name)
        /\ Goto(r, "provision")
        /\ UNCHANGED arg
  /\ Kept

Writes(r, f) ==
  storage' = [storage EXCEPT ![Place(r)][f] = r]

\* Mutant: what an earlier attempt has left is not overwritten.
ProvisionMissing(r) ==
  /\ pc[r] = "provision"
  /\ \E f \in arg[r].todo :
       /\ IF storage[Place(r)][f] = None THEN Writes(r, f)
                                        ELSE UNCHANGED storage
       /\ arg' = [arg EXCEPT ![r].todo = @ \ {f}]
       /\ Goto(r, IF arg[r].todo = {f} THEN "did" ELSE "provision")
  /\ UNCHANGED <<users, tokens, mail, spent, interrupted, unseen>>

\* The files are read and written one by one, in the order of a directory walk.
ProvisionFile(r) ==
  /\ pc[r] = "provision"
  /\ \E f \in arg[r].todo :
       /\ Writes(r, f)
       /\ arg' = [arg EXCEPT ![r].todo = @ \ {f}]
       /\ Goto(r, IF arg[r].todo = {f} THEN "did" ELSE "provision")
  /\ UNCHANGED <<users, tokens, mail, spent, interrupted, unseen>>

SaveDidDocument(r) ==
  /\ pc[r] = "did"
  /\ Writes(r, "did")
  /\ Goto(r, "keys")
  /\ UNCHANGED <<arg, users, tokens, mail, spent, interrupted, unseen>>

SaveKeys(r) ==
  /\ pc[r] = "keys"
  /\ Writes(r, "keys")
  /\ Goto(r, "saveUser")
  /\ UNCHANGED <<arg, users, tokens, mail, spent, interrupted, unseen>>

\* createUser() stores the record, and then the alias if there is an address.
SaveUser(r) ==
  /\ pc[r] = "saveUser"
  /\ users' = [users EXCEPT ![arg[r].account] =
                [kind |-> "user", by |-> r, email |-> arg[r].key]]
  /\ IF arg[r].key = None
       THEN End(r, 200)
       ELSE Goto(r, "saveAlias") /\ UNCHANGED arg
  /\ UNCHANGED <<storage, tokens, mail, spent, interrupted, unseen>>

SaveAliasUserRecord(r) ==
  /\ pc[r] = "saveAlias"
  /\ users' = [users EXCEPT ![arg[r].key] =
                [kind |-> "alias", to |-> arg[r].account]]
  /\ End(r, 200)
  /\ UNCHANGED <<storage, tokens, mail, spent, interrupted, unseen>>

\* Mutant: the number of the error becomes the status.
FailWithErrno(r) ==
  /\ pc[r] \in {"provision", "did", "keys", "saveUser", "saveAlias"}
  /\ interrupted' = interrupted \cup {Place(r)}
  /\ End(r, 28)
  /\ UNCHANGED <<storage, users, tokens, mail, spent, unseen>>

\* A file cannot be written.  What has been written stays.  The code of a file
\* system's error is no status, and makes the answer a 500.
FailSignup(r) ==
  /\ pc[r] \in {"provision", "did", "keys", "saveUser", "saveAlias"}
  /\ interrupted' = interrupted \cup {Place(r)}
  /\ \E code \in {400, 500} : End(r, code)
  /\ UNCHANGED <<storage, users, tokens, mail, spent, unseen>>

-----------------------------------------------------------------------------
(***************************************************************************)
(* Asking for a mail with a link that deletes the account, or resets its   *)
(* password.  Both links carry a token of the domain "delete-account".     *)
(***************************************************************************)
Links == {"askDelete", "askReset"}

AskForLink(r) ==
  /\ \E kind \in Links, a \in Accounts :
       /\ Arrives(r, kind)
       /\ arg' = [arg EXCEPT ![r] =
                   [kind |-> kind, name |-> a, account |-> a, key |-> a,
                    token |-> None, todo |-> {}]]
  /\ Goto(r, "lookup")
  /\ Kept

LoadUser(r) ==
  /\ pc[r] = "lookup" /\ arg[r].kind \in Links
  /\ \/ ~Exists(arg[r].account) /\ End(r, 400)
     \/ Exists(arg[r].account) /\ Goto(r, "recovery") /\ UNCHANGED arg
  /\ Kept

\* findUser() goes on with what an alias leads to.  Should the id of the
\* account be an alias itself, the record may be somebody else's.
FollowAlias(r) ==
  /\ pc[r] = "recovery" /\ IsAlias(arg[r].key)
  /\ arg' = [arg EXCEPT ![r].key = users[arg[r].key].to]
  /\ Goto(r, "recovery")
  /\ Kept

HasEmail(k) == IsUser(k) /\ users[k].email # None

\* Neither mail is sent without a recovery address.
NoRecoveryEmail(r) ==
  /\ pc[r] = "recovery"
  /\ ~IsAlias(arg[r].key) /\ ~HasEmail(arg[r].key)
  /\ End(r, 400)
  /\ Kept

GenerateToken(r) ==
  LET user == users[arg[r].key] IN
  /\ pc[r] = "recovery" /\ HasEmail(arg[r].key)
  /\ tokens' = [tokens EXCEPT ![r] =
                 [domain |-> "delete-account", account |-> arg[r].account,
                  email |-> user.email, of |-> user.by, live |-> TRUE]]
  /\ Goto(r, "mailing")
  /\ UNCHANGED <<arg, storage, users, mail, spent, interrupted, unseen>>

SendMail(r) ==
  /\ pc[r] = "mailing"
  /\ mail' = mail \cup {[link |-> arg[r].kind, token |-> r]}
  /\ End(r, 200)
  /\ UNCHANGED <<storage, users, tokens, spent, interrupted, unseen>>

FailMail(r) == pc[r] = "mailing" /\ End(r, 400) /\ Kept

\* Twenty minutes pass.
Expire(r) ==
  /\ tokens[r] # None /\ tokens[r].live
  /\ tokens' = [tokens EXCEPT ![r].live = FALSE]
  /\ UNCHANGED <<up, pc, arg, answer, storage, users, mail, spent,
                 interrupted, unseen, crashes>>

-----------------------------------------------------------------------------
(***************************************************************************)
(* Following a link.  verify() looks the token up and leaves it in place.  *)
(***************************************************************************)
Verified(domain, t) ==
  tokens[t] # None /\ tokens[t].domain = domain /\ tokens[t].live

ConfirmDelete(r) ==
  /\ Arrives(r, "confirm")
  /\ \E m \in mail :
       /\ m.link = "askDelete"
       /\ \/ ~Verified("delete-account", m.token) /\ End(r, 400)
          \/ /\ Verified("delete-account", m.token)
             /\ arg' = [arg EXCEPT ![r] =
                         [kind |-> "confirm", token |-> m.token, todo |-> {},
                          name |-> tokens[m.token].account,
                          account |-> tokens[m.token].account,
                          key |-> tokens[m.token].email]]
             /\ Goto(r, "removeAlias")
  /\ Kept

\* Mutant: deleteUser() forgets the alias.
KeepAlias(r) ==
  /\ pc[r] = "removeAlias"
  /\ Goto(r, "removeUser")
  /\ UNCHANGED arg
  /\ Kept

\* deleteUser(): what is stored under the address goes first, then the record.
RemoveAlias(r) ==
  /\ pc[r] = "removeAlias"
  /\ users' = [users EXCEPT ![arg[r].key] = None]
  /\ Goto(r, "removeUser")
  /\ UNCHANGED <<arg, storage, tokens, mail, spent, interrupted, unseen>>

\* Mutant: deleteUser() forgets the record.
KeepUser(r) ==
  /\ pc[r] = "removeUser"
  /\ Goto(r, "findStorage")
  /\ UNCHANGED arg
  /\ Kept

RemoveUser(r) ==
  /\ pc[r] = "removeUser"
  /\ users' = [users EXCEPT ![arg[r].account] = None]
  /\ Goto(r, "findStorage")
  /\ UNCHANGED <<arg, storage, tokens, mail, spent, interrupted, unseen>>

FindStorage(r) ==
  /\ pc[r] = "findStorage"
  /\ Goto(r, "removeStorage")
  /\ UNCHANGED arg
  /\ Kept

\* deleteAccountStorage() logs that it cannot look at the storage, and returns:
\* the request succeeds, and the storage stays.
LoseStorage(r) ==
  /\ pc[r] = "findStorage"
  /\ spent' = spent \cup {arg[r].token}
  /\ interrupted' = interrupted \cup {Place(r)}
  /\ unseen' = unseen \cup {r}
  /\ End(r, 200)
  /\ UNCHANGED <<storage, users, tokens, mail>>

\* Mutant: deleteAccountStorage() does not return what fs.remove() promises.
StorageLater(r) ==
  /\ pc[r] = "removeStorage"
  /\ spent' = spent \cup {arg[r].token}
  /\ End(r, 200)
  /\ UNCHANGED <<storage, users, tokens, mail, interrupted, unseen>>

\* The storage is removed like `rm -rf`, an entry after the other.
RemoveStorage(r) ==
  /\ pc[r] = "removeStorage"
  /\ \E f \in Files :
       /\ storage[Place(r)][f] # None
       /\ storage' = [storage EXCEPT ![Place(r)][f] = None]
  /\ Goto(r, "removeStorage")
  /\ UNCHANGED <<arg, users, tokens, mail, spent, interrupted, unseen>>

DeleteAccountStorage(r) ==
  /\ pc[r] = "removeStorage"
  /\ \A f \in Files : storage[Place(r)][f] = None
  /\ spent' = spent \cup {arg[r].token}
  /\ End(r, 200)
  /\ UNCHANGED <<storage, users, tokens, mail, interrupted, unseen>>

\* The credential store fails, or the removal of the storage does.
FailDelete(r) ==
  /\ pc[r] \in {"removeAlias", "removeUser", "removeStorage"}
  /\ interrupted' = interrupted \cup {Place(r)}
  /\ End(r, 400)
  /\ UNCHANGED <<storage, users, tokens, mail, spent, unseen>>

\* No token of the domain "reset-password" is ever generated: the form of the
\* reset link is answered with an error, and no password is ever changed.
ChangePassword(r) ==
  /\ Arrives(r, "change")
  /\ \E m \in mail :
       m.link = "askReset" /\ ~Verified("reset-password", m.token)
  /\ End(r, 400)
  /\ Kept

-----------------------------------------------------------------------------
Crash ==
  /\ up /\ crashes < MaxCrashes
  /\ up' = FALSE
  /\ crashes' = crashes + 1
  /\ pc' = [r \in Requests |-> IF Live(r) THEN "lost" ELSE pc[r]]
  /\ arg' = [r \in Requests |-> NoArg]
  /\ tokens' = [r \in Requests |-> None]
  /\ interrupted' =
       interrupted \cup {a \in Accounts : \E r \in Requests : Works(r, a)}
  /\ UNCHANGED <<answer, storage, users, mail, spent, unseen>>

Restart ==
  /\ ~up
  /\ up' = TRUE
  /\ UNCHANGED <<pc, arg, answer, storage, users, tokens, mail, spent,
                 interrupted, unseen, crashes>>

Serve(r) ==
  \/ CancelIfAccountExists(r) \/ ProvisionFile(r) \/ SaveDidDocument(r)
  \/ SaveKeys(r) \/ SaveUser(r) \/ SaveAliasUserRecord(r) \/ FailSignup(r)
  \/ LoadUser(r) \/ FollowAlias(r) \/ NoRecoveryEmail(r) \/ GenerateToken(r)
  \/ SendMail(r) \/ FailMail(r)
  \/ RemoveAlias(r) \/ RemoveUser(r) \/ FindStorage(r) \/ LoseStorage(r)
  \/ RemoveStorage(r) \/ DeleteAccountStorage(r) \/ FailDelete(r)

Arrive(r) ==
  \/ Invalid(r) \/ Signup(r) \/ AskForLink(r) \/ ConfirmDelete(r)
  \/ ChangePassword(r)

Step ==
  \/ \E r \in Requests : Arrive(r) \/ Serve(r) \/ Expire(r)
  \/ Crash \/ Restart

Tangles ==
  {a \in Accounts :
    \/ \E q, r \in Requests : q # r /\ Works(q, a) /\ Works(r, a)
    \/ \E r \in Requests : Works(r, a) /\ ~ByItsName(r, a)
    \/ \E r \in Requests : Outdated(r, a)}

Next == Step /\ tangled' = tangled \cup Tangles'

Spec == Init /\ [][Next]_vars
-----------------------------------------------------------------------------
(***************************************************************************)
(* Properties.                                                             *)
(***************************************************************************)
\* The values the variables take.
TypeOK ==
  /\ up \in BOOLEAN
  /\ pc \in [Requests -> LivePcs \cup {"idle", "done", "lost"}]
  /\ arg \in [Requests -> Args]
  /\ answer \in [Requests -> {0, 200, 400, 500}]
  /\ storage \in [Accounts -> [Files -> Requests \cup {None}]]
  /\ users \in [Keys -> Users \cup Aliases \cup {None}]
  /\ tokens \in [Requests -> Tokens \cup {None}]
  /\ mail \subseteq [link : Links, token : Requests]
  /\ spent \subseteq Requests
  /\ tangled \subseteq Accounts
  /\ interrupted \subseteq Accounts
  /\ unseen \subseteq Requests
  /\ crashes \in 0..MaxCrashes

\* An account that can be logged in to belongs to one signup altogether: its
\* profile, its ACLs, its DID document and its keys are those of whoever chose
\* the password, whatever attempts were given up before.  It need not when two
\* signups or a deletion ran into each other, or when a signup for another name
\* gave this account's WebID, or for an address its id: see NobodyTakesOver.
OneOwner ==
  \A a \in Accounts : IsUser(a) /\ a \notin tangled =>
    \A f \in Files : storage[a][f] = users[a].by

\* An alias leads to the record of an account that has this address, also when
\* the process ends between the two writes of createUser() or deleteUser(), and
\* whatever else is kept under the keys that others give for their address.
AliasesLead ==
  \A k \in Keys : IsAlias(k) =>
    LET w == users[k].to IN
    Home[w] \notin tangled => IsUser(w) /\ users[w].email = k

\* Only a request that was given up in the middle leaves an account nobody can
\* log in to, and whose name nobody can sign up for.  So does a deletion that
\* could not look at the storage, though its answer says that all is well, and
\* a signup for this host with a WebID that is not its own.
NoOrphans ==
  \A a \in Accounts :
    /\ Exists(a) /\ users[a] = None
    /\ a \notin tangled \cup interrupted
    => \E r \in Requests : Works(r, a)

\* When a deletion is confirmed, the credentials of the account and all aliases
\* of it are gone, and so is its storage unless its root could not be looked
\* at: deleteAccountStorage() swallows that error, and no other.
DeletedIsGone ==
  [][\A r \in Requests :
       LET a == arg[r].account IN
       /\ pc[r] \in {"findStorage", "removeStorage"} /\ pc'[r] = "done"
       /\ answer'[r] = 200 /\ a \notin tangled'
       =>
         /\ users'[a] = None
         /\ \A k \in Keys : IsAlias(k)' => users'[k].to # a
         /\ r \in unseen' \/ \A f \in Files : storage'[a][f] = None]_vars

\* Accounts are taken and given up as a whole, by those who have a right to it:
\* the many writes of a signup or a deletion are one step of AccountTable, in
\* which nobody takes over an account that somebody has, or deletes one without
\* a link that was mailed to whoever has it.  This is so for each account until
\* requests run into each other over it, or one comes to it by another name.
Table == INSTANCE AccountTable WITH
           account <- [a \in Accounts |->
             IF ~IsUser(a) \/ a \in tangled THEN None
             ELSE [by |-> users[a].by, email |-> users[a].email,
                   files |-> storage[a]]],
           spoilt <- tangled,
           over <- {r \in Requests : pc[r] \in {"saveAlias", "done", "lost"}},
           invited <- {tokens[t].of : t \in
             {t \in Requests :
                tokens[t] # None /\ [link |-> "askDelete", token |-> t] \in mail}}

ImplementsAccountTable == Table!Spec

(***************************************************************************)
(* What the comments promise and the code does not keep.                   *)
(***************************************************************************)
\* account-manager.js: a delete token is an "expiring one-time-use token".
TokensServeOnce ==
  [][\A r \in Requests :
       pc[r] = "removeUser" /\ pc'[r] = "findStorage"
         => arg[r].token \notin spent]_vars

\* create-account-request.js: createAccount() throws "an http 400 error if an
\* account already exists", so that no signup stores its password over the one
\* of somebody who has the account.
NobodyTakesOver ==
  [][\A r \in Requests :
       LET a == arg[r].account IN
       /\ pc[r] = "saveUser" /\ pc'[r] # "saveUser"
       /\ users'[a] # users[a]
       => users[a] = None]_vars
=============================================================================
