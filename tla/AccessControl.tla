---------------------------- MODULE AccessControl -----------------------------
(***************************************************************************)
(* Web access control (src/authorization): the walk to the nearest ACL     *)
(* that decides on every LDP request (ldp-wac.js), the LDP requests that   *)
(* put and delete ACLs, and the sharing page that reads an ACL, changes    *)
(* one agent's permission and writes it back (share-request.js).           *)
(*                                                                         *)
(* ACLs are files of the tree that requests read and write step by step,   *)
(* one step per stretch of code between two awaits, and nothing locks      *)
(* them.  The ACL `f.acl` of a file f and the ACL `c/.acl` of a container  *)
(* c are named by f and c.                                                 *)
(***************************************************************************)
EXTENDS Integers, Sequences

CONSTANTS
  Requests,    \* the requests, each of them sent once
  Asks,        \* Asks[r]: what r may ask for
  Resources,   \* the files and containers
  Containers,  \* the containers among them
  Chain,       \* Chain[p]: p, its container, that one's container, ... the root
  Agents,      \* the users that ACLs name
  Starts,      \* the ACLs the server may start with
  MaxCrashes   \* bounds how often the process is killed

View == 1
Edit == 2
Manage == 3
Levels == 0..Manage

\* A parsed ACL: the level each agent has on the resources it names with
\* `accessTo`, and on the containers it names with `default`.
Policies ==
  [Agents -> [here : [Resources -> Levels], below : [Containers -> Levels]]]

Nobody == [u \in Agents |-> [here |-> [p \in Resources |-> 0],
                             below |-> [c \in Containers |-> 0]]]

Acls == [kind : {"absent", "torn", "policy"}, policy : Policies]
Absent == [kind |-> "absent", policy |-> Nobody]
Torn == [kind |-> "torn", policy |-> Nobody]
Holding(policy) == [kind |-> "policy", policy |-> policy]

Shares == {"add", "remove"}
Kinds == {"access", "put", "drop", "show"} \cup Shares

ASSUME ContainersAssumption == Containers \subseteq Resources

ASSUME ChainAssumption ==
  \A p \in Resources :
    /\ Chain[p] \in Seq(Resources)
    /\ Len(Chain[p]) >= 1
    /\ Chain[p][1] = p
    /\ \A i \in 2..Len(Chain[p]) : Chain[p][i] \in Containers
    /\ p \notin Containers => Len(Chain[p]) >= 2

ASSUME AsksAssumption ==
  \A r \in Requests : Asks[r] \subseteq
    [kind : Kinds, user : Agents, on : Resources, level : 1..Manage,
     agent : Agents, policy : Policies]

ASSUME StartsAssumption ==
  Starts \subseteq [Resources -> {a \in Acls : a.kind # "torn"}]

ASSUME CrashesAssumption == MaxCrashes \in Nat

VARIABLES
  acl,       \* acl[p]: the ACL file of p
  pc,        \* pc[r]: the step request r is at
  ask,       \* ask[r]: what r asks for
  at,        \* at[r]: how far r has come in the chain of its resource
  set,       \* set[r]: the permission set that r is to write
  answer,    \* answer[r]: how r was answered
  detached,  \* writers whose open file has been unlinked
  mixed,     \* writers that had the file open at the same time as another
  crashes,   \* how often the process was killed
  base,      \* history: the ACL that a share is to replace, as r found it
  outrun,    \* history: walks below which an ACL has come into being
  rival,     \* history: shares whose ACL another request has changed
  marred     \* history: ACLs that were left half written

files == <<acl, detached, mixed>>
histories == <<base, outrun, rival, marred>>
vars == <<acl, pc, ask, at, set, answer, detached, mixed, crashes,
          base, outrun, rival, marred>>

-----------------------------------------------------------------------------
(***************************************************************************)
(* Permission sets.                                                        *)
(***************************************************************************)
\* Mutant: the modes are added up.
Together(a, b) == a + b

Greater(a, b) == IF a >= b THEN a ELSE b

\* checkAccess(): named itself, or by a container it is or lies in.
Allows(policy, u, p, level) ==
  \/ policy[u].here[p] >= level
  \/ \E i \in 1..Len(Chain[p]) :
       /\ Chain[p][i] \in Containers
       /\ policy[u].below[Chain[p][i]] >= level

\* addMode(): the modes are merged with those the agent has.
WithMode(policy, u, p, level) ==
  [policy EXCEPT ![u] =
     [here |-> [policy[u].here EXCEPT ![p] = Greater(@, level)],
      below |-> [c \in Containers |->
                   LET old == policy[u].below[c]
                   IN IF c = p THEN Greater(old, level) ELSE old]]]

\* removePermission(), and on a container that of its `accessTo` too.
WithoutPermission(policy, u, p) ==
  [policy EXCEPT ![u] =
     [here |-> [policy[u].here EXCEPT ![p] = 0],
      below |-> [c \in Containers |-> IF c = p THEN 0 ELSE policy[u].below[c]]]]

\* permissionsFor(): somebody has been given access to p itself.
Listed(policy, p) == \E u \in Agents : policy[u].here[p] > 0

\* A container's default set holds an inherited permission, a file's its own.
DefaultPermissionSet(u, p) ==
  [Nobody EXCEPT ![u] =
     [here |-> [q \in Resources |->
                  IF q = p /\ p \notin Containers THEN Manage ELSE 0],
      below |-> [c \in Containers |-> IF c = p THEN Manage ELSE 0]]]

\* Mutant: every share starts from the default set.
FreshSet(policy, u, p) == DefaultPermissionSet(u, p)

SharingSet(policy, u, p) ==
  IF Listed(policy, p) THEN policy ELSE DefaultPermissionSet(u, p)

Changed(policy, a) ==
  IF a.kind = "add"
    THEN WithMode(policy, a.agent, a.on, a.level)
    ELSE WithoutPermission(policy, a.agent, a.on)

\* LdpTarget.aclUrl: `.acl` relative to the URL, so that a file's is the one
\* of its container.
AclUrl(p) == IF p \in Containers THEN p ELSE Chain[p][2]

\* The ACL that request r writes or deletes.
Dest(r) == IF ask[r].kind \in Shares THEN AclUrl(ask[r].on) ELSE ask[r].on

LivePcs == {"walk", "open", "write", "drop"}

Live(r) == pc[r] \in LivePcs

\* Nobody's body has begun to arrive yet.
Init ==
  /\ acl \in Starts
  /\ pc = [r \in Requests |-> "idle"]
  /\ ask \in [Requests -> UNION {Asks[r] : r \in Requests}]
  /\ \A r \in Requests : ask[r] \in Asks[r]
  /\ at = [r \in Requests |-> 1]
  /\ set = [r \in Requests |-> Nobody]
  /\ answer = [r \in Requests |-> "none"]
  /\ detached = {}
  /\ mixed = {}
  /\ crashes = 0
  /\ base = [r \in Requests |-> Absent]
  /\ outrun = {}
  /\ rival = {}
  /\ marred = {}

-----------------------------------------------------------------------------
(***************************************************************************)
(* The walk (getNearestACL) and the decision (allow, getAcl,               *)
(* validateCurrentUser).                                                   *)
(***************************************************************************)
Goto(r, step) ==
  /\ pc' = [pc EXCEPT ![r] = step]
  /\ UNCHANGED <<ask, answer, crashes>>

End(r, how) ==
  /\ pc' = [pc EXCEPT ![r] = "done"]
  /\ answer' = [answer EXCEPT ![r] = how]
  /\ UNCHANGED <<ask, crashes>>

Receive(r) ==
  /\ pc[r] = "idle"
  /\ Goto(r, "walk")
  /\ UNCHANGED <<files, at, set, base, marred>>

\* The ACL the walk is about to read.
Place(r) == Chain[ask[r].on][at[r]]

\* Mutant: any error sends the walk on.
NotUsable(r) == acl[Place(r)].kind # "policy"

Missing(r) == acl[Place(r)].kind = "absent"

\* The error is not an ENOENT, or the graph is empty.
Unusable(r) == acl[Place(r)].kind = "torn" \/ acl[Place(r)].policy = Nobody

\* Mutant: the walk is not moved on.
ReadAgain(r) ==
  /\ pc[r] = "walk"
  /\ Missing(r)
  /\ at[r] < Len(Chain[ask[r].on])
  /\ Goto(r, "walk")
  /\ UNCHANGED <<files, at, set, base, marred>>

\* ENOENT: on to the ACL of the container.
NextAcl(r) ==
  /\ pc[r] = "walk"
  /\ Missing(r)
  /\ at[r] < Len(Chain[ask[r].on])
  /\ at' = [at EXCEPT ![r] = @ + 1]
  /\ Goto(r, "walk")
  /\ UNCHANGED <<files, set, base, marred>>

\* The nearest ACL lets the user do it.
Permits(r) ==
  /\ ~Missing(r)
  /\ ~Unusable(r)
  /\ LET policy == acl[Place(r)].policy
         a == ask[r]
     IN IF a.kind \in Shares \cup {"show"}
          THEN Allows(SharingSet(policy, a.user, a.on), a.user, a.on, Manage)
          ELSE Allows(policy, a.user, a.on, a.level)

\* No ACL up to the root, an unusable one, or one that does not permit it.
Refuse(r) ==
  /\ pc[r] = "walk"
  /\ Missing(r) => at[r] = Len(Chain[ask[r].on])
  /\ ~Permits(r)
  /\ End(r, "refused")
  /\ UNCHANGED <<files, at, set, base, marred>>

\* What follows the decision, and the set that is to be written.
Allow(r) ==
  /\ pc[r] = "walk"
  /\ Permits(r)
  /\ LET a == ask[r] IN
       \/ /\ a.kind \in {"access", "show"}
          /\ End(r, "done")
          /\ UNCHANGED <<set, base>>
       \/ /\ a.kind = "drop"
          /\ Goto(r, "drop")
          /\ UNCHANGED <<set, base>>
       \/ /\ a.kind = "put"
          /\ set' = [set EXCEPT ![r] = a.policy]
          /\ Goto(r, "open")
          /\ UNCHANGED base
       \/ /\ a.kind \in Shares
          /\ set' = [set EXCEPT ![r] =
               Changed(SharingSet(acl[Place(r)].policy, a.user, a.on), a)]
          /\ base' = [base EXCEPT ![r] = acl[Dest(r)]]
          /\ Goto(r, "open")
  /\ UNCHANGED <<files, at, marred>>

-----------------------------------------------------------------------------
(***************************************************************************)
(* Writing an ACL.  The sharing page calls writeFile() with the whole      *)
(* graph, a PUT streams a body: either truncates the file first.           *)
(***************************************************************************)
Writes(r, p) == pc[r] = "write" /\ Dest(r) = p /\ r \notin detached

Open(r) ==
  /\ pc[r] = "open"
  /\ acl' = [acl EXCEPT ![Dest(r)] = Holding(Nobody)]
  /\ LET others == {s \in Requests : Writes(s, Dest(r))}
     IN mixed' = mixed \cup others \cup {s \in {r} : others # {}}
  /\ Goto(r, "write")
  /\ UNCHANGED <<detached, at, set, base, marred>>

\* A part of a body has been written: it does not parse.
WritePart(r) ==
  /\ pc[r] = "write"
  /\ ask[r].kind = "put"
  /\ acl' = [acl EXCEPT ![Dest(r)] = IF r \in detached THEN @ ELSE Torn]
  /\ Goto(r, "write")
  /\ UNCHANGED <<detached, mixed, at, set, base, marred>>

\* All is written.  Where another writer has been at the same file, the bytes
\* of the longer one stick out.
Complete(r, policy) ==
  /\ pc[r] = "write"
  /\ \/ /\ r \in detached
        /\ UNCHANGED <<acl, marred>>
     \/ /\ r \notin detached
        /\ acl' = [acl EXCEPT ![Dest(r)] = Holding(policy)]
        /\ marred' = IF r \in mixed THEN marred ELSE marred \ {Dest(r)}
     \/ /\ r \in mixed \ detached
        /\ acl' = [acl EXCEPT ![Dest(r)] = Torn]
        /\ marred' = marred \cup {Dest(r)}
  /\ End(r, "done")
  /\ UNCHANGED <<detached, mixed, at, set, base>>

\* Mutant: a body that does not arrive in full is taken for complete.
CompleteShort(r) ==
  /\ pc[r] = "write"
  /\ UNCHANGED <<acl, marred>>
  /\ End(r, "done")
  /\ UNCHANGED <<detached, mixed, at, set, base>>

Fill(r) == Complete(r, set[r])

\* The body of a PUT stops arriving: nobody ends the file.
BreakOff(r) ==
  /\ pc[r] = "write"
  /\ ask[r].kind = "put"
  /\ Goto(r, "lost")
  /\ marred' = marred \cup {p \in {Dest(r)} : r \notin detached}
  /\ UNCHANGED <<files, at, set, base>>

\* DELETE of an ACL.  It was there when the request came, or this is a 404.
Drop(r) ==
  /\ pc[r] = "drop"
  /\ acl' = [acl EXCEPT ![Dest(r)] = Absent]
  /\ detached' = detached \cup {s \in Requests : Writes(s, Dest(r))}
  /\ marred' = marred \ {Dest(r)}
  /\ End(r, IF acl[Dest(r)].kind = "absent" THEN "failed" ELSE "done")
  /\ UNCHANGED <<mixed, at, set, base>>

\* The process is killed, and started again.
Crash ==
  /\ crashes < MaxCrashes
  /\ crashes' = crashes + 1
  /\ pc' = [r \in Requests |-> IF Live(r) THEN "lost" ELSE pc[r]]
  /\ marred' = marred \cup {p \in Resources : \E r \in Requests : Writes(r, p)}
  /\ UNCHANGED <<files, ask, at, set, answer, base>>

-----------------------------------------------------------------------------
\* An ACL came into being where the walk of r had found none.
Overtaken(r) ==
  /\ pc[r] = "walk"
  /\ \E i \in 1..(at[r] - 1) :
       /\ acl[Chain[ask[r].on][i]].kind = "absent"
       /\ acl'[Chain[ask[r].on][i]].kind # "absent"

\* Somebody else changed the ACL that share r has read and is to replace.
Interfered(r) ==
  /\ pc[r] \in {"open", "write"}
  /\ pc'[r] = pc[r]
  /\ acl'[Dest(r)] # acl[Dest(r)]

Histories ==
  /\ outrun' = outrun \cup {r \in Requests : Overtaken(r)}
  /\ rival' = rival \cup {r \in Requests : Interfered(r)}

Serve(r) ==
  \/ NextAcl(r) \/ Refuse(r) \/ Allow(r)
  \/ Open(r) \/ Fill(r) \/ BreakOff(r) \/ Drop(r)

Next ==
  /\ \/ \E r \in Requests : Receive(r) \/ Serve(r) \/ WritePart(r)
     \/ Crash
  /\ Histories

Spec == Init /\ [][Next]_vars

\* Node runs every callback that is ready.  A body either arrives, in a finite
\* number of parts, or breaks off.
Fairness == \A r \in Requests : WF_vars(Serve(r) /\ Histories)

FairSpec == Spec /\ Fairness

-----------------------------------------------------------------------------
(***************************************************************************)
(* Properties.                                                             *)
(***************************************************************************)
\* The values the variables take.
TypeOK ==
  /\ acl \in [Resources -> Acls]
  /\ pc \in [Requests -> LivePcs \cup {"idle", "done", "lost"}]
  /\ \A r \in Requests : ask[r] \in Asks[r]
  /\ \A r \in Requests : at[r] \in 1..Len(Chain[ask[r].on])
  /\ set \in [Requests -> Policies]
  /\ answer \in [Requests -> {"none", "done", "refused", "failed"}]
  /\ detached \subseteq Requests
  /\ mixed \subseteq Requests
  /\ crashes \in 0..MaxCrashes
  /\ base \in [Requests -> Acls]
  /\ outrun \subseteq Requests
  /\ rival \subseteq Requests
  /\ marred \subseteq Resources

\* What the ACLs in the tree say, all read at once: the nearest one decides.
Grants(acls, u, p, level) ==
  \E i \in 1..Len(Chain[p]) :
    /\ \A j \in 1..(i - 1) : acls[Chain[p][j]].kind = "absent"
    /\ acls[Chain[p][i]].kind = "policy"
    /\ Allows(acls[Chain[p][i]].policy, u, p, level)

\* The walk of getNearestACL() reads one ACL after the other while others write
\* them, and yet comes to the decision the tree calls for when it ends: it
\* neither lets a request pass by an ACL that is being written nor turns one
\* away that the ACLs permit, unless an ACL came into being below the walk.
DecisionsHold ==
  [][\A r \in Requests :
       /\ pc[r] = "walk" /\ pc'[r] \notin {"walk", "lost"}
       /\ ask[r].kind \in {"access", "put", "drop"}
       /\ r \notin outrun
       => (answer'[r] # "refused" <=>
             Grants(acl, ask[r].user, ask[r].on, ask[r].level))]_vars

\* The share r of a container goes by the book: nobody has come between its
\* reading and its writing, and the ACL it found lists who has access.
Regular(r) ==
  /\ ask[r].kind \in Shares
  /\ ask[r].on \in Containers
  /\ r \notin rival \cup mixed \cup detached
  /\ at[r] = 1
  /\ Listed(base[r].policy, ask[r].on)

\* Sharing a container changes what its agent may do there and what nobody else
\* may do anywhere, although the whole ACL is written from a copy that was read
\* several steps ago: handlePost() when no request has come in between.
ContainerSharesAreExact ==
  [][\A r \in Requests :
       pc[r] = "write" /\ pc'[r] = "done" /\ Regular(r) =>
         LET a == ask[r]
             before == [acl EXCEPT ![Dest(r)] = base[r]]
         IN /\ \A u \in Agents \ {a.agent}, p \in Resources, l \in 1..Manage :
                 Grants(acl', u, p, l) <=> Grants(before, u, p, l)
            /\ a.kind = "add" => Grants(acl', a.agent, a.on, a.level)
            /\ a.kind = "remove" =>
                 acl'[a.on].policy[a.agent].here[a.on] = 0]_vars

\* An ACL that does not parse is on its way to become one that does, or two
\* requests wrote it at once, or its writer was killed or cut off: what
\* writeBlob() and writeResourceStream() leave behind is whole.
TornOnlyWhileWritten ==
  \A p \in Resources :
    acl[p].kind = "torn" /\ p \notin marred => \E r \in Requests : Writes(r, p)

\* Every request is decided and answered, or lost with the process or its body:
\* the walk ends, whatever others do to the ACLs on its way.
Answered ==
  \A r \in Requests : pc[r] = "walk" ~> pc[r] \in {"done", "lost"}
=============================================================================
