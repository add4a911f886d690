------------------------ MODULE AccessControl_proofs --------------------------
(***************************************************************************)
(* Proofs about access control, for any requests, agents, resources and    *)
(* chains of containers.                                                   *)
(***************************************************************************)
EXTENDS AccessControl, TLAPS

-----------------------------------------------------------------------------
(***************************************************************************)
(* What permission sets are made of.                                       *)
(***************************************************************************)
\* An ACL without statements is a permission set.
LEMMA NobodyType == Nobody \in Policies
  BY DEF Nobody, Policies, Levels, Manage

\* The contents a file may have are ACLs.
LEMMA AclTypesOf ==
  /\ Absent \in Acls
  /\ Torn \in Acls
  /\ \A s \in Policies : Holding(s) \in Acls
  BY NobodyType DEF Absent, Torn, Holding, Acls

\* The set a share starts from: getAcl() of share-request.js.
LEMMA SharingSetType ==
  ASSUME NEW policy \in Policies, NEW u \in Agents, NEW p \in Resources
  PROVE  SharingSet(policy, u, p) \in Policies
<1>1. [q \in Resources |-> IF q = p /\ p \notin Containers THEN Manage ELSE 0]
        \in [Resources -> Levels]
  BY DEF Levels, Manage
<1>2. [c \in Containers |-> IF c = p THEN Manage ELSE 0] \in [Containers -> Levels]
  BY DEF Levels, Manage
<1>3. DefaultPermissionSet(u, p) \in Policies
  BY <1>1, <1>2, NobodyType DEF DefaultPermissionSet, Policies
<1> QED
  BY <1>3 DEF SharingSet

\* The set a share writes: applyOperation() of share-request.js.
LEMMA ChangedType ==
  ASSUME NEW policy \in Policies, NEW r \in Requests, NEW a \in Asks[r]
  PROVE  Changed(policy, a) \in Policies
<1> DEFINE here == policy[a.agent].here
           below == policy[a.agent].below
<1>1. /\ a.agent \in Agents
      /\ a.on \in Resources
      /\ a.level \in Levels
  BY AsksAssumption DEF Levels, Manage
<1>2. /\ here \in [Resources -> Levels]
      /\ below \in [Containers -> Levels]
  BY <1>1 DEF Policies
<1>3. \A x, y \in Levels : Greater(x, y) \in Levels
  BY DEF Greater
<1>4. /\ [here EXCEPT ![a.on] = Greater(@, a.level)] \in [Resources -> Levels]
      /\ [c \in Containers |->
            IF c = a.on THEN Greater(below[c], a.level) ELSE below[c]]
           \in [Containers -> Levels]
  BY <1>1, <1>2, <1>3
<1>5. /\ [here EXCEPT ![a.on] = 0] \in [Resources -> Levels]
      /\ [c \in Containers |-> IF c = a.on THEN 0 ELSE below[c]]
           \in [Containers -> Levels]
  BY <1>1, <1>2 DEF Levels, Manage
<1>6. WithMode(policy, a.agent, a.on, a.level) \in Policies
  BY <1>1, <1>4 DEF WithMode, Policies
<1>7. WithoutPermission(policy, a.agent, a.on) \in Policies
  BY <1>1, <1>5 DEF WithoutPermission, Policies
<1> QED
  BY <1>6, <1>7 DEF Changed

\* Where a request reads and writes ACLs: getPossibleACLs() and aclUrl.
LEMMA PlacesOf ==
  ASSUME TypeOK, NEW r \in Requests
  PROVE  /\ ask[r].on \in Resources
         /\ ask[r].level \in 1..Manage
         /\ ask[r].policy \in Policies
         /\ Len(Chain[ask[r].on]) \in Nat
         /\ at[r] \in 1..Len(Chain[ask[r].on])
         /\ Place(r) \in Resources
         /\ Dest(r) \in Resources
<1>1. ask[r] \in Asks[r]
  BY DEF TypeOK
<1>2. ask[r].on \in Resources /\ ask[r].level \in 1..Manage
      /\ ask[r].policy \in Policies
  BY <1>1, AsksAssumption
<1>3. /\ Chain[ask[r].on] \in Seq(Resources)
      /\ ask[r].on \notin Containers => Len(Chain[ask[r].on]) >= 2
  BY <1>2, ChainAssumption
<1>4. at[r] \in 1..Len(Chain[ask[r].on])
  BY DEF TypeOK
<1>5. Place(r) \in Resources
  BY <1>3, <1>4 DEF Place
<1>6. Dest(r) \in Resources
  BY <1>2, <1>3 DEF Dest, AclUrl
<1> QED
  BY <1>2, <1>3, <1>4, <1>5, <1>6

-----------------------------------------------------------------------------
(***************************************************************************)
(* Type correctness.                                                       *)
(***************************************************************************)
\* The server starts with values of the types.
LEMMA InitTypes == Init => TypeOK
<1> SUFFICES ASSUME Init PROVE TypeOK
  OBVIOUS
<1>1. \A r \in Requests : ask[r].on \in Resources
  BY AsksAssumption DEF Init
<1>2. \A r \in Requests : at[r] \in 1..Len(Chain[ask[r].on])
  <2> TAKE r \in Requests
  <2>1. at[r] = 1
    BY DEF Init
  <2>2. Len(Chain[ask[r].on]) \in Nat /\ Len(Chain[ask[r].on]) >= 1
    BY <1>1, ChainAssumption
  <2> QED
    BY <2>1, <2>2
<1>3. acl \in [Resources -> Acls]
  BY StartsAssumption DEF Init
<1>4. set \in [Requests -> Policies] /\ base \in [Requests -> Acls]
  BY NobodyType, AclTypesOf DEF Init
<1>5. pc \in [Requests -> LivePcs \cup {"idle", "done", "lost"}]
  BY DEF Init
<1> QED
  BY <1>2, <1>3, <1>4, <1>5, CrashesAssumption DEF Init, TypeOK

\* What a step of a request keeps of the types, whatever it does.
LEMMA ServeTypes ==
  ASSUME TypeOK, NEW r \in Requests,
         Receive(r) \/ Serve(r) \/ WritePart(r), Histories
  PROVE  TypeOK'
<1> USE DEF Goto, End, files, LivePcs
<1>1. CASE Receive(r)
  BY <1>1 DEF Receive, TypeOK, Histories
<1>2. CASE NextAcl(r)
  <2>1. at'[r] \in 1..Len(Chain[ask[r].on])
    BY <1>2, PlacesOf DEF NextAcl, TypeOK
  <2>2. \A s \in Requests : at'[s] \in 1..Len(Chain[ask'[s].on])
    BY <1>2, <2>1 DEF NextAcl, TypeOK
  <2> QED
    BY <1>2, <2>2 DEF NextAcl, TypeOK, Histories
<1>3. CASE Refuse(r)
  BY <1>3 DEF Refuse, TypeOK, Histories
<1>4. CASE Allow(r)
  <2>1. Place(r) \in Resources /\ Dest(r) \in Resources /\ ask[r] \in Asks[r]
        /\ ask[r].policy \in Policies
    BY PlacesOf DEF TypeOK
  <2>2. acl[Place(r)].policy \in Policies /\ acl[Dest(r)] \in Acls
    BY <2>1 DEF TypeOK, Acls
  <2>3. ask[r].user \in Agents /\ ask[r].on \in Resources
    BY <2>1, AsksAssumption
  <2>4. SharingSet(acl[Place(r)].policy, ask[r].user, ask[r].on) \in Policies
    BY <2>2, <2>3, SharingSetType
  <2>5. Changed(SharingSet(acl[Place(r)].policy, ask[r].user, ask[r].on), ask[r])
          \in Policies
    BY <2>1, <2>4, ChangedType
  <2>6. set' \in [Requests -> Policies] /\ base' \in [Requests -> Acls]
    <3>1. set \in [Requests -> Policies] /\ base \in [Requests -> Acls]
      BY DEF TypeOK
    <3>2. \/ set' = set
          \/ set' = [set EXCEPT ![r] = ask[r].policy]
          \/ set' = [set EXCEPT ![r] =
               Changed(SharingSet(acl[Place(r)].policy, ask[r].user, ask[r].on),
                       ask[r])]
      BY <1>4 DEF Allow
    <3>3. base' = base \/ base' = [base EXCEPT ![r] = acl[Dest(r)]]
      BY <1>4 DEF Allow
    <3> QED
      BY <2>1, <2>2, <2>5, <3>1, <3>2, <3>3
  <2>7. /\ pc' \in [Requests -> LivePcs \cup {"idle", "done", "lost"}]
        /\ answer' \in [Requests -> {"none", "done", "refused", "failed"}]
        /\ UNCHANGED <<acl, detached, mixed, ask, at, crashes, marred>>
    BY <1>4 DEF Allow, TypeOK
  <2> QED
    BY <2>6, <2>7 DEF TypeOK, Histories
<1>5. CASE Open(r)
  <2>1. acl' \in [Resources -> Acls]
    BY <1>5, PlacesOf, NobodyType, AclTypesOf DEF Open, TypeOK
  <2> QED
    BY <1>5, <2>1 DEF Open, TypeOK, Histories
<1>6. CASE Fill(r)
  <2>1. Holding(set[r]) \in Acls /\ Torn \in Acls /\ Dest(r) \in Resources
    BY PlacesOf, AclTypesOf DEF TypeOK
  <2>2. acl' \in [Resources -> Acls] /\ marred' \subseteq Resources
    BY <1>6, <2>1 DEF Fill, Complete, TypeOK
  <2> QED
    BY <1>6, <2>2 DEF Fill, Complete, TypeOK, Histories
<1>7. CASE BreakOff(r)
  BY <1>7, PlacesOf DEF BreakOff, TypeOK, Histories
<1>8. CASE Drop(r)
  <2>1. acl' \in [Resources -> Acls]
    BY <1>8, AclTypesOf DEF Drop, TypeOK
  <2> QED
    BY <1>8, <2>1 DEF Drop, TypeOK, Histories
<1>9. CASE WritePart(r)
  <2>1. acl' \in [Resources -> Acls]
    BY <1>9, AclTypesOf, PlacesOf DEF WritePart, TypeOK
  <2> QED
    BY <1>9, <2>1 DEF WritePart, TypeOK, Histories
<1> QED
  BY <1>1, <1>2, <1>3, <1>4, <1>5, <1>6, <1>7, <1>8, <1>9 DEF Serve

\* Every step keeps the types.
LEMMA NextTypes == TypeOK /\ [Next]_vars => TypeOK'
<1> SUFFICES ASSUME TypeOK, [Next]_vars PROVE TypeOK'
  OBVIOUS
<1>1. CASE UNCHANGED vars
  BY <1>1 DEF vars, TypeOK, LivePcs
<1>2. CASE Crash /\ Histories
  BY <1>2, CrashesAssumption DEF Crash, files, TypeOK, LivePcs, Live, Histories
<1> QED
  BY <1>1, <1>2, ServeTypes DEF Next

\* The variables keep their types in every behaviour.
THEOREM AclTypes == Spec => []TypeOK
  BY InitTypes, NextTypes, PTL DEF Spec

-----------------------------------------------------------------------------
(***************************************************************************)
(* Decisions.  What a walk has passed is still missing, unless the walk    *)
(* has been outrun: this is the strengthening that the decision rests on.  *)
(***************************************************************************)
WalkInv ==
  \A r \in Requests :
    /\ pc[r] = "idle" => at[r] = 1
    /\ pc[r] \in {"idle", "walk"} => answer[r] = "none"
    /\ pc[r] = "walk" /\ r \notin outrun =>
         \A i \in 1..(at[r] - 1) : acl[Chain[ask[r].on][i]].kind = "absent"

\* What a step does to the walk of s, its own or that of another.
LEMMA WalkStep ==
  ASSUME TypeOK, Next, NEW s \in Requests
  PROVE  /\ pc'[s] = "idle" => pc[s] = "idle" /\ at'[s] = at[s]
         /\ pc'[s] \in {"idle", "walk"} =>
              pc[s] \in {"idle", "walk"} /\ answer'[s] = answer[s]
         /\ pc'[s] = "walk" /\ pc[s] = "idle" => at'[s] = at[s]
         /\ pc'[s] = "walk" /\ pc[s] = "walk" =>
              \/ at'[s] = at[s]
              \/ at'[s] = at[s] + 1 /\ Missing(s) /\ acl' = acl
         /\ ask' = ask
<1> USE DEF Goto, End, files, TypeOK
<1>1. CASE Crash
  BY <1>1 DEF Crash, Live, LivePcs
<1>2. ASSUME NEW r \in Requests, Receive(r) \/ Serve(r) \/ WritePart(r)
      PROVE  /\ pc'[s] = "idle" => pc[s] = "idle" /\ at'[s] = at[s]
             /\ pc'[s] \in {"idle", "walk"} =>
                  pc[s] \in {"idle", "walk"} /\ answer'[s] = answer[s]
             /\ pc'[s] = "walk" /\ pc[s] = "idle" => at'[s] = at[s]
             /\ pc'[s] = "walk" /\ pc[s] = "walk" =>
                  \/ at'[s] = at[s]
                  \/ at'[s] = at[s] + 1 /\ Missing(s) /\ acl' = acl
             /\ ask' = ask
  <2>1. CASE Receive(r)
    BY <2>1 DEF Receive
  <2>2. CASE NextAcl(r)
    BY <2>2 DEF NextAcl
  <2>3. CASE Refuse(r)
    BY <2>3 DEF Refuse
  <2>4. CASE Allow(r)
    BY <2>4 DEF Allow
  <2>5. CASE Open(r)
    BY <2>5 DEF Open
  <2>6. CASE Fill(r)
    BY <2>6 DEF Fill, Complete
  <2>7. CASE BreakOff(r)
    BY <2>7 DEF BreakOff
  <2>8. CASE Drop(r)
    BY <2>8 DEF Drop
  <2>9. CASE WritePart(r)
    BY <2>9 DEF WritePart
  <2> QED
    BY <1>2, <2>1, <2>2, <2>3, <2>4, <2>5, <2>6, <2>7, <2>8, <2>9 DEF Serve
<1> QED
  BY <1>1, <1>2 DEF Next

\* Every step keeps what the walks rely on.
LEMMA NextWalk == TypeOK /\ WalkInv /\ [Next]_vars => WalkInv'
<1> SUFFICES ASSUME TypeOK, WalkInv, [Next]_vars PROVE WalkInv'
  OBVIOUS
<1>1. CASE UNCHANGED vars
  BY <1>1 DEF vars, WalkInv
<1>2. CASE Next
  <2> SUFFICES ASSUME NEW s \in Requests
      PROVE  /\ pc'[s] = "idle" => at'[s] = 1
             /\ pc'[s] \in {"idle", "walk"} => answer'[s] = "none"
             /\ pc'[s] = "walk" /\ s \notin outrun' =>
                  \A i \in 1..(at'[s] - 1) :
                    acl'[Chain[ask'[s].on][i]].kind = "absent"
    BY DEF WalkInv
  <2>1. pc'[s] = "idle" => at'[s] = 1
    BY <1>2, WalkStep DEF WalkInv
  <2>2. pc'[s] \in {"idle", "walk"} => answer'[s] = "none"
    BY <1>2, WalkStep DEF WalkInv
  <2>3. ASSUME pc'[s] = "walk", s \notin outrun',
               NEW i \in 1..(at'[s] - 1)
        PROVE  acl'[Chain[ask'[s].on][i]].kind = "absent"
    <3>1. pc[s] \in {"idle", "walk"} /\ ask' = ask
      BY <1>2, <2>3, WalkStep
    <3>2. s \notin outrun /\ ~Overtaken(s)
      BY <1>2, <2>3 DEF Next, Histories
    <3>3. at[s] \in Nat
      BY PlacesOf
    <3>4. CASE pc[s] = "idle"
      BY <1>2, <2>3, <3>4, WalkStep DEF WalkInv
    <3>5. CASE pc[s] = "walk" /\ at'[s] = at[s]
      BY <2>3, <3>1, <3>2, <3>3, <3>5 DEF WalkInv, Overtaken
    <3>6. CASE pc[s] = "walk" /\ at'[s] = at[s] + 1 /\ Missing(s) /\ acl' = acl
      <4>1. i \in 1..(at[s] - 1) \/ i = at[s]
        BY <2>3, <3>3, <3>6
      <4>2. CASE i \in 1..(at[s] - 1)
        BY <3>1, <3>2, <3>6, <4>2 DEF WalkInv
      <4>3. CASE i = at[s]
        BY <3>1, <3>6, <4>3 DEF Missing, Place
      <4> QED
        BY <4>1, <4>2, <4>3
    <3> QED
      BY <1>2, <2>3, <3>1, <3>4, <3>5, <3>6, WalkStep
  <2> QED
    BY <2>1, <2>2, <2>3
<1> QED
  BY <1>1, <1>2

LEMMA InitWalk == Init => WalkInv
  BY DEF Init, WalkInv

\* An ACL without statements permits nothing.
LEMMA NobodyAllowed ==
  ASSUME NEW u \in Agents, NEW p \in Resources, NEW level \in 1..Manage
  PROVE  ~Allows(Nobody, u, p, level)
  BY DEF Allows, Nobody, Manage

\* The decision of a walk that was not outrun is the one of the whole tree.
LEMMA NearestDecides ==
  ASSUME TypeOK, WalkInv, NEW r \in Requests, pc[r] = "walk", r \notin outrun,
         ask[r].kind \in {"access", "put", "drop"}
  PROVE  /\ Permits(r) => Grants(acl, ask[r].user, ask[r].on, ask[r].level)
         /\ ~Permits(r) /\ (Missing(r) => at[r] = Len(Chain[ask[r].on]))
              => ~Grants(acl, ask[r].user, ask[r].on, ask[r].level)
<1> DEFINE chain == Chain[ask[r].on]
<1>1. /\ at[r] \in 1..Len(chain) /\ Len(chain) \in Nat
      /\ Place(r) = chain[at[r]]
      /\ \A j \in 1..(at[r] - 1) : acl[chain[j]].kind = "absent"
      /\ acl[Place(r)].kind \in {"absent", "torn", "policy"}
      /\ ask[r].kind \notin Shares \cup {"show"}
  BY PlacesOf DEF Place, WalkInv, TypeOK, Acls, Shares
<1>2. ask[r].user \in Agents /\ ask[r].on \in Resources /\ ask[r].level \in 1..Manage
  BY AsksAssumption DEF TypeOK
<1>3. ASSUME Permits(r)
      PROVE  Grants(acl, ask[r].user, ask[r].on, ask[r].level)
  <2>1. /\ acl[chain[at[r]]].kind = "policy"
        /\ Allows(acl[chain[at[r]]].policy, ask[r].user, ask[r].on, ask[r].level)
    BY <1>1, <1>3 DEF Permits, Missing, Unusable
  <2> QED
    BY <1>1, <2>1 DEF Grants
<1>4. ASSUME ~Permits(r), Missing(r) => at[r] = Len(chain),
             Grants(acl, ask[r].user, ask[r].on, ask[r].level)
      PROVE  FALSE
  <2>1. PICK i \in 1..Len(chain) :
          /\ \A j \in 1..(i - 1) : acl[chain[j]].kind = "absent"
          /\ acl[chain[i]].kind = "policy"
          /\ Allows(acl[chain[i]].policy, ask[r].user, ask[r].on, ask[r].level)
    BY <1>4 DEF Grants
  <2>2. ~(i < at[r])
    BY <1>1, <2>1
  <2>3. CASE i > at[r]
    BY <1>1, <1>4, <2>1, <2>3 DEF Missing
  <2>4. CASE i = at[r]
    <3>1. ~Missing(r) /\ acl[Place(r)].kind # "torn"
      BY <1>1, <2>1, <2>4 DEF Missing
    <3>2. acl[Place(r)].policy # Nobody
      <4>1. Allows(acl[Place(r)].policy, ask[r].user, ask[r].on, ask[r].level)
        BY <1>1, <2>1, <2>4
      <4>2. ~Allows(Nobody, ask[r].user, ask[r].on, ask[r].level)
        BY <1>2, NobodyAllowed
      <4> QED
        BY <4>1, <4>2
    <3> QED
      BY <1>1, <1>4, <2>1, <2>4, <3>1, <3>2 DEF Permits, Unusable
  <2> QED
    BY <1>1, <2>1, <2>2, <2>3, <2>4
<1> QED
  BY <1>3, <1>4

\* A walk ends by a refusal or by what follows a permission.
LEMMA WalkEnds ==
  ASSUME TypeOK, Next, NEW s \in Requests,
         pc[s] = "walk", pc'[s] \notin {"walk", "lost"}
  PROVE  Refuse(s) \/ Allow(s)
<1> USE DEF Goto, End, TypeOK
<1>1. ~Crash
  BY DEF Crash, Live, LivePcs
<1>2. PICK r \in Requests : Receive(r) \/ Serve(r) \/ WritePart(r)
  BY <1>1 DEF Next
<1>3. r = s
  BY <1>2 DEF Receive, Serve, WritePart, NextAcl, Refuse, Allow, Open, Fill,
              Complete, BreakOff, Drop
<1> QED
  BY <1>2, <1>3 DEF Receive, Serve, WritePart, NextAcl, Open, Fill, Complete,
                    BreakOff, Drop

\* A walk below which no ACL comes into being decides as the tree says when it
\* ends, whatever other requests write meanwhile: getNearestACL() and allow().
THEOREM DecisionsAgreeWithTheTree == Spec => DecisionsHold
<1>1. Init => TypeOK /\ WalkInv
  BY InitTypes, InitWalk
<1>2. TypeOK /\ WalkInv /\ [Next]_vars => (TypeOK /\ WalkInv)'
  BY NextTypes, NextWalk
<1>3. TypeOK /\ WalkInv /\ [Next]_vars =>
        [\A r \in Requests :
           /\ pc[r] = "walk" /\ pc'[r] \notin {"walk", "lost"}
           /\ ask[r].kind \in {"access", "put", "drop"}
           /\ r \notin outrun
           => (answer'[r] # "refused" <=>
                 Grants(acl, ask[r].user, ask[r].on, ask[r].level))]_vars
  <2> SUFFICES ASSUME TypeOK, WalkInv, Next, NEW r \in Requests,
                      pc[r] = "walk", pc'[r] \notin {"walk", "lost"},
                      ask[r].kind \in {"access", "put", "drop"},
                      r \notin outrun
               PROVE  answer'[r] # "refused" <=>
                        Grants(acl, ask[r].user, ask[r].on, ask[r].level)
    OBVIOUS
  <2>1. CASE Refuse(r)
    <3>1. answer'[r] = "refused"
      BY <2>1 DEF Refuse, End, TypeOK
    <3> QED
      BY <2>1, <3>1, NearestDecides DEF Refuse
  <2>2. CASE Allow(r)
    <3>1. answer'[r] # "refused"
      BY <2>2 DEF Allow, End, Goto, TypeOK, WalkInv
    <3> QED
      BY <2>2, <3>1, NearestDecides DEF Allow
  <2> QED
    BY <2>1, <2>2, WalkEnds
<1> QED
  BY <1>1, <1>2, <1>3, PTL DEF Spec, DecisionsHold

-----------------------------------------------------------------------------
(***************************************************************************)
(* Whole ACLs.                                                             *)
(***************************************************************************)
\* A step leaves the request that takes it a writer of its ACL, or leaves the
\* ACL whole or marred; other writers remain writers unless it is unlinked.
LEMMA NextTorn ==
  TypeOK /\ TornOnlyWhileWritten /\ [Next]_vars => TornOnlyWhileWritten'
<1> SUFFICES ASSUME TypeOK, TornOnlyWhileWritten, [Next]_vars,
                    NEW p \in Resources,
                    acl'[p].kind = "torn", p \notin marred'
             PROVE  \E s \in Requests : Writes(s, p)'
  BY DEF TornOnlyWhileWritten
<1> USE DEF Goto, End, files, TypeOK, Writes, Dest
<1>1. CASE UNCHANGED vars
  BY <1>1 DEF vars, TornOnlyWhileWritten
<1>2. CASE Crash
  BY <1>2 DEF Crash, TornOnlyWhileWritten
<1>3. ASSUME NEW r \in Requests, Receive(r) \/ Serve(r) \/ WritePart(r)
      PROVE  \E s \in Requests : Writes(s, p)'
  <2>1. CASE Receive(r)
    BY <2>1 DEF Receive, TornOnlyWhileWritten
  <2>2. CASE NextAcl(r)
    BY <2>2 DEF NextAcl, TornOnlyWhileWritten
  <2>3. CASE Refuse(r)
    BY <2>3 DEF Refuse, TornOnlyWhileWritten
  <2>4. CASE Allow(r)
    <3>1. UNCHANGED <<acl, ask, detached, marred>> /\ pc[r] = "walk"
          /\ \A s \in Requests \ {r} : pc'[s] = pc[s]
      BY <2>4 DEF Allow
    <3>2. PICK s \in Requests : Writes(s, p)
      BY <3>1 DEF TornOnlyWhileWritten
    <3> QED
      BY <3>1, <3>2
  <2>5. CASE Open(r)
    <3>1. p # Dest(r)
      BY <2>5 DEF Open, Holding
    <3>2. acl'[p] = acl[p] /\ marred' = marred
      BY <2>5, <3>1 DEF Open
    <3>3. PICK s \in Requests : Writes(s, p)
      BY <3>2 DEF TornOnlyWhileWritten
    <3> QED
      BY <2>5, <3>3 DEF Open
  <2>6. CASE Fill(r)
    <3>1. CASE r \in detached /\ UNCHANGED <<acl, marred>>
      BY <2>6, <3>1 DEF Fill, Complete, TornOnlyWhileWritten
    <3>2. CASE /\ r \notin detached
               /\ acl' = [acl EXCEPT ![Dest(r)] = Holding(set[r])]
               /\ marred' = IF r \in mixed THEN marred ELSE marred \ {Dest(r)}
      <4>1. p # Dest(r)
        BY <3>2 DEF Holding
      <4>2. acl'[p] = acl[p] /\ p \notin marred
        BY <3>2, <4>1
      <4>3. PICK s \in Requests : Writes(s, p)
        BY <4>2 DEF TornOnlyWhileWritten
      <4> QED
        BY <2>6, <4>1, <4>3 DEF Fill, Complete
    <3>3. CASE /\ r \in mixed \ detached
               /\ acl' = [acl EXCEPT ![Dest(r)] = Torn]
               /\ marred' = marred \cup {Dest(r)}
      BY <2>6, <3>3 DEF Fill, Complete, TornOnlyWhileWritten
    <3> QED
      BY <2>6, <3>1, <3>2, <3>3 DEF Fill, Complete
  <2>7. CASE BreakOff(r)
    BY <2>7 DEF BreakOff, TornOnlyWhileWritten
  <2>8. CASE Drop(r)
    <3>1. p # Dest(r)
      BY <2>8 DEF Drop, Absent
    <3>2. acl'[p] = acl[p] /\ p \notin marred
      BY <2>8, <3>1 DEF Drop
    <3>3. PICK s \in Requests : Writes(s, p)
      BY <3>2 DEF TornOnlyWhileWritten
    <3> QED
      BY <2>8, <3>1, <3>3 DEF Drop
  <2>9. CASE WritePart(r)
    <3>1. CASE Writes(r, p)
      BY <2>9, <3>1 DEF WritePart
    <3>2. CASE ~Writes(r, p)
      BY <2>9, <3>2 DEF WritePart, TornOnlyWhileWritten
    <3> QED
      BY <3>1, <3>2
  <2> QED
    BY <1>3, <2>1, <2>2, <2>3, <2>4, <2>5, <2>6, <2>7, <2>8, <2>9 DEF Serve
<1> QED
  BY <1>1, <1>2, <1>3 DEF Next

\* An ACL that does not parse is being written, or somebody was cut off or came
\* in between: what the writers of ACLs leave behind is whole.
THEOREM AclsAreWhole == Spec => []TornOnlyWhileWritten
<1>1. Init => TypeOK /\ TornOnlyWhileWritten
  BY InitTypes, StartsAssumption DEF Init, TornOnlyWhileWritten
<1>2. TypeOK /\ TornOnlyWhileWritten /\ [Next]_vars
        => (TypeOK /\ TornOnlyWhileWritten)'
  BY NextTypes, NextTorn
<1> QED
  BY <1>1, <1>2, PTL DEF Spec

-----------------------------------------------------------------------------
(***************************************************************************)
(* Shares of containers.                                                   *)
(***************************************************************************)
\* What a share of a container has in hand is the ACL it read, changed.
ShareInv ==
  \A r \in Requests :
    /\ pc[r] \in {"open", "write"}
    /\ ask[r].kind \in Shares
    /\ ask[r].on \in Containers
    /\ at[r] = 1
    => /\ base[r].kind = "policy"
       /\ set[r] = Changed(SharingSet(base[r].policy, ask[r].user, ask[r].on),
                           ask[r])

LEMMA NextShare == TypeOK /\ ShareInv /\ [Next]_vars => ShareInv'
<1> SUFFICES ASSUME TypeOK, ShareInv, [Next]_vars, NEW s \in Requests,
                    pc'[s] \in {"open", "write"},
                    ask'[s].kind \in Shares, ask'[s].on \in Containers,
                    at'[s] = 1
             PROVE  /\ base'[s].kind = "policy"
                    /\ set'[s] = Changed(SharingSet(base'[s].policy,
                                         ask'[s].user, ask'[s].on), ask'[s])
  BY DEF ShareInv
<1> USE DEF Goto, End, files, TypeOK
<1>1. CASE UNCHANGED vars
  BY <1>1 DEF vars, ShareInv
<1>2. CASE Crash
  BY <1>2 DEF Crash, ShareInv
<1>3. ASSUME NEW r \in Requests, Receive(r) \/ Serve(r) \/ WritePart(r)
      PROVE  /\ base'[s].kind = "policy"
             /\ set'[s] = Changed(SharingSet(base'[s].policy,
                                  ask'[s].user, ask'[s].on), ask'[s])
  <2>1. CASE Receive(r)
    BY <2>1 DEF Receive, ShareInv
  <2>2. CASE NextAcl(r)
    BY <2>2 DEF NextAcl, ShareInv
  <2>3. CASE Refuse(r)
    BY <2>3 DEF Refuse, ShareInv
  <2>4. CASE Allow(r)
    <3>1. CASE s # r
      BY <2>4, <3>1 DEF Allow, ShareInv
    <3>2. CASE s = r
      <4>1. ask' = ask /\ at' = at
        BY <2>4 DEF Allow
      <4>2. Place(r) = ask[r].on /\ Dest(r) = ask[r].on /\ ask[r].on \in Resources
        BY <3>2, <4>1, PlacesOf, ChainAssumption DEF Place, Dest, AclUrl
      <4>3. acl[Place(r)].kind = "policy"
        BY <2>4, <4>2 DEF Allow, Permits, Missing, Unusable, Acls
      <4>4. /\ base'[r] = acl[Dest(r)]
            /\ set'[r] = Changed(SharingSet(acl[Place(r)].policy,
                                 ask[r].user, ask[r].on), ask[r])
        BY <2>4, <3>2, <4>1 DEF Allow, Shares
      <4> QED
        BY <3>2, <4>1, <4>2, <4>3, <4>4
    <3> QED
      BY <3>1, <3>2
  <2>5. CASE Open(r)
    BY <2>5 DEF Open, ShareInv
  <2>6. CASE Fill(r)
    BY <2>6 DEF Fill, Complete, ShareInv
  <2>7. CASE BreakOff(r)
    BY <2>7 DEF BreakOff, ShareInv
  <2>8. CASE Drop(r)
    BY <2>8 DEF Drop, ShareInv
  <2>9. CASE WritePart(r)
    BY <2>9 DEF WritePart, ShareInv
  <2> QED
    BY <1>3, <2>1, <2>2, <2>3, <2>4, <2>5, <2>6, <2>7, <2>8, <2>9 DEF Serve
<1> QED
  BY <1>1, <1>2, <1>3 DEF Next

\* A share whose ACL nobody else wrote ends with the ACL holding what it had.
LEMMA ShareWrites ==
  ASSUME TypeOK, Next, NEW r \in Requests,
         pc[r] = "write", pc'[r] = "done", r \notin mixed \cup detached
  PROVE  acl' = [acl EXCEPT ![Dest(r)] = Holding(set[r])]
<1> USE DEF Goto, End, TypeOK
<1>1. ~Crash
  BY DEF Crash, Live, LivePcs
<1>2. PICK s \in Requests : Receive(s) \/ Serve(s) \/ WritePart(s)
  BY <1>1 DEF Next
<1>3. s = r
  BY <1>2 DEF Receive, Serve, WritePart, NextAcl, Refuse, Allow, Open, Fill,
              Complete, BreakOff, Drop
<1>4. Fill(r)
  BY <1>2, <1>3 DEF Receive, Serve, WritePart, NextAcl, Refuse, Allow, Open,
                    BreakOff, Drop
<1> QED
  BY <1>4 DEF Fill, Complete

\* Changing the permission of one agent leaves what the others are allowed.
LEMMA OthersKeepTheirs ==
  ASSUME NEW policy \in Policies, NEW r \in Requests, NEW a \in Asks[r],
         NEW u \in Agents \ {a.agent}, NEW p \in Resources, NEW l \in 1..Manage
  PROVE  Allows(Changed(policy, a), u, p, l) <=> Allows(policy, u, p, l)
<1>1. a.agent \in Agents
  BY AsksAssumption
<1>2. Changed(policy, a)[u] = policy[u]
  BY <1>1 DEF Changed, WithMode, WithoutPermission, Policies
<1> QED
  BY <1>2 DEF Allows

\* What the added agent and the removed one have on the resource itself.
LEMMA AgentGetsIts ==
  ASSUME NEW policy \in Policies, NEW r \in Requests, NEW a \in Asks[r]
  PROVE  /\ a.kind = "add" => Changed(policy, a)[a.agent].here[a.on] >= a.level
         /\ a.kind = "remove" => Changed(policy, a)[a.agent].here[a.on] = 0
<1>1. a.agent \in Agents /\ a.on \in Resources /\ a.level \in 1..Manage
  BY AsksAssumption
<1>2. policy[a.agent].here \in [Resources -> Levels]
  BY <1>1 DEF Policies
<1>3. \A x \in Levels : Greater(x, a.level) >= a.level
  BY <1>1 DEF Greater, Levels, Manage
<1>4. WithMode(policy, a.agent, a.on, a.level)[a.agent].here[a.on]
        = Greater(policy[a.agent].here[a.on], a.level)
  BY <1>1, <1>2 DEF WithMode, Policies
<1>5. WithoutPermission(policy, a.agent, a.on)[a.agent].here[a.on] = 0
  BY <1>1, <1>2 DEF WithoutPermission, Policies
<1> QED
  BY <1>1, <1>2, <1>3, <1>4, <1>5 DEF Changed

\* Two trees that differ in one ACL grant an agent the same, when either holds a
\* policy there and the two policies allow the agent the same.
LEMMA SamePolicySameGrants ==
  ASSUME TypeOK, NEW d \in Resources, NEW one \in Acls, NEW two \in Acls,
         one.kind = "policy", two.kind = "policy",
         NEW u \in Agents, NEW p \in Resources, NEW l \in 1..Manage,
         Allows(one.policy, u, p, l) <=> Allows(two.policy, u, p, l)
  PROVE  Grants([acl EXCEPT ![d] = one], u, p, l)
           <=> Grants([acl EXCEPT ![d] = two], u, p, l)
<1> DEFINE left == [acl EXCEPT ![d] = one]
           right == [acl EXCEPT ![d] = two]
<1>1. \A i \in 1..Len(Chain[p]) : Chain[p][i] \in Resources
  BY ChainAssumption
<1>2. \A q \in Resources :
        /\ left[q].kind = right[q].kind
        /\ Allows(left[q].policy, u, p, l) <=> Allows(right[q].policy, u, p, l)
  <2> TAKE q \in Resources
  <2>1. CASE q = d
    BY <2>1 DEF TypeOK
  <2>2. CASE q # d
    BY <2>2 DEF TypeOK
  <2> QED
    BY <2>1, <2>2
<1> HIDE DEF left, right
<1>3. Grants(left, u, p, l) <=> Grants(right, u, p, l)
  <2>1. Len(Chain[p]) \in Nat
    OBVIOUS
  <2>2. \A i \in 1..Len(Chain[p]) : \A j \in 1..(i - 1) : Chain[p][j] \in Resources
    BY <1>1, <2>1
  <2>3. \A i \in 1..Len(Chain[p]) :
          /\ (\A j \in 1..(i - 1) : left[Chain[p][j]].kind = "absent")
               <=> (\A j \in 1..(i - 1) : right[Chain[p][j]].kind = "absent")
          /\ left[Chain[p][i]].kind = right[Chain[p][i]].kind
          /\ Allows(left[Chain[p][i]].policy, u, p, l)
               <=> Allows(right[Chain[p][i]].policy, u, p, l)
    BY <1>1, <1>2, <2>2
  <2> QED
    BY <2>3, Zenon DEF Grants
<1> QED
  BY <1>3 DEF left, right

\* An undisturbed share of a container with a list of its own changes the rights
\* of its agent and of nobody else: handlePost() of share-request.js.
THEOREM SharesTouchOneAgent == Spec => ContainerSharesAreExact
<1>1. Init => TypeOK /\ ShareInv
  BY InitTypes DEF Init, ShareInv
<1>2. TypeOK /\ ShareInv /\ [Next]_vars => (TypeOK /\ ShareInv)'
  BY NextTypes, NextShare
<1>3. ASSUME TypeOK, ShareInv, Next, NEW r \in Requests,
             pc[r] = "write", pc'[r] = "done", Regular(r)
      PROVE  LET a == ask[r]
                 before == [acl EXCEPT ![Dest(r)] = base[r]]
             IN /\ \A u \in Agents \ {a.agent}, p \in Resources, l \in 1..Manage :
                     Grants(acl', u, p, l) <=> Grants(before, u, p, l)
                /\ a.kind = "add" => Grants(acl', a.agent, a.on, a.level)
                /\ a.kind = "remove" =>
                     acl'[a.on].policy[a.agent].here[a.on] = 0
  <2> DEFINE a == ask[r]
  <2>1. /\ a \in Asks[r] /\ a.on \in Resources /\ Dest(r) = a.on
        /\ a.on \in Containers
    BY <1>3, PlacesOf DEF TypeOK, Regular, Dest, AclUrl
  <2>2. /\ base[r] \in Acls /\ base[r].kind = "policy"
        /\ base[r].policy \in Policies
        /\ set[r] = Changed(base[r].policy, a)
    BY <1>3 DEF ShareInv, Regular, SharingSet, TypeOK, Acls
  <2>3. Holding(set[r]) \in Acls /\ set[r] \in Policies
    BY <1>3, AclTypesOf DEF TypeOK
  <2>4. acl' = [acl EXCEPT ![a.on] = Holding(set[r])]
    BY <1>3, <2>1, ShareWrites DEF Regular
  <2>5. Holding(set[r]).kind = "policy" /\ Holding(set[r]).policy = set[r]
    BY DEF Holding
  <2>6. ASSUME NEW u \in Agents \ {a.agent}, NEW p \in Resources,
               NEW l \in 1..Manage
        PROVE  Grants(acl', u, p, l)
                 <=> Grants([acl EXCEPT ![Dest(r)] = base[r]], u, p, l)
    <3>1. Allows(Holding(set[r]).policy, u, p, l)
            <=> Allows(base[r].policy, u, p, l)
      BY <2>1, <2>2, <2>5, OthersKeepTheirs
    <3> QED
      BY <1>3, <2>1, <2>2, <2>3, <2>4, <2>5, <3>1, SamePolicySameGrants
  <2>7. a.kind = "add" => Grants(acl', a.agent, a.on, a.level)
    <3> SUFFICES ASSUME a.kind = "add" PROVE Grants(acl', a.agent, a.on, a.level)
      OBVIOUS
    <3>1. Allows(set[r], a.agent, a.on, a.level)
      BY <2>1, <2>2, AgentGetsIts DEF Allows
    <3>2. Chain[a.on][1] = a.on /\ 1 \in 1..Len(Chain[a.on])
      BY <2>1, ChainAssumption
    <3>3. acl'[a.on] = Holding(set[r])
      BY <1>3, <2>1, <2>4 DEF TypeOK
    <3> QED
      BY <2>5, <3>1, <3>2, <3>3 DEF Grants
  <2>8. a.kind = "remove" => acl'[a.on].policy[a.agent].here[a.on] = 0
    <3>1. acl'[a.on] = Holding(set[r])
      BY <1>3, <2>1, <2>4 DEF TypeOK
    <3> QED
      BY <2>1, <2>2, <2>5, <3>1, AgentGetsIts
  <2> QED
    BY <2>6, <2>7, <2>8
<1>4. TypeOK /\ ShareInv /\ [Next]_vars =>
        [\A r \in Requests :
           pc[r] = "write" /\ pc'[r] = "done" /\ Regular(r) =>
             LET a == ask[r]
                 before == [acl EXCEPT ![Dest(r)] = base[r]]
             IN /\ \A u \in Agents \ {a.agent}, p \in Resources, l \in 1..Manage :
                     Grants(acl', u, p, l) <=> Grants(before, u, p, l)
                /\ a.kind = "add" => Grants(acl', a.agent, a.on, a.level)
                /\ a.kind = "remove" =>
                     acl'[a.on].policy[a.agent].here[a.on] = 0]_vars
  BY <1>3
<1> QED
  BY <1>1, <1>2, <1>4, PTL DEF Spec, ContainerSharesAreExact
=============================================================================
