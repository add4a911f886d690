--------------------------- MODULE MCAccessControl ----------------------------
(***************************************************************************)
(* A root with a container in it and a file in that.  The owner manages    *)
(* everything by the root's ACL, or by one of the container that also      *)
(* lists a friend, and shares; the friend reads; somebody puts and deletes *)
(* ACLs.  A behaviour is one of such requests, or one of lookups, in which *)
(* the ACLs that a URL leads to come and go.                               *)
(***************************************************************************)
EXTENDS AccessControl, LdpTarget

CONSTANTS r1, r2, r3, root, box, file, owner, friend

Name(stem, ext) == [stem |-> stem, ext |-> ext]

MCStems == {"", "box", "file"}

\* The empty name, plain ones, `.acl`, and names that end in a suffix.
MCNames == {NoName, Name("box", <<>>), Name("file", <<>>), Name("", <<".acl">>),
            Name("box", <<".acl">>), Name("file", <<".meta">>)}

MCPaths == {path \in UNION {[1..n -> MCNames] : n \in 1..3} :
              Len(path) > 1 => path[1] # NoName}

MCUrls == {[host |-> h, path |-> p] : h \in {"alice"}, p \in MCPaths}
            \cup {[host |-> "bob", path |-> p] : p \in {q \in MCPaths : Len(q) < 3}}

UrlOf(p) ==
  [host |-> "alice",
   path |-> CASE p = root -> <<NoName>>
              [] p = box -> <<Name("box", <<>>), NoName>>
              [] p = file -> <<Name("box", <<>>), Name("file", <<>>)>>]

Chains ==
  [p \in Resources |-> CASE p = file -> <<file, box, root>>
                         [] p = box -> <<box, root>>
                         [] p = root -> <<root>>]

\* These are the resources whose ACLs getPossibleACLs() lists.
ASSUME ChainsAreWalks ==
  \A p \in Resources :
    PossibleAcls(UrlOf(p)) =
      [i \in 1..Len(Chain[p]) |-> PossibleAcls(UrlOf(Chain[p][i]))[1]]

\* The owner's, the root of an account.
RootPolicy == [Nobody EXCEPT ![owner].here[root] = Manage,
                             ![owner].below[root] = Manage]

\* A container with an ACL of its own that the friend may edit.
BoxPolicy == [Nobody EXCEPT ![owner].here[box] = Manage,
                            ![owner].below[box] = Manage,
                            ![friend].here[box] = Edit]

OnlyRoot == [p \in Resources |-> IF p = root THEN Holding(RootPolicy) ELSE Absent]

WithBox == [OnlyRoot EXCEPT ![box] = Holding(BoxPolicy)]

MCStarts == {OnlyRoot, WithBox}

AskOf(kind, user, on, level, agent, policy) ==
  [kind |-> kind, user |-> user, on |-> on, level |-> level, agent |-> agent,
   policy |-> policy]

Accesses == {AskOf("access", friend, p, View, friend, Nobody) : p \in {box, file}}
            \cup {AskOf("access", owner, file, Manage, owner, Nobody)}

Sharings == {AskOf("add", owner, p, View, friend, Nobody) : p \in {box, file}}
            \cup {AskOf("remove", owner, box, View, friend, Nobody),
                  AskOf("show", friend, box, View, friend, Nobody)}

AclChanges == {AskOf("put", owner, p, Manage, owner, BoxPolicy) : p \in {box, file}}
              \cup {AskOf("drop", owner, box, Manage, owner, Nobody),
                    AskOf("add", owner, box, Edit, owner, Nobody)}

MCAsks == [r \in Requests |-> CASE r = r1 -> Accesses
                                [] r = r2 -> Sharings
                                [] r = r3 -> AclChanges]

Requesting == Init /\ asked = {} /\ there = {}

LookingUp ==
  /\ LookupInit
  /\ Init
  /\ acl = OnlyRoot
  /\ ask = [r \in Requests |-> CHOOSE a \in Asks[r] : TRUE]

MCNext ==
  \/ asked = {} /\ Next /\ UNCHANGED <<asked, there>>
  \/ asked # {} /\ LookupNext /\ UNCHANGED vars

MCSpec ==
  /\ Requesting \/ LookingUp
  /\ [][MCNext]_<<vars, asked, there>>
  /\ Fairness
=============================================================================
