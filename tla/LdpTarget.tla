------------------------------ MODULE LdpTarget ------------------------------
(***************************************************************************)
(* What a URL stands for: the target of a request (ldp-target.js), the     *)
(* file it is kept in (resource-mapper.js) and the ACLs that may govern it *)
(* (ldp-wac.js).  Three pieces of code take URLs apart, each in its own    *)
(* way, and the authorization of every request rests on their agreement.   *)
(*                                                                         *)
(* A URL is a host and the names between the slashes of its path; the last *)
(* name is empty if the path ends in a slash.  A name is a stem and its    *)
(* suffixes, as far as those matter here.  Queries, encoded characters and *)
(* dot segments are left out.                                              *)
(***************************************************************************)
EXTENDS Integers, Sequences

CONSTANTS
  Hosts,       \* the server, and in a multi-user server the accounts
  Stems,       \* names without `.acl` and `.meta` at their end
  Urls,        \* what requests name
  IncludeHost  \* a multi-user server: every host has a directory of its own

Names == [stem : Stems, ext : Seq({".acl", ".meta"})]

NoName == [stem |-> "", ext |-> <<>>]

ASSUME TargetAssumption ==
  /\ "" \in Stems
  /\ IncludeHost \in BOOLEAN
  /\ Urls \subseteq [host : Hosts, path : Seq(Names) \ {<<>>}]

VARIABLES
  asked,  \* the URLs of one file: those that requests name it by
  there   \* the files of ACLs

-----------------------------------------------------------------------------
(***************************************************************************)
(* Targets.                                                                *)
(***************************************************************************)
Final(url) == url.path[Len(url.path)]

IsContainer(url) == Final(url) = NoName

IsRoot(url) == IsContainer(url) /\ Len(url.path) = 1

EndsWith(url, suffix) ==
  LET ext == Final(url).ext IN ext # <<>> /\ ext[Len(ext)] = suffix

\* The first k names of the path, and this one.
Upto(url, k, name) ==
  [host |-> url.host, path |-> Append(SubSeq(url.path, 1, k), name)]

\* new URL(name, url): a name takes the place of what follows the last slash.
Relative(url, name) == Upto(url, Len(url.path) - 1, name)

\* The names `.acl` and `.meta`.
Bare(suffix) == [stem |-> "", ext |-> <<suffix>>]

Target(url) ==
  [url |-> url, isAcl |-> EndsWith(url, ".acl"), isMeta |-> EndsWith(url, ".meta")]

\* stat() finds a directory: the URL changes, what was read off it does not.
EnsureTrailingSlash(target) ==
  IF IsContainer(target.url) THEN target
  ELSE [target EXCEPT !.url = Upto(@, Len(@.path), NoName)]

\* Mutant: the wrong flag is looked at.
MetaIsAcl(target) ==
  IF target.isMeta THEN target.url ELSE Relative(target.url, Bare(".acl"))

AclOf(target) ==
  IF target.isAcl THEN target.url ELSE Relative(target.url, Bare(".acl"))

\* Mutant: `..` for files too.
GrandParent(url) == Upto(url, Len(url.path) - 2, NoName)

\* new URL('.', url) of a file, new URL('..', url) of a container but the root,
\* which has none.
Parent(url) ==
  IF IsContainer(url) THEN Upto(url, Len(url.path) - 2, NoName)
  ELSE Relative(url, NoName)

-----------------------------------------------------------------------------
(***************************************************************************)
(* The file, and the ACLs.                                                 *)
(***************************************************************************)
\* path.normalize: slashes in a row are one, so that empty names vanish.
Normalized(path) ==
  LET first[k \in 0..Len(path)] ==
        IF k = 0 THEN <<>>
        ELSE IF path[k] = NoName THEN first[k - 1]
        ELSE Append(first[k - 1], path[k])
  IN  first[Len(path)]

\* Mutant: the slash at the end is lost.
SlashlessPath(url) ==
  [dir |-> IF IncludeHost THEN url.host ELSE "",
   names |-> Normalized(url.path),
   slash |-> FALSE]

\* A slash at the end stays.
FullPath(url) ==
  [dir |-> IF IncludeHost THEN url.host ELSE "",
   names |-> Normalized(url.path),
   slash |-> IsContainer(url)]

\* Mutant: the ACL of an ACL is looked for.
AlwaysOwnAcl(url) ==
  Relative(url, [Final(url) EXCEPT !.ext = Append(@, ".acl")])

OwnAcl(url) ==
  IF EndsWith(url, ".acl") THEN url
  ELSE Relative(url, [Final(url) EXCEPT !.ext = Append(@, ".acl")])

\* The ACLs behind each slash of the path, from the last one to the first.
AclsAbove(url) ==
  LET n == Len(url.path) IN [k \in 1..n |-> Upto(url, n - k, Bare(".acl"))]

PossibleAcls(url) ==
  IF IsContainer(url) THEN AclsAbove(url)
  ELSE <<OwnAcl(url)>> \o AclsAbove(url)

\* The loop of getNearestACL(): the file of the first of these ACLs that is
\* there, if any is.
FirstOf(walk, files) ==
  {FullPath(walk[i]) : i \in {j \in 1..Len(walk) :
     /\ FullPath(walk[j]) \in files
     /\ \A h \in 1..(j - 1) : FullPath(walk[h]) \notin files}}

NearestAcl(url) == FirstOf(PossibleAcls(url), there)

-----------------------------------------------------------------------------
(***************************************************************************)
(* ACLs come and go while a file is asked for.                             *)
(***************************************************************************)
Consulted(url) ==
  {FullPath(PossibleAcls(url)[i]) : i \in 1..Len(PossibleAcls(url))}

Spellings(file) == {url \in Urls : FullPath(url) = file}

LookupInit ==
  \E url \in Urls :
    /\ asked = Spellings(FullPath(url))
    /\ there = {FullPath(Upto(url, 0, Bare(".acl")))}

\* An ACL of what is asked for, as a file or as a directory.
WriteAcl ==
  \E url \in asked : \E target \in {Target(url), EnsureTrailingSlash(Target(url))} :
    \E file \in Consulted(target.url) \ there :
      /\ there' = there \cup {file}
      /\ UNCHANGED asked

DeleteAcl ==
  \E file \in there :
    /\ there' = there \ {file}
    /\ UNCHANGED asked

LookupNext == WriteAcl \/ DeleteAcl

Lookups == LookupInit /\ [][LookupNext]_<<asked, there>>

-----------------------------------------------------------------------------
(***************************************************************************)
(* Properties.                                                             *)
(***************************************************************************)
\* Permissions are inherited along the containers: a resource whose own ACL is not
\* there is governed as its parent is.  The walk of ldp-wac.js counts slashes, the
\* parent of ldp-target.js resolves `..`.
AclsAreInherited ==
  \A url \in asked :
    LET own == FullPath(PossibleAcls(url)[1]) IN
    NearestAcl(url) = IF own \in there THEN {own}
                      ELSE IF IsRoot(url) THEN {} ELSE NearestAcl(Parent(url))

\* Whoever may change a resource's ACL is told by the ACLs that govern the
\* resource: its own if it is there, else the ones it inherits.
AclsGovernThemselves ==
  \A url \in asked : NearestAcl(PossibleAcls(url)[1]) = NearestAcl(url)

\* All spellings of one file, which differ in the empty names they contain, are
\* governed by the same ACL.
OneFileOneAcl ==
  \A u, v \in asked : NearestAcl(u) = NearestAcl(v)

\* The ACL a response links to, and sharing writes, will govern the resource once
\* it is there, unless one of the resource's own does.  It will not for a container
\* whose name ends in `.acl` when it is asked for without a slash: that is taken
\* for an ACL before stat() tells.
LinkedAclCounts ==
  \A url \in asked, isDirectory \in BOOLEAN :
    LET target == IF isDirectory THEN EnsureTrailingSlash(Target(url))
                  ELSE Target(url)
        link == FullPath(AclOf(target))
        nearest == FirstOf(PossibleAcls(target.url), there \cup {link})
    IN
    \/ isDirectory /\ target.isAcl
    \/ nearest = {link}
    \/ ~IsContainer(target.url) /\ nearest = {FullPath(OwnAcl(target.url))}
=============================================================================
