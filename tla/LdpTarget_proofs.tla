-------------------------- MODULE LdpTarget_proofs ---------------------------
(***************************************************************************)
(* The three readings of a URL agree, for every set of URLs: the list that *)
(* ldp-wac.js makes by counting slashes is the climb along the parents of  *)
(* ldp-target.js, and contains the ACL a target links to.                  *)
(***************************************************************************)
EXTENDS LdpTarget, WellFoundedInduction, TLAPS

AnyUrl == [host : Hosts, path : Seq(Names) \ {<<>>}]

LEMMA UrlFacts ==
  ASSUME NEW url \in AnyUrl
  PROVE  /\ url.path \in Seq(Names)
         /\ Len(url.path) \in Nat /\ Len(url.path) >= 1
         /\ Final(url) \in Names
         /\ url = [host |-> url.host, path |-> url.path]
<1>1. url.path \in Seq(Names) /\ url.path # <<>>
  BY DEF AnyUrl
<1>2. Len(url.path) \in Nat /\ Len(url.path) >= 1
  BY <1>1
<1>3. url.path[Len(url.path)] \in Names
  BY <1>1, <1>2
<1>4. url = [host |-> url.host, path |-> url.path]
  BY DEF AnyUrl
<1>5. QED BY <1>1, <1>2, <1>3, <1>4 DEF Final

\* What a prefix of a URL and a name make.
LEMMA UptoFacts ==
  ASSUME NEW url \in AnyUrl, NEW k \in 0..Len(url.path), NEW name \in Names
  PROVE  /\ Upto(url, k, name) \in AnyUrl
         /\ Len(Upto(url, k, name).path) = k + 1
         /\ Final(Upto(url, k, name)) = name
         /\ \A j \in 0..k : \A other :
              Upto(Upto(url, k, name), j, other) = Upto(url, j, other)
<1> DEFINE p == url.path
           q == Append(SubSeq(p, 1, k), name)
<1>1. p \in Seq(Names) /\ Len(p) \in Nat
  BY UrlFacts
<1>2. SubSeq(p, 1, k) \in Seq(Names) /\ Len(SubSeq(p, 1, k)) = k
  BY <1>1
<1>3. q \in Seq(Names) /\ Len(q) = k + 1 /\ q[k + 1] = name /\ q # <<>>
  BY <1>2
<1>4. \A i \in 1..k : q[i] = p[i]
  BY <1>1, <1>2
<1>5. ASSUME NEW j \in 0..k
      PROVE  SubSeq(q, 1, j) = SubSeq(p, 1, j)
  BY <1>1, <1>3, <1>4
<1>6. Upto(url, k, name) = [host |-> url.host, path |-> q]
  BY DEF Upto
<1>7. url.host \in Hosts
  BY DEF AnyUrl
<1>8. [host |-> url.host, path |-> q] \in AnyUrl
  BY <1>3, <1>7 DEF AnyUrl
<1>9. \A j \in 0..k : \A other :
        Upto([host |-> url.host, path |-> q], j, other) = Upto(url, j, other)
  BY <1>5 DEF Upto
<1>10. [host |-> url.host, path |-> q].path = q
  OBVIOUS
<1>11. /\ Upto(url, k, name) \in AnyUrl
       /\ Upto(url, k, name).path = q
       /\ \A j \in 0..k : \A other :
            Upto(Upto(url, k, name), j, other) = Upto(url, j, other)
  <2> HIDE DEF q
  <2>1. QED BY <1>6, <1>8, <1>9, <1>10, Zenon
<1>12. Final(Upto(url, k, name)) = name
  <2> HIDE DEF q
  <2>1. QED BY <1>3, <1>11 DEF Final
<1> HIDE DEF q
<1>13. QED BY <1>3, <1>11, <1>12

LEMMA NameFacts ==
  /\ NoName \in Names
  /\ Bare(".acl") \in Names /\ Bare(".acl") # NoName
  /\ Bare(".acl").ext # <<>>
  /\ Bare(".acl").ext[Len(Bare(".acl").ext)] = ".acl"
<1>1. "" \in Stems
  BY TargetAssumption
<1>2. <<>> \in Seq({".acl", ".meta"}) /\ <<".acl">> \in Seq({".acl", ".meta"})
  OBVIOUS
<1>3. NoName \in Names
  BY <1>1, <1>2, Zenon DEF NoName, Names
<1>4. Bare(".acl") \in Names
  BY <1>1, <1>2, Zenon DEF Bare, Names
<1>5. Bare(".acl").ext = <<".acl">> /\ NoName.ext = <<>>
  BY DEF Bare, NoName
<1>6. <<".acl">> # <<>> /\ <<".acl">>[Len(<<".acl">>)] = ".acl"
  OBVIOUS
<1>7. Bare(".acl") # NoName
  BY <1>5, <1>6, Zenon
<1>8. QED BY <1>3, <1>4, <1>5, <1>6, <1>7, Zenon

LEMMA ExtendedName ==
  ASSUME NEW name \in Names
  PROVE  LET longer == [name EXCEPT !.ext = Append(@, ".acl")] IN
         /\ longer \in Names /\ longer # NoName
         /\ longer.ext # <<>> /\ longer.ext[Len(longer.ext)] = ".acl"
<1>1. name.ext \in Seq({".acl", ".meta"}) /\ name.stem \in Stems
  BY DEF Names
<1>2. /\ Append(name.ext, ".acl") \in Seq({".acl", ".meta"})
      /\ Append(name.ext, ".acl") # <<>>
      /\ Append(name.ext, ".acl")[Len(Append(name.ext, ".acl"))] = ".acl"
  BY <1>1
<1>3. [name EXCEPT !.ext = Append(@, ".acl")]
        = [stem |-> name.stem, ext |-> Append(name.ext, ".acl")]
  BY DEF Names
<1>4. QED BY <1>1, <1>2, <1>3 DEF Names, NoName

-----------------------------------------------------------------------------
(***************************************************************************)
(* The list of ACLs.                                                       *)
(***************************************************************************)
LEMMA AboveFacts ==
  ASSUME NEW url \in AnyUrl
  PROVE  /\ AclsAbove(url) \in Seq(AnyUrl)
         /\ Len(AclsAbove(url)) = Len(url.path)
         /\ \A k \in 1..Len(url.path) :
              AclsAbove(url)[k] = Upto(url, Len(url.path) - k, Bare(".acl"))
<1>1. \A k \in 1..Len(url.path) :
        Upto(url, Len(url.path) - k, Bare(".acl")) \in AnyUrl
  <2>1. SUFFICES ASSUME NEW k \in 1..Len(url.path)
                 PROVE  Upto(url, Len(url.path) - k, Bare(".acl")) \in AnyUrl
    OBVIOUS
  <2>2. Len(url.path) - k \in 0..Len(url.path)
    BY UrlFacts
  <2>3. Bare(".acl") \in Names
    BY NameFacts
  <2>4. QED BY <2>2, <2>3, UptoFacts
<1>2. QED BY <1>1, UrlFacts DEF AclsAbove

\* URLs that agree but for what follows their last slash.
LEMMA SameAbove ==
  ASSUME NEW url \in AnyUrl, NEW name \in Names
  PROVE  AclsAbove(Relative(url, name)) = AclsAbove(url)
<1> DEFINE n == Len(url.path)
           v == Relative(url, name)
<1>1. n \in Nat /\ n >= 1 /\ n - 1 \in 0..n
  BY UrlFacts
<1>2. /\ v \in AnyUrl /\ Len(v.path) = n
      /\ \A j \in 0..(n - 1) : \A other : Upto(v, j, other) = Upto(url, j, other)
  BY <1>1, UptoFacts DEF Relative
<1>3. \A k \in 1..n : n - k \in 0..(n - 1)
  BY <1>1
<1>4. \A k \in 1..n :
        Upto(v, n - k, Bare(".acl")) = Upto(url, n - k, Bare(".acl"))
  BY <1>2, <1>3
<1>5. /\ AclsAbove(v) = [k \in 1..n |-> Upto(v, n - k, Bare(".acl"))]
      /\ AclsAbove(url) = [k \in 1..n |-> Upto(url, n - k, Bare(".acl"))]
  <2> HIDE DEF v
  <2>1. QED BY <1>2, Zenon DEF AclsAbove
<1> HIDE DEF v
<1>6. AclsAbove(v) = AclsAbove(url)
  BY <1>4, <1>5
<1>7. QED BY <1>6 DEF v

LEMMA WalkFacts ==
  ASSUME NEW url \in AnyUrl
  PROVE  /\ OwnAcl(url) \in AnyUrl
         /\ PossibleAcls(url) \in Seq(AnyUrl)
         /\ Len(PossibleAcls(url)) >= 1
         /\ PossibleAcls(url)[1] =
              IF IsContainer(url) THEN Relative(url, Bare(".acl"))
              ELSE OwnAcl(url)
<1>1. OwnAcl(url) \in AnyUrl
  <2>1. Len(url.path) - 1 \in 0..Len(url.path) /\ Final(url) \in Names
    BY UrlFacts
  <2>2. [Final(url) EXCEPT !.ext = Append(@, ".acl")] \in Names
    BY <2>1, ExtendedName
  <2>3. Relative(url, [Final(url) EXCEPT !.ext = Append(@, ".acl")]) \in AnyUrl
    BY <2>1, <2>2, UptoFacts DEF Relative
  <2>4. QED BY <2>3 DEF OwnAcl
<1>2. Len(url.path) \in Nat /\ Len(url.path) >= 1
  BY UrlFacts
<1>3. AclsAbove(url) \in Seq(AnyUrl) /\ Len(AclsAbove(url)) = Len(url.path)
  BY AboveFacts
<1>4. AclsAbove(url)[1] = Relative(url, Bare(".acl"))
  BY <1>2, AboveFacts DEF Relative
<1>5. CASE IsContainer(url)
  BY <1>1, <1>2, <1>3, <1>4, <1>5 DEF PossibleAcls
<1>6. CASE ~IsContainer(url)
  BY <1>1, <1>2, <1>3, <1>6 DEF PossibleAcls
<1>7. QED BY <1>5, <1>6

\* What the loop finds in a list depends on its head, and then on its tail.
LEMMA FirstOfHead ==
  ASSUME NEW a \in AnyUrl, NEW rest \in Seq(AnyUrl), NEW files
  PROVE  /\ FullPath(a) \in files
              => FirstOf(<<a>> \o rest, files) = {FullPath(a)}
         /\ FullPath(a) \notin files
              => FirstOf(<<a>> \o rest, files) = FirstOf(rest, files)
<1> DEFINE walk == <<a>> \o rest
           Hit(w, j) == /\ FullPath(w[j]) \in files
                        /\ \A h \in 1..(j - 1) : FullPath(w[h]) \notin files
<1>1. /\ Len(rest) \in Nat /\ Len(walk) = Len(rest) + 1
      /\ walk[1] = a
      /\ \A i \in 1..Len(rest) : walk[i + 1] = rest[i]
  BY DEF AnyUrl
<1> HIDE DEF walk
<1>2. CASE FullPath(a) \in files
  <2>1. \A j \in 1..Len(walk) : Hit(walk, j) <=> j = 1
    BY <1>1, <1>2
  <2>2. 1 \in 1..Len(walk)
    BY <1>1
  <2>3. FirstOf(walk, files) = {FullPath(walk[1])}
    BY <2>1, <2>2 DEF FirstOf
  <2>4. QED BY <1>1, <1>2, <2>3 DEF walk
<1>3. CASE FullPath(a) \notin files
  <2>1. ASSUME NEW i \in 1..Len(rest)
        PROVE  Hit(walk, i + 1) <=> Hit(rest, i)
    <3>1. ASSUME Hit(walk, i + 1), NEW h \in 1..(i - 1)
          PROVE  FullPath(rest[h]) \notin files
      <4>1. h + 1 \in 1..i /\ h \in 1..Len(rest)
        BY <1>1
      <4>2. FullPath(walk[h + 1]) \notin files
        BY <3>1, <4>1
      <4>3. QED BY <1>1, <4>1, <4>2
    <3>2. ASSUME Hit(rest, i), NEW h \in 1..i
          PROVE  FullPath(walk[h]) \notin files
      <4>1. CASE h = 1
        BY <1>1, <1>3, <4>1
      <4>2. CASE h # 1
        <5>1. h - 1 \in 1..(i - 1) /\ h - 1 \in 1..Len(rest)
          BY <1>1, <4>2
        <5>2. walk[h] = rest[h - 1]
          BY <1>1, <5>1
        <5>3. QED BY <3>2, <5>1, <5>2
      <4>3. QED BY <4>1, <4>2
    <3>3. QED BY <1>1, <3>1, <3>2
  <2>2. ~Hit(walk, 1)
    BY <1>1, <1>3
  <2> HIDE DEF Hit
  <2>3. ASSUME NEW x
        PROVE  (\E j \in 1..Len(walk) : Hit(walk, j) /\ x = FullPath(walk[j]))
                 <=> (\E i \in 1..Len(rest) : Hit(rest, i) /\ x = FullPath(rest[i]))
    <3>1. ASSUME NEW j \in 1..Len(walk), Hit(walk, j), x = FullPath(walk[j])
          PROVE  \E i \in 1..Len(rest) : Hit(rest, i) /\ x = FullPath(rest[i])
      <4>1. j - 1 \in 1..Len(rest) /\ (j - 1) + 1 = j
        BY <1>1, <2>2, <3>1
      <4>2. QED BY <1>1, <2>1, <3>1, <4>1
    <3>2. ASSUME NEW i \in 1..Len(rest), Hit(rest, i), x = FullPath(rest[i])
          PROVE  \E j \in 1..Len(walk) : Hit(walk, j) /\ x = FullPath(walk[j])
      <4>1. i + 1 \in 1..Len(walk)
        BY <1>1
      <4>2. QED BY <1>1, <2>1, <3>2, <4>1
    <3>3. QED BY <3>1, <3>2
  <2>4. /\ FirstOf(walk, files)
            = {FullPath(walk[i]) : i \in {j \in 1..Len(walk) : Hit(walk, j)}}
        /\ FirstOf(rest, files)
            = {FullPath(rest[i]) : i \in {j \in 1..Len(rest) : Hit(rest, j)}}
    BY Zenon DEF FirstOf, Hit
  <2>5. FirstOf(walk, files) = FirstOf(rest, files)
    <3>1. ASSUME NEW x
          PROVE  x \in FirstOf(walk, files) <=> x \in FirstOf(rest, files)
      BY <2>3, <2>4
    <3>2. QED BY <2>4, <3>1
  <2>6. QED BY <1>3, <2>5 DEF walk
<1>4. QED BY <1>2, <1>3

-----------------------------------------------------------------------------
(***************************************************************************)
(* The walk climbs along the parents.                                      *)
(***************************************************************************)
LEMMA ParentOfFile ==
  ASSUME NEW url \in AnyUrl, ~IsContainer(url)
  PROVE  /\ Parent(url) \in AnyUrl
         /\ PossibleAcls(url) = <<OwnAcl(url)>> \o PossibleAcls(Parent(url))
<1>1. Parent(url) = Relative(url, NoName)
  BY DEF Parent
<1>2. Len(url.path) - 1 \in 0..Len(url.path) /\ NoName \in Names
  BY UrlFacts, NameFacts
<1>3. Relative(url, NoName) \in AnyUrl /\ IsContainer(Relative(url, NoName))
  BY <1>2, UptoFacts DEF Relative, IsContainer
<1>4. AclsAbove(Relative(url, NoName)) = AclsAbove(url)
  BY <1>2, SameAbove
<1>5. QED BY <1>1, <1>3, <1>4 DEF PossibleAcls

LEMMA ParentOfContainer ==
  ASSUME NEW url \in AnyUrl, IsContainer(url), ~IsRoot(url)
  PROVE  /\ Parent(url) \in AnyUrl
         /\ PossibleAcls(url)
              = <<Relative(url, Bare(".acl"))>> \o PossibleAcls(Parent(url))
<1> DEFINE n == Len(url.path)
           up == Upto(url, n - 2, NoName)
           acl == Bare(".acl")
<1>1. n \in Nat /\ n # 1 /\ n >= 2 /\ n - 2 \in 0..n
  <2>1. n \in Nat /\ n >= 1
    BY UrlFacts
  <2>2. n # 1
    BY Zenon DEF IsRoot
  <2> HIDE DEF n
  <2>3. QED BY <2>1, <2>2
<1>2. Parent(url) = up
  BY <1>1, Zenon DEF Parent
<1>3. /\ up \in AnyUrl /\ Len(up.path) = n - 1 /\ Final(up) = NoName
      /\ \A j \in 0..(n - 2) : \A other : Upto(up, j, other) = Upto(url, j, other)
  <2>1. NoName \in Names
    BY NameFacts
  <2>2. (n - 2) + 1 = n - 1
    BY <1>1
  <2>3. Len(up.path) = (n - 2) + 1
    BY <1>1, <2>1, UptoFacts, Zenon
  <2>4. /\ up \in AnyUrl /\ Final(up) = NoName
        /\ \A j \in 0..(n - 2) : \A other : Upto(up, j, other) = Upto(url, j, other)
    BY <1>1, <2>1, UptoFacts, Zenon
  <2>5. QED BY <2>2, <2>3, <2>4, Zenon
<1> HIDE DEF up, acl
<1>4. PossibleAcls(url) = AclsAbove(url) /\ PossibleAcls(up) = AclsAbove(up)
  BY <1>3 DEF PossibleAcls, IsContainer
<1>5. /\ AclsAbove(url) \in Seq(AnyUrl) /\ Len(AclsAbove(url)) = n
      /\ \A k \in 1..n : AclsAbove(url)[k] = Upto(url, n - k, acl)
  BY AboveFacts DEF acl
<1>6. /\ AclsAbove(up) \in Seq(AnyUrl) /\ Len(AclsAbove(up)) = n - 1
      /\ \A k \in 1..(n - 1) : AclsAbove(up)[k] = Upto(up, (n - 1) - k, acl)
  <2>1. /\ AclsAbove(up) \in Seq(AnyUrl)
        /\ Len(AclsAbove(up)) = Len(up.path)
        /\ \A k \in 1..Len(up.path) :
             AclsAbove(up)[k] = Upto(up, Len(up.path) - k, acl)
    BY <1>3, AboveFacts DEF acl
  <2>2. QED BY <1>3, <2>1
<1>7. ASSUME NEW k \in 1..(n - 1)
      PROVE  AclsAbove(url)[k + 1] = AclsAbove(up)[k]
  <2>1. k + 1 \in 1..n /\ (n - 1) - k \in 0..(n - 2) /\ n - (k + 1) = (n - 1) - k
    BY <1>1
  <2>2. AclsAbove(url)[k + 1] = Upto(url, (n - 1) - k, acl)
    BY <1>5, <2>1
  <2>3. AclsAbove(up)[k] = Upto(up, (n - 1) - k, acl)
    BY <1>6
  <2>4. QED BY <1>3, <2>1, <2>2, <2>3
<1>8. AclsAbove(url)[1] = Relative(url, acl)
  BY <1>1, <1>5 DEF Relative
<1>9. AclsAbove(url) = <<Relative(url, acl)>> \o AclsAbove(up)
  <2> DEFINE a == AclsAbove(url)
             b == AclsAbove(up)
             c == Relative(url, acl)
  <2> HIDE DEF a, b, c
  <2>1. /\ a \in Seq(AnyUrl) /\ b \in Seq(AnyUrl) /\ Len(a) = n /\ Len(b) = n - 1
        /\ a[1] = c /\ \A k \in 1..(n - 1) : a[k + 1] = b[k]
    BY <1>5, <1>6, <1>7, <1>8 DEF a, b, c
  <2>2. 1 \in 1..n
    BY <1>1
  <2>3. c \in AnyUrl
    BY <2>1, <2>2
  <2>4. a = <<c>> \o b
    <3>1. \A i \in 1..n : i = 1 \/ (i - 1 \in 1..(n - 1) /\ (i - 1) + 1 = i)
      BY <1>1
    <3>2. \A i \in 1..n : a[i] = (<<c>> \o b)[i]
      BY <1>1, <2>1, <2>3, <3>1
    <3>3. <<c>> \o b \in Seq(AnyUrl) /\ Len(<<c>> \o b) = n
      BY <1>1, <2>1, <2>3
    <3>4. QED BY <2>1, <3>2, <3>3
  <2>5. QED BY <2>4 DEF a, b, c
<1>10. QED BY <1>2, <1>3, <1>4, <1>9 DEF acl

LEMMA OnlyTheRoot ==
  ASSUME NEW url \in AnyUrl, IsRoot(url)
  PROVE  PossibleAcls(url) = <<Relative(url, Bare(".acl"))>> \o <<>>
<1>1. Len(url.path) = 1 /\ PossibleAcls(url) = AclsAbove(url)
  BY DEF IsRoot, PossibleAcls
<1>2. AclsAbove(url) \in Seq(AnyUrl) /\ Len(AclsAbove(url)) = 1
  BY <1>1, AboveFacts
<1>3. AclsAbove(url)[1] = Relative(url, Bare(".acl"))
  BY <1>1, AboveFacts DEF Relative
<1>4. QED BY <1>1, <1>2, <1>3

LEMMA InheritStep ==
  ASSUME NEW url \in AnyUrl, NEW files
  PROVE  LET own == FullPath(PossibleAcls(url)[1]) IN
         FirstOf(PossibleAcls(url), files) =
           IF own \in files THEN {own}
           ELSE IF IsRoot(url) THEN {} ELSE FirstOf(PossibleAcls(Parent(url)), files)
<1>2. url \in AnyUrl
  OBVIOUS
<1>3. CASE IsRoot(url)
  <2> DEFINE a == Relative(url, Bare(".acl"))
  <2>1. IsContainer(url)
    BY <1>3 DEF IsRoot
  <2>2. PossibleAcls(url)[1] = a /\ a \in AnyUrl
    BY <1>2, <2>1, WalkFacts
  <2>3. PossibleAcls(url) = <<a>> \o <<>>
    BY <1>2, <1>3, OnlyTheRoot
  <2> HIDE DEF a
  <2>4. FirstOf(<<a>> \o <<>>, files) =
          IF FullPath(a) \in files THEN {FullPath(a)} ELSE FirstOf(<<>>, files)
    <3>1. <<>> \in Seq(AnyUrl)
      OBVIOUS
    <3>2. QED BY <2>2, <3>1, FirstOfHead, Zenon
  <2>5. FirstOf(<<>>, files) = {}
    BY DEF FirstOf
  <2>6. QED BY <1>3, <2>2, <2>3, <2>4, <2>5
<1>4. CASE ~IsRoot(url)
  <2> DEFINE a == PossibleAcls(url)[1]
             rest == PossibleAcls(Parent(url))
  <2>1. a \in AnyUrl
    BY <1>2, WalkFacts
  <2>2. Parent(url) \in AnyUrl /\ PossibleAcls(url) = <<a>> \o rest
    BY <1>2, <1>4, WalkFacts, ParentOfFile, ParentOfContainer
  <2>3. rest \in Seq(AnyUrl)
    BY <2>2, WalkFacts
  <2> HIDE DEF a, rest
  <2>4. FirstOf(<<a>> \o rest, files) =
          IF FullPath(a) \in files THEN {FullPath(a)} ELSE FirstOf(rest, files)
    BY <2>1, <2>3, FirstOfHead, Zenon
  <2>5. FirstOf(PossibleAcls(url), files) =
          IF FullPath(a) \in files THEN {FullPath(a)} ELSE FirstOf(rest, files)
    BY <2>2, <2>4
  <2>6. QED BY <1>4, <2>5 DEF a, rest
<1>5. QED BY <1>3, <1>4

\* Only URLs are asked for.
LEMMA AskedAreUrls == Lookups => [](asked \subseteq AnyUrl)
<1>1. LookupInit => asked \subseteq AnyUrl
  BY TargetAssumption DEF LookupInit, Spellings, AnyUrl
<1>2. asked \subseteq AnyUrl /\ [LookupNext]_<<asked, there>> => (asked \subseteq AnyUrl)'
  BY DEF LookupNext, WriteAcl, DeleteAcl
<1>3. QED BY <1>1, <1>2, PTL DEF Lookups

\* Permissions are inherited along the containers, whatever URLs are asked for and
\* whatever ACLs are there: the walk of ldp-wac.js is the climb along the parents
\* of ldp-target.js.
THEOREM InheritanceHolds == Lookups => []AclsAreInherited
<1>1. asked \subseteq AnyUrl => AclsAreInherited
  <2>1. SUFFICES ASSUME asked \subseteq AnyUrl, NEW url \in asked
                 PROVE  LET own == FullPath(PossibleAcls(url)[1]) IN
                        NearestAcl(url) =
                          IF own \in there THEN {own}
                          ELSE IF IsRoot(url) THEN {} ELSE NearestAcl(Parent(url))
    BY DEF AclsAreInherited
  <2>2. url \in AnyUrl
    BY <2>1
  <2>3. QED BY <2>2, InheritStep DEF NearestAcl
<1>2. QED BY <1>1, AskedAreUrls, PTL

-----------------------------------------------------------------------------
(***************************************************************************)
(* The ACLs of ACLs, and the ACL a target links to.                        *)
(***************************************************************************)
LEMMA HeadAndRest ==
  ASSUME NEW url \in AnyUrl
  PROVE  \E rest \in Seq(AnyUrl) :
           PossibleAcls(url) = <<PossibleAcls(url)[1]>> \o rest
<1>1. CASE ~IsContainer(url)
  <2>1. AclsAbove(url) \in Seq(AnyUrl)
    BY AboveFacts
  <2>2. PossibleAcls(url) = <<OwnAcl(url)>> \o AclsAbove(url)
    BY <1>1, Zenon DEF PossibleAcls
  <2>3. PossibleAcls(url)[1] = OwnAcl(url)
    BY <1>1, WalkFacts
  <2>4. QED BY <2>1, <2>2, <2>3, Zenon
<1>2. CASE IsRoot(url)
  <2>1. IsContainer(url)
    BY <1>2 DEF IsRoot
  <2>2. PossibleAcls(url)[1] = Relative(url, Bare(".acl"))
    BY <2>1, WalkFacts
  <2>3. <<>> \in Seq(AnyUrl)
    OBVIOUS
  <2>4. QED BY <1>2, <2>2, <2>3, OnlyTheRoot, Zenon
<1>3. CASE IsContainer(url) /\ ~IsRoot(url)
  <2>1. PossibleAcls(url)[1] = Relative(url, Bare(".acl"))
    BY <1>3, WalkFacts
  <2>2. PossibleAcls(Parent(url)) \in Seq(AnyUrl)
    BY <1>3, ParentOfContainer, WalkFacts
  <2>3. QED BY <1>3, <2>1, <2>2, ParentOfContainer, Zenon
<1>4. QED BY <1>1, <1>2, <1>3

\* The ACL with which the walk begins is one that has itself for its own.
LEMMA OwnAclOfAcl ==
  ASSUME NEW url \in AnyUrl
  PROVE  LET own == PossibleAcls(url)[1] IN
         /\ own \in AnyUrl
         /\ PossibleAcls(own) = <<own>> \o AclsAbove(url)
<1> DEFINE own == PossibleAcls(url)[1]
           longer == [Final(url) EXCEPT !.ext = Append(@, ".acl")]
<1>1. own \in AnyUrl
  BY WalkFacts
<1>2. Len(url.path) - 1 \in 0..Len(url.path) /\ Final(url) \in Names
  BY UrlFacts
<1>3. /\ longer \in Names /\ longer.ext # <<>>
      /\ longer.ext[Len(longer.ext)] = ".acl"
  BY <1>2, ExtendedName
<1> HIDE DEF longer
<1>4. ASSUME NEW name \in Names, name.ext # <<>>,
             name.ext[Len(name.ext)] = ".acl", own = Relative(url, name)
      PROVE  EndsWith(own, ".acl") /\ AclsAbove(own) = AclsAbove(url)
  <2>1. Final(Relative(url, name)) = name
    BY <1>2, <1>4, UptoFacts, Zenon DEF Relative
  <2>2. EndsWith(Relative(url, name), ".acl")
    BY <1>4, <2>1 DEF EndsWith
  <2>3. AclsAbove(Relative(url, name)) = AclsAbove(url)
    BY SameAbove
  <2> HIDE DEF own
  <2>4. QED BY <1>4, <2>2, <2>3, Zenon
<1>5. EndsWith(own, ".acl") /\ AclsAbove(own) = AclsAbove(url)
  <2>1. CASE IsContainer(url)
    <3>1. own = Relative(url, Bare(".acl"))
      BY <2>1, WalkFacts
    <3> HIDE DEF own
    <3>2. QED BY <1>4, <3>1, NameFacts, Zenon
  <2>2. CASE ~IsContainer(url) /\ EndsWith(url, ".acl")
    <3>1. own = url
      BY <2>2, WalkFacts DEF OwnAcl
    <3> HIDE DEF own
    <3>2. QED BY <2>2, <3>1
  <2>3. CASE ~IsContainer(url) /\ ~EndsWith(url, ".acl")
    <3>1. own = OwnAcl(url) /\ OwnAcl(url) = Relative(url, longer)
      BY <2>3, WalkFacts, Zenon DEF OwnAcl, longer
    <3>2. own = Relative(url, longer)
      BY <3>1
    <3> HIDE DEF own
    <3>3. QED BY <1>3, <1>4, <3>2, Zenon
  <2>4. QED BY <2>1, <2>2, <2>3
<1> HIDE DEF own
<1>6. ~IsContainer(own)
  <2>1. Final(own).ext # <<>>
    BY <1>5 DEF EndsWith
  <2>2. NoName.ext = <<>>
    BY DEF NoName
  <2>3. QED BY <2>1, <2>2 DEF IsContainer
<1>7. OwnAcl(own) = own
  BY <1>5 DEF OwnAcl
<1>8. PossibleAcls(own) = <<own>> \o AclsAbove(own)
  BY <1>6, <1>7, Zenon DEF PossibleAcls
<1>9. QED BY <1>1, <1>5, <1>8 DEF own

LEMMA OneWalk ==
  ASSUME NEW url \in AnyUrl, NEW files
  PROVE  FirstOf(PossibleAcls(PossibleAcls(url)[1]), files)
           = FirstOf(PossibleAcls(url), files)
<1> DEFINE own == PossibleAcls(url)[1]
<1>2. url \in AnyUrl
  OBVIOUS
<1>3. own \in AnyUrl /\ PossibleAcls(own) = <<own>> \o AclsAbove(url)
  BY <1>2, OwnAclOfAcl
<1>4. AclsAbove(url) \in Seq(AnyUrl)
  BY <1>2, AboveFacts
<1>5. PICK rest \in Seq(AnyUrl) : PossibleAcls(url) = <<own>> \o rest
  BY <1>2, HeadAndRest
<1>6. PossibleAcls(url) = AclsAbove(url)
        \/ PossibleAcls(url) = <<own>> \o AclsAbove(url)
  <2>1. CASE IsContainer(url)
    BY <2>1 DEF PossibleAcls
  <2>2. CASE ~IsContainer(url)
    <3>1. own = OwnAcl(url)
      BY <1>2, <2>2, WalkFacts
    <3>2. PossibleAcls(url) = <<OwnAcl(url)>> \o AclsAbove(url)
      BY <2>2, Zenon DEF PossibleAcls
    <3>3. QED BY <3>1, <3>2, Zenon
  <2>3. QED BY <2>1, <2>2
<1> HIDE DEF own
<1>7. CASE FullPath(own) \in files
  <2>1. FirstOf(PossibleAcls(own), files) = {FullPath(own)}
    BY <1>3, <1>4, <1>7, FirstOfHead
  <2>2. FirstOf(PossibleAcls(url), files) = {FullPath(own)}
    BY <1>3, <1>5, <1>7, FirstOfHead
  <2>3. QED BY <2>1, <2>2 DEF own
<1>8. CASE FullPath(own) \notin files
  <2>1. FirstOf(PossibleAcls(own), files) = FirstOf(AclsAbove(url), files)
    BY <1>3, <1>4, <1>8, FirstOfHead
  <2>2. FirstOf(PossibleAcls(url), files) = FirstOf(AclsAbove(url), files)
    <3>1. FirstOf(<<own>> \o AclsAbove(url), files)
            = FirstOf(AclsAbove(url), files)
      BY <1>3, <1>4, <1>8, FirstOfHead, Zenon
    <3>2. QED BY <1>6, <3>1, Zenon
  <2>3. QED BY <2>1, <2>2 DEF own
<1>9. QED BY <1>7, <1>8

\* Whatever URLs are asked for and whatever ACLs are there, who may change the ACL
\* of a resource is told by the ACLs that govern the resource.
THEOREM GovernedAlike == Lookups => []AclsGovernThemselves
<1>1. asked \subseteq AnyUrl => AclsGovernThemselves
  <2>1. SUFFICES ASSUME asked \subseteq AnyUrl, NEW url \in asked
                 PROVE  NearestAcl(PossibleAcls(url)[1]) = NearestAcl(url)
    BY DEF AclsGovernThemselves
  <2>2. url \in AnyUrl
    BY <2>1
  <2>3. QED BY <2>2, OneWalk DEF NearestAcl
<1>2. QED BY <1>1, AskedAreUrls, PTL

\* An ACL next to the resource is found first, or the resource's own is.
LEMMA LinkIsFound ==
  ASSUME NEW url \in AnyUrl, NEW files,
         FullPath(Relative(url, Bare(".acl"))) \in files
  PROVE  \/ FirstOf(PossibleAcls(url), files)
              = {FullPath(Relative(url, Bare(".acl")))}
         \/ /\ ~IsContainer(url)
            /\ FirstOf(PossibleAcls(url), files) = {FullPath(OwnAcl(url))}
<1> DEFINE link == Relative(url, Bare(".acl"))
<1>1. CASE IsContainer(url)
  <2>1. PossibleAcls(url)[1] = link /\ link \in AnyUrl
    <3>1. PossibleAcls(url)[1] = link
      BY <1>1, WalkFacts
    <3>2. PossibleAcls(url) \in Seq(AnyUrl) /\ Len(PossibleAcls(url)) >= 1
      BY WalkFacts
    <3>3. PossibleAcls(url)[1] \in AnyUrl
      BY <3>2
    <3>4. QED BY <3>1, <3>3, Zenon
  <2>2. PICK rest \in Seq(AnyUrl) : PossibleAcls(url) = <<link>> \o rest
    BY <2>1, HeadAndRest, Zenon
  <2> HIDE DEF link
  <2>3. FullPath(link) \in files
    BY DEF link
  <2>4. FirstOf(PossibleAcls(url), files) = {FullPath(link)}
    BY <2>1, <2>2, <2>3, FirstOfHead
  <2>5. QED BY <2>4 DEF link
<1>2. CASE ~IsContainer(url)
  <2> DEFINE up == Relative(url, NoName)
             own == OwnAcl(url)
  <2>1. up \in AnyUrl /\ IsContainer(up) /\ AclsAbove(up) = AclsAbove(url)
    <3>1. Len(url.path) - 1 \in 0..Len(url.path) /\ NoName \in Names
      BY UrlFacts, NameFacts
    <3>2. QED BY <3>1, UptoFacts, SameAbove DEF Relative, IsContainer
  <2>2. PossibleAcls(up) = AclsAbove(url)
    <3> HIDE DEF up
    <3>1. QED BY <2>1 DEF PossibleAcls
  <2>3. PossibleAcls(up)[1] = link /\ link \in AnyUrl
    <3>1. Len(url.path) \in Nat /\ Len(url.path) >= 1
      BY UrlFacts
    <3>2. /\ AclsAbove(url) \in Seq(AnyUrl) /\ Len(AclsAbove(url)) >= 1
          /\ AclsAbove(url)[1] = link
      BY <3>1, AboveFacts DEF Relative
    <3>3. AclsAbove(url)[1] \in AnyUrl
      BY <3>2
    <3>4. QED BY <2>2, <3>2, <3>3, Zenon
  <2>4. PICK rest \in Seq(AnyUrl) : AclsAbove(url) = <<link>> \o rest
    BY <2>1, <2>2, <2>3, HeadAndRest, Zenon
  <2>5. PossibleAcls(url) = <<own>> \o AclsAbove(url)
    BY <1>2, Zenon DEF PossibleAcls
  <2>6. own \in AnyUrl /\ AclsAbove(url) \in Seq(AnyUrl)
    BY WalkFacts, AboveFacts
  <2>7. FullPath(link) \in files
    OBVIOUS
  <2> HIDE DEF link, up, own
  <2>8. FirstOf(AclsAbove(url), files) = {FullPath(link)}
    BY <2>3, <2>4, <2>7, FirstOfHead
  <2>9. CASE FullPath(own) \in files
    <3>1. FirstOf(PossibleAcls(url), files) = {FullPath(own)}
      BY <2>5, <2>6, <2>9, FirstOfHead
    <3>2. QED BY <1>2, <3>1 DEF own
  <2>10. CASE FullPath(own) \notin files
    <3>1. FirstOf(<<own>> \o AclsAbove(url), files) = FirstOf(AclsAbove(url), files)
      BY <2>6, <2>10, FirstOfHead
    <3>2. QED BY <2>5, <2>8, <3>1 DEF link
  <2>11. QED BY <2>9, <2>10
<1>3. QED BY <1>1, <1>2

LEMMA LinkStep ==
  ASSUME NEW url \in AnyUrl, NEW isDirectory \in BOOLEAN, NEW files
  PROVE  LET target == IF isDirectory THEN EnsureTrailingSlash(Target(url))
                       ELSE Target(url)
             link == FullPath(AclOf(target))
             nearest == FirstOf(PossibleAcls(target.url), files \cup {link})
         IN
         \/ isDirectory /\ target.isAcl
         \/ nearest = {link}
         \/ ~IsContainer(target.url) /\ nearest = {FullPath(OwnAcl(target.url))}
<1> DEFINE target == IF isDirectory THEN EnsureTrailingSlash(Target(url))
                     ELSE Target(url)
           link == FullPath(AclOf(target))
           nearest == FirstOf(PossibleAcls(target.url), files \cup {link})
<1>1. Target(url).url = url
  BY DEF Target
<1>2. target.url \in AnyUrl
  <2>1. Upto(url, Len(url.path), NoName) \in AnyUrl
    <3>1. Len(url.path) \in 0..Len(url.path) /\ NoName \in Names
      BY UrlFacts, NameFacts
    <3>2. QED BY <3>1, UptoFacts
  <2>2. EnsureTrailingSlash(Target(url)).url
          \in {url, Upto(url, Len(url.path), NoName)}
    BY <1>1 DEF EnsureTrailingSlash, Target
  <2>3. target.url \in {url, Upto(url, Len(url.path), NoName)}
    BY <1>1, <2>2
  <2> HIDE DEF target
  <2>4. QED BY <2>1, <2>3
<1>3. CASE ~target.isAcl
  <2>1. AclOf(target) = Relative(target.url, Bare(".acl"))
    BY <1>3, Zenon DEF AclOf
  <2>2. FullPath(Relative(target.url, Bare(".acl"))) \in files \cup {link}
    BY <2>1
  <2> DEFINE v == target.url
             more == files \cup {link}
  <2>3. nearest = FirstOf(PossibleAcls(v), more)
    OBVIOUS
  <2>4. v \in AnyUrl /\ FullPath(Relative(v, Bare(".acl"))) \in more
    BY <1>2, <2>2
  <2>5. link = FullPath(Relative(v, Bare(".acl")))
    BY <2>1
  <2> HIDE DEF v, more, link, nearest
  <2>6. \/ FirstOf(PossibleAcls(v), more) = {FullPath(Relative(v, Bare(".acl")))}
        \/ /\ ~IsContainer(v)
           /\ FirstOf(PossibleAcls(v), more) = {FullPath(OwnAcl(v))}
    BY <2>4, LinkIsFound
  <2>7. \/ nearest = {link}
        \/ ~IsContainer(v) /\ nearest = {FullPath(OwnAcl(v))}
    BY <2>3, <2>5, <2>6, Zenon
  <2>8. QED BY <2>7 DEF v, link, nearest
<1>4. CASE isDirectory /\ target.isAcl
  BY <1>4
<1>5. CASE ~isDirectory /\ target.isAcl
  <2>1. target = Target(url)
    BY <1>5
  <2>2. target.url = url /\ EndsWith(url, ".acl")
    BY <1>5, <2>1 DEF Target
  <2>3. AclOf(target) = url
    BY <1>5, <2>2 DEF AclOf
  <2>4. ~IsContainer(url)
    <3>1. Final(url).ext # <<>>
      BY <2>2 DEF EndsWith
    <3>2. NoName.ext = <<>>
      BY DEF NoName
    <3>3. QED BY <3>1, <3>2 DEF IsContainer
  <2>5. OwnAcl(url) = url
    BY <2>2 DEF OwnAcl
  <2>6. PossibleAcls(url) = <<url>> \o AclsAbove(url)
    BY <2>4, <2>5, Zenon DEF PossibleAcls
  <2>7. AclsAbove(url) \in Seq(AnyUrl)
    BY AboveFacts
  <2>8. FullPath(url) \in files \cup {FullPath(url)}
    OBVIOUS
  <2>9. FirstOf(<<url>> \o AclsAbove(url), files \cup {FullPath(url)})
          = {FullPath(url)}
    BY <2>7, <2>8, FirstOfHead, Zenon
  <2> HIDE DEF target
  <2>10. nearest = {link}
    BY <2>2, <2>3, <2>6, <2>9
  <2>11. QED BY <2>10 DEF target
<1>6. QED BY <1>3, <1>4, <1>5

\* Whatever URLs are asked for and whatever ACLs are there, the ACL that a response
\* links to, and that sharing writes, will be the one that decides about the
\* resource, or the resource's own is.
THEOREM LinksCount == Lookups => []LinkedAclCounts
<1>1. asked \subseteq AnyUrl => LinkedAclCounts
  BY LinkStep DEF LinkedAclCounts
<1>2. QED BY <1>1, AskedAreUrls, PTL

-----------------------------------------------------------------------------
(***************************************************************************)
(* Names that are empty.  Nothing the provers know says what a recursive   *)
(* function computes, so these lemmas look at the least argument for which *)
(* it would be wrong.                                                      *)
(***************************************************************************)
LEMMA LeastOf ==
  ASSUME NEW T \in SUBSET Nat, T # {}
  PROVE  \E m \in T : \A n \in T : m <= n
<1> DEFINE R == {ss \in Nat \X Nat : ss[1] < ss[2]}
<1>1. IsWellFoundedOn(R, Nat)
  BY NatLessThanWellFounded DEF OpToRel
<1>2. PICK m \in T : \A n \in T : ~(<<n, m>> \in R)
  <2> HIDE DEF R
  <2>1. QED BY <1>1, WFMin
<1>3. \A n \in T : ~(n < m)
  BY <1>2
<1>4. QED BY <1>3

\* f[k] is the first k names of the path, without the empty ones.
FirstNames(path, n, f) ==
  f = [k \in 0..n |->
        IF k = 0 THEN <<>>
        ELSE IF path[k] = NoName THEN f[k - 1]
        ELSE Append(f[k - 1], path[k])]

\* What a function that is defined like this has for its values.
LEMMA FirstNamesAtZero ==
  ASSUME NEW path, NEW n \in Nat, NEW f, FirstNames(path, n, f)
  PROVE  f[0] = <<>>
BY DEF FirstNames

LEMMA FirstNamesAt ==
  ASSUME NEW path, NEW n \in Nat, NEW f, FirstNames(path, n, f), NEW k \in 1..n
  PROVE  /\ path[k] = NoName => f[k] = f[k - 1]
         /\ path[k] # NoName => f[k] = Append(f[k - 1], path[k])
<1>1. k \in 0..n /\ k # 0
  OBVIOUS
<1>2. \A i \in 0..n : f[i] = IF i = 0 THEN <<>>
                             ELSE IF path[i] = NoName THEN f[i - 1]
                             ELSE Append(f[i - 1], path[i])
  BY Zenon DEF FirstNames
<1>3. QED BY <1>1, <1>2

LEMMA FirstNamesExist ==
  ASSUME NEW path, NEW n \in Nat
  PROVE  \E f : FirstNames(path, n, f)
<1> DEFINE T == {k \in Nat : ~\E f : FirstNames(path, k, f)}
<1>1. SUFFICES ASSUME T # {} PROVE FALSE
  OBVIOUS
<1>2. PICK m \in T : \A k \in T : m <= k
  <2> HIDE DEF T
  <2>1. T \in SUBSET Nat
    BY DEF T
  <2>2. QED BY <1>1, <2>1, LeastOf
<1>3. m \in Nat /\ ~\E f : FirstNames(path, m, f)
  OBVIOUS
<1>4. CASE m = 0
  <2>1. FirstNames(path, 0, [k \in 0..0 |-> <<>>])
    BY DEF FirstNames
  <2>2. QED BY <1>3, <1>4, <2>1
<1>5. CASE m # 0
  <2>1. m - 1 \in Nat /\ m - 1 \notin T
    BY <1>2, <1>3, <1>5
  <2>2. PICK f : FirstNames(path, m - 1, f)
    BY <2>1
  <2>3. DOMAIN f = 0..(m - 1)
    BY <2>2 DEF FirstNames
  <2> DEFINE g == [k \in 0..m |->
                    IF k < m THEN f[k]
                    ELSE IF path[m] = NoName THEN f[m - 1]
                    ELSE Append(f[m - 1], path[m])]
  <2>4. \A k \in 0..m :
          g[k] = IF k = 0 THEN <<>>
                 ELSE IF path[k] = NoName THEN g[k - 1]
                 ELSE Append(g[k - 1], path[k])
    <3>1. SUFFICES ASSUME NEW k \in 0..m
                   PROVE  g[k] = IF k = 0 THEN <<>>
                                 ELSE IF path[k] = NoName THEN g[k - 1]
                                 ELSE Append(g[k - 1], path[k])
      OBVIOUS
    <3>2. CASE k = 0
      <4>1. f[0] = <<>>
        BY <2>1, <2>2, FirstNamesAtZero
      <4>2. QED BY <1>3, <1>5, <3>2, <4>1
    <3>3. CASE k # 0
      <4>1. k - 1 \in 0..m /\ k - 1 < m /\ k \in 1..m
        BY <1>3, <3>3
      <4>2. g[k - 1] = f[k - 1]
        BY <4>1
      <4>3. CASE k < m
        <5>1. k \in 1..(m - 1)
          BY <1>3, <4>1, <4>3
        <5>2. g[k] = f[k]
          BY <4>3
        <5>3. /\ path[k] = NoName => f[k] = f[k - 1]
              /\ path[k] # NoName => f[k] = Append(f[k - 1], path[k])
          BY <2>1, <2>2, <5>1, FirstNamesAt
        <5> HIDE DEF g
        <5>4. QED BY <3>3, <4>2, <5>2, <5>3
      <4>4. CASE k = m
        BY <3>3, <4>2, <4>4
      <4>5. QED BY <1>3, <4>1, <4>3, <4>4
    <3>4. QED BY <3>2, <3>3
  <2>5. FirstNames(path, m, g)
    BY <2>4, Zenon DEF FirstNames
  <2>6. QED BY <1>3, <2>5
<1>6. QED BY <1>4, <1>5

\* Paths that begin alike have the same first names.
LEMMA FirstNamesAgree ==
  ASSUME NEW p, NEW q, NEW i \in Nat, NEW j \in Nat, NEW f, NEW g,
         FirstNames(p, i, f), FirstNames(q, j, g),
         NEW n \in Nat, n <= i, n <= j, \A k \in 1..n : p[k] = q[k]
  PROVE  f[n] = g[n]
<1> DEFINE T == {k \in 0..n : f[k] # g[k]}
<1>1. SUFFICES ASSUME T # {} PROVE FALSE
  OBVIOUS
<1>2. PICK m \in T : \A k \in T : m <= k
  <2> HIDE DEF T
  <2>1. T \in SUBSET Nat
    BY DEF T
  <2>2. QED BY <1>1, <2>1, LeastOf
<1>3. m \in 0..n /\ f[m] # g[m]
  OBVIOUS
<1>4. m # 0
  <2>1. f[0] = <<>> /\ g[0] = <<>>
    BY FirstNamesAtZero
  <2>2. QED BY <1>3, <2>1
<1>5. m - 1 \in 0..n /\ m - 1 \notin T
  BY <1>2, <1>3, <1>4
<1>6. f[m - 1] = g[m - 1]
  BY <1>5
<1>7. m \in 1..i /\ m \in 1..j /\ p[m] = q[m]
  BY <1>3, <1>4
<1> HIDE DEF T
<1>8. /\ p[m] = NoName => f[m] = f[m - 1]
      /\ p[m] # NoName => f[m] = Append(f[m - 1], p[m])
  BY <1>7, FirstNamesAt
<1>9. /\ q[m] = NoName => g[m] = g[m - 1]
      /\ q[m] # NoName => g[m] = Append(g[m - 1], q[m])
  BY <1>7, FirstNamesAt
<1>10. QED BY <1>3, <1>6, <1>7, <1>8, <1>9

LEMMA FirstNamesAreNames ==
  ASSUME NEW path \in Seq(Names), NEW f, NEW j \in Nat, j = Len(path),
         FirstNames(path, j, f), NEW n \in 0..j
  PROVE  f[n] \in Seq(Names)
<1> DEFINE T == {k \in 0..j : f[k] \notin Seq(Names)}
<1>1. SUFFICES ASSUME T # {} PROVE FALSE
  OBVIOUS
<1>2. PICK m \in T : \A k \in T : m <= k
  <2> HIDE DEF T
  <2>1. T \in SUBSET Nat
    BY DEF T
  <2>2. QED BY <1>1, <2>1, LeastOf
<1>3. m \in 0..j /\ f[m] \notin Seq(Names)
  OBVIOUS
<1>4. m # 0
  <2>1. f[0] = <<>>
    BY FirstNamesAtZero
  <2>2. <<>> \in Seq(Names)
    OBVIOUS
  <2>3. QED BY <1>3, <2>1, <2>2, Zenon
<1>5. m - 1 \in 0..j /\ m - 1 \notin T
  BY <1>2, <1>3, <1>4
<1>6. f[m - 1] \in Seq(Names)
  BY <1>5
<1>7. m \in 1..j /\ path[m] \in Names
  BY <1>3, <1>4
<1> HIDE DEF T
<1>8. f[m] = f[m - 1] \/ f[m] = Append(f[m - 1], path[m])
  BY <1>7, FirstNamesAt
<1>9. \A s \in Seq(Names), name \in Names : Append(s, name) \in Seq(Names)
  OBVIOUS
<1>10. QED BY <1>3, <1>6, <1>7, <1>8, <1>9, Zenon

\* The names of a path are the last of its first names.
LEMMA NormalizedIs ==
  ASSUME NEW path \in Seq(Names)
  PROVE  \E f : /\ FirstNames(path, Len(path), f)
                /\ Normalized(path) = f[Len(path)]
<1> DEFINE f == CHOOSE f : FirstNames(path, Len(path), f)
<1>1. FirstNames(path, Len(path), f)
  BY FirstNamesExist
<1>2. Normalized(path) = f[Len(path)]
  BY DEF Normalized, FirstNames
<1>3. QED BY <1>1, <1>2

LEMMA NormalizedFacts ==
  /\ Normalized(<<>>) = <<>>
  /\ \A path \in Seq(Names) : Normalized(path) \in Seq(Names)
  /\ \A path \in Seq(Names), name \in Names :
       /\ name = NoName => Normalized(Append(path, name)) = Normalized(path)
       /\ name # NoName =>
            Normalized(Append(path, name)) = Append(Normalized(path), name)
<1>1. Normalized(<<>>) = <<>>
  <2>1. <<>> \in Seq(Names) /\ Len(<<>>) = 0
    OBVIOUS
  <2>2. PICK f : FirstNames(<<>>, Len(<<>>), f) /\ Normalized(<<>>) = f[Len(<<>>)]
    BY <2>1, NormalizedIs
  <2>3. QED BY <2>1, <2>2, FirstNamesAtZero
<1>2. ASSUME NEW path \in Seq(Names) PROVE Normalized(path) \in Seq(Names)
  BY NormalizedIs, FirstNamesAreNames
<1>3. ASSUME NEW path \in Seq(Names), NEW name \in Names
      PROVE  /\ name = NoName => Normalized(Append(path, name)) = Normalized(path)
             /\ name # NoName =>
                  Normalized(Append(path, name)) = Append(Normalized(path), name)
  <2> DEFINE longer == Append(path, name)
             n == Len(path)
  <2>1. /\ longer \in Seq(Names) /\ Len(longer) = n + 1 /\ n \in Nat
        /\ longer[n + 1] = name /\ \A k \in 1..n : path[k] = longer[k]
    OBVIOUS
  <2> HIDE DEF longer, n
  <2>2. PICK f : FirstNames(path, n, f) /\ Normalized(path) = f[n]
    BY NormalizedIs DEF n
  <2>3. PICK g : /\ FirstNames(longer, n + 1, g)
                 /\ Normalized(longer) = g[n + 1]
    BY <2>1, NormalizedIs
  <2>4. f[n] = g[n]
    BY <2>1, <2>2, <2>3, FirstNamesAgree
  <2>5. /\ name = NoName => g[n + 1] = g[n]
        /\ name # NoName => g[n + 1] = Append(g[n], name)
    <3>1. n + 1 \in Nat /\ n + 1 \in 1..(n + 1) /\ (n + 1) - 1 = n
      BY <2>1
    <3>2. QED BY <2>1, <2>3, <3>1, FirstNamesAt
  <2>6. QED BY <2>2, <2>3, <2>4, <2>5 DEF longer
<1>4. QED BY <1>1, <1>2, <1>3

-----------------------------------------------------------------------------
(***************************************************************************)
(* The spellings of one file.                                              *)
(***************************************************************************)
Folder(url) == IF IncludeHost THEN url.host ELSE ""

\* The names of the container that a URL is in, or is.
ContainerNames(url) == Normalized(SubSeq(url.path, 1, Len(url.path) - 1))

LEMMA FileOfUpto ==
  ASSUME NEW url \in AnyUrl, NEW k \in 0..Len(url.path), NEW name \in Names
  PROVE  LET above == Normalized(SubSeq(url.path, 1, k)) IN
         /\ above \in Seq(Names)
         /\ FullPath(Upto(url, k, name)) =
              [dir |-> Folder(url),
               names |-> IF name = NoName THEN above ELSE Append(above, name),
               slash |-> name = NoName]
<1> DEFINE front == SubSeq(url.path, 1, k)
           spelt == Upto(url, k, name)
<1>1. front \in Seq(Names)
  BY UrlFacts
<1>2. spelt.path = Append(front, name) /\ spelt.host = url.host
  BY DEF Upto
<1>3. IsContainer(spelt) <=> name = NoName
  BY UptoFacts DEF IsContainer
<1> HIDE DEF front, spelt
<1>4. FullPath(spelt) = [dir |-> Folder(url),
                          names |-> Normalized(Append(front, name)),
                          slash |-> name = NoName]
  BY <1>2, <1>3 DEF FullPath, Folder, IsContainer
<1>5. /\ Normalized(front) \in Seq(Names)
      /\ Normalized(Append(front, name)) =
           IF name = NoName THEN Normalized(front)
                            ELSE Append(Normalized(front), name)
  BY <1>1, NormalizedFacts
<1>6. QED BY <1>4, <1>5 DEF front, spelt

LEMMA FileOfUrl ==
  ASSUME NEW url \in AnyUrl
  PROVE  /\ ContainerNames(url) \in Seq(Names)
         /\ FullPath(url) =
              [dir |-> Folder(url),
               names |-> IF IsContainer(url) THEN ContainerNames(url)
                         ELSE Append(ContainerNames(url), Final(url)),
               slash |-> IsContainer(url)]
         /\ \A name \in Names :
              FullPath(Relative(url, name)) =
                [dir |-> Folder(url),
                 names |-> IF name = NoName THEN ContainerNames(url)
                           ELSE Append(ContainerNames(url), name),
                 slash |-> name = NoName]
<1> DEFINE n == Len(url.path)
<1>1. n \in Nat /\ n >= 1 /\ n - 1 \in 0..n /\ Final(url) \in Names
  BY UrlFacts
<1>2. url.path = Append(SubSeq(url.path, 1, n - 1), Final(url))
  BY UrlFacts DEF Final
<1>3. Relative(url, Final(url)) = url
  <2>1. Relative(url, Final(url)) = [host |-> url.host, path |-> url.path]
    BY <1>2, Zenon DEF Relative, Upto
  <2>2. QED BY <2>1, UrlFacts, Zenon
<1>4. ASSUME NEW name \in Names
      PROVE  /\ ContainerNames(url) \in Seq(Names)
             /\ FullPath(Relative(url, name)) =
                  [dir |-> Folder(url),
                   names |-> IF name = NoName THEN ContainerNames(url)
                             ELSE Append(ContainerNames(url), name),
                   slash |-> name = NoName]
  BY <1>1, FileOfUpto, Zenon DEF Relative, ContainerNames
<1>5. FullPath(url) =
        [dir |-> Folder(url),
         names |-> IF IsContainer(url) THEN ContainerNames(url)
                   ELSE Append(ContainerNames(url), Final(url)),
         slash |-> IsContainer(url)]
  <2>1. IsContainer(url) = (Final(url) = NoName)
    BY DEF IsContainer
  <2>2. FullPath(Relative(url, Final(url))) =
          [dir |-> Folder(url),
           names |-> IF Final(url) = NoName THEN ContainerNames(url)
                     ELSE Append(ContainerNames(url), Final(url)),
           slash |-> Final(url) = NoName]
    BY <1>1, <1>4, Zenon
  <2>3. QED BY <1>3, <2>1, <2>2, Zenon
<1>6. QED BY <1>1, <1>4, <1>5

\* The file of the ACL that a container has for its own.
OwnFile(file) ==
  [dir |-> file.dir, names |-> Append(file.names, Bare(".acl")), slash |-> FALSE]

Near(url, files) == FirstOf(PossibleAcls(url), files)

LEMMA NearContainer ==
  ASSUME NEW c \in AnyUrl, IsContainer(c), NEW files
  PROVE  LET own == OwnFile(FullPath(c)) IN
         /\ own \in files => Near(c, files) = {own}
         /\ own \notin files /\ IsRoot(c) => Near(c, files) = {}
         /\ own \notin files /\ ~IsRoot(c) =>
              Near(c, files) = Near(Parent(c), files)
<1>1. PossibleAcls(c)[1] = Relative(c, Bare(".acl"))
  BY WalkFacts
<1>2. FullPath(c) = [dir |-> Folder(c), names |-> ContainerNames(c),
                     slash |-> TRUE]
  BY FileOfUrl
<1>3. FullPath(Relative(c, Bare(".acl"))) = OwnFile(FullPath(c))
  <2> DEFINE acl == Bare(".acl")
  <2>1. acl \in Names /\ acl # NoName
    BY NameFacts
  <2> HIDE DEF acl
  <2>2. FullPath(Relative(c, acl)) =
          [dir |-> Folder(c),
           names |-> IF acl = NoName THEN ContainerNames(c)
                     ELSE Append(ContainerNames(c), acl),
           slash |-> acl = NoName]
    BY <2>1, FileOfUrl, Zenon
  <2>3. FullPath(Relative(c, acl)) =
          [dir |-> Folder(c), names |-> Append(ContainerNames(c), acl),
           slash |-> FALSE]
    BY <2>1, <2>2
  <2>4. QED BY <1>2, <2>3 DEF OwnFile, acl
<1>4. QED BY <1>1, <1>3, InheritStep DEF Near

\* A container is the root, has an empty name before its last slash, which makes
\* no difference, or is in its parent under a name.
LEMMA ContainerKinds ==
  ASSUME NEW c \in AnyUrl, IsContainer(c)
  PROVE  \/ IsRoot(c) /\ FullPath(c).names = <<>>
         \/ /\ ~IsRoot(c)
            /\ Parent(c) \in AnyUrl /\ IsContainer(Parent(c))
            /\ Len(Parent(c).path) = Len(c.path) - 1
            /\ \E above \in Seq(Names) :
                 /\ FullPath(Parent(c)) = [dir |-> FullPath(c).dir,
                                           names |-> above, slash |-> TRUE]
                 /\ \/ FullPath(c) = FullPath(Parent(c))
                    \/ \E name \in Names :
                         FullPath(c).names = Append(above, name)
<1> DEFINE n == Len(c.path)
           p == c.path
<1>1. /\ p \in Seq(Names) /\ n \in Nat /\ n >= 1
      /\ FullPath(c) = [dir |-> Folder(c), names |-> ContainerNames(c),
                        slash |-> TRUE]
  BY UrlFacts, FileOfUrl
<1>2. CASE n = 1
  <2>1. SubSeq(p, 1, n - 1) = <<>>
    BY <1>1, <1>2
  <2>2. IsRoot(c)
    BY <1>2 DEF IsRoot
  <2>3. ContainerNames(c) = <<>>
    BY <2>1, NormalizedFacts, Zenon DEF ContainerNames
  <2>4. QED BY <1>1, <2>2, <2>3
<1>3. CASE n # 1
  <2> DEFINE up == Upto(c, n - 2, NoName)
             above == Normalized(SubSeq(p, 1, n - 2))
  <2>1. n - 2 \in 0..n /\ n - 1 \in 1..n /\ (n - 2) + 1 = n - 1
    <3>1. n \in Nat /\ n >= 1
      BY <1>1
    <3> HIDE DEF n
    <3>2. QED BY <1>3, <3>1
  <2>2. NoName \in Names /\ p[n - 1] \in Names
    BY <1>1, <2>1, NameFacts
  <2>3. ~IsRoot(c) /\ Parent(c) = up
    BY <1>3 DEF IsRoot, Parent
  <2>4. up \in AnyUrl /\ Len(up.path) = n - 1 /\ IsContainer(up)
    <3>1. /\ up \in AnyUrl /\ Len(up.path) = (n - 2) + 1 /\ Final(up) = NoName
      BY <2>1, <2>2, UptoFacts, Zenon
    <3>2. QED BY <2>1, <3>1, Zenon DEF IsContainer
  <2>5. /\ above \in Seq(Names)
        /\ FullPath(up) = [dir |-> Folder(c), names |-> above, slash |-> TRUE]
    <3>1. /\ above \in Seq(Names)
          /\ FullPath(up) = [dir |-> Folder(c),
                             names |-> IF NoName = NoName THEN above
                                       ELSE Append(above, NoName),
                             slash |-> NoName = NoName]
      BY <2>1, <2>2, FileOfUpto, Zenon
    <3>2. QED BY <3>1
  <2>6. SubSeq(p, 1, n - 1) = Append(SubSeq(p, 1, n - 2), p[n - 1])
    BY <1>1, <2>1
  <2>7. SubSeq(p, 1, n - 2) \in Seq(Names)
    BY <1>1, <2>1
  <2>8. /\ p[n - 1] = NoName => ContainerNames(c) = above
        /\ p[n - 1] # NoName => ContainerNames(c) = Append(above, p[n - 1])
    BY <2>2, <2>6, <2>7, NormalizedFacts, Zenon DEF ContainerNames
  <2> HIDE DEF up, above, p, n
  <2>9. FullPath(c).dir = Folder(c) /\ FullPath(c).names = ContainerNames(c)
    BY <1>1
  <2>10. p[n - 1] = NoName => FullPath(c) = FullPath(up)
    BY <1>1, <2>5, <2>8
  <2>11. QED BY <2>2, <2>3, <2>4, <2>5, <2>8, <2>9, <2>10 DEF n
<1>4. QED BY <1>2, <1>3

LEMMA AppendTells ==
  ASSUME NEW s \in Seq(Names), NEW t \in Seq(Names), NEW x, NEW y,
         Append(s, x) = Append(t, y)
  PROVE  s = t /\ x = y
<1>1. /\ Len(Append(s, x)) = Len(s) + 1 /\ Len(Append(t, y)) = Len(t) + 1
      /\ Len(s) \in Nat /\ Len(t) \in Nat
  OBVIOUS
<1>2. Len(s) = Len(t)
  BY <1>1
<1>3. x = y
  BY <1>2
<1>4. \A i \in 1..Len(s) : s[i] = t[i]
  <2>1. \A i \in 1..Len(s) : s[i] = Append(s, x)[i] /\ t[i] = Append(t, y)[i]
    BY <1>2
  <2>2. QED BY <2>1
<1>5. QED BY <1>2, <1>3, <1>4

Depth(url) == Len(url.path)

\* Containers that are one directory are governed alike.  The pair of spellings
\* with the shortest paths that were not would have a shorter one among their
\* parents.
LEMMA OneContainer ==
  ASSUME NEW c \in AnyUrl, NEW d \in AnyUrl, NEW files,
         IsContainer(c), IsContainer(d), FullPath(c) = FullPath(d)
  PROVE  Near(c, files) = Near(d, files)
<1> DEFINE Apart(u, v) ==
             /\ IsContainer(u) /\ IsContainer(v) /\ FullPath(u) = FullPath(v)
             /\ Near(u, files) # Near(v, files)
           Far(u, v, k) == k = Depth(u) + Depth(v)
           T == {k \in Nat : \E u, v \in AnyUrl : Apart(u, v) /\ Far(u, v, k)}
<1>1. \A x \in AnyUrl : Depth(x) \in Nat
  BY UrlFacts DEF Depth
<1>2. SUFFICES ASSUME T # {} PROVE FALSE
  <2>1. Depth(c) + Depth(d) \in Nat
    BY <1>1
  <2>2. QED BY <2>1
<1>3. PICK m \in T : \A k \in T : m <= k
  <2> HIDE DEF T
  <2>1. T \in SUBSET Nat
    BY DEF T
  <2>2. QED BY <1>2, <2>1, LeastOf
<1>4. PICK u \in AnyUrl, v \in AnyUrl : Apart(u, v) /\ Far(u, v, m)
  OBVIOUS
<1>5. ASSUME NEW x \in AnyUrl, NEW y \in AnyUrl,
             Depth(x) + Depth(y) < Depth(u) + Depth(v)
      PROVE  ~Apart(x, y)
  <2>1. SUFFICES ASSUME Apart(x, y) PROVE FALSE
    OBVIOUS
  <2>2. Depth(x) + Depth(y) \in T
    <3>1. Depth(x) + Depth(y) \in Nat
      BY <1>1
    <3>2. QED BY <2>1, <3>1
  <2>3. m <= Depth(x) + Depth(y)
    BY <1>3, <2>2
  <2>4. m = Depth(u) + Depth(v)
    BY <1>4
  <2>5. Depth(x) \in Nat /\ Depth(y) \in Nat
    BY <1>1
  <2>6. Depth(u) \in Nat /\ Depth(v) \in Nat
    BY <1>1
  <2> HIDE DEF T, Apart, Far
  <2>7. QED BY <1>5, <2>3, <2>4, <2>5, <2>6
<1> HIDE DEF T
<1>6. Depth(u) \in Nat /\ Depth(v) \in Nat
  BY <1>1
<1>7. /\ IsContainer(u) /\ IsContainer(v) /\ FullPath(u) = FullPath(v)
      /\ Near(u, files) # Near(v, files)
  BY <1>4
<1> DEFINE own == OwnFile(FullPath(u))
<1>8. own \notin files
  <2>1. own \in files => Near(u, files) = {own} /\ Near(v, files) = {own}
    BY <1>7, NearContainer
  <2>2. QED BY <1>7, <2>1
<1>9. /\ IsRoot(u) => Near(u, files) = {}
      /\ ~IsRoot(u) => Near(u, files) = Near(Parent(u), files)
      /\ IsRoot(v) => Near(v, files) = {}
      /\ ~IsRoot(v) => Near(v, files) = Near(Parent(v), files)
  BY <1>7, <1>8, NearContainer
<1>10. ASSUME NEW x \in AnyUrl, IsContainer(x), ~IsRoot(x)
       PROVE  /\ Parent(x) \in AnyUrl /\ IsContainer(Parent(x))
              /\ Depth(Parent(x)) = Depth(x) - 1
  BY <1>10, ContainerKinds DEF Depth
<1>11. CASE ~IsRoot(u) /\ FullPath(u) = FullPath(Parent(u))
  <2>1. Depth(Parent(u)) + Depth(v) < Depth(u) + Depth(v)
    BY <1>6, <1>7, <1>10, <1>11
  <2>2. ~Apart(Parent(u), v)
    BY <1>5, <1>7, <1>10, <1>11, <2>1
  <2>3. QED BY <1>7, <1>9, <1>10, <1>11, <2>2
<1>12. CASE ~IsRoot(v) /\ FullPath(v) = FullPath(Parent(v))
  <2>1. Depth(u) + Depth(Parent(v)) < Depth(u) + Depth(v)
    BY <1>6, <1>7, <1>10, <1>12
  <2>2. ~Apart(u, Parent(v))
    BY <1>5, <1>7, <1>10, <1>12, <2>1
  <2>3. QED BY <1>7, <1>9, <1>10, <1>12, <2>2
<1>13. CASE /\ ~IsRoot(u) => FullPath(u) # FullPath(Parent(u))
            /\ ~IsRoot(v) => FullPath(v) # FullPath(Parent(v))
  <2>1. ASSUME NEW x \in AnyUrl, IsContainer(x),
               ~IsRoot(x) => FullPath(x) # FullPath(Parent(x))
        PROVE  \/ IsRoot(x) /\ FullPath(x).names = <<>>
               \/ /\ ~IsRoot(x)
                  /\ \E above \in Seq(Names), name \in Names :
                       /\ FullPath(Parent(x)) = [dir |-> FullPath(x).dir,
                                                 names |-> above, slash |-> TRUE]
                       /\ FullPath(x).names = Append(above, name)
    BY <2>1, ContainerKinds
  <2>2. ASSUME NEW above \in Seq(Names), NEW name \in Names
        PROVE  Append(above, name) # <<>>
    <3>1. Len(Append(above, name)) = Len(above) + 1 /\ Len(above) \in Nat
      OBVIOUS
    <3>2. QED BY <3>1
  <2>3. IsRoot(u) <=> IsRoot(v)
    BY <1>7, <1>13, <2>1, <2>2
  <2>4. CASE IsRoot(u)
    BY <1>7, <1>9, <2>3, <2>4
  <2>5. CASE ~IsRoot(u)
    <3>1. FullPath(Parent(u)) = FullPath(Parent(v))
      <4>1. PICK a \in Seq(Names), i \in Names :
              /\ FullPath(Parent(u)) = [dir |-> FullPath(u).dir,
                                        names |-> a, slash |-> TRUE]
              /\ FullPath(u).names = Append(a, i)
        BY <1>7, <1>13, <2>1, <2>5
      <4>2. PICK b \in Seq(Names), j \in Names :
              /\ FullPath(Parent(v)) = [dir |-> FullPath(v).dir,
                                        names |-> b, slash |-> TRUE]
              /\ FullPath(v).names = Append(b, j)
        BY <1>7, <1>13, <2>1, <2>3, <2>5
      <4>3. Append(a, i) = Append(b, j)
        BY <1>7, <4>1, <4>2
      <4>4. a = b
        BY <4>3, AppendTells
      <4>5. QED BY <1>7, <4>1, <4>2, <4>4
    <3>2. Depth(Parent(u)) + Depth(Parent(v)) < Depth(u) + Depth(v)
      BY <1>6, <1>7, <1>10, <2>3, <2>5
    <3>3. ~Apart(Parent(u), Parent(v))
      BY <1>5, <1>7, <1>10, <2>3, <2>5, <3>2
    <3>4. QED BY <1>7, <1>9, <1>10, <2>3, <2>5, <3>1, <3>3
  <2>6. QED BY <2>4, <2>5
<1>14. QED BY <1>11, <1>12, <1>13

LEMMA OneFile ==
  ASSUME NEW u \in AnyUrl, NEW v \in AnyUrl, NEW files, FullPath(u) = FullPath(v)
  PROVE  Near(u, files) = Near(v, files)
<1>1. \A x \in AnyUrl : FullPath(x).slash = IsContainer(x)
  BY FileOfUrl
<1>2. IsContainer(u) <=> IsContainer(v)
  BY <1>1 DEF IsContainer
<1>3. CASE IsContainer(u)
  BY <1>2, <1>3, OneContainer
<1>4. CASE ~IsContainer(u)
  <2>1. ASSUME NEW x \in AnyUrl, ~IsContainer(x)
        PROVE  FullPath(x) = [dir |-> Folder(x),
                              names |-> Append(ContainerNames(x), Final(x)),
                              slash |-> IsContainer(x)]
    BY <2>1, FileOfUrl
  <2>2. /\ Folder(u) = Folder(v)
        /\ Append(ContainerNames(u), Final(u)) = Append(ContainerNames(v), Final(v))
    BY <1>2, <1>4, <2>1
  <2>3. ContainerNames(u) = ContainerNames(v) /\ Final(u) = Final(v)
    <3>1. /\ ContainerNames(u) \in Seq(Names) /\ Final(u) \in Names
          /\ ContainerNames(v) \in Seq(Names) /\ Final(v) \in Names
      BY FileOfUrl, UrlFacts
    <3>2. QED BY <2>2, <3>1, AppendTells
  <2>4. ASSUME NEW name \in Names
        PROVE  FullPath(Relative(u, name)) = FullPath(Relative(v, name))
    <3>1. FullPath(Relative(u, name)) =
            [dir |-> Folder(u),
             names |-> IF name = NoName THEN ContainerNames(u)
                       ELSE Append(ContainerNames(u), name),
             slash |-> name = NoName]
      BY FileOfUrl, Zenon
    <3>2. FullPath(Relative(v, name)) =
            [dir |-> Folder(v),
             names |-> IF name = NoName THEN ContainerNames(v)
                       ELSE Append(ContainerNames(v), name),
             slash |-> name = NoName]
      BY FileOfUrl, Zenon
    <3>3. QED BY <2>2, <2>3, <3>1, <3>2, Zenon
  <2>5. FullPath(OwnAcl(u)) = FullPath(OwnAcl(v))
    <3>1. CASE EndsWith(u, ".acl")
      BY <2>3, <3>1 DEF OwnAcl, EndsWith
    <3>2. CASE ~EndsWith(u, ".acl")
      <4>1. ~EndsWith(v, ".acl")
        BY <2>3, <3>2 DEF EndsWith
      <4>2. [Final(u) EXCEPT !.ext = Append(@, ".acl")] \in Names
        BY UrlFacts, ExtendedName
      <4>3. QED BY <2>3, <2>4, <3>2, <4>1, <4>2 DEF OwnAcl
    <3>3. QED BY <3>1, <3>2
  <2>6. Near(Parent(u), files) = Near(Parent(v), files)
    <3>1. ASSUME NEW x \in AnyUrl, ~IsContainer(x)
          PROVE  /\ Parent(x) = Relative(x, NoName) /\ Parent(x) \in AnyUrl
                 /\ IsContainer(Parent(x))
      <4>1. Len(x.path) - 1 \in 0..Len(x.path) /\ NoName \in Names
        BY UrlFacts, NameFacts
      <4>2. Final(Relative(x, NoName)) = NoName
        BY <4>1, UptoFacts, Zenon DEF Relative
      <4>3. QED BY <3>1, <4>2, ParentOfFile DEF Parent, IsContainer
    <3>2. FullPath(Parent(u)) = FullPath(Parent(v))
      BY <1>2, <1>4, <2>4, <3>1, NameFacts
    <3>3. QED BY <1>2, <1>4, <3>1, <3>2, OneContainer
  <2>7. ASSUME NEW x \in AnyUrl, ~IsContainer(x)
        PROVE  /\ FullPath(OwnAcl(x)) \in files =>
                    Near(x, files) = {FullPath(OwnAcl(x))}
               /\ FullPath(OwnAcl(x)) \notin files =>
                    Near(x, files) = Near(Parent(x), files)
    <3>1. ~IsRoot(x) /\ PossibleAcls(x)[1] = OwnAcl(x)
      BY <2>7, WalkFacts DEF IsRoot
    <3>2. QED BY <3>1, InheritStep DEF Near
  <2>8. QED BY <1>2, <1>4, <2>5, <2>6, <2>7
<1>5. QED BY <1>3, <1>4

\* All spellings of one file are governed by the same ACL, however many empty
\* names they have and whatever ACLs are there: counting slashes (ldp-wac.js) and
\* normalizing paths (resource-mapper.js) agree.
THEOREM SpellingsGovernedAlike == Lookups => []OneFileOneAcl
<1> DEFINE OneAsked == \A u, v \in asked : FullPath(u) = FullPath(v)
<1>1. LookupInit => OneAsked
  BY DEF LookupInit, Spellings
<1>2. OneAsked /\ [LookupNext]_<<asked, there>> => OneAsked'
  BY DEF LookupNext, WriteAcl, DeleteAcl
<1>3. asked \subseteq AnyUrl /\ OneAsked => OneFileOneAcl
  BY OneFile DEF OneFileOneAcl, NearestAcl, Near
<1> HIDE DEF OneAsked
<1>4. QED BY <1>1, <1>2, <1>3, AskedAreUrls, PTL DEF Lookups

-----------------------------------------------------------------------------
(***************************************************************************)
(* The chains that AccessControl takes for granted.                        *)
(***************************************************************************)
\* The containers behind the slashes of the path, from the last one to the first.
Containing(url) ==
  LET n == Len(url.path) IN [k \in 1..n |-> Upto(url, n - k, NoName)]

\* A resource, its container, that one's container, ... the root.
ChainOf(url) ==
  IF IsContainer(url) THEN Containing(url) ELSE <<url>> \o Containing(url)

LEMMA ContainingFacts ==
  ASSUME NEW url \in AnyUrl, NEW k \in 1..Depth(url)
  PROVE  /\ Containing(url)[k] \in AnyUrl
         /\ IsContainer(Containing(url)[k])
         /\ PossibleAcls(Containing(url)[k])[1] = AclsAbove(url)[k]
         /\ k + 1 \in 1..Depth(url) =>
              Containing(url)[k + 1] = Parent(Containing(url)[k])
<1> DEFINE n == Depth(url)
           c == Containing(url)[k]
<1>1. n \in Nat /\ n >= 1 /\ k \in 1..n /\ n - k \in 0..n
  BY UrlFacts DEF Depth
<1>2. \A j \in 1..n : Containing(url)[j] = Upto(url, n - j, NoName)
  BY Zenon DEF Containing, Depth
<1>3. c = Upto(url, n - k, NoName)
  BY <1>1, <1>2
<1>4. /\ c \in AnyUrl /\ Depth(c) = (n - k) + 1 /\ Final(c) = NoName
      /\ \A j \in 0..(n - k) : \A other : Upto(c, j, other) = Upto(url, j, other)
  <2>1. n - k \in 0..Len(url.path) /\ NoName \in Names
    BY <1>1, NameFacts DEF Depth
  <2> DEFINE up == Upto(url, n - k, NoName)
  <2> HIDE DEF n
  <2>2. /\ up \in AnyUrl /\ Len(up.path) = (n - k) + 1 /\ Final(up) = NoName
        /\ \A j \in 0..(n - k) : \A other : Upto(up, j, other) = Upto(url, j, other)
    BY <2>1, UptoFacts, Zenon
  <2> HIDE DEF c, up
  <2>3. c = up
    BY <1>3, Zenon DEF up
  <2>4. QED BY <2>2, <2>3 DEF Depth
<1> HIDE DEF c, n
<1>5. IsContainer(c)
  BY <1>4 DEF IsContainer
<1>6. PossibleAcls(c)[1] = AclsAbove(url)[k]
  <2>1. PossibleAcls(c)[1] = Upto(c, Depth(c) - 1, Bare(".acl"))
    BY <1>4, <1>5, WalkFacts, Zenon DEF Relative, Depth
  <2>2. Depth(c) - 1 = n - k /\ n - k \in 0..(n - k)
    BY <1>1, <1>4
  <2>3. AclsAbove(url)[k] = Upto(url, n - k, Bare(".acl"))
    BY <1>1, AboveFacts DEF Depth, n
  <2>4. QED BY <1>4, <2>1, <2>2, <2>3
<1>7. ASSUME k + 1 \in 1..n
      PROVE  Containing(url)[k + 1] = Parent(c)
  <2>1. Parent(c) = Upto(c, Depth(c) - 2, NoName)
    BY <1>5, Zenon DEF Parent, Depth
  <2>2. /\ Depth(c) - 2 = n - (k + 1)
        /\ n - (k + 1) \in 0..(n - k)
    BY <1>1, <1>4, <1>7
  <2>3. QED BY <1>2, <1>4, <1>7, <2>1, <2>2
<1>8. QED BY <1>4, <1>5, <1>6, <1>7 DEF c, n

LEMMA OwnContaining ==
  ASSUME NEW url \in AnyUrl
  PROVE  /\ Containing(url) \in Seq(AnyUrl)
         /\ Len(Containing(url)) = Depth(url)
         /\ Containing(url)[1] = Relative(url, NoName)
         /\ IsContainer(url) => Containing(url)[1] = url
<1> DEFINE n == Depth(url)
<1>1. n \in Nat /\ n >= 1
  BY UrlFacts DEF Depth
<1>2. Containing(url) = [k \in 1..n |-> Upto(url, n - k, NoName)]
  BY Zenon DEF Containing, Depth
<1>3. \A k \in 1..n : Containing(url)[k] \in AnyUrl
  BY ContainingFacts
<1>4. Containing(url)[1] = Relative(url, NoName)
  BY <1>1, <1>2 DEF Relative, Depth
<1>5. url.path = Append(SubSeq(url.path, 1, Len(url.path) - 1), Final(url))
  BY UrlFacts DEF Final
<1>6. Relative(url, Final(url)) = url
  <2>1. Relative(url, Final(url)) = [host |-> url.host, path |-> url.path]
    BY <1>5, Zenon DEF Relative, Upto
  <2>2. QED BY <2>1, UrlFacts, Zenon
<1> HIDE DEF n
<1>7. Containing(url) \in Seq(AnyUrl) /\ Len(Containing(url)) = n
  BY <1>1, <1>2, <1>3
<1>8. QED BY <1>4, <1>6, <1>7 DEF IsContainer, n

\* The ACLs that ldp-wac.js lists for a URL are those of the resource, of its
\* container, and so on up to the root, as ldp-target.js climbs: for every URL
\* there is a chain as AccessControl assumes it for each of its resources.
THEOREM WalksAreChains ==
  ASSUME NEW url \in AnyUrl
  PROVE  LET chain == ChainOf(url) IN
         /\ chain \in Seq(AnyUrl)
         /\ Len(chain) >= 1
         /\ chain[1] = url
         /\ \A i \in 2..Len(chain) :
              IsContainer(chain[i]) /\ chain[i] = Parent(chain[i - 1])
         /\ ~IsContainer(url) => Len(chain) >= 2
         /\ PossibleAcls(url) =
              [i \in 1..Len(chain) |-> PossibleAcls(chain[i])[1]]
<1> DEFINE n == Depth(url)
           dirs == Containing(url)
           chain == ChainOf(url)
<1>1. url \in AnyUrl
  OBVIOUS
<1>2. n \in Nat /\ n >= 1
  BY <1>1, UrlFacts DEF Depth
<1>3. /\ dirs \in Seq(AnyUrl) /\ Len(dirs) = n
      /\ dirs[1] = Relative(url, NoName)
      /\ IsContainer(url) => dirs[1] = url
  BY <1>1, OwnContaining
<1>4. \A k \in 1..n :
        /\ IsContainer(dirs[k])
        /\ PossibleAcls(dirs[k])[1] = AclsAbove(url)[k]
        /\ k + 1 \in 1..n => dirs[k + 1] = Parent(dirs[k])
  BY <1>1, ContainingFacts
<1>5. /\ AclsAbove(url) \in Seq(AnyUrl) /\ Len(AclsAbove(url)) = n
  BY <1>1, AboveFacts DEF Depth
<1> HIDE DEF dirs, n
<1>6. CASE IsContainer(url)
  <2>1. chain = dirs /\ PossibleAcls(url) = AclsAbove(url)
    BY <1>6 DEF ChainOf, PossibleAcls, dirs
  <2>2. \A i \in 2..n : IsContainer(dirs[i]) /\ dirs[i] = Parent(dirs[i - 1])
    <3>1. ASSUME NEW i \in 2..n
          PROVE  i \in 1..n /\ i - 1 \in 1..n /\ (i - 1) + 1 = i
      BY <1>2
    <3>2. QED BY <1>4, <3>1
  <2>3. AclsAbove(url) = [i \in 1..n |-> PossibleAcls(dirs[i])[1]]
    BY <1>2, <1>4, <1>5
  <2> HIDE DEF chain
  <2>4. QED BY <1>2, <1>3, <1>6, <2>1, <2>2, <2>3 DEF chain
<1>7. CASE ~IsContainer(url)
  <2>1. /\ chain = <<url>> \o dirs
        /\ PossibleAcls(url) = <<OwnAcl(url)>> \o AclsAbove(url)
    BY <1>7 DEF ChainOf, PossibleAcls, dirs
  <2>2. PossibleAcls(url)[1] = OwnAcl(url)
    BY <1>1, <1>7, WalkFacts
  <2>3. /\ chain \in Seq(AnyUrl) /\ Len(chain) = n + 1 /\ chain[1] = url
        /\ \A k \in 1..n : chain[k + 1] = dirs[k]
    <3> HIDE DEF chain
    <3>1. QED BY <1>1, <1>2, <1>3, <2>1
  <2>4. /\ Len(PossibleAcls(url)) = n + 1
        /\ PossibleAcls(url) \in Seq(AnyUrl)
        /\ \A k \in 1..n : PossibleAcls(url)[k + 1] = AclsAbove(url)[k]
    <3>1. OwnAcl(url) \in AnyUrl
      BY <1>1, WalkFacts
    <3>2. QED BY <1>2, <1>5, <2>1, <3>1
  <2> HIDE DEF chain
  <2>5. \A i \in 2..(n + 1) :
          i - 1 \in 1..n /\ (i - 1) + 1 = i /\ (i = 2 \/ i - 2 \in 1..n)
    BY <1>2
  <2>6. ASSUME NEW i \in 2..(n + 1)
        PROVE  /\ IsContainer(chain[i]) /\ chain[i] = Parent(chain[i - 1])
               /\ PossibleAcls(url)[i] = PossibleAcls(chain[i])[1]
    <3>1. chain[i] = dirs[i - 1] /\ PossibleAcls(url)[i] = AclsAbove(url)[i - 1]
      BY <2>3, <2>4, <2>5
    <3>2. CASE i = 2
      BY <1>2, <1>3, <1>4, <1>7, <2>3, <2>5, <3>1, <3>2 DEF Parent
    <3>3. CASE i # 2
      <4>1. (i - 2) + 1 = i - 1 /\ i - 2 \in 1..n /\ i - 1 \in 1..n
        BY <1>2, <3>3
      <4>2. chain[i - 1] = dirs[i - 2] /\ dirs[i - 1] = Parent(dirs[i - 2])
        BY <1>4, <2>3, <4>1
      <4>3. QED BY <1>4, <3>1, <4>1, <4>2
    <3>4. QED BY <3>2, <3>3
  <2>7. PossibleAcls(url) = [i \in 1..(n + 1) |-> PossibleAcls(chain[i])[1]]
    <3>1. \A i \in 1..(n + 1) : i = 1 \/ i \in 2..(n + 1)
      BY <1>2
    <3>2. \A i \in 1..(n + 1) : PossibleAcls(url)[i] = PossibleAcls(chain[i])[1]
      BY <2>2, <2>3, <2>6, <3>1
    <3>3. QED BY <1>2, <2>4, <3>2
  <2>8. /\ Len(chain) >= 1
        /\ \A i \in 2..Len(chain) :
             IsContainer(chain[i]) /\ chain[i] = Parent(chain[i - 1])
        /\ Len(chain) >= 2
        /\ PossibleAcls(url) =
             [i \in 1..Len(chain) |-> PossibleAcls(chain[i])[1]]
    <3>1. Len(chain) = n + 1 /\ n + 1 >= 2
      BY <1>2, <2>3
    <3>2. \A i \in 2..(n + 1) :
            IsContainer(chain[i]) /\ chain[i] = Parent(chain[i - 1])
      BY <2>6
    <3>3. QED BY <2>7, <3>1, <3>2
  <2>9. QED BY <2>3, <2>8, Zenon DEF chain
<1>8. QED BY <1>6, <1>7
=============================================================================
