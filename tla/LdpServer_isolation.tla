------------------------- MODULE LdpServer_isolation -------------------------
(***************************************************************************)
(* What an undisturbed request can rely on, proved for every number of     *)
(* concurrent requests.  A step of another request either leaves the scope *)
(* of q alone, and then what q relies on still holds, or disturbs q.  So   *)
(* only the steps of q itself have to be looked at one by one.             *)
(***************************************************************************)
EXTENDS LdpServer_proofs

-----------------------------------------------------------------------------
(***************************************************************************)
(* The properties, a request at a time, and what they rest on.             *)
(***************************************************************************)
WriteGood(r) ==
  pc[r] = "write" /\ r \notin disturbed =>
    /\ r \notin detached
    /\ tree[req[r].path] =
         File([i \in 1..MaxChunks |->
                 IF i <= pos[r] THEN req[r].body[i] ELSE {}])

PatchGood(r) ==
  /\ req[r].method = "PATCH"
  /\ pc[r] \in {"mkdir", "open"}
  /\ r \notin disturbed
  => \A i \in 1..MaxChunks :
       req[r].body[i] =
         IF i = 1
           THEN (Marks(tree[req[r].path].data) \ req[r].drop) \cup {r}
           ELSE {}

PostGood(r) ==
  /\ req[r].method = "POST"
  /\ pc[r] \in {"named", "mkcontainer", "mkdir", "open"}
  /\ r \notin disturbed
  => ~Found(tree, req[r].path, req[r].slash)

DeleteGood(r) ==
  r \notin disturbed =>
    /\ pc[r] = "rmdir" =>
         /\ tree[req[r].path].kind = "dir"
         /\ Listing(tree, req[r].path) \subseteq Hidden
    /\ Performs(r, {"DELETE"}) /\ req[r].exists /\ ~req[r].container =>
         tree[req[r].path].kind = "file"

\* What stat() said of the target is still so.
StatGood(r) ==
  pc[r] = "perform" /\ r \notin disturbed =>
    /\ req[r].exists = Found(tree, req[r].path, req[r].slash)
    /\ req[r].container = (req[r].slash \/ tree[req[r].path].kind = "dir")

Good(r) ==
  /\ WriteGood(r) /\ PatchGood(r) /\ PostGood(r) /\ DeleteGood(r)
  /\ StatGood(r)

\* Nothing is written before the file is open, and what a request is about to
\* touch is an entry that clients name or one of its own UUIDs.
Footing(r) ==
  /\ pc[r] # "write" => pos[r] = 0
  /\ Live(r) => req[r].path \in Names \cup Uuids[r]
  /\ pc[r] = "named" => req[r].method = "POST"

\* No entry has the UUIDs that r has not generated yet.
Unclaimed(r) ==
  pc[r] \in {"idle", "perform"} => \A u \in Uuids[r] : tree[u].kind = "absent"

IsolationInv ==
  RootedInv /\ \A r \in Requests : Footing(r) /\ Unclaimed(r) /\ Good(r)

-----------------------------------------------------------------------------
(***************************************************************************)
(* Every step is the work of one request.                                  *)
(***************************************************************************)
\* What appears in the tree t is at the path of r or above it.
Grows(r, t) ==
  \A p \in Paths : t[p].kind # "absent" =>
    tree[p].kind # "absent" \/ p \in {req[r].path} \cup Above[req[r].path]

LEMMA GrowingTrees ==
  ASSUME TypeOK, NEW r \in Requests
  PROVE  LET p == req[r].path IN
         /\ Grows(r, tree)
         /\ Grows(r, WithContainer(p))
         /\ Grows(r, WithDirectories(tree, Above[p]))
         /\ Grows(r, Without(tree, p))
         /\ \A c : Grows(r, [tree EXCEPT ![p] = File(c)])
BY TreeTypes, NodeKinds DEF Grows, WithContainer, WithDirectories, Without

Step(r) == Receive(r) \/ Serve(r) \/ Collect(r) \/ StartPart(r)

\* A step of r, but for the end of the process, acts on the others through the
\* tree alone.
Acts(r) ==
  /\ OthersStay(r)
  /\ \/ \E t : Effect(r, t) /\ Grows(r, t)
     \/ UNCHANGED <<tree, detached, disturbed>>

LEMMA OverActs ==
  ASSUME TypeOK, NEW r \in Requests, Over(r), NEW t, Effect(r, t), Grows(r, t)
  PROVE  Acts(r)
BY OthersStayAtEnd DEF Acts

LEMMA EndActs ==
  ASSUME TypeOK, NEW r \in Requests, NEW code, End(r, code),
         NEW t, Effect(r, t), Grows(r, t)
  PROVE  Acts(r)
BY OverActs DEF End

LEMMA EndUntouchedActs ==
  ASSUME TypeOK, NEW r \in Requests, NEW code, EndUntouched(r, code)
  PROVE  Acts(r)
BY EndActs, GrowingTrees DEF EndUntouched

LEMMA StepActs ==
  ASSUME TypeOK, NEW r \in Requests, Step(r)
  PROVE  Acts(r) \/ Down
<1>1. CASE \/ Refuse(r) \/ Read(r) \/ List(r) \/ Stream(r)
           \/ RejectPost(r) \/ RejectCopy(r) \/ EndUpload(r) \/ RejectDelete(r)
  BY <1>1, EndUntouchedActs
     DEF Refuse, Read, List, Stream, RejectPost, RejectCopy, EndUpload,
         RejectDelete
<1>2. CASE Receive(r) \/ NamePost(r) \/ SeekIndex(r) \/ StartPart(r)
  BY <1>2 DEF Receive, NamePost, SeekIndex, StartPart, Goto, Acts, OthersStay,
              TypeOK
<1>3. CASE StartUpload(r) \/ BreakOffUpload(r) \/ ListForDelete(r)
  BY <1>3 DEF StartUpload, BreakOffUpload, ListForDelete, Goto, Acts,
              OthersStay, TypeOK
<1>4. CASE LaunchPost(r)
  <2>1. CASE EndUntouched(r, 201)
    BY <2>1, EndUntouchedActs
  <2>2. CASE /\ Goto(r, "mkcontainer") \/ Goto(r, "mkdir")
             /\ UNCHANGED <<tree, req, pos, detached, disturbed>>
    BY <2>2 DEF Goto, Acts, OthersStay, TypeOK
  <2>3. QED BY <1>4, <2>1, <2>2 DEF LaunchPost
<1>5. CASE LoadPatch(r)
  <2>1. CASE EndUntouched(r, 500) \/ EndUntouched(r, 409)
    BY <2>1, EndUntouchedActs
  <2>2. CASE \E drop :
               /\ req' = [req EXCEPT ![r].drop = drop,
                                     ![r].body = PatchedGraph(r, drop)]
               /\ Goto(r, "mkdir")
               /\ UNCHANGED <<tree, pos, detached, disturbed>>
    BY <2>2 DEF Goto, Acts, OthersStay, TypeOK
  <2>3. QED BY <1>5, <2>1, <2>2 DEF LoadPatch
<1>6. CASE PutContainer(r) \/ RemoveContainer(r) \/ RemoveResource(r)
  BY <1>6, EndActs, EndUntouchedActs, GrowingTrees
     DEF PutContainer, RemoveContainer, RemoveResource
<1>7. CASE MakePosted(r)
  BY <1>7, EndActs, EndUntouchedActs, GrowingTrees DEF MakePosted, Unhandled
<1>8. CASE MakeParents(r) \/ OpenFile(r)
  BY <1>8, GrowingTrees
     DEF MakeParents, OpenFile, Goto, Acts, OthersStay, TypeOK
<1>9. CASE WriteChunk(r)
  <2> DEFINE p == req[r].path
             k == pos[r] + 1
  <2>1. PICK t : Effect(r, t) /\ Grows(r, t)
    <3>1. \/ Effect(r, tree)
          \/ Effect(r, [tree EXCEPT ![p] =
               File([tree[p].data EXCEPT ![k] = req[r].body[k]])])
      BY <1>9 DEF WriteChunk
    <3>2. QED BY <3>1, GrowingTrees
  <2>2. OthersStay(r)
    BY <1>9 DEF WriteChunk, Goto, OthersStay, TypeOK
  <2>3. QED BY <2>1, <2>2 DEF Acts
<1>10. CASE BreakOff(r) \/ StreamStalls(r)
  BY <1>10, GrowingTrees
     DEF BreakOff, StreamStalls, Stall, Goto, Acts, OthersStay, TypeOK
<1>11. CASE Finish(r) \/ FailWrite(r)
  BY <1>11, EndUntouchedActs, OverActs, GrowingTrees
     DEF Finish, FailWrite, FailPart, Unhandled
<1>12. CASE FailCopy(r) \/ SourceFails(r)
  <2>1. DropCopy(r)
    BY <1>12 DEF FailCopy, SourceFails
  <2>2. QED BY <2>1, EndActs, GrowingTrees DEF DropCopy
<1>13. CASE UploadStops(r)
  BY <1>13 DEF UploadStops
<1>14. QED BY <1>1, <1>2, <1>3, <1>4, <1>5, <1>6, <1>7, <1>8, <1>9, <1>10,
              <1>11, <1>12, <1>13 DEF Step, Serve, Collect

LEMMA ServesLive ==
  ASSUME NEW r \in Requests, Serve(r)
  PROVE  Live(r)
<1>1. CASE \/ Refuse(r) \/ Read(r) \/ List(r) \/ Stream(r)
           \/ StreamStalls(r) \/ PutContainer(r) \/ RejectPost(r)
           \/ NamePost(r) \/ SeekIndex(r) \/ LoadPatch(r) \/ RejectCopy(r)
           \/ RejectDelete(r) \/ ListForDelete(r) \/ RemoveResource(r)
  BY <1>1 DEF Refuse, Read, List, Stream, StreamStalls, Gets,
              PutContainer, RejectPost, NamePost, SeekIndex,
              LoadPatch, RejectCopy, RejectDelete, ListForDelete,
              RemoveResource, Performs, Live, LivePcs
<1>2. CASE \/ LaunchPost(r) \/ MakePosted(r)
           \/ OpenFile(r) \/ WriteChunk(r) \/ Finish(r) \/ BreakOff(r)
           \/ RemoveContainer(r)
  BY <1>2 DEF LaunchPost, MakePosted, OpenFile, WriteChunk,
              Finish, BreakOff, RemoveContainer, Live, LivePcs
<1>3. CASE MakeParents(r) \/ FailWrite(r) \/ FailCopy(r) \/ SourceFails(r)
  BY <1>3 DEF MakeParents, FailWrite, FailCopy, SourceFails, Troubled,
              Copying, AtMkdir, Performs, Live, LivePcs
<1>4. QED BY <1>1, <1>2, <1>3 DEF Serve

LEMMA CollectsBefore ==
  ASSUME NEW r \in Requests, Collect(r)
  PROVE  pc[r] \in {"perform", "receiving"}
BY DEF Collect, StartUpload, EndUpload, BreakOffUpload, UploadStops, Performs

\* The steps after which r is still at work.
LEMMA StaysLive ==
  ASSUME TypeOK, NEW r \in Requests, Step(r),
         pc'[r] \in LivePcs \cup {"idle"}
  PROVE  /\ \/ Receive(r) \/ NamePost(r) \/ LaunchPost(r) \/ SeekIndex(r)
            \/ StartPart(r) \/ LoadPatch(r) \/ MakeParents(r)
            \/ OpenFile(r) \/ WriteChunk(r) \/ ListForDelete(r)
         /\ \A code : ~End(r, code) /\ ~EndUntouched(r, code)
<1>0. ~Over(r)
  BY OthersStayAtEnd DEF LivePcs
<1>1. \A code : ~End(r, code) /\ ~EndUntouched(r, code)
  BY <1>0 DEF EndUntouched, End
<1>2. Receive(r) \/ StartPart(r) \/ ~Down
  BY ServesLive, CollectsBefore DEF Step, Down, Live, LivePcs, TypeOK
<1>3. Receive(r) \/ StartPart(r) \/ (~Unhandled(r) /\ ~DropCopy(r))
  BY <1>1, <1>2 DEF Unhandled, DropCopy
<1>4. /\ ~Refuse(r) /\ ~Read(r) /\ ~List(r) /\ ~Stream(r)
      /\ ~RejectPost(r) /\ ~RejectCopy(r)
  BY <1>1 DEF Refuse, Read, List, Stream, RejectPost, RejectCopy
<1>5. \/ Receive(r) \/ StartPart(r)
      \/ ~PutContainer(r) /\ ~MakePosted(r) /\ ~Finish(r) /\ ~FailWrite(r)
  BY <1>0, <1>1, <1>3
     DEF PutContainer, MakePosted, Finish, FailWrite, FailPart
<1>6. Receive(r) \/ StartPart(r) \/ (~FailCopy(r) /\ ~SourceFails(r))
  BY <1>3 DEF FailCopy, SourceFails
<1>7. ~RejectDelete(r) /\ ~RemoveContainer(r) /\ ~RemoveResource(r)
  BY <1>1 DEF RejectDelete, RemoveContainer, RemoveResource
<1>8. ~BreakOff(r) /\ ~StreamStalls(r)
  BY DEF BreakOff, StreamStalls, Stall, Goto, LivePcs, TypeOK
<1>9. ~Collect(r) \/ Receive(r) \/ StartPart(r)
  BY <1>1, <1>2 DEF Collect, StartUpload, EndUpload, BreakOffUpload,
                    UploadStops, Goto, LivePcs, TypeOK
<1>10. QED BY <1>1, <1>4, <1>5, <1>6, <1>7, <1>8, <1>9 DEF Serve, Step

-----------------------------------------------------------------------------
(***************************************************************************)
(* Footing and the unclaimed UUIDs.                                        *)
(***************************************************************************)
LEMMA OwnFooting ==
  ASSUME IsolationInv, NEW r \in Requests, Step(r), Live(r)'
  PROVE  Footing(r)'
<1> USE DEF IsolationInv, RootedInv
<1>a. \A code : ~End(r, code) /\ ~EndUntouched(r, code)
  BY StaysLive DEF Live
<1>1. CASE Receive(r)
  <2>1. pc'[r] = "perform" /\ pos'[r] = 0 /\ req'[r].path \in Names
    BY <1>1, RequestsAssumption DEF Receive, Goto, Footing, TypeOK
  <2>2. QED BY <2>1 DEF Footing
<1>2. CASE NamePost(r)
  <2>1. PICK asContainer \in BOOLEAN, e \in Names \cup Uuids[r] :
          req' = [req EXCEPT ![r].path = e, ![r].slash = asContainer]
    BY <1>2 DEF NamePost, FreeNames
  <2>2. req'[r].path = e /\ req'[r].method = req[r].method
    BY <2>1 DEF TypeOK, RequestStates
  <2>3. pos'[r] = 0
    BY <1>2 DEF NamePost, Performs, Footing
  <2>4. req[r].method = "POST"
    BY <1>2 DEF NamePost, Performs
  <2>5. QED BY <2>2, <2>3, <2>4 DEF Footing
<1>3. CASE SeekIndex(r)
  <2>1. PICK e \in Names :
          req' = [req EXCEPT ![r].path = e, ![r].slash = FALSE,
                             ![r].exists = TRUE,
                             ![r].container = (tree[e].kind = "dir")]
    BY <1>3, RequestsAssumption DEF SeekIndex
  <2>2. req'[r].path = e
    BY <2>1 DEF TypeOK, RequestStates
  <2>3. pos'[r] = 0 /\ pc'[r] = "perform"
    BY <1>3 DEF SeekIndex, Performs, Footing, Goto, TypeOK
  <2>4. QED BY <2>2, <2>3 DEF Footing
<1>4. CASE LoadPatch(r)
  <2>1. Live(r) /\ pc[r] = "perform"
    BY <1>4 DEF LoadPatch, Performs, Live, LivePcs
  <2>2. PICK drop :
          /\ req' = [req EXCEPT ![r].drop = drop,
                                ![r].body = PatchedGraph(r, drop)]
          /\ Goto(r, "mkdir")
          /\ UNCHANGED pos
    BY <1>4, <1>a DEF LoadPatch
  <2>3. req'[r].path = req[r].path
    BY <2>2 DEF TypeOK, RequestStates
  <2>4. pos'[r] = 0 /\ pc'[r] = "mkdir"
    BY <2>1, <2>2 DEF Footing, Goto, TypeOK
  <2>5. QED BY <2>1, <2>3, <2>4 DEF Footing
<1>5. CASE LaunchPost(r)
  <2>1. /\ pc'[r] \in {"mkcontainer", "mkdir"}
        /\ UNCHANGED <<req, pos>>
    BY <1>5, <1>a DEF LaunchPost, Goto, TypeOK
  <2>2. pc[r] = "named"
    BY <1>5 DEF LaunchPost
  <2>3. QED BY <2>1, <2>2 DEF Footing, Live, LivePcs
<1>6. CASE StartPart(r)
  <2>1. pc[r] = "idle" /\ pc'[r] = "mkdir" /\ pos'[r] = pos[r]
    BY <1>6 DEF StartPart, Goto, TypeOK
  <2>2. req'[r].path \in Names
    <3>1. PICK e \in Names, u \in Requests : \E n \in 1..MaxChunks :
            req' = [req EXCEPT ![r] =
                     [method |-> "PART", path |-> e, slash |-> FALSE,
                      exists |-> FALSE, container |-> FALSE, drop |-> {},
                      body |-> Body(r, n), upload |-> {u}]]
      BY <1>6 DEF StartPart
    <3>2. QED BY <3>1 DEF TypeOK
  <2>3. QED BY <2>1, <2>2 DEF Footing
<1>7. CASE MakeParents(r)
  <2>1. Live(r) /\ pc[r] # "write"
    BY <1>7 DEF MakeParents, AtMkdir, Performs, Live, LivePcs
  <2>2. pc'[r] = "open" /\ UNCHANGED <<req, pos>>
    BY <1>7 DEF MakeParents, Goto, TypeOK
  <2>3. QED BY <2>1, <2>2 DEF Footing
<1>8. CASE OpenFile(r) \/ WriteChunk(r)
  <2>1. Live(r)
    BY <1>8 DEF OpenFile, WriteChunk, Live, LivePcs
  <2>2. pc'[r] = "write" /\ UNCHANGED req
    BY <1>8 DEF OpenFile, WriteChunk, Goto, TypeOK
  <2>3. QED BY <2>1, <2>2 DEF Footing
<1>9. CASE ListForDelete(r)
  <2>1. Live(r) /\ pc[r] # "write"
    BY <1>9 DEF ListForDelete, Performs, Live, LivePcs
  <2>2. pc'[r] = "rmdir" /\ UNCHANGED <<req, pos>>
    BY <1>9 DEF ListForDelete, Goto, TypeOK
  <2>3. QED BY <2>1, <2>2 DEF Footing
<1>10. QED BY <1>1, <1>2, <1>3, <1>4, <1>5, <1>6, <1>7, <1>8, <1>9, StaysLive
              DEF Live

\* A request that is over has no write position left.
LEMMA EndPos ==
  ASSUME IsolationInv, NEW r \in Requests, Step(r), ~Live(r)'
  PROVE  pos'[r] = 0
<1> USE DEF IsolationInv, RootedInv
<1>1. CASE Over(r) \/ \E code : End(r, code) \/ EndUntouched(r, code)
  BY <1>1 DEF Over, End, EndUntouched, TypeOK
<1>2. CASE Down
  BY <1>2 DEF Down
<1>3. CASE BreakOff(r) \/ StreamStalls(r)
  BY <1>3 DEF BreakOff, StreamStalls, Stall, TypeOK
<1>4. CASE Receive(r)
  BY <1>4 DEF Receive, Goto, Live, LivePcs, TypeOK
<1>5. CASE \/ NamePost(r) \/ SeekIndex(r) \/ StartPart(r) \/ LoadPatch(r)
           \/ MakeParents(r) \/ OpenFile(r) \/ WriteChunk(r)
           \/ ListForDelete(r) \/ LaunchPost(r)
  <2>1. CASE \E step \in LivePcs : Goto(r, step)
    BY <2>1 DEF Goto, Live, TypeOK
  <2>2. CASE \E code : EndUntouched(r, code)
    BY <1>1, <2>2
  <2>3. QED BY <1>5, <2>1, <2>2
    DEF NamePost, SeekIndex, StartPart, LoadPatch, MakeParents, OpenFile,
        WriteChunk, ListForDelete, LaunchPost, LivePcs
<1>6. CASE Collect(r)
  <2>1. CASE StartUpload(r) \/ BreakOffUpload(r)
    BY <2>1 DEF StartUpload, BreakOffUpload, Performs, Footing
  <2>2. QED BY <1>1, <1>2, <1>6, <2>1 DEF Collect, EndUpload, UploadStops
<1>7. CASE \/ Refuse(r) \/ Read(r) \/ List(r) \/ Stream(r) \/ RejectPost(r)
           \/ RejectCopy(r) \/ PutContainer(r) \/ Finish(r) \/ RejectDelete(r)
           \/ RemoveContainer(r) \/ RemoveResource(r)
  BY <1>1, <1>7 DEF Refuse, Read, List, Stream, RejectPost, RejectCopy,
                    PutContainer, Finish, RejectDelete, RemoveContainer, RemoveResource
<1>8. CASE MakePosted(r) \/ FailWrite(r) \/ FailCopy(r) \/ SourceFails(r)
  BY <1>1, <1>2, <1>8 DEF MakePosted, FailWrite, FailPart, FailCopy,
                          SourceFails, Unhandled, DropCopy
<1>9. QED BY <1>1, <1>2, <1>3, <1>4, <1>5, <1>6, <1>7, <1>8 DEF Step, Serve

LEMMA NextFooting ==
  ASSUME IsolationInv, NEW r \in Requests, Step(r)
  PROVE  \A q \in Requests : Footing(q)'
<1> USE DEF IsolationInv, RootedInv
<1>1. CASE Down
  BY <1>1 DEF Down, Footing, Live, LivePcs
<1>2. CASE Acts(r)
  <2>1. ASSUME NEW q \in Requests, q # r PROVE Footing(q)'
    BY <1>2, <2>1 DEF Acts, OthersStay, Footing, Live
  <2>2. CASE Live(r)'
    BY <2>1, <2>2, OwnFooting
  <2>3. CASE ~Live(r)'
    <3>1. pos'[r] = 0
      BY <2>3, EndPos
    <3>2. Footing(r)'
      BY <2>3, <3>1 DEF Footing, Live, LivePcs
    <3>3. QED BY <2>1, <3>2
  <2>4. QED BY <2>2, <2>3
<1>3. QED BY <1>1, <1>2, StepActs

LEMMA NextUnclaimed ==
  ASSUME IsolationInv, NEW r \in Requests, Step(r)
  PROVE  \A q \in Requests : Unclaimed(q)'
<1> USE DEF IsolationInv, RootedInv
<1> SUFFICES ASSUME NEW q \in Requests, pc'[q] \in {"idle", "perform"},
                    NEW u \in Uuids[q]
             PROVE  tree'[u].kind = "absent"
  BY DEF Unclaimed
<1>1. CASE Down
  BY <1>1 DEF Down, Unclaimed
<1>2. CASE Receive(r) \/ StartPart(r) \/ SeekIndex(r) \/ Collect(r)
  <2>1. UNCHANGED tree
    BY <1>2 DEF Receive, StartPart, SeekIndex, Collect, StartUpload, EndUpload,
                BreakOffUpload, UploadStops, Down, EndUntouched, Effect
  <2>2. pc[q] \in {"idle", "perform"}
    <3>1. CASE q # r
      <4>1. Step(r)
        BY <1>2 DEF Step, Serve
      <4>2. Down \/ pc[q] = pc'[q]
        BY <3>1, <4>1, StepActs DEF Acts, OthersStay
      <4>3. QED BY <1>1, <4>2 DEF Down, Live, LivePcs, TypeOK
    <3>2. CASE q = r
      <4>1. CASE Receive(r) \/ StartPart(r) \/ SeekIndex(r)
        BY <3>2, <4>1 DEF Receive, StartPart, SeekIndex, Performs
      <4>2. CASE Collect(r)
        <5>1. CASE EndUpload(r)
          BY <3>2, <5>1, OthersStayAtEnd DEF EndUpload, EndUntouched, End
        <5>2. CASE StartUpload(r) \/ BreakOffUpload(r)
          BY <3>2, <5>2 DEF StartUpload, BreakOffUpload, Performs, Goto, TypeOK
        <5>3. CASE UploadStops(r)
          BY <3>2, <5>3 DEF UploadStops, Down, Live, LivePcs, TypeOK
        <5>4. QED BY <4>2, <5>1, <5>2, <5>3 DEF Collect
      <4>3. QED BY <1>2, <4>1, <4>2
    <3>3. QED BY <3>1, <3>2
  <2>3. QED BY <2>1, <2>2 DEF Unclaimed
<1>3. CASE Serve(r) /\ Acts(r) /\ ~SeekIndex(r)
  <2>1. q # r
    <3>1. SUFFICES ASSUME q = r PROVE FALSE
      OBVIOUS
    <3>2. \/ NamePost(r) \/ LaunchPost(r) \/ SeekIndex(r)
          \/ StartPart(r) \/ LoadPatch(r) \/ MakeParents(r)
          \/ OpenFile(r) \/ WriteChunk(r) \/ ListForDelete(r) \/ Receive(r)
      BY <3>1, StaysLive DEF LivePcs
    <3>3. pc[r] # "idle"
      BY <1>3, ServesLive DEF Live, LivePcs
    <3>4. \A code : ~EndUntouched(r, code)
      BY <3>1, StaysLive DEF LivePcs
    <3>5. QED BY <1>3, <3>1, <3>2, <3>3, <3>4
      DEF Receive, StartPart, NamePost, LaunchPost, LoadPatch,
          MakeParents, OpenFile, WriteChunk, ListForDelete, Goto, TypeOK
  <2>2. pc[q] \in {"idle", "perform"}
    BY <1>3, <2>1 DEF Acts, OthersStay
  <2>3. tree[u].kind = "absent"
    BY <2>2 DEF Unclaimed
  <2>4. CASE UNCHANGED tree
    BY <2>3, <2>4
  <2>5. CASE \E t : Effect(r, t) /\ Grows(r, t)
    <3>1. Grows(r, tree')
      BY <2>5 DEF Effect
    <3>2. req[r].path \in Names \cup Uuids[r]
      BY <1>3, ServesLive DEF Footing
    <3>3. req[r].path \in Paths /\ u \in Paths
      BY RequestsAssumption DEF TypeOK, RequestStates
    <3>4. u # req[r].path /\ u \notin Above[req[r].path]
      BY <2>1, <3>2, <3>3, RequestsAssumption
    <3>5. QED BY <2>3, <3>1, <3>3, <3>4 DEF Grows
  <2>6. QED BY <1>3, <2>4, <2>5 DEF Acts
<1>4. QED BY <1>1, <1>2, <1>3, StepActs DEF Step

-----------------------------------------------------------------------------
(***************************************************************************)
(* The steps of the other requests.                                        *)
(***************************************************************************)
\* An undisturbed request finds its scope as it left it.
LEMMA Isolated ==
  ASSUME TypeOK, NEW r \in Requests, Acts(r),
         NEW q \in Requests, q # r, Live(q)', q \notin disturbed'
  PROVE  /\ q \notin disturbed
         /\ \A p \in Scope(q) : tree'[p] = tree[p]
<1>1. CASE UNCHANGED <<tree, disturbed>>
  BY <1>1
<1>2. CASE \E t : Effect(r, t)
  BY <1>2 DEF Effect, Live
<1>3. QED BY <1>1, <1>2 DEF Acts

LEMMA ScopeOf ==
  ASSUME TypeOK, NEW q \in Requests
  PROVE  /\ req[q].path \in Scope(q)
         /\ Entries(req[q].path) \subseteq Scope(q)
<1>1. req[q].path \in Paths
  BY DEF TypeOK, RequestStates
<1>2. \A x \in Entries(req[q].path) : req[q].path \in Above[x] /\ x \in Paths
  BY <1>1 DEF Entries
<1>3. QED BY <1>2 DEF Scope, Below

LEMMA OthersGood ==
  ASSUME IsolationInv, NEW r \in Requests, Acts(r),
         NEW q \in Requests, q # r
  PROVE  Good(q)'
<1> USE DEF IsolationInv, RootedInv
<1> DEFINE p == req[q].path
<1>1. pc'[q] = pc[q] /\ req'[q] = req[q] /\ pos'[q] = pos[q]
  BY DEF Acts, OthersStay
<1>2. CASE ~Live(q)' \/ q \in disturbed'
  <2>1. pc'[q] \in {"write", "mkdir", "open", "named", "mkcontainer", "rmdir",
                    "perform"} => q \in disturbed'
    BY <1>2 DEF Live, LivePcs
  <2>2. QED BY <2>1
    DEF Good, WriteGood, PatchGood, PostGood, DeleteGood, StatGood, Performs
<1>3. CASE Live(q)' /\ q \notin disturbed'
  <2>1. q \notin disturbed /\ \A x \in Scope(q) : tree'[x] = tree[x]
    BY <1>3, Isolated
  <2>2. tree'[p] = tree[p]
    BY <2>1, ScopeOf
  <2>3. WriteGood(q)'
    <3>1. SUFFICES ASSUME pc[q] = "write"
                   PROVE  WriteGood(q)'
      BY <1>1 DEF WriteGood
    <3>2. q \notin detached /\ tree[p].kind = "file"
      BY <2>1, <3>1, NodeKinds DEF Good, WriteGood
    <3>3. q \notin detached'
      <4>1. CASE UNCHANGED detached
        BY <3>2, <4>1
      <4>2. CASE \E t : Effect(r, t)
        BY <2>2, <3>2, <4>2 DEF Effect
      <4>3. QED BY <4>1, <4>2 DEF Acts
    <3>4. QED BY <1>1, <2>1, <2>2, <3>1, <3>3 DEF Good, WriteGood
  <2>4. PatchGood(q)'
    <3>1. PatchGood(q)
      BY DEF Good
    <3>2. QED BY <1>1, <2>1, <2>2, <3>1 DEF PatchGood
  <2>5. PostGood(q)'
    BY <1>1, <2>1, <2>2 DEF Good, PostGood, Found
  <2>6. DeleteGood(q)'
    <3>1. Listing(tree', p) = Listing(tree, p)
      BY <2>1, ScopeOf DEF Listing
    <3>2. QED BY <1>1, <2>1, <2>2, <3>1 DEF Good, DeleteGood, Performs
  <2>7. StatGood(q)'
    BY <1>1, <2>1, <2>2 DEF Good, StatGood, Found
  <2>8. QED BY <2>3, <2>4, <2>5, <2>6, <2>7 DEF Good
<1>4. QED BY <1>2, <1>3

-----------------------------------------------------------------------------
(***************************************************************************)
(* The steps of the request itself.                                        *)
(***************************************************************************)
\* r does not disturb itself.
LEMMA OwnEffect ==
  ASSUME NEW r \in Requests, NEW t, Effect(r, t), Live(r)', r \notin disturbed'
  PROVE  r \notin disturbed /\ tree' = t
BY DEF Effect, Live

LEMMA OwnWrite ==
  ASSUME IsolationInv, NEW r \in Requests, Step(r),
         pc'[r] = "write", r \notin disturbed'
  PROVE  WriteGood(r)'
<1> USE DEF IsolationInv, RootedInv
<1> DEFINE p == req[r].path
           k == pos[r] + 1
<1>1. OpenFile(r) \/ WriteChunk(r)
  <2>1. \A step : Goto(r, step) => step = "write"
    BY DEF Goto, TypeOK
  <2>2. \A code : ~EndUntouched(r, code)
    BY StaysLive DEF LivePcs
  <2>3. /\ ~Receive(r) /\ ~NamePost(r) /\ ~SeekIndex(r) /\ ~StartPart(r)
        /\ ~MakeParents(r) /\ ~ListForDelete(r)
    BY <2>1 DEF Receive, NamePost, SeekIndex, StartPart, MakeParents,
                ListForDelete
  <2>4. ~LaunchPost(r) /\ ~LoadPatch(r)
    BY <2>1, <2>2 DEF LaunchPost, LoadPatch
  <2>5. QED BY <2>3, <2>4, StaysLive DEF LivePcs
<1>2. p \in Paths /\ tree \in [Paths -> Nodes] /\ req[r].body \in Contents
  BY TreeTypes DEF TypeOK, RequestStates
<1>3. Live(r)'
  BY DEF Live, LivePcs
<1>4. CASE OpenFile(r)
  <2>1. tree' = [tree EXCEPT ![p] = File(Blank)] /\ UNCHANGED <<req, pos>>
    BY <1>3, <1>4, OwnEffect DEF OpenFile
  <2>2. pos[r] = 0
    BY <1>4 DEF OpenFile, Footing
  <2>3. Blank = [i \in 1..MaxChunks |->
                   IF i <= pos[r] THEN req[r].body[i] ELSE {}]
    BY <2>2, ChunksAssumption DEF Blank
  <2>4. tree'[p] = File(Blank)
    BY <1>2, <2>1
  <2>5. r \notin detached'
    <3>1. r \notin detached
      BY <1>4 DEF OpenFile, OpenFiles
    <3>2. QED BY <1>4, <2>1, <2>4, <3>1, NodeKinds DEF OpenFile, Effect
  <2>6. QED BY <2>1, <2>3, <2>4, <2>5 DEF WriteGood
<1>5. CASE WriteChunk(r)
  <2>1. r \notin disturbed /\ UNCHANGED req
    BY <1>3, <1>5, OwnEffect DEF WriteChunk
  <2>2. /\ r \notin detached
        /\ tree[p] = File([i \in 1..MaxChunks |->
                             IF i <= pos[r] THEN req[r].body[i] ELSE {}])
    BY <1>5, <2>1 DEF WriteChunk, Good, WriteGood
  <2>3. tree' = [tree EXCEPT ![p] =
                   File([tree[p].data EXCEPT ![k] = req[r].body[k]])]
    BY <1>3, <1>5, <2>2, OwnEffect DEF WriteChunk
  <2>4. tree[p].data = [i \in 1..MaxChunks |->
                          IF i <= pos[r] THEN req[r].body[i] ELSE {}]
    BY <2>2 DEF File
  <2>5. [tree[p].data EXCEPT ![k] = req[r].body[k]]
          = [i \in 1..MaxChunks |-> IF i <= k THEN req[r].body[i] ELSE {}]
    <3> DEFINE f == tree[p].data
               b == req[r].body
    <3>1. [f EXCEPT ![k] = b[k]]
            = [i \in 1..MaxChunks |-> IF i = k THEN b[k] ELSE f[i]]
      BY <2>4
    <3>2. \A i \in 1..MaxChunks :
            (IF i = k THEN b[k] ELSE f[i]) = IF i <= k THEN b[i] ELSE {}
      BY <2>4, ChunksAssumption DEF TypeOK
    <3>3. QED BY <3>1, <3>2
  <2>6. tree'[p] = File([i \in 1..MaxChunks |->
                           IF i <= k THEN req[r].body[i] ELSE {}])
    BY <1>2, <2>3, <2>5
  <2>7. r \notin detached'
    BY <1>5, <2>2, <2>3, <2>6, NodeKinds DEF WriteChunk, Effect
  <2>8. pos'[r] = k
    BY <1>5 DEF WriteChunk, TypeOK
  <2>9. QED BY <2>1, <2>6, <2>7, <2>8 DEF WriteGood
<1>6. QED BY <1>1, <1>4, <1>5

LEMMA OwnPatch ==
  ASSUME IsolationInv, NEW r \in Requests, Step(r)
  PROVE  PatchGood(r)'
<1> USE DEF IsolationInv, RootedInv
<1> SUFFICES ASSUME req'[r].method = "PATCH", pc'[r] \in {"mkdir", "open"},
                    r \notin disturbed'
             PROVE  \A i \in 1..MaxChunks :
                      req'[r].body[i] =
                        IF i = 1
                          THEN (Marks(tree'[req'[r].path].data)
                                  \ req'[r].drop) \cup {r}
                          ELSE {}
  BY DEF PatchGood
<1> DEFINE p == req[r].path
<1>1. \A step : Goto(r, step) => step \in {"mkdir", "open"}
  BY DEF Goto, TypeOK
<1>2. \A code : ~EndUntouched(r, code)
  BY StaysLive DEF LivePcs
<1>3. ~SeekIndex(r) /\ ~StartPart(r)
  <2>1. ~SeekIndex(r)
    <3>1. SeekIndex(r) => Goto(r, "perform")
      BY DEF SeekIndex
    <3>2. QED BY <1>1, <3>1
  <2>2. ~StartPart(r)
    BY DEF StartPart, TypeOK
  <2>3. QED BY <2>1, <2>2
<1>4. /\ ~Receive(r) /\ ~NamePost(r) /\ ~OpenFile(r)
      /\ ~WriteChunk(r) /\ ~ListForDelete(r)
  <2>1. ~Receive(r) /\ ~NamePost(r)
    BY <1>1 DEF Receive, NamePost
  <2>2. ~OpenFile(r) /\ ~WriteChunk(r) /\ ~ListForDelete(r)
    BY <1>1 DEF OpenFile, WriteChunk, ListForDelete
  <2>3. QED BY <2>1, <2>2
<1>5. ~LaunchPost(r)
  BY <1>2 DEF LaunchPost, Footing
<1>6. CASE LoadPatch(r)
  <2>1. PICK drop :
          /\ req' = [req EXCEPT ![r].drop = drop,
                                ![r].body = PatchedGraph(r, drop)]
          /\ UNCHANGED tree
    BY <1>2, <1>6 DEF LoadPatch
  <2>2. /\ req'[r].path = p /\ req'[r].drop = drop
        /\ req'[r].body = PatchedGraph(r, drop)
    BY <2>1 DEF TypeOK, RequestStates
  <2>3. QED BY <2>1, <2>2 DEF PatchedGraph
<1>7. CASE MakeParents(r)
  <2>1. /\ r \notin disturbed /\ UNCHANGED req
        /\ tree' = WithDirectories(tree, Above[p])
    BY <1>7, OwnEffect DEF MakeParents, Live, LivePcs
  <2>2. p \in Paths /\ p \notin Above[p]
    BY TreeTypes, PathsAssumption
  <2>3. tree'[p] = tree[p]
    BY <2>1, <2>2 DEF WithDirectories
  <2>4. pc[r] = "mkdir"
    BY <1>7, <2>1 DEF MakeParents, AtMkdir, Performs
  <2>5. \A i \in 1..MaxChunks :
          req[r].body[i] =
            IF i = 1
              THEN (Marks(tree[p].data) \ req[r].drop) \cup {r} ELSE {}
    BY <2>1, <2>4 DEF Good, PatchGood
  <2>6. /\ req'[r].body = req[r].body /\ req'[r].drop = req[r].drop
        /\ tree'[req'[r].path].data = tree[p].data
    BY <2>1, <2>3
  <2>7. QED BY <2>5, <2>6
<1>8. LoadPatch(r) \/ MakeParents(r)
  BY <1>3, <1>4, <1>5, StaysLive DEF LivePcs
<1>9. QED BY <1>6, <1>7, <1>8

LEMMA OwnPost ==
  ASSUME IsolationInv, NEW r \in Requests, Step(r)
  PROVE  PostGood(r)'
<1> USE DEF IsolationInv, RootedInv
<1> SUFFICES ASSUME req'[r].method = "POST",
                    pc'[r] \in {"named", "mkcontainer", "mkdir", "open"},
                    r \notin disturbed'
             PROVE  ~Found(tree', req'[r].path, req'[r].slash)
  BY DEF PostGood
<1> DEFINE p == req[r].path
<1>1. \A step : Goto(r, step) =>
        step \in {"named", "mkcontainer", "mkdir", "open"}
  BY DEF Goto, TypeOK
<1>2. \A code : ~EndUntouched(r, code)
  BY StaysLive DEF LivePcs
<1>3. ~SeekIndex(r) /\ ~StartPart(r)
  <2>1. ~SeekIndex(r)
    <3>1. SeekIndex(r) => Goto(r, "perform")
      BY DEF SeekIndex
    <3>2. QED BY <1>1, <3>1
  <2>2. ~StartPart(r)
    BY DEF StartPart, TypeOK
  <2>3. QED BY <2>1, <2>2
<1>4. /\ ~Receive(r) /\ ~OpenFile(r) /\ ~WriteChunk(r)
      /\ ~ListForDelete(r)
  BY <1>1 DEF Receive, OpenFile, WriteChunk, ListForDelete, Performs
<1>5. ~LoadPatch(r)
  <2>1. \A drop, body : req' = [req EXCEPT ![r].drop = drop, ![r].body = body]
          => req[r].method = "POST"
    BY DEF TypeOK, RequestStates
  <2>2. QED BY <1>2, <2>1 DEF LoadPatch, Performs
<1>6. CASE NamePost(r)
  <2>1. PICK asContainer \in BOOLEAN, e \in Paths :
          /\ e \in FreeNames(r, asContainer) \cup Uuids[r]
          /\ req' = [req EXCEPT ![r].path = e, ![r].slash = asContainer]
    BY <1>6, RequestsAssumption DEF NamePost, FreeNames, Entries
  <2>2. req'[r].path = e /\ req'[r].slash = asContainer /\ UNCHANGED tree
    BY <1>6, <2>1 DEF NamePost, TypeOK, RequestStates
  <2>3. CASE e \in FreeNames(r, asContainer)
    BY <2>2, <2>3 DEF FreeNames
  <2>4. CASE e \in Uuids[r]
    BY <1>6, <2>2, <2>4 DEF NamePost, Performs, Unclaimed, Found
  <2>5. QED BY <2>1, <2>3, <2>4
<1>7. CASE LaunchPost(r)
  BY <1>2, <1>7 DEF LaunchPost, Good, PostGood
<1>8. CASE MakeParents(r)
  <2>1. /\ r \notin disturbed /\ UNCHANGED req
        /\ tree' = WithDirectories(tree, Above[p])
    BY <1>8, OwnEffect DEF MakeParents, Live, LivePcs
  <2>2. p \in Paths /\ p \notin Above[p]
    BY TreeTypes, PathsAssumption
  <2>3. tree'[p] = tree[p]
    BY <2>1, <2>2 DEF WithDirectories
  <2>4. pc[r] = "mkdir"
    BY <1>8, <2>1 DEF MakeParents, AtMkdir, Performs
  <2>5. QED BY <2>1, <2>3, <2>4 DEF Good, PostGood, Found
<1>9. QED BY <1>3, <1>4, <1>5, <1>6, <1>7, <1>8, StaysLive DEF LivePcs

LEMMA OwnDelete ==
  ASSUME IsolationInv, NEW r \in Requests, Step(r)
  PROVE  DeleteGood(r)'
<1> USE DEF IsolationInv, RootedInv
<1> SUFFICES ASSUME pc'[r] \in {"rmdir", "perform"}, r \notin disturbed'
             PROVE  DeleteGood(r)'
  BY DEF DeleteGood, Performs
<1>1. \A step : Goto(r, step) => step \in {"rmdir", "perform"}
  BY DEF Goto, TypeOK
<1>2. \A code : ~EndUntouched(r, code)
  BY StaysLive DEF LivePcs
<1>3. /\ ~NamePost(r) /\ ~StartPart(r) /\ ~MakeParents(r) /\ ~OpenFile(r)
      /\ ~WriteChunk(r)
  <2>1. ~NamePost(r) /\ ~StartPart(r) /\ ~MakeParents(r)
    BY <1>1 DEF NamePost, StartPart, MakeParents
  <2>2. ~OpenFile(r) /\ ~WriteChunk(r)
    BY <1>1 DEF OpenFile, WriteChunk
  <2>3. QED BY <2>1, <2>2
<1>4. ~LaunchPost(r) /\ ~LoadPatch(r)
  <2>1. ~Goto(r, "mkcontainer") /\ ~Goto(r, "mkdir")
    BY <1>1
  <2>2. ~LaunchPost(r)
    BY <1>2, <2>1 DEF LaunchPost
  <2>3. ~LoadPatch(r)
    BY <1>2, <2>1 DEF LoadPatch
  <2>4. QED BY <2>2, <2>3
<1>5. CASE Receive(r)
  <2>1. PICK url \in Urls :
          /\ req'[r].path = url.path
          /\ req'[r].exists = StatOf(url).exists
          /\ req'[r].container = StatOf(url).container
    BY <1>5 DEF Receive, TypeOK
  <2>2. pc'[r] = "perform" /\ UNCHANGED tree
    BY <1>5 DEF Receive, Goto, TypeOK
  <2>3. tree[url.path] \in Nodes /\ url.slash \in BOOLEAN
    BY RequestsAssumption DEF TypeOK
  <2>4. req'[r].exists /\ ~req'[r].container =>
          tree[url.path].kind = "file"
    BY <2>1, <2>3, NodeShapes DEF StatOf, Found
  <2>5. QED BY <2>1, <2>2, <2>4 DEF DeleteGood
<1>6. CASE ListForDelete(r)
  <2>1. Listing(tree, req[r].path) \subseteq Hidden
    BY <1>6 DEF ListForDelete, Visible
  <2>2. pc'[r] = "rmdir"
    BY <1>6 DEF ListForDelete, Goto, TypeOK
  <2>3. QED BY <1>6, <2>1, <2>2 DEF ListForDelete, DeleteGood, Performs
<1>7. CASE SeekIndex(r)
  <2>1. req'[r].method = "GET"
    <3>1. req[r].method = "GET"
      BY <1>7 DEF SeekIndex, Performs
    <3>2. PICK e : req' = [req EXCEPT ![r].path = e, ![r].slash = FALSE,
                                      ![r].exists = TRUE,
                                      ![r].container = (tree[e].kind = "dir")]
      BY <1>7 DEF SeekIndex
    <3>3. QED BY <3>1, <3>2 DEF TypeOK, RequestStates
  <2>2. pc'[r] = "perform"
    BY <1>7 DEF SeekIndex, Goto, TypeOK
  <2>3. QED BY <2>1, <2>2 DEF DeleteGood, Performs
<1>8. QED BY <1>3, <1>4, <1>5, <1>6, <1>7, StaysLive DEF LivePcs

LEMMA OwnStat ==
  ASSUME IsolationInv, NEW r \in Requests, Step(r)
  PROVE  StatGood(r)'
<1> USE DEF IsolationInv, RootedInv
<1> SUFFICES ASSUME pc'[r] = "perform", r \notin disturbed'
             PROVE  StatGood(r)'
  BY DEF StatGood
<1>1. \A step : Goto(r, step) => step = "perform"
  BY DEF Goto, TypeOK
<1>2. \A code : ~EndUntouched(r, code)
  BY StaysLive DEF LivePcs
<1>3. /\ ~NamePost(r) /\ ~StartPart(r) /\ ~MakeParents(r) /\ ~OpenFile(r)
      /\ ~WriteChunk(r) /\ ~ListForDelete(r)
  <2>1. ~NamePost(r) /\ ~StartPart(r) /\ ~MakeParents(r)
    BY <1>1 DEF NamePost, StartPart, MakeParents
  <2>2. ~OpenFile(r) /\ ~WriteChunk(r) /\ ~ListForDelete(r)
    BY <1>1 DEF OpenFile, WriteChunk, ListForDelete
  <2>3. QED BY <2>1, <2>2
<1>4. ~LaunchPost(r) /\ ~LoadPatch(r)
  <2>1. ~Goto(r, "mkcontainer") /\ ~Goto(r, "mkdir")
    BY <1>1
  <2>2. QED BY <1>2, <2>1 DEF LaunchPost, LoadPatch
<1>5. CASE Receive(r)
  <2>1. PICK url \in Urls :
          /\ req'[r].path = url.path /\ req'[r].slash = url.slash
          /\ req'[r].exists = StatOf(url).exists
          /\ req'[r].container = StatOf(url).container
    BY <1>5 DEF Receive, TypeOK
  <2>2. UNCHANGED tree
    BY <1>5 DEF Receive
  <2>3. QED BY <2>1, <2>2 DEF StatOf, StatGood
<1>6. CASE SeekIndex(r)
  <2>1. PICK e \in Paths :
          /\ tree[e].kind # "absent"
          /\ req' = [req EXCEPT ![r].path = e, ![r].slash = FALSE,
                                ![r].exists = TRUE,
                                ![r].container = (tree[e].kind = "dir")]
    BY <1>6 DEF SeekIndex, Entries
  <2>2. /\ req'[r].path = e /\ req'[r].slash = FALSE /\ req'[r].exists = TRUE
        /\ req'[r].container = (tree[e].kind = "dir")
    BY <2>1 DEF TypeOK, RequestStates
  <2>3. UNCHANGED tree
    BY <1>6 DEF SeekIndex
  <2>4. QED BY <2>1, <2>2, <2>3 DEF StatGood, Found
<1>7. QED BY <1>3, <1>4, <1>5, <1>6, StaysLive DEF LivePcs

-----------------------------------------------------------------------------
(***************************************************************************)
(* The theorems.                                                           *)
(***************************************************************************)
LEMMA DownGood ==
  ASSUME Down, NEW q \in Requests
  PROVE  Good(q)'
<1>1. ~Live(q)'
  BY DEF Down, Live, LivePcs
<1>2. QED BY <1>1 DEF Good, Live, LivePcs, WriteGood, PatchGood, PostGood,
                      DeleteGood, StatGood, Performs

LEMMA NextGood ==
  ASSUME IsolationInv, NEW r \in Requests, Step(r)
  PROVE  \A q \in Requests : Good(q)'
<1>1. CASE Acts(r)
  <2>1. WriteGood(r)'
    BY OwnWrite DEF WriteGood
  <2>2. Good(r)'
    BY <2>1, OwnPatch, OwnPost, OwnDelete, OwnStat DEF Good
  <2>3. QED BY <1>1, <2>2, OthersGood
<1>2. CASE Down
  BY <1>2, DownGood
<1>3. QED BY <1>1, <1>2, StepActs DEF IsolationInv, RootedInv

LEMMA NextIsolation == IsolationInv /\ [Next]_vars => IsolationInv'
<1>1. SUFFICES ASSUME IsolationInv, [Next]_vars PROVE IsolationInv'
  OBVIOUS
<1>2. RootedInv'
  BY <1>1, NextRooted DEF IsolationInv
<1>3. ASSUME NEW r \in Requests, Step(r)
      PROVE  \A q \in Requests : Footing(q)' /\ Unclaimed(q)' /\ Good(q)'
  BY <1>1, <1>3, NextFooting, NextUnclaimed, NextGood
<1>4. CASE Crash
  <2>1. Down
    BY <1>4 DEF Crash
  <2>2. \A q \in Requests : Footing(q)' /\ Unclaimed(q)'
    BY <1>1, <2>1 DEF Down, Footing, Unclaimed, Live, LivePcs, IsolationInv
  <2>3. QED BY <1>2, <2>1, <2>2, DownGood DEF IsolationInv
<1>5. CASE Restart \/ UNCHANGED vars
  <2>1. UNCHANGED <<tree, pc, req, pos, detached, disturbed>>
    BY <1>5 DEF Restart, vars
  <2>2. ASSUME NEW q \in Requests
        PROVE  Footing(q)' /\ Unclaimed(q)'
    BY <1>1, <2>1 DEF IsolationInv, Footing, Unclaimed, Live
  <2>3. ASSUME NEW q \in Requests
        PROVE  WriteGood(q)' /\ PatchGood(q)'
    <3>1. WriteGood(q) /\ PatchGood(q)
      BY <1>1 DEF IsolationInv, Good
    <3>2. WriteGood(q)'
      BY <2>1, <3>1 DEF WriteGood
    <3>3. PatchGood(q)'
      BY <2>1, <3>1 DEF PatchGood
    <3>4. QED BY <3>2, <3>3
  <2>4. ASSUME NEW q \in Requests
        PROVE  PostGood(q)' /\ DeleteGood(q)' /\ StatGood(q)'
    BY <1>1, <2>1
       DEF IsolationInv, Good, PostGood, DeleteGood, StatGood, Performs
  <2>5. QED BY <1>2, <2>2, <2>3, <2>4 DEF IsolationInv, Good
<1>6. QED BY <1>1, <1>2, <1>3, <1>4, <1>5 DEF Next, Step, IsolationInv

LEMMA InitIsolation == Init => IsolationInv
<1>1. SUFFICES ASSUME Init PROVE IsolationInv
  OBVIOUS
<1>2. RootedInv
  BY <1>1, InitType, InitRooted DEF RootedInv
<1>3. ASSUME NEW r \in Requests PROVE Footing(r) /\ Unclaimed(r) /\ Good(r)
  <2>1. pc[r] = "idle" /\ pos[r] = 0
    BY <1>1 DEF Init
  <2>2. Unclaimed(r)
    BY <1>1, InitialTreesAssumption, NodeKinds DEF Init, Unclaimed
  <2>3. QED BY <2>1, <2>2
    DEF Footing, Good, Live, LivePcs, WriteGood, PatchGood, PostGood,
        DeleteGood, StatGood, Performs
<1>4. QED BY <1>2, <1>3 DEF IsolationInv

LEMMA Isolation == Spec => []IsolationInv
BY InitIsolation, NextIsolation, PTL DEF Spec

\* Whatever else goes on, what a request that nobody disturbed has written so
\* far is what its file holds, and its writes go to the file in the tree.
THEOREM WritesAreWhole == Spec => []UndisturbedWrite
<1>1. IsolationInv => UndisturbedWrite
  BY DEF IsolationInv, Good, WriteGood, UndisturbedWrite
<1>2. QED BY <1>1, Isolation, PTL

\* A PATCH that nobody disturbed loses no triple it was not told to delete.
THEOREM PatchesAreWhole == Spec => []UndisturbedPatch
<1>1. IsolationInv => UndisturbedPatch
  BY DEF IsolationInv, Good, PatchGood, UndisturbedPatch
<1>2. QED BY <1>1, Isolation, PTL

\* A POST that nobody disturbed creates an entry that was not there.
THEOREM PostsCreate == Spec => []UndisturbedPost
<1>1. IsolationInv => UndisturbedPost
  BY DEF IsolationInv, Good, PostGood, UndisturbedPost
<1>2. QED BY <1>1, Isolation, PTL

\* A DELETE that nobody disturbed removes a file or an empty container.
THEOREM DeletesAreSmall == Spec => []UndisturbedDelete
<1>1. IsolationInv => UndisturbedDelete
  BY DEF IsolationInv, Good, DeleteGood, UndisturbedDelete
<1>2. QED BY <1>1, Isolation, PTL

-----------------------------------------------------------------------------
(***************************************************************************)
(* Reads.                                                                  *)
(***************************************************************************)
\* The answers a read can be sent, given what is there now.
Truthful(r) ==
  IF ~Found(tree, req[r].path, req[r].slash) THEN {403, 404}
  ELSE IF tree[req[r].path].kind = "dir" THEN {200, 403, 500}
  ELSE {200, 400, 403, 406}

LEMMA FirstAnswer ==
  ASSUME TypeOK, NEW r \in Requests, NEW code, EndUntouched(r, code),
         status[r] = 0
  PROVE  status'[r] = code
BY DEF EndUntouched, End, Respond, TypeOK

\* What lies below a path that has no directory is not there, so only a
\* directory has an `index.html`.
LEMMA IndexInDirectory ==
  ASSUME IsolationInv, NEW r \in Requests, IndexThere(r)
  PROVE  tree[req[r].path].kind = "dir" /\ req[r].slash
<1>1. PICK e \in Entries(req[r].path) : tree[e].kind # "absent"
  BY DEF IndexThere
<1>2. e \in Paths /\ req[r].path \in Above[e]
  BY <1>1, TreeTypes DEF Entries, IsolationInv, RootedInv
<1>3. Reachable(tree, e)
  BY <1>1, <1>2 DEF IsolationInv, RootedInv, TreeIsRooted, Rooted
<1>4. QED BY <1>2, <1>3 DEF Reachable, IndexThere

LEMMA OwnRead ==
  ASSUME IsolationInv, NEW r \in Requests, Step(r),
         Performs(r, {"GET", "HEAD"}), r \notin disturbed,
         status[r] = 0, status'[r] # 0
  PROVE  status'[r] \in Truthful(r)
<1> USE DEF IsolationInv, RootedInv
<1> DEFINE p == req[r].path
<1>1. /\ req[r].exists = Found(tree, p, req[r].slash)
      /\ req[r].container = (req[r].slash \/ tree[p].kind = "dir")
  BY DEF Good, StatGood, Performs
<1>2. tree[p].kind \in {"absent", "dir", "file"}
  BY TreeTypes, NodeShapes
<1>3. \A code : EndUntouched(r, code) => status'[r] = code
  BY FirstAnswer
<1>4. CASE Refuse(r)
  BY <1>3, <1>4 DEF Refuse, Truthful
<1>5. CASE Read(r)
  <2>1. CASE IndexThere(r)
    <3>1. tree[p].kind = "dir" /\ Found(tree, p, req[r].slash)
      BY <2>1, IndexInDirectory DEF Found
    <3>2. QED BY <1>1, <1>3, <1>5, <2>1, <3>1 DEF Read, Truthful
  <2>2. CASE ~IndexThere(r)
    BY <1>1, <1>3, <1>5, <2>2 DEF Read, Truthful
  <2>3. QED BY <2>1, <2>2
<1>6. CASE List(r)
  <2>1. Found(tree, p, req[r].slash) /\ tree[p].kind = "dir"
    BY <1>1, <1>6 DEF List, Gets, Found
  <2>2. PICK code \in {200, 500} : EndUntouched(r, code)
    BY <1>6, <2>1 DEF List
  <2>3. QED BY <1>3, <2>1, <2>2 DEF Truthful
<1>7. CASE Stream(r)
  <2>1. CanStream(r)
    BY <1>1, <1>2, <1>7 DEF Stream, Gets, CanStream, Found
  <2>2. PICK code \in {200, 400, 406} : EndUntouched(r, code)
    BY <1>7, <2>1 DEF Stream
  <2>3. tree[p].kind = "file" /\ Found(tree, p, req[r].slash)
    BY <2>1 DEF CanStream, Found
  <2>4. QED BY <1>3, <2>2, <2>3 DEF Truthful
<1>8. Refuse(r) \/ Read(r) \/ List(r) \/ Stream(r)
  <2>1. /\ ~Receive(r) /\ ~StreamStalls(r) /\ ~SeekIndex(r) /\ ~StartPart(r)
        /\ ~Collect(r)
    BY DEF Receive, StreamStalls, Stall, SeekIndex, StartPart, Collect,
           StartUpload, EndUpload, BreakOffUpload, UploadStops, Performs
  <2>2. /\ ~PutContainer(r) /\ ~RejectPost(r) /\ ~NamePost(r)
        /\ ~LoadPatch(r) /\ ~RejectCopy(r)
        /\ ~RejectDelete(r) /\ ~ListForDelete(r) /\ ~RemoveResource(r)
    BY DEF PutContainer, RejectPost, NamePost, LoadPatch,
           RejectCopy, RejectDelete, ListForDelete, RemoveResource, Performs
  <2>3. /\ ~LaunchPost(r) /\ ~MakePosted(r)
        /\ ~OpenFile(r) /\ ~WriteChunk(r) /\ ~Finish(r) /\ ~BreakOff(r)
        /\ ~RemoveContainer(r)
    BY DEF LaunchPost, MakePosted, OpenFile, WriteChunk, Finish,
           BreakOff, RemoveContainer, Performs
  <2>4. ~MakeParents(r) /\ ~FailWrite(r) /\ ~FailCopy(r) /\ ~SourceFails(r)
    BY DEF MakeParents, FailWrite, FailCopy, SourceFails, Troubled, Copying,
           AtMkdir, Performs
  <2>5. QED BY <2>1, <2>2, <2>3, <2>4 DEF Step, Serve
<1>9. QED BY <1>4, <1>5, <1>6, <1>7, <1>8

\* A request answers for itself only, and a part for its upload.
LEMMA OthersStatus ==
  ASSUME TypeOK, NEW r \in Requests, Step(r)
  PROVE  \/ FailPart(r)
         \/ \A q \in Requests : q # r => status'[q] = status[q]
<1>1. \A code : Respond(r, code) =>
        \A q \in Requests : q # r => status'[q] = status[q]
  BY DEF Respond, TypeOK
<1>2. CASE \E code : Respond(r, code)
  BY <1>1, <1>2
<1>3. CASE UNCHANGED status
  BY <1>3
<1>4. (\E code : End(r, code) \/ EndUntouched(r, code)) =>
        \E code : Respond(r, code)
  BY DEF End, EndUntouched
<1>5. CASE FailPart(r)
  BY <1>5
<1>6. CASE \/ Refuse(r) \/ Read(r) \/ List(r) \/ Stream(r)
           \/ RejectPost(r) \/ RejectCopy(r) \/ PutContainer(r) \/ Finish(r)
           \/ EndUpload(r) \/ RejectDelete(r) \/ RemoveContainer(r)
           \/ RemoveResource(r)
  BY <1>2, <1>3, <1>4, <1>6
     DEF Refuse, Read, List, Stream, RejectPost, RejectCopy, PutContainer,
         Finish, EndUpload, RejectDelete, RemoveContainer, RemoveResource
<1>7. CASE \/ Receive(r) \/ NamePost(r) \/ SeekIndex(r) \/ StartPart(r)
           \/ MakeParents(r) \/ OpenFile(r) \/ WriteChunk(r) \/ BreakOff(r)
           \/ ListForDelete(r) \/ StreamStalls(r) \/ StartUpload(r)
           \/ BreakOffUpload(r) \/ UploadStops(r)
  BY <1>3, <1>7
     DEF Receive, NamePost, SeekIndex, StartPart, MakeParents, OpenFile,
         WriteChunk, BreakOff, StreamStalls, Stall, ListForDelete,
         StartUpload, BreakOffUpload, UploadStops, Down
<1>8. CASE LaunchPost(r) \/ LoadPatch(r)
  BY <1>2, <1>3, <1>4, <1>8 DEF LaunchPost, LoadPatch
<1>9. CASE \/ MakePosted(r) \/ FailWrite(r) \/ FailCopy(r) \/ SourceFails(r)
  BY <1>2, <1>3, <1>4, <1>5, <1>9
     DEF MakePosted, FailWrite, FailCopy, SourceFails, Unhandled, DropCopy,
         Down
<1>10. QED BY <1>6, <1>7, <1>8, <1>9 DEF Step, Serve, Collect

\* What a read that nobody disturbed is answered is true of what is there.
THEOREM ReadsAreTrue == Spec => UndisturbedRead
<1>1. ASSUME IsolationInv, [Next]_vars,
             NEW r \in Requests, Performs(r, {"GET", "HEAD"}),
             r \notin disturbed, status[r] = 0, status'[r] # 0
      PROVE  status'[r] \in Truthful(r)
  <2>1. PICK q \in Requests : Step(q)
    BY <1>1 DEF Next, Step, Crash, Restart, Down, vars
  <2>2. q = r
    BY <1>1, <2>1, OthersStatus DEF FailPart, Performs, IsolationInv, RootedInv
  <2>3. QED BY <1>1, <2>1, <2>2, OwnRead
<1>2. IsolationInv /\ [Next]_vars =>
        [\A r \in Requests :
           /\ Performs(r, {"GET", "HEAD"}) /\ r \notin disturbed
           /\ status[r] = 0 /\ status'[r] # 0
           => status'[r] \in
                IF ~Found(tree, req[r].path, req[r].slash) THEN {403, 404}
                ELSE IF tree[req[r].path].kind = "dir" THEN {200, 403, 500}
                ELSE {200, 400, 403, 406}]_vars
  BY <1>1 DEF Truthful
<1>3. QED BY <1>2, Isolation, PTL DEF Spec, UndisturbedRead

=============================================================================
