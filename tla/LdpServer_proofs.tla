-------------------------- MODULE LdpServer_proofs --------------------------
(***************************************************************************)
(* Proofs about the LDP server, for every tree, every number of requests   *)
(* and every length of body: type correctness, that the tree stays rooted, *)
(* and that a request is answered once.                                    *)
(***************************************************************************)
EXTENDS LdpServer, TLAPS

-----------------------------------------------------------------------------
(***************************************************************************)
(* The tree operations.                                                    *)
(***************************************************************************)
LEMMA NodeTypes ==
  /\ Blank \in Contents
  /\ Absent \in Nodes
  /\ Directory \in Nodes
  /\ \A c \in Contents : File(c) \in Nodes
BY DEF Blank, Contents, Absent, Directory, File, Nodes

LEMMA NodeKinds ==
  /\ Absent.kind = "absent"
  /\ Directory.kind = "dir"
  /\ \A c : File(c).kind = "file"
BY DEF Absent, Directory, File

\* A node is absent, a directory or a file, and nothing else.
LEMMA NodeShapes ==
  ASSUME NEW node \in Nodes
  PROVE  /\ node.kind \in {"absent", "dir", "file"}
         /\ node.data \in Contents
         /\ node.kind = "absent" => node = Absent
         /\ node.kind = "dir" => node = Directory
         /\ node.kind = "file" => node = File(node.data)
<1>1. CASE node = Absent
  BY <1>1, NodeTypes DEF Absent
<1>2. CASE node = Directory
  BY <1>2, NodeTypes DEF Directory
<1>3. CASE \E c \in Contents : node = File(c)
  BY <1>3 DEF File
<1>4. QED BY <1>1, <1>2, <1>3 DEF Nodes

LEMMA MarksType ==
  ASSUME NEW c \in Contents
  PROVE  Marks(c) \in SUBSET Writers
<1>1. \A i \in 1..MaxChunks : c[i] \subseteq Writers
  BY DEF Contents
<1>2. QED BY <1>1 DEF Marks

LEMMA WithDirectoriesType ==
  ASSUME NEW t \in [Paths -> Nodes], NEW dirs
  PROVE  WithDirectories(t, dirs) \in [Paths -> Nodes]
BY NodeTypes DEF WithDirectories

LEMMA WithoutType ==
  ASSUME NEW t \in [Paths -> Nodes], NEW p \in Paths
  PROVE  Without(t, p) \in [Paths -> Nodes]
BY NodeTypes DEF Without

LEMMA OpenedType ==
  ASSUME NEW t \in [Paths -> Nodes], NEW p \in Paths, NEW c \in Contents
  PROVE  [t EXCEPT ![p] = File(c)] \in [Paths -> Nodes]
BY NodeTypes

\* Creating a path's missing ancestors, or the path too, keeps a tree rooted.
LEMMA WithDirectoriesRooted ==
  ASSUME NEW t \in [Paths -> Nodes], Rooted(t), NEW dirs \in SUBSET Paths,
         \A a \in dirs : Above[a] \subseteq dirs,
         \A a \in dirs : t[a].kind # "file"
  PROVE  Rooted(WithDirectories(t, dirs))
<1> DEFINE u == WithDirectories(t, dirs)
<1>1. SUFFICES ASSUME NEW p \in Paths, u[p].kind # "absent",
                      NEW a \in Above[p]
               PROVE  u[a].kind = "dir"
  BY DEF Rooted, Reachable
<1>2. a \in Paths
  BY PathsAssumption
<1>3. \A q \in Paths : u[q] = IF q \in dirs /\ t[q].kind = "absent"
                                THEN Directory ELSE t[q]
  BY DEF WithDirectories
<1>4. t[a] \in Nodes
  BY <1>2
<1>5. CASE p \in dirs
  <2>1. a \in dirs
    BY <1>5
  <2>2. QED BY <1>2, <1>3, <1>4, <2>1, NodeKinds, NodeShapes
<1>6. CASE p \notin dirs
  <2>1. t[p].kind # "absent"
    BY <1>1, <1>3, <1>6
  <2>2. t[a].kind = "dir"
    BY <2>1 DEF Rooted, Reachable
  <2>3. QED BY <1>2, <1>3, <2>2
<1>7. QED BY <1>5, <1>6

\* `rm -rf` keeps a tree rooted: what lay in the removed entry goes with it.
LEMMA WithoutRooted ==
  ASSUME NEW t \in [Paths -> Nodes], Rooted(t), NEW p \in Paths
  PROVE  Rooted(Without(t, p))
<1> DEFINE u == Without(t, p)
<1>1. SUFFICES ASSUME NEW q \in Paths, u[q].kind # "absent",
                      NEW a \in Above[q]
               PROVE  u[a].kind = "dir"
  BY DEF Rooted, Reachable
<1>2. a \in Paths
  BY PathsAssumption
<1>3. \A x \in Paths : u[x] = IF x = p \/ p \in Above[x]
                                THEN Absent ELSE t[x]
  BY DEF Without
<1>4. q # p /\ p \notin Above[q]
  BY <1>1, <1>3, NodeKinds
<1>5. a # p /\ p \notin Above[a]
  BY <1>4, PathsAssumption
<1>6. t[a].kind = "dir"
  BY <1>1, <1>3, <1>4 DEF Rooted, Reachable
<1>7. QED BY <1>2, <1>3, <1>5, <1>6

\* A file can be put at a reachable path that is no directory.
LEMMA OpenedRooted ==
  ASSUME NEW t \in [Paths -> Nodes], Rooted(t), NEW p \in Paths,
         Reachable(t, p), t[p].kind # "dir", NEW c \in Contents
  PROVE  Rooted([t EXCEPT ![p] = File(c)])
<1> DEFINE u == [t EXCEPT ![p] = File(c)]
<1>1. SUFFICES ASSUME NEW q \in Paths, u[q].kind # "absent",
                      NEW a \in Above[q]
               PROVE  u[a].kind = "dir"
  BY DEF Rooted, Reachable
<1>2. a \in Paths
  BY PathsAssumption
<1>3. t[a].kind = "dir"
  <2>1. CASE q = p
    BY <2>1 DEF Reachable
  <2>2. CASE q # p
    BY <1>1, <2>2 DEF Rooted, Reachable
  <2>3. QED BY <2>1, <2>2
<1>4. QED BY <1>2, <1>3

-----------------------------------------------------------------------------
(***************************************************************************)
(* Type correctness.                                                       *)
(***************************************************************************)
LEMMA NoRequestType == NoRequest \in RequestStates
BY PathsAssumption, NodeTypes DEF NoRequest, RequestStates

LEMMA BodyType ==
  ASSUME NEW r \in Requests, NEW n \in Nat
  PROVE  Body(r, n) \in Contents
BY RequestsAssumption DEF Body, Contents

\* A step that changes the tree keeps the types if the new tree has one.
LEMMA EffectType ==
  ASSUME NEW r \in Requests, NEW t \in [Paths -> Nodes], Effect(r, t)
  PROVE  /\ tree' \in [Paths -> Nodes]
         /\ detached' \subseteq Requests
         /\ disturbed' \subseteq Requests
BY DEF Effect

LEMMA OverType ==
  ASSUME TypeOK, NEW r \in Requests, Over(r),
         NEW t \in [Paths -> Nodes], Effect(r, t),
         status' \in [Requests -> Codes]
  PROVE  TypeOK'
<1>1. /\ pc' \in [Requests -> LivePcs \cup
                    {"idle", "receiving", "stalled", "done", "lost"}]
      /\ up' \in BOOLEAN
      /\ crashes' \in 0..MaxCrashes
  BY DEF Over, Goto, TypeOK
<1>2. req' \in [Requests -> RequestStates]
  BY NoRequestType DEF Over, TypeOK
<1>3. pos' \in [Requests -> 0..MaxChunks]
  BY ChunksAssumption DEF Over, TypeOK
<1>4. QED BY <1>1, <1>2, <1>3, EffectType DEF TypeOK

LEMMA EndType ==
  ASSUME TypeOK, NEW r \in Requests, NEW code \in Codes, End(r, code),
         NEW t \in [Paths -> Nodes], Effect(r, t)
  PROVE  TypeOK'
<1>1. status' \in [Requests -> Codes]
  BY DEF End, Respond, TypeOK
<1>2. QED BY <1>1, OverType DEF End

LEMMA EndUntouchedType ==
  ASSUME TypeOK, NEW r \in Requests, NEW code \in Codes,
         EndUntouched(r, code)
  PROVE  TypeOK'
BY EndType DEF EndUntouched, TypeOK

\* A step that moves on to another await, with the request as it is.
LEMMA GotoType ==
  ASSUME TypeOK, NEW r \in Requests, NEW step \in LivePcs \cup {"stalled"},
         Goto(r, step),
         NEW t \in [Paths -> Nodes], Effect(r, t),
         req' \in [Requests -> RequestStates],
         pos' \in [Requests -> 0..MaxChunks],
         status' \in [Requests -> Codes]
  PROVE  TypeOK'
BY EffectType DEF Goto, TypeOK

LEMMA DownType ==
  ASSUME TypeOK, Down, crashes' \in 0..MaxCrashes
  PROVE  TypeOK'
<1>1. pc' \in [Requests -> LivePcs \cup
                   {"idle", "receiving", "stalled", "done", "lost"}]
  BY DEF Down, TypeOK
<1>2. req' \in [Requests -> RequestStates]
  BY NoRequestType DEF Down
<1>3. pos' \in [Requests -> 0..MaxChunks]
  BY ChunksAssumption DEF Down
<1>4. QED BY <1>1, <1>2, <1>3 DEF Down, TypeOK

\* A step that leaves the tree and its history alone.
LEMMA QuietType ==
  ASSUME TypeOK, NEW r \in Requests, NEW step \in LivePcs \cup {"receiving", "stalled"},
         Goto(r, step), UNCHANGED <<tree, detached, disturbed>>,
         req' \in [Requests -> RequestStates],
         pos' \in [Requests -> 0..MaxChunks],
         status' \in [Requests -> Codes]
  PROVE  TypeOK'
BY DEF Goto, TypeOK

LEMMA UnhandledType ==
  ASSUME TypeOK, NEW r \in Requests, Unhandled(r)
  PROVE  TypeOK'
<1>1. CASE EndUntouched(r, 500)
  BY <1>1, EndUntouchedType DEF Codes
<1>2. CASE Down /\ UNCHANGED crashes
  BY <1>2, DownType DEF TypeOK
<1>3. QED BY <1>1, <1>2 DEF Unhandled

\* The trees that the steps of a request make.
LEMMA TreeTypes ==
  ASSUME TypeOK, NEW r \in Requests
  PROVE  /\ req[r].path \in Paths
         /\ tree \in [Paths -> Nodes]
         /\ WithContainer(req[r].path) \in [Paths -> Nodes]
         /\ WithDirectories(tree, Above[req[r].path]) \in [Paths -> Nodes]
         /\ Without(tree, req[r].path) \in [Paths -> Nodes]
         /\ [tree EXCEPT ![req[r].path] = File(Blank)] \in [Paths -> Nodes]
<1>1. req[r].path \in Paths /\ tree \in [Paths -> Nodes]
  BY DEF TypeOK, RequestStates
<1>2. QED BY <1>1, WithDirectoriesType, WithoutType, OpenedType, NodeTypes
          DEF WithContainer

LEMMA DropCopyType ==
  ASSUME TypeOK, NEW r \in Requests, DropCopy(r)
  PROVE  TypeOK'
<1>1. CASE Down /\ UNCHANGED crashes
  BY <1>1, DownType DEF TypeOK
<1>2. CASE \E code \in {400, 404} : End(r, code) /\
             (\/ Effect(r, Without(tree, req[r].path))
              \/ Effect(r, [tree EXCEPT ![req[r].path] = File(Blank)]))
  BY <1>2, EndType, TreeTypes DEF Codes
<1>3. QED BY <1>1, <1>2 DEF DropCopy

LEMMA ReceiveType ==
  ASSUME TypeOK, NEW r \in Requests, Receive(r)
  PROVE  TypeOK'
<1>1. req' \in [Requests -> RequestStates]
  <2>1. PICK method \in Methods, url \in Urls : \E n \in Sizes(method) :
          req' = [req EXCEPT ![r] =
                   [method |-> method, path |-> url.path, slash |-> url.slash,
                    exists |-> StatOf(url).exists,
                    container |-> StatOf(url).container,
                    drop |-> {}, body |-> Body(r, n), upload |-> {}]]
    BY DEF Receive
  <2>2. \A n \in Sizes(method) : n \in Nat
    BY ChunksAssumption DEF Sizes
  <2>3. \A n \in Sizes(method) : Body(r, n) \in Contents
    BY <2>2, BodyType
  <2>4. url.path \in Paths /\ url.slash \in BOOLEAN
    BY RequestsAssumption
  <2>5. /\ StatOf(url).exists \in BOOLEAN
        /\ StatOf(url).container \in BOOLEAN
    BY <2>4 DEF StatOf, Found
  <2>6. QED BY <2>1, <2>3, <2>4, <2>5 DEF TypeOK, RequestStates
<1>2. QED BY <1>1, QuietType DEF Receive, TypeOK, LivePcs

LEMMA ContainerType ==
  ASSUME TypeOK, NEW r \in Requests
  PROVE  /\ PutContainer(r) => TypeOK'
         /\ RejectPost(r) => TypeOK'
         /\ MakePosted(r) => TypeOK'
<1>1. PutContainer(r) => TypeOK'
  BY EndUntouchedType, EndType, TreeTypes DEF PutContainer, Codes
<1>2. RejectPost(r) => TypeOK'
  BY EndUntouchedType DEF RejectPost, Codes
<1>3. MakePosted(r) => TypeOK'
  BY EndType, TreeTypes, UnhandledType DEF MakePosted, Codes
<1>4. QED BY <1>1, <1>2, <1>3

\* A request with one field changed.
LEMMA RequestFields ==
  ASSUME NEW x \in RequestStates
  PROVE  /\ \A e \in Paths : [x EXCEPT !.path = e] \in RequestStates
         /\ \A b \in BOOLEAN : [x EXCEPT !.slash = b] \in RequestStates
         /\ \A b \in BOOLEAN : [x EXCEPT !.exists = b] \in RequestStates
         /\ \A b \in BOOLEAN : [x EXCEPT !.container = b] \in RequestStates
         /\ \A d \in SUBSET Writers : [x EXCEPT !.drop = d] \in RequestStates
         /\ \A c \in Contents : [x EXCEPT !.body = c] \in RequestStates
<1>1. \A e \in Paths : [x EXCEPT !.path = e] \in RequestStates
  BY DEF RequestStates
<1>2. \A b \in BOOLEAN : [x EXCEPT !.slash = b] \in RequestStates
  BY DEF RequestStates
<1>3. \A b \in BOOLEAN : [x EXCEPT !.exists = b] \in RequestStates
  BY DEF RequestStates
<1>4. \A b \in BOOLEAN : [x EXCEPT !.container = b] \in RequestStates
  BY DEF RequestStates
<1>5. \A d \in SUBSET Writers : [x EXCEPT !.drop = d] \in RequestStates
  BY DEF RequestStates
<1>6. \A c \in Contents : [x EXCEPT !.body = c] \in RequestStates
  BY DEF RequestStates
<1>7. QED BY <1>1, <1>2, <1>3, <1>4, <1>5, <1>6

LEMMA RenameType ==
  ASSUME TypeOK, NEW r \in Requests, NEW e \in Paths, NEW slash \in BOOLEAN
  PROVE  [req EXCEPT ![r].path = e, ![r].slash = slash]
           \in [Requests -> RequestStates]
<1>1. req \in [Requests -> RequestStates]
  BY DEF TypeOK
<1>2. [req[r] EXCEPT !.path = e, !.slash = slash] \in RequestStates
  <2>1. [req[r] EXCEPT !.path = e] \in RequestStates
    BY <1>1, RequestFields
  <2>2. QED BY <2>1, RequestFields
<1>3. [req EXCEPT ![r] = [req[r] EXCEPT !.path = e, !.slash = slash]]
        \in [Requests -> RequestStates]
  BY <1>1, <1>2
<1>4. QED BY <1>1, <1>3

LEMMA NamePostType ==
  ASSUME TypeOK, NEW r \in Requests, NamePost(r)
  PROVE  TypeOK'
<1>1. PICK asContainer \in BOOLEAN, e \in Paths :
        req' = [req EXCEPT ![r].path = e, ![r].slash = asContainer]
  BY DEF NamePost, FreeNames, Entries
<1>2. req' \in [Requests -> RequestStates]
  BY <1>1, RenameType
<1>3. QED BY <1>2, QuietType DEF NamePost, TypeOK, LivePcs

LEMMA SeekIndexType ==
  ASSUME TypeOK, NEW r \in Requests, SeekIndex(r)
  PROVE  TypeOK'
<1>1. PICK e \in Paths :
        req' = [req EXCEPT ![r].path = e, ![r].slash = FALSE,
                           ![r].exists = TRUE,
                           ![r].container = (tree[e].kind = "dir")]
  BY DEF SeekIndex, Entries
<1>2. [req[r] EXCEPT !.path = e, !.slash = FALSE, !.exists = TRUE,
                     !.container = (tree[e].kind = "dir")] \in RequestStates
  <2>1. req[r] \in RequestStates
    BY DEF TypeOK
  <2>2. [req[r] EXCEPT !.path = e, !.slash = FALSE] \in RequestStates
    <3>1. [req[r] EXCEPT !.path = e] \in RequestStates
      BY <2>1, RequestFields
    <3>2. QED BY <3>1, RequestFields
  <2>3. [req[r] EXCEPT !.path = e, !.slash = FALSE, !.exists = TRUE]
          \in RequestStates
    BY <2>2, RequestFields
  <2>4. QED BY <2>3, RequestFields
<1>3. req' = [req EXCEPT ![r] =
                [req[r] EXCEPT !.path = e, !.slash = FALSE, !.exists = TRUE,
                               !.container = (tree[e].kind = "dir")]]
  BY <1>1 DEF TypeOK, RequestStates
<1>4. req' \in [Requests -> RequestStates]
  BY <1>2, <1>3 DEF TypeOK
<1>5. QED BY <1>4, QuietType DEF SeekIndex, TypeOK, LivePcs

LEMMA StartPartType ==
  ASSUME TypeOK, NEW q \in Requests, StartPart(q)
  PROVE  TypeOK'
<1>1. PICK r \in Requests, e \in Paths : \E n \in 1..MaxChunks :
        req' = [req EXCEPT ![q] =
                 [method |-> "PART", path |-> e, slash |-> FALSE,
                  exists |-> FALSE, container |-> FALSE, drop |-> {},
                  body |-> Body(q, n), upload |-> {r}]]
  BY DEF StartPart, Entries
<1>2. \A n \in 1..MaxChunks : Body(q, n) \in Contents
  BY BodyType, ChunksAssumption
<1>3. req' \in [Requests -> RequestStates]
  BY <1>1, <1>2 DEF TypeOK, RequestStates
<1>4. QED BY <1>3, QuietType DEF StartPart, TypeOK, LivePcs

LEMMA CollectType ==
  ASSUME TypeOK, NEW r \in Requests, Collect(r)
  PROVE  TypeOK'
<1>1. CASE StartUpload(r) \/ BreakOffUpload(r)
  BY <1>1, QuietType DEF StartUpload, BreakOffUpload, TypeOK
<1>2. CASE EndUpload(r)
  BY <1>2, EndUntouchedType DEF EndUpload, Codes
<1>3. CASE UploadStops(r)
  BY <1>3, DownType DEF UploadStops, TypeOK
<1>4. QED BY <1>1, <1>2, <1>3 DEF Collect

LEMMA FailPartType ==
  ASSUME TypeOK, NEW q \in Requests, FailPart(q)
  PROVE  TypeOK'
<1>1. status' \in [Requests -> Codes]
  BY DEF FailPart, TypeOK, Codes
<1>2. QED BY <1>1, OverType DEF FailPart, TypeOK

LEMMA LaunchPostType ==
  ASSUME TypeOK, NEW r \in Requests, LaunchPost(r)
  PROVE  TypeOK'
<1>1. CASE EndUntouched(r, 201)
  BY <1>1, EndUntouchedType DEF Codes
<1>2. CASE /\ \/ Goto(r, "mkcontainer")
              \/ Goto(r, "mkdir")
           /\ Respond(r, 201)
           /\ UNCHANGED <<tree, req, pos, detached, disturbed>>
  <2>1. status' \in [Requests -> Codes]
    BY <1>2 DEF Respond, TypeOK, Codes
  <2>2. QED BY <1>2, <2>1, QuietType DEF TypeOK, LivePcs
<1>3. QED BY <1>1, <1>2 DEF LaunchPost

LEMMA LoadPatchType ==
  ASSUME TypeOK, NEW r \in Requests, LoadPatch(r)
  PROVE  TypeOK'
<1>1. CASE EndUntouched(r, 500) \/ EndUntouched(r, 409)
  BY <1>1, EndUntouchedType DEF Codes
<1>2. CASE \E drop \in Deletions :
             /\ req' = [req EXCEPT ![r].drop = drop,
                                   ![r].body = PatchedGraph(r, drop)]
             /\ Goto(r, "mkdir")
             /\ UNCHANGED <<tree, pos, status, detached, disturbed>>
  <2>1. PICK drop \in Deletions :
             /\ req' = [req EXCEPT ![r].drop = drop,
                                   ![r].body = PatchedGraph(r, drop)]
             /\ Goto(r, "mkdir")
             /\ UNCHANGED <<tree, pos, status, detached, disturbed>>
    BY <1>2
  <2>2. drop \in SUBSET Writers
    BY RequestsAssumption DEF Deletions
  <2>3. Marks(tree[req[r].path].data) \in SUBSET Writers
    <3>1. tree[req[r].path].data \in Contents
      BY TreeTypes, NodeShapes
    <3>2. QED BY <3>1, MarksType
  <2>4. PatchedGraph(r, drop) \in Contents
    BY <2>2, <2>3, RequestsAssumption DEF PatchedGraph, Contents
  <2>5. req' \in [Requests -> RequestStates]
    <3>1. req' = [req EXCEPT ![r] =
            [req[r] EXCEPT !.drop = drop, !.body = PatchedGraph(r, drop)]]
      BY <2>1 DEF TypeOK, RequestStates
    <3>2. [req[r] EXCEPT !.drop = drop, !.body = PatchedGraph(r, drop)]
            \in RequestStates
      <4>1. [req[r] EXCEPT !.drop = drop] \in RequestStates
        BY <2>2, RequestFields DEF TypeOK
      <4>2. QED BY <2>4, <4>1, RequestFields
    <3>3. QED BY <3>1, <3>2 DEF TypeOK
  <2>6. QED BY <2>1, <2>5, QuietType DEF TypeOK, LivePcs
<1>3. QED BY <1>1, <1>2 DEF LoadPatch

LEMMA WriteChunkType ==
  ASSUME TypeOK, NEW r \in Requests, WriteChunk(r)
  PROVE  TypeOK'
<1> DEFINE p == req[r].path
           k == pos[r] + 1
           u == [tree EXCEPT ![p] =
                   File([tree[p].data EXCEPT ![k] = req[r].body[k]])]
<1>1. p \in Paths /\ tree[p].data \in Contents /\ req[r].body \in Contents
  BY NodeShapes DEF TypeOK, RequestStates
<1>2. k \in 1..MaxChunks
  <2>1. PICK i \in 1..MaxChunks : i > pos[r]
    BY DEF WriteChunk, Complete
  <2>2. QED BY <2>1, ChunksAssumption DEF TypeOK
<1>3. [tree[p].data EXCEPT ![k] = req[r].body[k]] \in Contents
  BY <1>1, <1>2 DEF Contents
<1>4. u \in [Paths -> Nodes]
  BY <1>1, <1>3, OpenedType DEF TypeOK
<1>5. pos' \in [Requests -> 0..MaxChunks]
  BY <1>2, ChunksAssumption DEF WriteChunk, TypeOK
<1>6. Effect(r, tree) \/ Effect(r, u)
  BY DEF WriteChunk
<1>7. QED BY <1>4, <1>5, <1>6, GotoType DEF WriteChunk, TypeOK, LivePcs

LEMMA WritingType ==
  ASSUME TypeOK, NEW r \in Requests
  PROVE  /\ MakeParents(r) => TypeOK'
         /\ OpenFile(r) => TypeOK'
         /\ Finish(r) => TypeOK'
         /\ BreakOff(r) \/ StreamStalls(r) => TypeOK'
         /\ FailWrite(r) => TypeOK'
         /\ FailCopy(r) => TypeOK'
         /\ SourceFails(r) => TypeOK'
<1>1. MakeParents(r) => TypeOK'
  BY GotoType, TreeTypes DEF MakeParents, LivePcs, TypeOK
<1>2. OpenFile(r) => TypeOK'
  BY GotoType, TreeTypes DEF OpenFile, LivePcs, TypeOK
<1>3. Finish(r) => TypeOK'
  BY EndUntouchedType, OverType DEF Finish, Success, Codes, TypeOK
<1>4. BreakOff(r) \/ StreamStalls(r) => TypeOK'
  <2>1. SUFFICES ASSUME Stall(r) PROVE TypeOK'
    BY DEF BreakOff, StreamStalls
  <2>2. req' \in [Requests -> RequestStates]
    BY <2>1, NoRequestType DEF Stall, TypeOK
  <2>3. pos' \in [Requests -> 0..MaxChunks]
    BY <2>1, ChunksAssumption DEF Stall, TypeOK
  <2>4. QED BY <2>1, <2>2, <2>3, GotoType DEF Stall, TypeOK
<1>5. FailWrite(r) => TypeOK'
  BY EndUntouchedType, UnhandledType, FailPartType DEF FailWrite, Codes
<1>6. FailCopy(r) => TypeOK'
  BY DropCopyType DEF FailCopy
<1>7. SourceFails(r) => TypeOK'
  BY DropCopyType DEF SourceFails
<1>8. QED BY <1>1, <1>2, <1>3, <1>4, <1>5, <1>6, <1>7

LEMMA DeleteType ==
  ASSUME TypeOK, NEW r \in Requests
  PROVE  /\ RejectDelete(r) => TypeOK'
         /\ ListForDelete(r) => TypeOK'
         /\ RemoveContainer(r) => TypeOK'
         /\ RemoveResource(r) => TypeOK'
<1>1. RejectDelete(r) => TypeOK'
  BY EndUntouchedType DEF RejectDelete, Codes
<1>2. ListForDelete(r) => TypeOK'
  BY QuietType DEF ListForDelete, TypeOK, LivePcs
<1>3. RemoveContainer(r) => TypeOK'
  BY EndUntouchedType, EndType, TreeTypes DEF RemoveContainer, Codes
<1>4. RemoveResource(r) => TypeOK'
  BY EndType, TreeTypes DEF RemoveResource, Codes
<1>5. QED BY <1>1, <1>2, <1>3, <1>4

LEMMA NextType == TypeOK /\ [Next]_vars => TypeOK'
<1>1. SUFFICES ASSUME TypeOK, [Next]_vars PROVE TypeOK'
  OBVIOUS
<1>2. ASSUME NEW r \in Requests, Receive(r) \/ Collect(r) \/ StartPart(r)
      PROVE  TypeOK'
  BY <1>1, <1>2, ReceiveType, CollectType, StartPartType
<1>3. ASSUME NEW r \in Requests, Serve(r) PROVE TypeOK'
  <2>1. CASE Refuse(r) \/ Read(r) \/ List(r) \/ Stream(r) \/ RejectCopy(r)
    BY <1>1, <2>1, EndUntouchedType
       DEF Refuse, Read, List, Stream, RejectCopy, Codes
  <2>2. CASE PutContainer(r) \/ RejectPost(r) \/ MakePosted(r)
    BY <1>1, <2>2, ContainerType
  <2>3. CASE NamePost(r) \/ LaunchPost(r) \/ SeekIndex(r)
    BY <1>1, <2>3, NamePostType, LaunchPostType, SeekIndexType
  <2>4. CASE LoadPatch(r) \/ WriteChunk(r)
    BY <1>1, <2>4, LoadPatchType, WriteChunkType
  <2>5. CASE \/ MakeParents(r) \/ OpenFile(r) \/ Finish(r) \/ BreakOff(r)
             \/ StreamStalls(r) \/ FailWrite(r) \/ FailCopy(r) \/ SourceFails(r)
    BY <1>1, <2>5, WritingType
  <2>6. CASE \/ RejectDelete(r) \/ ListForDelete(r) \/ RemoveContainer(r)
             \/ RemoveResource(r)
    BY <1>1, <2>6, DeleteType
  <2>7. QED BY <1>3, <2>1, <2>2, <2>3, <2>4, <2>5, <2>6 DEF Serve
<1>4. CASE Crash
  <2>1. crashes' \in 0..MaxCrashes
    BY <1>1, <1>4, RequestsAssumption DEF Crash, TypeOK
  <2>2. QED BY <1>1, <1>4, <2>1, DownType DEF Crash
<1>5. CASE Restart
  BY <1>1, <1>5 DEF Restart, TypeOK
<1>6. CASE UNCHANGED vars
  BY <1>1, <1>6 DEF vars, TypeOK
<1>7. QED BY <1>1, <1>2, <1>3, <1>4, <1>5, <1>6 DEF Next

LEMMA InitType == Init => TypeOK
BY InitialTreesAssumption, RequestsAssumption, ChunksAssumption,
   NoRequestType DEF Init, TypeOK, Codes, LivePcs

\* The variables keep their types whatever requests, failures and crashes do.
THEOREM TypeCorrect == Spec => []TypeOK
BY InitType, NextType, PTL DEF Spec

-----------------------------------------------------------------------------
(***************************************************************************)
(* The tree stays rooted.                                                  *)
(***************************************************************************)
\* Only a writer is detached, and one that is not has a file at its path.
OpenFiles ==
  \A r \in Requests :
    /\ r \in detached => pc[r] = "write"
    /\ pc[r] = "write" /\ r \notin detached =>
         tree[req[r].path].kind = "file"

RootedInv == TypeOK /\ TreeIsRooted /\ OpenFiles

\* The requests other than r stay where they are.
OthersStay(r) ==
  \A q \in Requests \ {r} :
    /\ pc'[q] = pc[q]
    /\ req'[q] = req[q]
    /\ pos'[q] = pos[q]

LEMMA OthersStayAtEnd ==
  ASSUME TypeOK, NEW r \in Requests, Over(r)
  PROVE  /\ OthersStay(r)
         /\ pc'[r] = "done"
BY DEF Over, Goto, OthersStay, TypeOK

\* What Effect does to the detached writers is what OpenFiles asks for, if
\* those that are writing afterwards have the path they had.
LEMMA EffectOpenFiles ==
  ASSUME NEW r \in Requests, NEW t, Effect(r, t),
         \A q \in Requests : pc'[q] = "write" => req'[q] = req[q]
  PROVE  OpenFiles'
<1>1. SUFFICES ASSUME NEW q \in Requests, pc'[q] = "write", q \notin detached'
               PROVE  tree'[req'[q].path].kind = "file"
  BY DEF OpenFiles, Effect
<1>2. t[req[q].path].kind = "file"
  BY <1>1 DEF Effect
<1>3. tree' = t
  BY DEF Effect
<1>4. req'[q] = req[q]
  BY <1>1
<1>5. QED BY <1>2, <1>3, <1>4

LEMMA OverRooted ==
  ASSUME RootedInv, NEW r \in Requests, Over(r),
         NEW t, Rooted(t), Effect(r, t)
  PROVE  TreeIsRooted' /\ OpenFiles'
<1>1. \A q \in Requests : pc'[q] = "write" => req'[q] = req[q]
  BY OthersStayAtEnd DEF OthersStay, RootedInv
<1>2. OpenFiles'
  BY <1>1, EffectOpenFiles
<1>3. tree' = t
  BY DEF Effect
<1>4. QED BY <1>2, <1>3 DEF TreeIsRooted

LEMMA EndRooted ==
  ASSUME RootedInv, NEW r \in Requests, NEW code, End(r, code),
         NEW t, Rooted(t), Effect(r, t)
  PROVE  TreeIsRooted' /\ OpenFiles'
BY OverRooted DEF End

LEMMA EndUntouchedRooted ==
  ASSUME RootedInv, NEW r \in Requests, NEW code, EndUntouched(r, code)
  PROVE  TreeIsRooted' /\ OpenFiles'
BY EndRooted DEF EndUntouched, RootedInv, TreeIsRooted

\* A step to another await that leaves the request's path alone.
LEMMA GotoRooted ==
  ASSUME RootedInv, NEW r \in Requests, NEW step, Goto(r, step),
         req' = req \/ (step # "write" /\ \E x : req' = [req EXCEPT ![r] = x]),
         NEW t, Rooted(t), Effect(r, t)
  PROVE  TreeIsRooted' /\ OpenFiles'
<1>1. ASSUME NEW q \in Requests, pc'[q] = "write"
      PROVE  req'[q] = req[q]
  BY <1>1 DEF Goto, RootedInv, TypeOK
<1>2. OpenFiles'
  BY <1>1, EffectOpenFiles
<1>3. tree' = t
  BY DEF Effect
<1>4. QED BY <1>2, <1>3 DEF TreeIsRooted

\* A step that leaves the tree and its history alone.
LEMMA QuietRooted ==
  ASSUME RootedInv, NEW r \in Requests, pc[r] # "write",
         NEW step, step # "write", Goto(r, step), UNCHANGED <<tree, detached>>,
         \A q \in Requests \ {r} : req'[q] = req[q]
  PROVE  TreeIsRooted' /\ OpenFiles'
<1>1. \A q \in Requests :
        /\ pc[q] = "write" => pc'[q] = "write"
        /\ pc'[q] = "write" => pc[q] = "write" /\ req'[q] = req[q]
  BY DEF Goto, RootedInv, TypeOK
<1>2. QED BY <1>1 DEF RootedInv, TreeIsRooted, OpenFiles

LEMMA DownRooted ==
  ASSUME RootedInv, Down
  PROVE  TreeIsRooted' /\ OpenFiles'
<1>1. \A q \in Requests : pc'[q] # "write"
  BY DEF Down, Live, LivePcs
<1>2. QED BY <1>1 DEF Down, RootedInv, TreeIsRooted, OpenFiles

LEMMA UnhandledRooted ==
  ASSUME RootedInv, NEW r \in Requests, Unhandled(r)
  PROVE  TreeIsRooted' /\ OpenFiles'
BY EndUntouchedRooted, DownRooted DEF Unhandled

\* The trees that the steps of a request make.
LEMMA RootedTrees ==
  ASSUME RootedInv, NEW r \in Requests
  PROVE  LET p == req[r].path IN
         /\ CanMakeContainer(p) => Rooted(WithContainer(p))
         /\ Walkable(tree, p) => Rooted(WithDirectories(tree, Above[p]))
         /\ Rooted(Without(tree, p))
         /\ \A c \in Contents :
              Reachable(tree, p) /\ tree[p].kind # "dir"
                => Rooted([tree EXCEPT ![p] = File(c)])
<1> DEFINE p == req[r].path
<1>1. p \in Paths /\ tree \in [Paths -> Nodes] /\ Rooted(tree)
  BY TreeTypes DEF RootedInv, TreeIsRooted
<1>2. /\ Above[p] \in SUBSET Paths
      /\ \A a \in Above[p] : Above[a] \subseteq Above[p]
  BY <1>1, PathsAssumption
<1>3. Walkable(tree, p) => Rooted(WithDirectories(tree, Above[p]))
  BY <1>1, <1>2, WithDirectoriesRooted DEF Walkable
<1>4. CanMakeContainer(p) => Rooted(WithContainer(p))
  <2>1. SUFFICES ASSUME CanMakeContainer(p) PROVE Rooted(WithContainer(p))
    OBVIOUS
  <2> DEFINE dirs == Above[p] \cup {p}
  <2>2. \A a \in dirs : Above[a] \subseteq dirs
    BY <1>2
  <2>3. \A a \in dirs : tree[a].kind # "file"
    BY <2>1 DEF CanMakeContainer, Walkable
  <2>4. dirs \in SUBSET Paths
    BY <1>1, <1>2
  <2>5. Rooted(WithDirectories(tree, dirs))
    BY <1>1, <2>2, <2>3, <2>4, WithDirectoriesRooted
  <2>6. QED BY <2>5 DEF WithContainer
<1>5. Rooted(Without(tree, p))
  BY <1>1, WithoutRooted
<1>6. \A c \in Contents :
        Reachable(tree, p) /\ tree[p].kind # "dir"
          => Rooted([tree EXCEPT ![p] = File(c)])
  BY <1>1, OpenedRooted
<1>7. QED BY <1>3, <1>4, <1>5, <1>6

LEMMA DropCopyRooted ==
  ASSUME RootedInv, NEW r \in Requests, DropCopy(r)
  PROVE  TreeIsRooted' /\ OpenFiles'
<1> DEFINE p == req[r].path
<1>1. CASE Down
  BY <1>1, DownRooted
<1>2. CASE /\ tree[p].kind = "file"
           /\ \E code \in {400, 404} : End(r, code)
           /\ \/ Effect(r, Without(tree, p))
              \/ Effect(r, [tree EXCEPT ![p] = File(Blank)])
  <2>1. Reachable(tree, p)
    BY <1>2, TreeTypes DEF RootedInv, TreeIsRooted, Rooted
  <2>2. Rooted(Without(tree, p)) /\ Rooted([tree EXCEPT ![p] = File(Blank)])
    BY <1>2, <2>1, RootedTrees, NodeTypes
  <2>3. QED BY <1>2, <2>2, EndRooted
<1>3. QED BY <1>1, <1>2 DEF DropCopy

LEMMA WriteChunkRooted ==
  ASSUME RootedInv, NEW r \in Requests, WriteChunk(r)
  PROVE  TreeIsRooted' /\ OpenFiles'
<1> DEFINE p == req[r].path
           c == [tree[p].data EXCEPT ![pos[r] + 1] = req[r].body[pos[r] + 1]]
<1>1. CASE r \in detached
  <2>1. Effect(r, tree)
    BY <1>1 DEF WriteChunk
  <2>2. QED BY <2>1, GotoRooted DEF WriteChunk, RootedInv, TreeIsRooted
<1>2. CASE r \notin detached
  <2>1. Effect(r, [tree EXCEPT ![p] = File(c)])
    BY <1>2 DEF WriteChunk
  <2>2. tree[p].kind = "file"
    BY <1>2 DEF WriteChunk, RootedInv, OpenFiles
  <2>3. Reachable(tree, p)
    BY <2>2, TreeTypes DEF RootedInv, TreeIsRooted, Rooted
  <2>4. c \in Contents
    <3>1. tree[p].data \in Contents /\ req[r].body \in Contents
      BY TreeTypes, NodeShapes DEF RootedInv, TypeOK, RequestStates
    <3>2. PICK i \in 1..MaxChunks : i > pos[r]
      BY DEF WriteChunk, Complete
    <3>3. pos[r] + 1 \in 1..MaxChunks
      BY <3>2, ChunksAssumption DEF RootedInv, TypeOK
    <3>4. QED BY <3>1, <3>3 DEF Contents
  <2>5. Rooted([tree EXCEPT ![p] = File(c)])
    BY <2>2, <2>3, <2>4, RootedTrees
  <2>6. QED BY <2>1, <2>5, GotoRooted DEF WriteChunk
<1>3. QED BY <1>1, <1>2

LEMMA ContainerRooted ==
  ASSUME RootedInv, NEW r \in Requests
  PROVE  /\ PutContainer(r) => TreeIsRooted' /\ OpenFiles'
         /\ MakePosted(r) => TreeIsRooted' /\ OpenFiles'
         /\ RemoveContainer(r) => TreeIsRooted' /\ OpenFiles'
         /\ RemoveResource(r) => TreeIsRooted' /\ OpenFiles'
<1>1. PutContainer(r) => TreeIsRooted' /\ OpenFiles'
  BY EndUntouchedRooted, EndRooted, RootedTrees DEF PutContainer
<1>2. MakePosted(r) => TreeIsRooted' /\ OpenFiles'
  BY EndRooted, UnhandledRooted, RootedTrees DEF MakePosted
<1>3. RemoveContainer(r) => TreeIsRooted' /\ OpenFiles'
  BY EndUntouchedRooted, EndRooted, RootedTrees DEF RemoveContainer
<1>4. RemoveResource(r) => TreeIsRooted' /\ OpenFiles'
  BY EndRooted, RootedTrees DEF RemoveResource
<1>5. QED BY <1>1, <1>2, <1>3, <1>4

LEMMA WritingRooted ==
  ASSUME RootedInv, NEW r \in Requests
  PROVE  /\ MakeParents(r) => TreeIsRooted' /\ OpenFiles'
         /\ OpenFile(r) => TreeIsRooted' /\ OpenFiles'
         /\ BreakOff(r) \/ StreamStalls(r) => TreeIsRooted' /\ OpenFiles'
         /\ Finish(r) => TreeIsRooted' /\ OpenFiles'
         /\ FailWrite(r) => TreeIsRooted' /\ OpenFiles'
<1>1. MakeParents(r) => TreeIsRooted' /\ OpenFiles'
  BY GotoRooted, RootedTrees DEF MakeParents
<1>2. OpenFile(r) => TreeIsRooted' /\ OpenFiles'
  BY GotoRooted, RootedTrees, NodeTypes DEF OpenFile, CanOpen
<1>3. BreakOff(r) \/ StreamStalls(r) => TreeIsRooted' /\ OpenFiles'
  BY GotoRooted DEF BreakOff, StreamStalls, Stall, RootedInv, TreeIsRooted
<1>4. Finish(r) => TreeIsRooted' /\ OpenFiles'
  BY EndUntouchedRooted, OverRooted DEF Finish, RootedInv, TreeIsRooted
<1>5. FailWrite(r) => TreeIsRooted' /\ OpenFiles'
  BY EndUntouchedRooted, UnhandledRooted, OverRooted
     DEF FailWrite, FailPart, RootedInv, TreeIsRooted
<1>6. QED BY <1>1, <1>2, <1>3, <1>4, <1>5

\* The steps that only look, or only note what they will do.
LEMMA LookingRooted ==
  ASSUME RootedInv, NEW r \in Requests
  PROVE  /\ Receive(r) => TreeIsRooted' /\ OpenFiles'
         /\ NamePost(r) => TreeIsRooted' /\ OpenFiles'
         /\ LaunchPost(r) => TreeIsRooted' /\ OpenFiles'
         /\ SeekIndex(r) => TreeIsRooted' /\ OpenFiles'
         /\ StartPart(r) => TreeIsRooted' /\ OpenFiles'
         /\ Collect(r) => TreeIsRooted' /\ OpenFiles'
         /\ LoadPatch(r) => TreeIsRooted' /\ OpenFiles'
         /\ ListForDelete(r) => TreeIsRooted' /\ OpenFiles'
<1>1. Receive(r) => TreeIsRooted' /\ OpenFiles'
  BY QuietRooted DEF Receive, RootedInv, TypeOK
<1>2. NamePost(r) => TreeIsRooted' /\ OpenFiles'
  BY QuietRooted DEF NamePost, Performs, RootedInv, TypeOK
<1>3. LaunchPost(r) => TreeIsRooted' /\ OpenFiles'
  <2>1. SUFFICES ASSUME LaunchPost(r) PROVE TreeIsRooted' /\ OpenFiles'
    OBVIOUS
  <2>2. CASE EndUntouched(r, 201)
    BY <2>2, EndUntouchedRooted
  <2>3. CASE /\ Goto(r, "mkcontainer") \/ Goto(r, "mkdir")
             /\ UNCHANGED <<tree, req, detached>>
    BY <2>1, <2>3, QuietRooted DEF LaunchPost
  <2>4. QED BY <2>1, <2>2, <2>3 DEF LaunchPost
<1>4. SeekIndex(r) => TreeIsRooted' /\ OpenFiles'
  BY QuietRooted DEF SeekIndex, Performs, RootedInv, TypeOK
<1>5. StartPart(r) => TreeIsRooted' /\ OpenFiles'
  BY QuietRooted DEF StartPart, RootedInv, TypeOK
<1>6. Collect(r) => TreeIsRooted' /\ OpenFiles'
  <2>1. CASE StartUpload(r) \/ BreakOffUpload(r)
    BY <2>1, QuietRooted DEF StartUpload, BreakOffUpload, Performs
  <2>2. CASE EndUpload(r) \/ UploadStops(r)
    BY <2>2, EndUntouchedRooted, DownRooted DEF EndUpload, UploadStops
  <2>3. QED BY <2>1, <2>2 DEF Collect
<1>7. LoadPatch(r) => TreeIsRooted' /\ OpenFiles'
  <2>1. SUFFICES ASSUME LoadPatch(r) PROVE TreeIsRooted' /\ OpenFiles'
    OBVIOUS
  <2>2. CASE EndUntouched(r, 500) \/ EndUntouched(r, 409)
    BY <2>2, EndUntouchedRooted
  <2>3. CASE \E drop :
               /\ req' = [req EXCEPT ![r].drop = drop,
                                     ![r].body = PatchedGraph(r, drop)]
               /\ Goto(r, "mkdir")
               /\ UNCHANGED <<tree, detached>>
    BY <2>1, <2>3, QuietRooted DEF LoadPatch, Performs, RootedInv, TypeOK
  <2>4. QED BY <2>1, <2>2, <2>3 DEF LoadPatch
<1>8. ListForDelete(r) => TreeIsRooted' /\ OpenFiles'
  BY QuietRooted DEF ListForDelete, Performs
<1>9. QED BY <1>1, <1>2, <1>3, <1>4, <1>5, <1>6, <1>7, <1>8

LEMMA NextRooted == RootedInv /\ [Next]_vars => RootedInv'
<1>1. SUFFICES ASSUME RootedInv, [Next]_vars
               PROVE  TreeIsRooted' /\ OpenFiles'
  BY NextType DEF RootedInv
<1>2. ASSUME NEW r \in Requests,
             Receive(r) \/ Serve(r) \/ Collect(r) \/ StartPart(r)
      PROVE  TreeIsRooted' /\ OpenFiles'
  <2>1. CASE \/ Refuse(r) \/ Read(r) \/ List(r) \/ Stream(r)
             \/ RejectPost(r) \/ RejectCopy(r) \/ RejectDelete(r)
    BY <1>1, <2>1, EndUntouchedRooted
       DEF Refuse, Read, List, Stream, RejectPost, RejectCopy, RejectDelete
  <2>2. CASE \/ Receive(r) \/ NamePost(r) \/ LaunchPost(r) \/ SeekIndex(r)
             \/ StartPart(r) \/ Collect(r) \/ LoadPatch(r) \/ ListForDelete(r)
    BY <1>1, <2>2, LookingRooted
  <2>3. CASE \/ PutContainer(r) \/ MakePosted(r) \/ RemoveContainer(r)
             \/ RemoveResource(r)
    BY <1>1, <2>3, ContainerRooted
  <2>4. CASE \/ MakeParents(r) \/ OpenFile(r) \/ BreakOff(r)
             \/ StreamStalls(r) \/ Finish(r) \/ FailWrite(r)
    BY <1>1, <2>4, WritingRooted
  <2>5. CASE WriteChunk(r)
    BY <1>1, <2>5, WriteChunkRooted
  <2>6. CASE FailCopy(r) \/ SourceFails(r)
    BY <1>1, <2>6, DropCopyRooted DEF FailCopy, SourceFails
  <2>7. QED BY <1>2, <2>1, <2>2, <2>3, <2>4, <2>5, <2>6 DEF Serve
<1>3. CASE Crash
  BY <1>1, <1>3, DownRooted DEF Crash
<1>4. CASE Restart
  BY <1>1, <1>4 DEF Restart, RootedInv, TreeIsRooted, OpenFiles
<1>5. CASE UNCHANGED vars
  BY <1>1, <1>5 DEF vars, RootedInv, TreeIsRooted, OpenFiles
<1>6. QED BY <1>1, <1>2, <1>3, <1>4, <1>5 DEF Next

LEMMA InitRooted == Init => TreeIsRooted /\ OpenFiles
BY InitialTreesAssumption DEF Init, TreeIsRooted, OpenFiles

\* No order of writes, deletions, failures and crashes leaves an entry in a
\* directory that is gone.
THEOREM AlwaysRooted == Spec => []TreeIsRooted
<1>1. Spec => []RootedInv
  BY InitRooted, InitType, NextRooted, PTL DEF Spec, RootedInv
<1>2. RootedInv => TreeIsRooted
  BY DEF RootedInv
<1>3. QED BY <1>1, <1>2, PTL

-----------------------------------------------------------------------------
(***************************************************************************)
(* Responses.                                                              *)
(***************************************************************************)
KeepsAnswers == \A r \in Requests : status[r] # 0 => status'[r] = status[r]

LEMMA RespondKeeps ==
  ASSUME TypeOK, NEW r \in Requests, NEW code, Respond(r, code)
  PROVE  KeepsAnswers
BY DEF Respond, KeepsAnswers, TypeOK

LEMMA EndKeeps ==
  ASSUME TypeOK, NEW r \in Requests, NEW code,
         End(r, code) \/ EndUntouched(r, code)
  PROVE  KeepsAnswers
BY RespondKeeps DEF End, EndUntouched

LEMMA QuietKeeps == UNCHANGED status => KeepsAnswers
BY DEF KeepsAnswers

LEMMA NextKeeps == TypeOK /\ [Next]_vars => KeepsAnswers
<1>1. SUFFICES ASSUME TypeOK, [Next]_vars PROVE KeepsAnswers
  OBVIOUS
<1>2. ASSUME NEW r \in Requests,
             Receive(r) \/ Serve(r) \/ Collect(r) \/ StartPart(r)
      PROVE  KeepsAnswers
  <2>1. CASE \/ Refuse(r) \/ Read(r) \/ List(r) \/ Stream(r)
             \/ RejectPost(r) \/ RejectCopy(r) \/ PutContainer(r)
             \/ EndUpload(r) \/ RejectDelete(r) \/ RemoveContainer(r) \/ RemoveResource(r)
    BY <1>1, <2>1, EndKeeps
       DEF Refuse, Read, List, Stream, RejectPost, RejectCopy, PutContainer,
           EndUpload, RejectDelete, RemoveContainer, RemoveResource
  <2>2. CASE \/ Receive(r) \/ NamePost(r) \/ SeekIndex(r) \/ StartPart(r)
             \/ StartUpload(r) \/ BreakOffUpload(r) \/ UploadStops(r)
             \/ MakeParents(r) \/ OpenFile(r) \/ WriteChunk(r) \/ BreakOff(r)
             \/ ListForDelete(r) \/ StreamStalls(r)
    BY <2>2, QuietKeeps
       DEF Receive, NamePost, SeekIndex, StartPart, StartUpload, BreakOffUpload,
           UploadStops, Down, MakeParents, OpenFile, WriteChunk, BreakOff,
           StreamStalls, Stall, ListForDelete
  <2>3. CASE LaunchPost(r) \/ LoadPatch(r)
    <3>1. CASE \E code : EndUntouched(r, code) \/ Respond(r, code)
      BY <1>1, <3>1, EndKeeps, RespondKeeps
    <3>2. QED BY <2>3, <3>1, QuietKeeps
      DEF LaunchPost, LoadPatch
  <2>4. CASE \/ MakePosted(r) \/ Finish(r) \/ FailWrite(r) \/ FailCopy(r)
             \/ SourceFails(r)
    <3>1. \/ \E code : End(r, code) \/ EndUntouched(r, code)
          \/ FailPart(r)
          \/ UNCHANGED status
      BY <2>4 DEF MakePosted, Finish, FailWrite, FailCopy, SourceFails, Unhandled,
                  DropCopy, Down
    <3>2. QED BY <1>1, <3>1, EndKeeps, QuietKeeps DEF FailPart, KeepsAnswers
  <2>5. QED BY <1>2, <2>1, <2>2, <2>3, <2>4 DEF Serve, Collect
<1>3. CASE Crash \/ Restart \/ UNCHANGED vars
  BY <1>3, QuietKeeps DEF Crash, Down, Restart, vars
<1>4. QED BY <1>1, <1>2, <1>3 DEF Next

\* The first answer is the only one, however the request ends.
THEOREM OneAnswer == Spec => AnswersOnce
<1>1. TypeOK /\ [Next]_vars =>
        [\A r \in Requests : status[r] # 0 => status'[r] = status[r]]_vars
  BY NextKeeps DEF KeepsAnswers
<1>2. QED BY <1>1, TypeCorrect, PTL DEF Spec, AnswersOnce
=============================================================================
