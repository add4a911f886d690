--------------------------- MODULE LdpSolo_proofs ---------------------------
(***************************************************************************)
(* Requests that do not overlap are atomic: the proof that LdpSolo         *)
(* implements ResourceStore, for every tree, every number of requests and  *)
(* every length of body.                                                   *)
(*                                                                         *)
(* Nobody disturbs a request that is alone, so that LdpServer_isolation    *)
(* says what it relies on.  What is left to find is how the tree has moved *)
(* away from the one the request started from, and which answer, method    *)
(* and body go with which step.                                            *)
(***************************************************************************)
EXTENDS LdpSolo, LdpServer_isolation

-----------------------------------------------------------------------------
(***************************************************************************)
(* The invariant.                                                          *)
(***************************************************************************)
\* The tree t with node at p, in directories that are made for it.
Placed(t, p, node) == [WithDirectories(t, Above[p]) EXCEPT ![p] = node]

\* The graph in the tree t at p less the triples of drop, and with r's.
Merged(t, r, p, drop) ==
  [i \in 1..MaxChunks |->
    IF i = 1 THEN (Marks(t[p].data) \ drop) \cup {r} ELSE {}]

\* The tree at each step, from the one the request started from.
TreeStage(r) ==
  LET p == req[r].path IN
  /\ pc[r] \notin {"open", "write"} => tree = settled
  /\ pc[r] = "open" =>
       /\ Walkable(settled, p)
       /\ tree = WithDirectories(settled, Above[p])
  /\ pc[r] = "write" =>
       /\ Walkable(settled, p) /\ settled[p].kind # "dir"
       /\ \E c \in Contents : tree = Placed(settled, p, File(c))

\* The methods that get to each step, and the answers they have been sent.
MethodStage(r) ==
  /\ req[r].method \in Methods \cup {"PART"}
  /\ req[r].method # "PART" => req[r].upload = {}
  /\ req[r].method = "PART" => \E u \in Requests : req[r].upload = {u}
  /\ pc[r] = "perform" => req[r].method \in Methods
  /\ pc[r] = "named" => req[r].method = "POST"
  /\ pc[r] = "mkcontainer" =>
       req[r].method = "POST" /\ req[r].slash /\ status[r] = 201
  /\ pc[r] = "rmdir" => req[r].method = "DELETE"
  /\ pc[r] = "mkdir" => req[r].method \in {"POST", "PART", "PATCH"}
  /\ pc[r] \in {"open", "write"} =>
       req[r].method \in {"PUT", "POST", "PART", "PATCH", "COPY"}
  /\ pc[r] \in {"perform", "named", "rmdir"} => status[r] = 0
  /\ pc[r] \in {"mkdir", "open", "write"} =>
       status[r] = IF req[r].method = "POST" THEN 201 ELSE 0

\* What it writes, and whether the resource was there when it started.
BodyStage(r) ==
  LET p == req[r].path IN
  /\ req[r].method \in {"PUT", "POST", "PART", "COPY"} =>
       \E n \in 1..MaxChunks : req[r].body = Body(r, n)
  /\ req[r].method = "PATCH" /\ pc[r] \in {"mkdir", "open", "write"} =>
       \E drop \in SUBSET Marks(settled[p].data) :
         req[r].body = Merged(settled, r, p, drop)
  /\ req[r].method = "POST" /\ pc[r] \in {"mkdir", "open", "write"} =>
       ~req[r].slash
  /\ req[r].method = "PUT" /\ pc[r] \in {"open", "write"} =>
       (req[r].exists <=> settled[p] # Absent)

Stage(r) == TreeStage(r) /\ MethodStage(r) /\ BodyStage(r)

\* An upload that takes parts, or was broken off.
Uploading(r) ==
  /\ req[r].method = "UPLOAD" /\ "UPLOAD" \in Methods
  /\ req[r].upload = {}

\* Requests that have not begun, or are over, are nothing to the store.
Blanks ==
  \A r \in Requests :
    /\ ~Live(r) => req[r] = NoRequest \/ Uploading(r)
    /\ ~Live(r) /\ req[r] # NoRequest => pc[r] \in {"receiving", "stalled"}
    /\ pc[r] = "receiving" => Uploading(r)
    /\ pc[r] = "idle" => status[r] = 0

\* A part belongs to an upload that is not over, or has been answered.
PartsBelong ==
  \A q \in Requests : Live(q) =>
    \A r \in req[q].upload :
      \/ pc[r] \in {"receiving", "stalled"} /\ Uploading(r)
      \/ status[r] # 0

OneLive == \A q, r \in Requests : Live(q) /\ Live(r) => q = r

SettledOK ==
  /\ settled \in [Paths -> Nodes]
  /\ Rooted(settled)
  /\ Idle => tree = settled

SoloInv ==
  /\ IsolationInv
  /\ SettledOK
  /\ OneLive /\ Blanks /\ PartsBelong /\ disturbed = {}
  /\ \A r \in Requests : Live(r) => Stage(r)

-----------------------------------------------------------------------------
(***************************************************************************)
(* The store's operators are those of the tree.                            *)
(***************************************************************************)
LEMMA StoreTrees ==
  /\ Store!Blank = Blank
  /\ Store!Absent = Absent
  /\ Store!Directory = Directory
  /\ \A c : Store!File(c) = File(c)
  /\ \A c : Store!Marks(c) = Marks(c)
  /\ \A t, p : Store!Walkable(t, p) = Walkable(t, p)
  /\ \A t, dirs : Store!WithDirectories(t, dirs) = WithDirectories(t, dirs)
  /\ \A t, p : Store!Without(t, p) = Without(t, p)
  /\ \A t, p : Store!Listing(t, p) = Listing(t, p)
<1>1. /\ Store!Blank = Blank /\ Store!Absent = Absent
      /\ Store!Directory = Directory
      /\ \A c : Store!File(c) = File(c)
      /\ \A c : Store!Marks(c) = Marks(c)
  BY DEF Store!Blank, Store!Absent, Store!Directory, Store!File, Store!Marks,
         Blank, Absent, Directory, File, Marks
<1>2. \A t, p : Store!Walkable(t, p) = Walkable(t, p)
  BY DEF Store!Walkable, Walkable
<1>3. \A t, dirs : Store!WithDirectories(t, dirs) = WithDirectories(t, dirs)
  BY <1>1 DEF Store!WithDirectories, WithDirectories
<1>4. \A t, p : Store!Without(t, p) = Without(t, p)
  BY <1>1 DEF Store!Without, Without
<1>5. \A t, p : Store!Listing(t, p) = Listing(t, p)
  BY DEF Store!Listing, Listing, Store!Entries, Entries
<1>6. QED BY <1>1, <1>2, <1>3, <1>4, <1>5

LEMMA StoreTypes ==
  /\ Store!Nodes = Nodes
  /\ \A t : Store!Rooted(t) = Rooted(t)
<1>1. Store!Nodes = Nodes
  BY StoreTrees DEF Store!Nodes, Nodes, Store!Contents, Contents
<1>2. \A t : Store!Rooted(t) = Rooted(t)
  BY DEF Store!Rooted, Rooted, Store!Reachable, Reachable
<1>3. QED BY <1>1, <1>2

LEMMA StoreBodies ==
  ASSUME NEW r \in Requests, NEW n
  PROVE  Store!BodyOf(r, n) = Body(r, n)
BY DEF Store!BodyOf, Body

LEMMA StoreHolding ==
  ASSUME NEW p, NEW node
  PROVE  Store!Holding(p, node) = Placed(settled, p, node)
BY StoreTrees DEF Store!Holding, Placed

LEMMA StoreRoom ==
  ASSUME NEW p
  PROVE  Store!Room(p) = (Walkable(settled, p) /\ settled[p].kind # "dir")
BY StoreTrees DEF Store!Room
-----------------------------------------------------------------------------
(***************************************************************************)
(* How a step of the only live request goes on or ends.                    *)
(***************************************************************************)
SettledStep == settled' = IF Idle' THEN tree' ELSE settled

SoloStep(r) ==
  Alone(r) /\ (Receive(r) \/ Serve(r) \/ StartPart(r)) /\ SettledStep /\ ~Down

LEMMA SoloIsStep ==
  ASSUME NEW r \in Requests, SoloStep(r)
  PROVE  Step(r) /\ Next
BY DEF SoloStep, Step, Next

LEMMA StillLive ==
  ASSUME NEW r \in Requests, NEW step \in LivePcs, Goto(r, step), TypeOK
  PROVE  Live(r)'
BY DEF Goto, Live, TypeOK

\* A request ends for good, with its process, or not at all.
LEMMA EndsAs ==
  ASSUME TypeOK, NEW r \in Requests, Receive(r) \/ Serve(r) \/ StartPart(r),
         ~Live(r)'
  PROVE  Down \/ Stall(r) \/ Over(r)
<1>1. \A code : (End(r, code) \/ EndUntouched(r, code)) => Over(r)
  BY DEF EndUntouched, End
<1>2. \A step \in LivePcs : ~Goto(r, step)
  BY StillLive
<1>3. CASE BreakOff(r) \/ StreamStalls(r)
  BY <1>3 DEF BreakOff, StreamStalls
<1>4. CASE \/ Receive(r) \/ NamePost(r) \/ SeekIndex(r) \/ StartPart(r)
           \/ LoadPatch(r) \/ MakeParents(r) \/ OpenFile(r) \/ WriteChunk(r)
           \/ ListForDelete(r) \/ LaunchPost(r)
  BY <1>1, <1>2, <1>4
    DEF Receive, NamePost, SeekIndex, StartPart, LoadPatch, MakeParents,
        OpenFile, WriteChunk, ListForDelete, LaunchPost, LivePcs
<1>5. CASE \/ Refuse(r) \/ Read(r) \/ List(r) \/ Stream(r)
           \/ RejectPost(r) \/ RejectCopy(r) \/ PutContainer(r) \/ Finish(r)
           \/ RejectDelete(r) \/ RemoveContainer(r) \/ RemoveResource(r)
  BY <1>1, <1>5 DEF Refuse, Read, List, Stream, RejectPost, RejectCopy,
                    PutContainer, Finish, RejectDelete, RemoveContainer,
                    RemoveResource
<1>6. CASE MakePosted(r) \/ FailWrite(r) \/ FailCopy(r) \/ SourceFails(r)
  BY <1>1, <1>6 DEF MakePosted, FailWrite, FailPart, FailCopy, SourceFails,
                    Unhandled, DropCopy
<1>7. QED BY <1>3, <1>4, <1>5, <1>6 DEF Serve

LEMMA OthersRest ==
  ASSUME SoloInv, NEW r \in Requests, SoloStep(r),
         NEW q \in Requests, q # r
  PROVE  /\ ~Live(q)' /\ ~Live(q)
         /\ req'[q] = req[q] /\ pc'[q] = pc[q]
         /\ FailPart(r) \/ status'[q] = status[q]
<1> USE DEF SoloInv, IsolationInv, RootedInv
<1>1. ~Live(q)
  BY DEF SoloStep, Alone
<1>2. FailPart(r) \/ status'[q] = status[q]
  BY SoloIsStep, OthersStatus
<1>3. Acts(r)
  BY SoloIsStep, StepActs DEF SoloStep
<1>4. QED BY <1>1, <1>2, <1>3 DEF Acts, OthersStay, Live

LEMMA GoesOn ==
  ASSUME NEW r \in Requests, SettledStep, Live(r)'
  PROVE  ~Idle' /\ settled' = settled
BY DEF SettledStep, Idle

\* r, the only live request, is over, and its effect is there to see.
OverNow(r) ==
  /\ \A q \in Requests : ~Live(q)' /\ (q # r => ~Live(q) /\ pc'[q] = pc[q])
  /\ settled' = tree'
  /\ req' = [req EXCEPT ![r] = NoRequest]

LEMMA IsOver ==
  ASSUME SoloInv, NEW r \in Requests, SoloStep(r), ~Live(r)'
  PROVE  OverNow(r)
<1> USE DEF SoloInv, IsolationInv, RootedInv
<1>1. Idle'
  BY OthersRest DEF Idle
<1>2. req' \in [Requests -> RequestStates] /\ req \in [Requests -> RequestStates]
  BY NextType, SoloIsStep DEF TypeOK
<1>3. req'[r] = NoRequest
  BY EndsAs DEF SoloStep, Stall, Over, TypeOK
<1>4. \A q \in Requests : req'[q] = [req EXCEPT ![r] = NoRequest][q]
  BY <1>2, <1>3, OthersRest
<1>5. req' = [req EXCEPT ![r] = NoRequest]
  BY <1>2, <1>4
<1>6. \A q \in Requests : q # r => ~Live(q) /\ pc'[q] = pc[q]
  BY OthersRest
<1>7. QED BY <1>1, <1>5, <1>6 DEF OverNow, SoloStep, SettledStep, Idle

LEMMA NobodyDisturbed ==
  ASSUME SoloInv, NEW r \in Requests, SoloStep(r)
  PROVE  disturbed' = {}
<1> USE DEF SoloInv, IsolationInv, RootedInv
<1>1. CASE UNCHANGED disturbed
  BY <1>1
<1>2. CASE \E t : Effect(r, t)
  <2>1. \A q \in Requests : pc'[q] \in LivePcs => q = r
    BY OthersRest DEF Live
  <2>2. QED BY <1>2, <2>1 DEF Effect
<1>3. QED BY <1>1, <1>2, SoloIsStep, StepActs DEF SoloStep, Acts

LEMMA StepSettled ==
  ASSUME SoloInv, NEW r \in Requests, SoloStep(r)
  PROVE  IsolationInv' /\ SettledOK'
<1>1. IsolationInv'
  BY NextIsolation, SoloIsStep DEF SoloInv
<1>2. tree' \in [Paths -> Nodes] /\ Rooted(tree')
  BY <1>1 DEF IsolationInv, RootedInv, TypeOK, TreeIsRooted
<1>3. /\ settled' \in [Paths -> Nodes] /\ Rooted(settled')
      /\ Idle' => tree' = settled'
  <2>1. CASE Live(r)'
    <3>1. settled' = settled /\ ~Idle'
      BY <2>1, GoesOn DEF SoloStep
    <3>2. settled \in [Paths -> Nodes] /\ Rooted(settled)
      BY DEF SoloInv, SettledOK
    <3>3. QED BY <3>1, <3>2
  <2>2. CASE ~Live(r)'
    <3>1. settled' = tree'
      BY <2>2, IsOver DEF OverNow
    <3>2. QED BY <1>2, <3>1
  <2>3. QED BY <2>1, <2>2
<1>4. QED BY <1>1, <1>3 DEF SettledOK

LEMMA StepBlanks ==
  ASSUME SoloInv, NEW r \in Requests, SoloStep(r)
  PROVE  OneLive' /\ Blanks'
<1>1. OneLive'
  BY OthersRest DEF OneLive
<1>2. TypeOK
  BY DEF SoloInv, IsolationInv, RootedInv
<1>3. ASSUME NEW q \in Requests, q # r
      PROVE  /\ ~Live(q)' => req'[q] = NoRequest \/ Uploading(q)'
             /\ ~Live(q)' /\ req'[q] # NoRequest =>
                  pc'[q] \in {"receiving", "stalled"}
             /\ pc'[q] = "receiving" => Uploading(q)'
             /\ pc'[q] = "idle" => status'[q] = 0
  <2>1. pc'[q] = pc[q] /\ req'[q] = req[q] /\ ~Live(q)
    BY <1>3, OthersRest
  <2>2. pc[q] = "idle" => status'[q] = status[q]
    <3>1. CASE FailPart(r)
      BY <3>1 DEF FailPart
    <3>2. QED BY <1>3, <3>1, OthersRest
  <2>3. QED BY <2>1, <2>2 DEF SoloInv, Blanks, Uploading
<1>4. Live(r)' \/ (req'[r] = NoRequest /\ pc'[r] \in {"done", "stalled"})
  <2>1. SUFFICES ASSUME ~Live(r)'
                 PROVE  req'[r] = NoRequest /\ pc'[r] \in {"done", "stalled"}
    OBVIOUS
  <2>2. Stall(r) \/ Over(r)
    BY <1>2, <2>1, EndsAs DEF SoloStep
  <2>3. QED BY <1>2, <2>2 DEF Stall, Over, Goto, TypeOK
<1>5. /\ ~Live(r)' => req'[r] = NoRequest
      /\ pc'[r] # "receiving" /\ pc'[r] # "idle"
  BY <1>4 DEF Live, LivePcs
<1>6. QED BY <1>1, <1>3, <1>5 DEF Blanks

\* No answer is taken back.
LEMMA AnswersStay ==
  ASSUME SoloInv, [Next]_vars, NEW r \in Requests, status[r] # 0
  PROVE  status'[r] # 0
BY NextKeeps DEF SoloInv, IsolationInv, RootedInv, KeepsAnswers

\* The steps of a part leave it to the upload it came with.
LEMMA StepBelongs ==
  ASSUME SoloInv, NEW r \in Requests, SoloStep(r)
  PROVE  PartsBelong'
<1> USE DEF SoloInv, IsolationInv, RootedInv
<1>1. SUFFICES ASSUME Live(r)', NEW u \in req'[r].upload
               PROVE  \/ pc'[u] \in {"receiving", "stalled"} /\ Uploading(u)'
                      \/ status'[u] # 0
  BY OthersRest DEF PartsBelong
<1>2. u \in Requests
  <2>1. req'[r] \in RequestStates
    BY NextType, SoloIsStep DEF TypeOK
  <2>2. req'[r].upload \in SUBSET Requests
    BY <2>1 DEF RequestStates
  <2>3. QED BY <2>2
<1>3. u # r /\ pc[u] \in {"receiving", "stalled"} /\ Uploading(u)
        => pc'[u] \in {"receiving", "stalled"} /\ Uploading(u)'
  BY <1>2, OthersRest DEF Uploading
<1>4. status[u] # 0 => status'[u] # 0
  BY <1>2, AnswersStay, SoloIsStep
<1>5. CASE StartPart(r)
  <2>1. pc[u] = "receiving" /\ pc[r] = "idle"
    BY <1>5 DEF StartPart, TypeOK
  <2>2. u # r /\ Uploading(u)
    BY <1>2, <2>1 DEF Blanks
  <2>3. QED BY <1>3, <2>1, <2>2
<1>6. CASE Receive(r)
  BY <1>6 DEF Receive, TypeOK
<1>7. CASE Serve(r)
  <2>1. Live(r)
    BY <1>7, ServesLive
  <2>2. req'[r].upload = req[r].upload
    <3>1. \/ NamePost(r) \/ LaunchPost(r) \/ SeekIndex(r)
          \/ StartPart(r) \/ LoadPatch(r) \/ MakeParents(r)
          \/ OpenFile(r) \/ WriteChunk(r) \/ ListForDelete(r) \/ Receive(r)
      BY <1>1, SoloIsStep, StaysLive DEF Live
    <3>2. \A code : ~EndUntouched(r, code)
      BY <1>1, SoloIsStep, StaysLive DEF Live
    <3>3. ~Receive(r) /\ ~StartPart(r)
      BY <2>1 DEF Receive, StartPart, Live, LivePcs
    <3>4. CASE NamePost(r) \/ SeekIndex(r) \/ LoadPatch(r)
      <4>1. CASE NamePost(r)
        <5>1. PICK e, b : req' = [req EXCEPT ![r].path = e, ![r].slash = b]
          BY <4>1 DEF NamePost
        <5>2. QED BY <5>1 DEF TypeOK, RequestStates
      <4>2. CASE SeekIndex(r)
        <5>1. PICK e, c :
                req' = [req EXCEPT ![r].path = e, ![r].slash = FALSE,
                                   ![r].exists = TRUE, ![r].container = c]
          BY <4>2 DEF SeekIndex
        <5>2. QED BY <5>1 DEF TypeOK, RequestStates
      <4>3. CASE LoadPatch(r)
        <5>1. PICK d, b :
                req' = [req EXCEPT ![r].drop = d, ![r].body = b]
          BY <3>2, <4>3 DEF LoadPatch
        <5>2. QED BY <5>1 DEF TypeOK, RequestStates
      <4>4. QED BY <3>4, <4>1, <4>2, <4>3
    <3>5. CASE \/ LaunchPost(r) \/ MakeParents(r) \/ OpenFile(r)
               \/ WriteChunk(r) \/ ListForDelete(r)
      BY <3>2, <3>5 DEF LaunchPost, MakeParents, OpenFile, WriteChunk,
                        ListForDelete
    <3>6. QED BY <3>1, <3>3, <3>4, <3>5
  <2>3. \/ pc[u] \in {"receiving", "stalled"} /\ Uploading(u)
        \/ status[u] # 0
    BY <1>1, <2>1, <2>2 DEF PartsBelong
  <2>4. pc[r] \notin {"receiving", "stalled"}
    BY <2>1 DEF Live, LivePcs
  <2>5. QED BY <1>3, <1>4, <2>3, <2>4
<1>8. QED BY <1>5, <1>6, <1>7 DEF SoloStep

LEMMA StepCommon ==
  ASSUME SoloInv, NEW r \in Requests, SoloStep(r), Live(r)' => Stage(r)'
  PROVE  SoloInv'
<1>1. \A q \in Requests : Live(q)' => q = r
  BY OthersRest
<1>2. \A q \in Requests : Live(q)' => Stage(q)'
  BY <1>1
<1>3. QED BY <1>2, NobodyDisturbed, StepSettled, StepBlanks, StepBelongs
          DEF SoloInv

-----------------------------------------------------------------------------
(***************************************************************************)
(* The steps after which the request is still at work.                     *)
(***************************************************************************)
\* A step that only reads the tree it started from.
LEMMA ReceiveStage ==
  ASSUME SoloInv, NEW r \in Requests, SoloStep(r), Receive(r)
  PROVE  Stage(r)'
<1> USE DEF SoloInv, IsolationInv, RootedInv
<1>1. pc'[r] = "perform" /\ UNCHANGED <<tree, status>>
  BY DEF Receive, Goto, TypeOK
<1>2. settled' = settled
  BY <1>1, GoesOn DEF SoloStep, Live, LivePcs
<1>3. tree = settled
  <2>1. Idle
    BY DEF SoloStep, Alone, Receive, Idle, Live, LivePcs
  <2>2. QED BY <2>1 DEF SettledOK
<1>4. status[r] = 0
  BY DEF Blanks, Receive
<1>5. PICK method \in Methods :
        /\ req'[r].method = method
        /\ req'[r].upload = {}
        /\ \E n \in Sizes(method) : req'[r].body = Body(r, n)
  BY DEF Receive, TypeOK
<1>6. TreeStage(r)'
  BY <1>1, <1>2, <1>3 DEF TreeStage
<1>7. MethodStage(r)'
  <2>1. method # "PART"
    BY RequestsAssumption
  <2>2. QED BY <1>1, <1>4, <1>5, <2>1 DEF MethodStage
<1>8. BodyStage(r)'
  BY <1>1, <1>5, RequestsAssumption DEF BodyStage, Sizes
<1>9. QED BY <1>6, <1>7, <1>8 DEF Stage

LEMMA StartPartStage ==
  ASSUME SoloInv, NEW r \in Requests, SoloStep(r), StartPart(r)
  PROVE  Stage(r)'
<1> USE DEF SoloInv, IsolationInv, RootedInv
<1>1. pc'[r] = "mkdir" /\ UNCHANGED <<tree, status>>
  BY DEF StartPart, Goto, TypeOK
<1>2. settled' = settled
  BY <1>1, GoesOn DEF SoloStep, Live, LivePcs
<1>3. tree = settled
  <2>1. Idle
    BY DEF SoloStep, Alone, StartPart, Idle, Live, LivePcs
  <2>2. QED BY <2>1 DEF SettledOK
<1>4. status[r] = 0
  BY DEF Blanks, StartPart
<1>5. /\ req'[r].method = "PART"
      /\ \E u \in Requests : req'[r].upload = {u}
      /\ \E n \in 1..MaxChunks : req'[r].body = Body(r, n)
  BY DEF StartPart, TypeOK
<1>6. TreeStage(r)'
  BY <1>1, <1>2, <1>3 DEF TreeStage
<1>7. MethodStage(r)'
  <2>1. status'[r] = 0
    BY <1>1, <1>4
  <2>2. \E u \in Requests : req'[r].upload = {u}
    BY <1>5
  <2>3. QED BY <1>1, <1>5, <2>1, <2>2, Zenon DEF MethodStage
<1>8. BodyStage(r)'
  BY <1>1, <1>5 DEF BodyStage
<1>9. QED BY <1>6, <1>7, <1>8 DEF Stage

\* What every step that goes on has in common.
LEMMA StageOfLive ==
  ASSUME SoloInv, NEW r \in Requests, SoloStep(r), Serve(r), Live(r)'
  PROVE  /\ Live(r) /\ Stage(r)
         /\ settled' = settled /\ r \notin disturbed'
         /\ r \notin disturbed
<1>1. Live(r)
  BY ServesLive
<1>2. settled' = settled
  BY GoesOn DEF SoloStep
<1>3. QED BY <1>1, <1>2, NobodyDisturbed DEF SoloInv

LEMMA NamePostStage ==
  ASSUME SoloInv, NEW r \in Requests, SoloStep(r), NamePost(r)
  PROVE  Stage(r)'
<1> USE DEF SoloInv, IsolationInv, RootedInv
<1>1. pc[r] = "perform" /\ req[r].method = "POST"
  BY DEF NamePost, Performs
<1>2. pc'[r] = "named" /\ UNCHANGED <<tree, status>>
  BY DEF NamePost, Goto, TypeOK
<1>3. Stage(r) /\ settled' = settled
  BY <1>2, StageOfLive DEF Serve, Live, LivePcs
<1>4. PICK asContainer \in BOOLEAN, e \in Paths :
        req' = [req EXCEPT ![r].path = e, ![r].slash = asContainer]
  BY DEF NamePost, FreeNames, Entries
<1>5. /\ req'[r].method = req[r].method /\ req'[r].body = req[r].body
      /\ req'[r].upload = req[r].upload
  BY <1>4 DEF TypeOK, RequestStates
<1>6. TreeStage(r)'
  BY <1>1, <1>2, <1>3 DEF Stage, TreeStage
<1>7. MethodStage(r)'
  BY <1>1, <1>2, <1>3, <1>5 DEF Stage, MethodStage
<1>8. BodyStage(r)'
  BY <1>1, <1>2, <1>3, <1>5 DEF Stage, BodyStage
<1>9. QED BY <1>6, <1>7, <1>8 DEF Stage

LEMMA SeekIndexStage ==
  ASSUME SoloInv, NEW r \in Requests, SoloStep(r), SeekIndex(r)
  PROVE  Stage(r)'
<1> USE DEF SoloInv, IsolationInv, RootedInv
<1>1. pc[r] = "perform" /\ req[r].method = "GET"
  BY DEF SeekIndex, Performs
<1>2. pc'[r] = "perform" /\ UNCHANGED <<tree, status>>
  BY DEF SeekIndex, Goto, TypeOK
<1>3. Stage(r) /\ settled' = settled
  BY <1>2, StageOfLive DEF Serve, Live, LivePcs
<1>4. PICK e, c : req' = [req EXCEPT ![r].path = e, ![r].slash = FALSE,
                                     ![r].exists = TRUE, ![r].container = c]
  BY DEF SeekIndex
<1>5. /\ req'[r].method = req[r].method
      /\ req'[r].upload = req[r].upload
  BY <1>4 DEF TypeOK, RequestStates
<1>6. TreeStage(r)'
  BY <1>1, <1>2, <1>3 DEF Stage, TreeStage
<1>7. MethodStage(r)'
  BY <1>1, <1>2, <1>3, <1>5 DEF Stage, MethodStage
<1>8. BodyStage(r)'
  BY <1>1, <1>2, <1>5 DEF BodyStage
<1>9. QED BY <1>6, <1>7, <1>8 DEF Stage

LEMMA LaunchPostStage ==
  ASSUME SoloInv, NEW r \in Requests, SoloStep(r), LaunchPost(r), Live(r)'
  PROVE  Stage(r)'
<1> USE DEF SoloInv, IsolationInv, RootedInv
<1>1. pc[r] = "named"
  BY DEF LaunchPost
<1>2. Stage(r) /\ settled' = settled
  BY StageOfLive DEF Serve
<1>3. req[r].method = "POST" /\ status[r] = 0
  BY <1>1, <1>2 DEF Stage, MethodStage
<1>4. \A code : ~EndUntouched(r, code)
  BY StaysLive, SoloIsStep DEF Live
<1>5. /\ UNCHANGED <<tree, req>> /\ Respond(r, 201)
      /\ LET asContainer == req[r].slash \/ tree[req[r].path].kind = "dir" IN
           /\ ~(asContainer /\ Found(tree, req[r].path, req[r].slash))
           /\ Goto(r, IF asContainer THEN "mkcontainer" ELSE "mkdir")
  BY <1>4 DEF LaunchPost
<1>6. status'[r] = 201
  BY <1>3, <1>5 DEF Respond, TypeOK
<1>7. \/ pc'[r] = "mkcontainer" /\ req[r].slash
      \/ pc'[r] = "mkdir" /\ ~req[r].slash
  BY <1>5 DEF Found, Goto, TypeOK
<1>8. TreeStage(r)'
  BY <1>1, <1>2, <1>5, <1>7 DEF Stage, TreeStage
<1>9. MethodStage(r)'
  BY <1>2, <1>3, <1>5, <1>6, <1>7 DEF Stage, MethodStage
<1>10. BodyStage(r)'
  BY <1>2, <1>3, <1>5, <1>7 DEF Stage, BodyStage
<1>11. QED BY <1>8, <1>9, <1>10 DEF Stage

LEMMA LoadPatchStage ==
  ASSUME SoloInv, NEW r \in Requests, SoloStep(r), LoadPatch(r), Live(r)'
  PROVE  Stage(r)'
<1> USE DEF SoloInv, IsolationInv, RootedInv
<1> DEFINE p == req[r].path
<1>1. pc[r] = "perform" /\ req[r].method = "PATCH"
  BY DEF LoadPatch, Performs
<1>2. Stage(r) /\ settled' = settled
  BY StageOfLive DEF Serve
<1>3. tree = settled /\ status[r] = 0
  BY <1>1, <1>2 DEF Stage, TreeStage, MethodStage
<1>4. \A code : ~EndUntouched(r, code)
  BY StaysLive, SoloIsStep DEF Live
<1>5. PICK drop \in Deletions :
        /\ drop \subseteq Marks(tree[p].data)
        /\ req' = [req EXCEPT ![r].drop = drop,
                              ![r].body = PatchedGraph(r, drop)]
        /\ Goto(r, "mkdir")
        /\ UNCHANGED <<tree, status>>
  BY <1>4 DEF LoadPatch
<1>6. /\ req'[r].method = "PATCH" /\ req'[r].path = p
      /\ req'[r].upload = req[r].upload
      /\ req'[r].body = PatchedGraph(r, drop)
  BY <1>1, <1>5 DEF TypeOK, RequestStates
<1>7. PatchedGraph(r, drop) = Merged(settled, r, p, drop)
  BY <1>3 DEF PatchedGraph, Merged
<1>8. pc'[r] = "mkdir"
  BY <1>5 DEF Goto, TypeOK
<1>9. TreeStage(r)'
  BY <1>2, <1>3, <1>5, <1>8 DEF TreeStage
<1>10. MethodStage(r)'
  BY <1>1, <1>2, <1>3, <1>5, <1>6, <1>8 DEF Stage, MethodStage
<1>11. BodyStage(r)'
  <2>1. drop \in SUBSET Marks(settled[p].data)
    BY <1>3, <1>5
  <2>2. \E d \in SUBSET Marks(settled'[req'[r].path].data) :
          req'[r].body = Merged(settled', r, req'[r].path, d)
    BY <2>1, <1>2, <1>6, <1>7
  <2>3. QED BY <2>2, <1>6 DEF BodyStage
<1>12. QED BY <1>9, <1>10, <1>11 DEF Stage

LEMMA ListForDeleteStage ==
  ASSUME SoloInv, NEW r \in Requests, SoloStep(r), ListForDelete(r)
  PROVE  Stage(r)'
<1> USE DEF SoloInv, IsolationInv, RootedInv
<1>1. pc[r] = "perform" /\ req[r].method = "DELETE"
  BY DEF ListForDelete, Performs
<1>2. pc'[r] = "rmdir" /\ UNCHANGED <<tree, req, status>>
  BY DEF ListForDelete, Goto, TypeOK
<1>3. Stage(r) /\ settled' = settled
  BY <1>2, StageOfLive DEF Serve, Live, LivePcs
<1>4. TreeStage(r)' /\ BodyStage(r)'
  BY <1>1, <1>2, <1>3 DEF Stage, TreeStage, BodyStage
<1>5. MethodStage(r)'
  BY <1>1, <1>2, <1>3 DEF Stage, MethodStage
<1>6. QED BY <1>4, <1>5 DEF Stage

\* What stat() said of a target is true of the tree the request started from.
LEMMA StatOfSettled ==
  ASSUME SoloInv, NEW r \in Requests, pc[r] = "perform"
  PROVE  /\ tree = settled
         /\ req[r].exists = Found(settled, req[r].path, req[r].slash)
         /\ req[r].container =
              (req[r].slash \/ settled[req[r].path].kind = "dir")
<1>1. Stage(r) /\ StatGood(r) /\ r \notin disturbed
  BY DEF SoloInv, IsolationInv, Good, Live, LivePcs
<1>2. QED BY <1>1 DEF Stage, TreeStage, StatGood

LEMMA MakeParentsStage ==
  ASSUME SoloInv, NEW r \in Requests, SoloStep(r), MakeParents(r)
  PROVE  Stage(r)'
<1> USE DEF SoloInv, IsolationInv, RootedInv
<1> DEFINE p == req[r].path
<1>1. pc'[r] = "open" /\ UNCHANGED <<req, status>>
  BY DEF MakeParents, Goto, TypeOK
<1>2. Stage(r) /\ settled' = settled
  BY <1>1, StageOfLive DEF Serve, Live, LivePcs
<1>3. /\ pc[r] \in {"mkdir", "perform"}
      /\ pc[r] = "perform" =>
           \/ req[r].method = "PUT" /\ ~req[r].container
           \/ req[r].method = "COPY"
  BY DEF MakeParents, AtMkdir, Performs
<1>4. tree = settled
  BY <1>2, <1>3 DEF Stage, TreeStage
<1>5. /\ Walkable(settled, p)
      /\ tree' = WithDirectories(settled, Above[p])
  BY <1>4 DEF MakeParents, Effect
<1>6. TreeStage(r)'
  BY <1>1, <1>2, <1>5 DEF TreeStage
<1>7. MethodStage(r)'
  BY <1>1, <1>2, <1>3 DEF Stage, MethodStage
<1>8. req[r].method = "PUT" => (req[r].exists <=> settled[p] # Absent)
  <2>1. SUFFICES ASSUME req[r].method = "PUT"
                 PROVE  req[r].exists <=> settled[p] # Absent
    OBVIOUS
  <2>2. pc[r] = "perform" /\ ~req[r].container
    BY <1>2, <1>3, <2>1 DEF Stage, MethodStage
  <2>3. req[r].exists = (settled[p].kind # "absent")
    BY <2>2, StatOfSettled DEF Found
  <2>4. settled[p] \in Nodes
    BY TreeTypes DEF SettledOK
  <2>5. QED BY <2>3, <2>4, NodeShapes, NodeKinds
<1>9. BodyStage(r)'
  BY <1>1, <1>2, <1>3, <1>8 DEF Stage, BodyStage
<1>10. QED BY <1>6, <1>7, <1>9 DEF Stage

\* What the directories above a path are made for does not change at the path.
LEMMA PlacedAt ==
  ASSUME NEW t \in [Paths -> Nodes], NEW p \in Paths, NEW node
  PROVE  /\ WithDirectories(t, Above[p])[p] = t[p]
         /\ Placed(t, p, node)[p] = node
BY PathsAssumption DEF WithDirectories, Placed

LEMMA OpenFileStage ==
  ASSUME SoloInv, NEW r \in Requests, SoloStep(r), OpenFile(r)
  PROVE  Stage(r)'
<1> USE DEF SoloInv, IsolationInv, RootedInv
<1> DEFINE p == req[r].path
<1>1. /\ pc[r] = "open" /\ pc'[r] = "write" /\ UNCHANGED <<req, status>>
      /\ tree' = [tree EXCEPT ![p] = File(Blank)]
      /\ CanOpen(r)
  BY DEF OpenFile, Goto, Effect, TypeOK
<1>2. Stage(r) /\ settled' = settled
  BY <1>1, StageOfLive DEF Serve, Live, LivePcs
<1>3. p \in Paths /\ settled \in [Paths -> Nodes]
  BY TreeTypes DEF SettledOK
<1>4. Walkable(settled, p) /\ tree = WithDirectories(settled, Above[p])
  BY <1>1, <1>2 DEF Stage, TreeStage
<1>5. settled[p].kind # "dir"
  BY <1>1, <1>3, <1>4, PlacedAt DEF CanOpen
<1>6. \E c \in Contents : tree' = Placed(settled, p, File(c))
  BY <1>1, <1>4, NodeTypes DEF Placed
<1>7. TreeStage(r)'
  BY <1>1, <1>2, <1>4, <1>5, <1>6 DEF TreeStage
<1>8. MethodStage(r)' /\ BodyStage(r)'
  BY <1>1, <1>2 DEF Stage, MethodStage, BodyStage
<1>9. QED BY <1>7, <1>8 DEF Stage

LEMMA WriteChunkStage ==
  ASSUME SoloInv, NEW r \in Requests, SoloStep(r), WriteChunk(r)
  PROVE  Stage(r)'
<1> USE DEF SoloInv, IsolationInv, RootedInv
<1> DEFINE p == req[r].path
           k == pos[r] + 1
           d == [tree[p].data EXCEPT ![k] = req[r].body[k]]
<1>1. pc[r] = "write" /\ pc'[r] = "write" /\ UNCHANGED <<req, status>>
  BY DEF WriteChunk, Goto, TypeOK
<1>2. Stage(r) /\ settled' = settled /\ r \notin disturbed
  BY <1>1, StageOfLive DEF Serve, Live, LivePcs
<1>3. p \in Paths /\ tree \in [Paths -> Nodes]
  BY TreeTypes
<1>4. r \notin detached
  BY <1>1, <1>2 DEF Good, WriteGood
<1>5. tree' = [tree EXCEPT ![p] = File(d)]
  BY <1>4 DEF WriteChunk, Effect
<1>6. d \in Contents
  <2>1. tree[p].data \in Contents /\ req[r].body \in Contents
    BY <1>3, NodeShapes DEF TypeOK, RequestStates
  <2>2. QED BY <2>1 DEF Contents
<1>7. PICK c \in Contents : tree = Placed(settled, p, File(c))
  BY <1>1, <1>2 DEF Stage, TreeStage
<1>8. tree' = Placed(settled, p, File(d))
  BY <1>5, <1>7 DEF Placed
<1>9. TreeStage(r)'
  BY <1>1, <1>2, <1>6, <1>8 DEF Stage, TreeStage
<1>10. MethodStage(r)' /\ BodyStage(r)'
  BY <1>1, <1>2 DEF Stage, MethodStage, BodyStage
<1>11. QED BY <1>9, <1>10 DEF Stage

LEMMA StepStage ==
  ASSUME SoloInv, NEW r \in Requests, SoloStep(r), Live(r)'
  PROVE  Stage(r)'
<1>1. \/ Receive(r) \/ NamePost(r) \/ LaunchPost(r) \/ SeekIndex(r)
      \/ StartPart(r) \/ LoadPatch(r) \/ MakeParents(r)
      \/ OpenFile(r) \/ WriteChunk(r) \/ ListForDelete(r)
  BY StaysLive, SoloIsStep DEF SoloInv, IsolationInv, RootedInv, Live
<1>2. QED BY <1>1, ReceiveStage, NamePostStage, LaunchPostStage,
             SeekIndexStage, StartPartStage, LoadPatchStage,
             MakeParentsStage, OpenFileStage, WriteChunkStage,
             ListForDeleteStage

-----------------------------------------------------------------------------
(***************************************************************************)
(* The steps of the process, and the invariant.                            *)
(***************************************************************************)
\* The process ends: nothing is at work any more, and the files stay.
LEMMA DownKeeps ==
  ASSUME SoloInv, [Next]_vars, Down, SettledStep
  PROVE  SoloInv' /\ Idle' /\ settled' = tree
<1>1. Idle' /\ settled' = tree' /\ tree' = tree
  BY DEF Down, SettledStep, Idle, Live, LivePcs, SoloInv, IsolationInv,
         RootedInv, TypeOK
<1>2. IsolationInv'
  BY NextIsolation DEF SoloInv
<1>3. SettledOK'
  <2>1. tree' \in [Paths -> Nodes] /\ Rooted(tree')
    BY <1>2 DEF IsolationInv, RootedInv, TypeOK, TreeIsRooted
  <2>2. QED BY <1>1, <2>1 DEF SettledOK
<1>4. \A q \in Requests : ~Live(q)'
  BY <1>1 DEF Idle
<1>5. /\ OneLive' /\ PartsBelong' /\ disturbed' = {}
      /\ \A q \in Requests : Live(q)' => Stage(q)'
  BY <1>4 DEF OneLive, PartsBelong, Down
<1>6. Blanks'
  BY DEF Blanks, Down, SoloInv, IsolationInv, RootedInv, TypeOK
<1>7. QED BY <1>1, <1>2, <1>3, <1>5, <1>6 DEF SoloInv

\* A step of an upload leaves the tree and the other requests as they are.
LEMMA CollectStays ==
  ASSUME SoloInv, NEW r \in Requests, Collect(r), ~Down, SettledStep
  PROVE  /\ tree' = tree /\ settled' = settled /\ disturbed' = {}
         /\ ~Live(r)' /\ Uploading(r)
         /\ \A q \in Requests : q # r =>
              /\ pc'[q] = pc[q] /\ req'[q] = req[q] /\ status'[q] = status[q]
              /\ Live(q)' = Live(q)
         /\ \/ pc'[r] \in {"receiving", "stalled"} /\ req'[r] = req[r]
            \/ pc'[r] = "done" /\ req'[r] = NoRequest /\ status'[r] # 0
<1> USE DEF SoloInv, IsolationInv, RootedInv
<1>1. StartUpload(r) \/ EndUpload(r) \/ BreakOffUpload(r)
  BY DEF Collect, UploadStops
<1>2. tree' = tree /\ ~Live(r)'
  BY <1>1 DEF StartUpload, EndUpload, BreakOffUpload, EndUntouched, End, Over,
              Goto, Effect, Live, LivePcs, TypeOK
<1>3. /\ \A q \in Requests : q # r => pc'[q] = pc[q] /\ req'[q] = req[q]
      /\ \/ pc'[r] \in {"receiving", "stalled"} /\ req'[r] = req[r]
         \/ pc'[r] = "done" /\ req'[r] = NoRequest /\ status'[r] # 0
  BY <1>1 DEF StartUpload, EndUpload, BreakOffUpload, EndUntouched, End, Over,
              Respond, Goto, TypeOK
<1>4. \A q \in Requests : q # r => status'[q] = status[q]
  BY <1>1 DEF StartUpload, EndUpload, BreakOffUpload, EndUntouched, End,
              Respond, TypeOK
<1>5. \A q \in Requests : q # r => Live(q)' = Live(q)
  BY <1>3 DEF Live
<1>6. disturbed' = {}
  BY <1>1, <1>2
     DEF StartUpload, EndUpload, BreakOffUpload, EndUntouched, Effect
<1>7. Uploading(r)
  <2>1. CASE StartUpload(r)
    <3>1. Live(r) /\ req[r].method = "UPLOAD" /\ pc[r] = "perform"
      BY <2>1 DEF StartUpload, Performs, Live, LivePcs
    <3>2. QED BY <3>1 DEF Stage, MethodStage, Uploading
  <2>2. CASE EndUpload(r) \/ BreakOffUpload(r)
    BY <2>2 DEF EndUpload, BreakOffUpload, Blanks
  <2>3. QED BY <1>1, <2>1, <2>2
<1>8. settled' = settled
  <2>1. SUFFICES ASSUME Idle' PROVE tree = settled
    BY <1>2 DEF SettledStep
  <2>2. \A q \in Requests : q # r => ~Live(q)
    BY <1>5, <2>1 DEF Idle
  <2>3. CASE Live(r)
    <3>1. pc[r] = "perform"
      BY <2>3, CollectsBefore DEF Live, LivePcs
    <3>2. QED BY <2>3, <3>1 DEF Stage, TreeStage
  <2>4. CASE ~Live(r)
    BY <2>2, <2>4 DEF Idle, SettledOK
  <2>5. QED BY <2>3, <2>4
<1>9. QED BY <1>2, <1>3, <1>4, <1>5, <1>6, <1>7, <1>8

\* What a request that stays as it is can rely on stays as it is.
LEMMA StageStays ==
  ASSUME NEW q \in Requests, Stage(q),
         pc'[q] = pc[q], req'[q] = req[q], status'[q] = status[q],
         tree' = tree, settled' = settled
  PROVE  Stage(q)'
<1>1. TreeStage(q)'
  BY DEF Stage, TreeStage
<1>2. MethodStage(q)' /\ BodyStage(q)'
  BY DEF Stage, MethodStage, BodyStage
<1>3. QED BY <1>1, <1>2 DEF Stage

LEMMA CollectKeeps ==
  ASSUME SoloInv, NEW r \in Requests, Collect(r), ~Down, SettledStep
  PROVE  SoloInv'
<1>1. IsolationInv'
  BY NextIsolation DEF SoloInv, Next
<1>2. /\ tree' = tree /\ settled' = settled /\ disturbed' = {}
      /\ ~Live(r)' /\ Uploading(r)
      /\ \/ pc'[r] \in {"receiving", "stalled"} /\ req'[r] = req[r]
         \/ pc'[r] = "done" /\ req'[r] = NoRequest /\ status'[r] # 0
  BY CollectStays
<1>3. \A q \in Requests : q # r =>
        /\ pc'[q] = pc[q] /\ req'[q] = req[q] /\ status'[q] = status[q]
        /\ Live(q)' = Live(q)
  BY CollectStays
<1>4. SettledOK'
  <2>1. settled' \in [Paths -> Nodes] /\ Rooted(settled')
    BY <1>2 DEF SoloInv, SettledOK
  <2>2. Idle' => tree' = settled'
    <3>1. SettledStep
      OBVIOUS
    <3>2. QED BY <3>1 DEF SettledStep
  <2>3. QED BY <2>1, <2>2 DEF SettledOK
<1>5. OneLive'
  BY <1>2, <1>3 DEF SoloInv, OneLive
<1>6. Blanks'
  <2>1. ASSUME NEW q \in Requests
        PROVE  /\ ~Live(q)' => req'[q] = NoRequest \/ Uploading(q)'
               /\ ~Live(q)' /\ req'[q] # NoRequest =>
                    pc'[q] \in {"receiving", "stalled"}
               /\ pc'[q] = "receiving" => Uploading(q)'
               /\ pc'[q] = "idle" => status'[q] = 0
    <3>1. CASE q = r
      BY <1>2, <3>1 DEF Uploading
    <3>2. CASE q # r
      BY <1>3, <3>2 DEF SoloInv, Blanks, Uploading
    <3>3. QED BY <3>1, <3>2
  <2>2. QED BY <2>1 DEF Blanks
<1>7. PartsBelong'
  <2>1. SUFFICES ASSUME NEW q \in Requests, Live(q)',
                        NEW u \in req'[q].upload
                 PROVE  \/ /\ pc'[u] \in {"receiving", "stalled"}
                           /\ Uploading(u)'
                        \/ status'[u] # 0
    BY DEF PartsBelong
  <2>2. Live(q) /\ u \in req[q].upload
    BY <1>2, <1>3, <2>1
  <2>3. u \in Requests
    <3>1. req[q].upload \in SUBSET Requests
      BY DEF SoloInv, IsolationInv, RootedInv, TypeOK, RequestStates
    <3>2. QED BY <2>2, <3>1
  <2>4. \/ pc[u] \in {"receiving", "stalled"} /\ Uploading(u)
        \/ status[u] # 0
    BY <2>2 DEF SoloInv, PartsBelong
  <2>5. CASE u = r
    <3>1. status[r] # 0 => status'[r] # 0
      BY AnswersStay DEF Next
    <3>2. CASE pc'[r] \in {"receiving", "stalled"} /\ req'[r] = req[r]
      BY <1>2, <2>5, <3>2 DEF Uploading
    <3>3. QED BY <1>2, <2>5, <3>2
  <2>6. CASE u # r
    BY <1>3, <2>3, <2>4, <2>6 DEF Uploading
  <2>7. QED BY <2>5, <2>6
<1>8. ASSUME NEW q \in Requests, Live(q)' PROVE Stage(q)'
  <2>1. q # r /\ Live(q)
    BY <1>2, <1>3, <1>8
  <2>2. QED BY <1>2, <1>3, <2>1, StageStays DEF SoloInv
<1>9. QED BY <1>1, <1>2, <1>4, <1>5, <1>6, <1>7, <1>8 DEF SoloInv

\* Nothing that the store or a request is made of changes.
LEMMA StaysKeeps ==
  ASSUME SoloInv, [Next]_vars,
         UNCHANGED <<tree, pc, req, status, disturbed, settled>>
  PROVE  SoloInv'
<1>1. IsolationInv'
  BY NextIsolation DEF SoloInv
<1>2. SettledOK'
  BY DEF SoloInv, SettledOK, Idle, Live
<1>3. OneLive' /\ Blanks' /\ PartsBelong' /\ disturbed' = {}
  BY DEF SoloInv, OneLive, Blanks, PartsBelong, Uploading, Live
<1>4. ASSUME NEW r \in Requests, Live(r)' PROVE Stage(r)'
  <2>1. Stage(r)
    BY <1>4 DEF SoloInv, Live
  <2>2. QED BY <2>1, StageStays
<1>5. QED BY <1>1, <1>2, <1>3, <1>4 DEF SoloInv

LEMMA RestartStays ==
  ASSUME SoloInv, (Restart /\ SettledStep) \/ UNCHANGED soloVars
  PROVE  UNCHANGED <<tree, pc, req, status, disturbed, settled>>
<1>1. CASE UNCHANGED soloVars
  BY <1>1 DEF soloVars, vars
<1>2. CASE Restart /\ SettledStep
  <2>1. UNCHANGED <<tree, pc, req, status, disturbed>>
    BY <1>2 DEF Restart
  <2>2. Idle' <=> Idle
    BY <2>1 DEF Idle, Live
  <2>3. settled' = settled
    BY <1>2, <2>1, <2>2 DEF SettledStep, SoloInv, SettledOK
  <2>4. QED BY <2>1, <2>3
<1>3. QED BY <1>1, <1>2

\* A step of the server is one of the request that is alone, or of an upload,
\* or of the process.
LEMMA SoloSteps ==
  ASSUME [SoloNext]_soloVars
  PROVE  /\ [Next]_vars
         /\ \/ \E r \in Requests : SoloStep(r)
            \/ \E r \in Requests : Collect(r) /\ ~Down /\ SettledStep
            \/ Down /\ SettledStep
            \/ (Restart /\ SettledStep) \/ UNCHANGED soloVars
<1>1. [Next]_vars
  BY DEF SoloNext, Next, soloVars
<1>2. CASE UNCHANGED soloVars
  BY <1>1, <1>2
<1>3. CASE SoloNext
  BY <1>1, <1>3 DEF SoloNext, SoloStep, SettledStep, Crash
<1>4. QED BY <1>2, <1>3

LEMMA SoloInvKept == SoloInv /\ [SoloNext]_soloVars => SoloInv'
<1>1. SUFFICES ASSUME SoloInv, [SoloNext]_soloVars PROVE SoloInv'
  OBVIOUS
<1>2. ASSUME NEW r \in Requests, SoloStep(r) PROVE SoloInv'
  BY <1>1, <1>2, StepStage, StepCommon
<1>3. ASSUME NEW r \in Requests, Collect(r), ~Down, SettledStep PROVE SoloInv'
  BY <1>1, <1>3, CollectKeeps
<1>4. CASE Down /\ SettledStep
  BY <1>1, <1>4, DownKeeps, SoloSteps
<1>5. CASE (Restart /\ SettledStep) \/ UNCHANGED soloVars
  BY <1>1, <1>5, RestartStays, StaysKeeps, SoloSteps
<1>6. QED BY <1>1, <1>2, <1>3, <1>4, <1>5, SoloSteps

LEMMA SoloInvAtFirst == SoloInit => SoloInv
<1>1. SUFFICES ASSUME SoloInit PROVE SoloInv
  OBVIOUS
<1>2. Init /\ settled = tree
  BY <1>1 DEF SoloInit
<1>3. IsolationInv
  BY <1>2, InitIsolation
<1>4. SettledOK
  BY <1>2, InitialTreesAssumption DEF Init, SettledOK
<1>5. \A r \in Requests : ~Live(r) /\ req[r] = NoRequest /\ status[r] = 0
  BY <1>2 DEF Init, Live, LivePcs
<1>6. OneLive /\ Blanks /\ PartsBelong /\ disturbed = {}
  BY <1>2, <1>5 DEF OneLive, Blanks, PartsBelong, Init, LivePcs
<1>7. QED BY <1>3, <1>4, <1>5, <1>6 DEF SoloInv

-----------------------------------------------------------------------------
(***************************************************************************)
(* The refinement: what a request that ends is in the store.               *)
(***************************************************************************)
\* The store's variables, as LdpSolo maps them.
AskedOf == [q \in Requests |-> Asked(q)]

Promised == [q \in Requests |-> Owed(q)]

UploadOf == [q \in Requests |-> req[q].upload]

Nothing == [path |-> CHOOSE p \in Paths : TRUE, node |-> Absent]

LEMMA AskedLive ==
  ASSUME NEW r \in Requests, Live(r)
  PROVE  AskedOf[r] = req[r].method
BY DEF AskedOf, Asked, Live, LivePcs

\* A request that ends is out of the store's books, and its effect is there.
LEMMA OverInStore ==
  ASSUME SoloInv, NEW r \in Requests, OverNow(r)
  PROVE  /\ AskedOf' = [AskedOf EXCEPT ![r] = "none"]
         /\ UploadOf' = [UploadOf EXCEPT ![r] = {}]
         /\ Promised' = [Promised EXCEPT ![r] = Nothing]
         /\ status[r] # 201 => Promised' = Promised
         /\ settled' = tree'
<1>1. /\ settled' = tree'
      /\ req' = [req EXCEPT ![r] = NoRequest]
      /\ \A q \in Requests : q # r => pc'[q] = pc[q]
  BY DEF OverNow
<1>2. req \in [Requests -> RequestStates]
  BY DEF SoloInv, IsolationInv, RootedInv, TypeOK
<1>3. AskedOf' = [AskedOf EXCEPT ![r] = "none"]
  BY <1>1, <1>2 DEF AskedOf, Asked, NoRequest
<1>4. UploadOf' = [UploadOf EXCEPT ![r] = {}]
  BY <1>1, <1>2 DEF UploadOf, NoRequest
<1>5. \A q \in Requests : ~Live(q)'
  BY DEF OverNow
<1>6. Promised' = [q \in Requests |-> Nothing]
  BY <1>5 DEF Promised, Owed, Nothing
<1>7. \A q \in Requests : q # r => ~Live(q)
  BY DEF OverNow
<1>8. /\ \A q \in Requests : q # r => Promised[q] = Nothing
      /\ status[r] # 201 => Promised[r] = Nothing
  BY <1>7 DEF Promised, Owed, Nothing
<1>9. /\ Promised = [q \in Requests |-> Promised[q]]
      /\ [Promised EXCEPT ![r] = Nothing] =
           [q \in Requests |-> IF q = r THEN Nothing ELSE Promised[q]]
  BY DEF Promised
<1>10. Promised' = [Promised EXCEPT ![r] = Nothing]
  BY <1>6, <1>8, <1>9
<1>11. status[r] # 201 => Promised' = Promised
  BY <1>6, <1>8, <1>9
<1>12. QED BY <1>1, <1>3, <1>4, <1>10, <1>11

\* Only a part is the upload's business.
LEMMA NoUpload ==
  ASSUME SoloInv, NEW r \in Requests, OverNow(r), Live(r),
         req[r].method # "PART"
  PROVE  UploadOf' = UploadOf
<1>1. req[r].upload = {}
  BY DEF SoloInv, Stage, MethodStage
<1>2. UploadOf' = [UploadOf EXCEPT ![r] = {}]
  BY OverInStore
<1>3. QED BY <1>1, <1>2 DEF UploadOf

LEMMA EndAnswers ==
  ASSUME TypeOK, NEW r \in Requests, NEW code, End(r, code)
  PROVE  /\ status[r] = 0 => status' = [status EXCEPT ![r] = code]
         /\ status[r] # 0 => status' = status
BY DEF End, Respond, TypeOK

\* A request that was not answered before ends with its answer.
LEMMA ToAnswers ==
  ASSUME SoloInv, NEW r \in Requests, SoloStep(r), NEW code, End(r, code),
         Live(r), req[r].method # "PART",
         status[r] = 0, NEW methods, req[r].method \in methods
  PROVE  Store!Answers(r, methods, code) /\ settled' = tree'
<1>1. OverNow(r)
  <2>1. ~Live(r)'
    BY OthersStayAtEnd
       DEF End, SoloInv, IsolationInv, RootedInv, Live, LivePcs
  <2>2. QED BY <2>1, IsOver
<1>2. status' = [status EXCEPT ![r] = code]
  BY EndAnswers DEF SoloInv, IsolationInv, RootedInv
<1>3. /\ AskedOf' = [AskedOf EXCEPT ![r] = "none"]
      /\ Promised' = Promised /\ UploadOf' = UploadOf
      /\ settled' = tree'
  BY <1>1, OverInStore, NoUpload
<1>4. AskedOf[r] \in methods
  BY AskedLive
<1>5. QED BY <1>2, <1>3, <1>4
          DEF Store!Answers, AskedOf, Promised, UploadOf

\* It ends with an error, or without an answer.
LEMMA ToFails ==
  ASSUME SoloInv, NEW r \in Requests, OverNow(r), Live(r),
         req[r].method # "PART",
         NEW methods, req[r].method \in methods, NEW codes,
         \/ UNCHANGED status
         \/ \E code \in codes : End(r, code)
  PROVE  Store!Fails(r, methods, codes) /\ settled' = tree'
<1>1. \/ status' = status
      \/ status[r] = 0 /\ \E code \in codes :
                            status' = [status EXCEPT ![r] = code]
  BY EndAnswers DEF SoloInv, IsolationInv, RootedInv
<1>2. /\ AskedOf' = [AskedOf EXCEPT ![r] = "none"]
      /\ Promised' = [Promised EXCEPT ![r] = Nothing]
      /\ UploadOf' = UploadOf
      /\ settled' = tree'
  BY OverInStore, NoUpload
<1>3. AskedOf[r] \in methods
  BY AskedLive
<1>4. Store!Nothing = Nothing
  BY StoreTrees DEF Store!Nothing, Nothing
<1>5. QED BY <1>1, <1>2, <1>3, <1>4
          DEF Store!Fails, AskedOf, Promised, UploadOf

LEMMA ToReject ==
  ASSUME SoloInv, NEW r \in Requests, SoloStep(r), Live(r), status[r] = 0,
         tree = settled, req[r].method \in Methods,
         NEW code \in {400, 403, 404, 405, 406, 409, 500},
         EndUntouched(r, code)
  PROVE  Store!Reject(r)
<1>1. req[r].method # "PART"
  BY RequestsAssumption
<1>2. End(r, code) /\ tree' = tree
  BY DEF EndUntouched, Effect
<1>3. Store!Answers(r, Methods, code) /\ settled' = tree'
  BY <1>1, <1>2, ToAnswers
<1>4. QED BY <1>2, <1>3 DEF Store!Reject

\* What has been written of a body is the body of a smaller request.
LEMMA PartOfBody ==
  ASSUME NEW r \in Requests, NEW k \in 0..MaxChunks, NEW n \in 1..MaxChunks
  PROVE  \E m \in 0..MaxChunks :
           [i \in 1..MaxChunks |-> IF i <= k THEN Body(r, n)[i] ELSE {}]
             = Body(r, m)
<1> DEFINE m == IF k <= n THEN k ELSE n
<1>1. m \in 0..MaxChunks
  BY ChunksAssumption
<1>2. \A i \in 1..MaxChunks : (i <= k /\ i <= n) <=> i <= m
  BY ChunksAssumption
<1>3. [i \in 1..MaxChunks |-> IF i <= k THEN Body(r, n)[i] ELSE {}] = Body(r, m)
  BY <1>2 DEF Body
<1>4. QED BY <1>1, <1>3

\* A patched graph is written in one chunk: none of it is there, or all of it.
LEMMA PartOfMerged ==
  ASSUME NEW r \in Requests, NEW k \in 0..MaxChunks, NEW p, NEW drop
  PROVE  [i \in 1..MaxChunks |->
            IF i <= k THEN Merged(settled, r, p, drop)[i] ELSE {}]
           \in {Body(r, 0), Merged(settled, r, p, drop)}
<1>1. CASE k = 0
  <2>1. \A i \in 1..MaxChunks : ~(i <= k) /\ ~(i <= 0)
    BY <1>1, ChunksAssumption
  <2>2. QED BY <2>1 DEF Body
<1>2. CASE k # 0
  <2>1. \A i \in 1..MaxChunks : i = 1 => i <= k
    BY <1>2, ChunksAssumption
  <2>2. QED BY <2>1 DEF Merged
<1>3. QED BY <1>1, <1>2

\* What can be in a file that r writes at p.
Prefixes(r, p) ==
  {Body(r, n) : n \in 0..MaxChunks}
    \cup (IF req[r].method = "PATCH"
            THEN {Merged(settled, r, p, drop) :
                    drop \in SUBSET Marks(settled[p].data)}
            ELSE {})

LEMMA WrittenSoFar ==
  ASSUME SoloInv, NEW r \in Requests, pc[r] = "write"
  PROVE  LET p == req[r].path
             part == [i \in 1..MaxChunks |->
                        IF i <= pos[r] THEN req[r].body[i] ELSE {}]
         IN  part \in Prefixes(r, p) /\ tree = Placed(settled, p, File(part))
<1> DEFINE p == req[r].path
           part == [i \in 1..MaxChunks |->
                      IF i <= pos[r] THEN req[r].body[i] ELSE {}]
<1>1. Stage(r) /\ WriteGood(r) /\ r \notin disturbed /\ TypeOK
  BY DEF SoloInv, IsolationInv, RootedInv, Good, Live, LivePcs
<1>2. p \in Paths /\ settled \in [Paths -> Nodes] /\ pos[r] \in 0..MaxChunks
  BY <1>1, TreeTypes DEF SoloInv, SettledOK, TypeOK
<1>3. tree[p] = File(part)
  BY <1>1 DEF WriteGood
<1>4. PICK c \in Contents : tree = Placed(settled, p, File(c))
  BY <1>1 DEF Stage, TreeStage
<1>5. tree = Placed(settled, p, File(part))
  BY <1>2, <1>3, <1>4, PlacedAt
<1>6. part \in Prefixes(r, p)
  <2>1. CASE req[r].method = "PATCH"
    <3>1. PICK drop \in SUBSET Marks(settled[p].data) :
            req[r].body = Merged(settled, r, p, drop)
      BY <1>1, <2>1 DEF Stage, BodyStage
    <3>2. part \in {Body(r, 0), Merged(settled, r, p, drop)}
      <4>1. part = [i \in 1..MaxChunks |->
                      IF i <= pos[r] THEN Merged(settled, r, p, drop)[i] ELSE {}]
        BY <3>1
      <4> HIDE DEF part
      <4>2. QED BY <1>2, <4>1, PartOfMerged
    <3>3. 0 \in 0..MaxChunks
      BY ChunksAssumption
    <3>4. QED BY <2>1, <3>2, <3>3 DEF Prefixes
  <2>2. CASE req[r].method # "PATCH"
    <3>1. PICK n \in 1..MaxChunks : req[r].body = Body(r, n)
      BY <1>1, <2>2 DEF Stage, BodyStage, MethodStage
    <3>2. \E m \in 0..MaxChunks : part = Body(r, m)
      <4>1. part = [i \in 1..MaxChunks |->
                      IF i <= pos[r] THEN Body(r, n)[i] ELSE {}]
        BY <3>1
      <4>2. pos[r] \in 0..MaxChunks
        BY <1>2
      <4>3. \E m \in 0..MaxChunks :
              [i \in 1..MaxChunks |->
                 IF i <= pos[r] THEN Body(r, n)[i] ELSE {}] = Body(r, m)
        BY <4>2, PartOfBody, Zenon
      <4> HIDE DEF part
      <4>4. QED BY <4>1, <4>3
    <3>3. QED BY <3>2 DEF Prefixes
  <2>3. QED BY <2>1, <2>2
<1>7. QED BY <1>5, <1>6

\* The store's parts are those of the invariant.
LEMMA StoreParts ==
  ASSUME NEW r \in Requests, NEW p
  PROVE  /\ {Store!BodyOf(r, n) : n \in 0..MaxChunks}
              = {Body(r, n) : n \in 0..MaxChunks}
         /\ Store!Patched(r, p)
              = {Merged(settled, r, p, drop) :
                   drop \in SUBSET Marks(settled[p].data)}
<1>1. {Store!BodyOf(r, n) : n \in 0..MaxChunks}
        = {Body(r, n) : n \in 0..MaxChunks}
  BY StoreBodies
<1>2. Store!Patched(r, p)
        = {Merged(settled, r, p, drop) : drop \in SUBSET Marks(settled[p].data)}
  BY DEF Store!Patched, Store!Marks, Marks, Merged
<1>3. QED BY <1>1, <1>2

\* A request that gives up leaves the tree at the stage it has come to.
LEMMA ToLeaves ==
  ASSUME SoloInv, NEW r \in Requests, Live(r), settled' = tree
  PROVE  Store!Leaves(r)
<1> DEFINE p == req[r].path
<1>1. Stage(r) /\ TypeOK
  BY DEF SoloInv, IsolationInv, RootedInv
<1>2. p \in Paths
  BY <1>1, TreeTypes
<1>3. CASE pc[r] \notin {"open", "write"}
  BY <1>1, <1>3 DEF Stage, TreeStage, Store!Leaves
<1>4. CASE pc[r] = "open"
  BY <1>1, <1>2, <1>4, StoreTrees DEF Stage, TreeStage, Store!Leaves
<1>5. CASE pc[r] = "write"
  <2>1. PICK part \in Prefixes(r, p) : tree = Placed(settled, p, File(part))
    BY <1>5, WrittenSoFar
  <2>2. /\ req[r].method \in {"PUT", "POST", "PART", "COPY", "PATCH"}
        /\ Store!Room(p)
    <3>1. Walkable(settled, p) /\ settled[p].kind # "dir"
      BY <1>1, <1>5 DEF Stage, TreeStage
    <3>2. Store!Room(p)
      BY <3>1, StoreRoom
    <3>3. QED BY <1>1, <1>5, <3>2 DEF Stage, MethodStage
  <2>3. settled' = Store!Holding(p, Store!File(part))
    BY <2>1, StoreHolding, StoreTrees
  <2>4. AskedOf[r] = req[r].method
    BY AskedLive
  <2>5. part \in {Store!BodyOf(r, n) : n \in 0..MaxChunks}
                   \cup (IF AskedOf[r] = "PATCH"
                           THEN Store!Patched(r, p) ELSE {})
    BY <2>4, StoreParts DEF Prefixes
  <2>6. QED BY <1>2, <2>2, <2>3, <2>4, <2>5 DEF Store!Leaves, AskedOf
<1>6. QED BY <1>3, <1>4, <1>5

LEMMA ToAbandon ==
  ASSUME SoloInv, NEW r \in Requests, OverNow(r), Live(r),
         req[r].method \in Methods, UNCHANGED tree,
         \/ UNCHANGED status
         \/ \E code \in {400, 500} : End(r, code)
  PROVE  Store!Abandon(r)
<1>1. req[r].method # "PART"
  BY RequestsAssumption
<1>2. Store!Fails(r, Methods, {400, 500}) /\ settled' = tree
  BY <1>1, ToFails
<1>3. Store!Leaves(r)
  BY <1>2, ToLeaves
<1>4. QED BY <1>2, <1>3 DEF Store!Abandon

\* A part is over, and nothing is promised on its account.
LEMMA ToPartOver ==
  ASSUME SoloInv, NEW r \in Requests, OverNow(r), Live(r),
         req[r].method = "PART"
  PROVE  /\ Store!PartOver(r) /\ settled' = tree'
         /\ \E u \in Requests :
              /\ UploadOf[r] = {u}
              /\ \/ AskedOf[u] = "CUT"
                 \/ pc[u] = "receiving"
                 \/ status[u] # 0
              /\ \/ pc[u] \in {"receiving", "stalled"}
                 \/ status[u] # 0
<1>1. Stage(r)
  BY DEF SoloInv
<1>2. status[r] # 201
  BY <1>1 DEF Stage, MethodStage, Live, LivePcs
<1>3. /\ AskedOf' = [AskedOf EXCEPT ![r] = "none"]
      /\ UploadOf' = [UploadOf EXCEPT ![r] = {}]
      /\ Promised' = Promised /\ settled' = tree'
  BY <1>2, OverInStore
<1>4. AskedOf[r] = "PART"
  BY AskedLive
<1>5. Store!PartOver(r)
  BY <1>3, <1>4 DEF Store!PartOver, AskedOf, UploadOf, Promised
<1>6. PICK u \in Requests : req[r].upload = {u}
  BY <1>1 DEF Stage, MethodStage
<1>7. \/ pc[u] \in {"receiving", "stalled"} /\ Uploading(u)
      \/ status[u] # 0
  BY <1>6 DEF SoloInv, PartsBelong
<1>8. \/ AskedOf[u] = "CUT"
      \/ pc[u] = "receiving"
      \/ status[u] # 0
  BY <1>7 DEF AskedOf, Asked, Uploading
<1>9. UploadOf[r] = {u}
  BY <1>6 DEF UploadOf
<1>10. QED BY <1>3, <1>5, <1>7, <1>8, <1>9

-----------------------------------------------------------------------------
(***************************************************************************)
(* Step by step.                                                           *)
(***************************************************************************)
\* A step that the store does not show.
Unseen == UNCHANGED <<settled, AskedOf, status, Promised, UploadOf>>

LEMMA ToUnseen ==
  ASSUME SoloInv, NEW r \in Requests, SoloStep(r), Serve(r), Live(r)',
         UNCHANGED status, req'[r].method = req[r].method,
         req'[r].upload = req[r].upload,
         req' = req \/ status[r] # 201
  PROVE  Unseen
<1>1. settled' = settled
  BY GoesOn DEF SoloStep
<1>2. Live(r)
  BY ServesLive
<1>3. ASSUME NEW q \in Requests
      PROVE  /\ Asked(q)' = Asked(q) /\ Owed(q)' = Owed(q)
             /\ req'[q].upload = req[q].upload
  <2>1. CASE q = r
    <3>1. Owed(q)' = Owed(q)
      <4>1. CASE req' = req
        BY <1>2, <2>1, <4>1 DEF Owed
      <4>2. CASE status[r] # 201
        BY <1>2, <2>1, <4>2 DEF Owed
      <4>3. QED BY <4>1, <4>2
    <3>2. Asked(q)' = Asked(q)
      BY <1>2, <2>1 DEF Asked, Live, LivePcs
    <3>3. QED BY <2>1, <3>1, <3>2
  <2>2. CASE q # r
    BY <2>2, OthersRest DEF Asked, Owed
  <2>3. QED BY <2>1, <2>2
<1>4. AskedOf' = AskedOf
  BY <1>3 DEF AskedOf
<1>5. Promised' = Promised
  BY <1>3 DEF Promised
<1>6. UploadOf' = UploadOf
  BY <1>3 DEF UploadOf
<1>7. QED BY <1>1, <1>4, <1>5, <1>6 DEF Unseen

LEMMA AtPerform ==
  ASSUME SoloInv, NEW r \in Requests, pc[r] = "perform"
  PROVE  /\ Live(r) /\ status[r] = 0 /\ tree = settled
         /\ req[r].method \in Methods /\ req[r].method # "PART"
<1>1. Live(r) /\ Stage(r)
  BY DEF SoloInv, Live, LivePcs
<1>2. QED BY <1>1, RequestsAssumption DEF Stage, TreeStage, MethodStage

\* What is new in the books when r begins.
LEMMA BeginsInStore ==
  ASSUME SoloInv, NEW r \in Requests, SoloStep(r), Live(r)', pc[r] = "idle",
         UNCHANGED status,
         NEW method, req'[r].method = method, NEW upload, req'[r].upload = upload
  PROVE  /\ settled' = settled /\ status[r] = 0 /\ AskedOf[r] = "none"
         /\ AskedOf' = [AskedOf EXCEPT ![r] = method]
         /\ UploadOf[r] = {}
         /\ UploadOf' = [UploadOf EXCEPT ![r] = upload]
         /\ Promised' = Promised
<1>1. ~Live(r) /\ status[r] = 0 /\ req[r] = NoRequest
  BY DEF Live, LivePcs, SoloInv, Blanks
<1>2. settled' = settled
  BY GoesOn DEF SoloStep
<1>3. \A q \in Requests : q # r =>
        Asked(q)' = Asked(q) /\ req'[q].upload = req[q].upload
  BY OthersRest DEF Asked
<1>4. Asked(r)' = method /\ Asked(r) = "none" /\ req[r].upload = {}
  BY <1>1 DEF Asked, NoRequest, Live, LivePcs
<1>5. AskedOf' = [AskedOf EXCEPT ![r] = method] /\ AskedOf[r] = "none"
  BY <1>3, <1>4 DEF AskedOf
<1>6. UploadOf' = [UploadOf EXCEPT ![r] = upload] /\ UploadOf[r] = {}
  BY <1>3, <1>4 DEF UploadOf
<1>7. Promised' = Promised
  <2>1. ASSUME NEW q \in Requests PROVE Owed(q)' = Owed(q)
    <3>1. CASE q = r
      BY <1>1, <3>1 DEF Owed
    <3>2. CASE q # r
      BY <3>2, OthersRest DEF Owed
    <3>3. QED BY <3>1, <3>2
  <2>2. QED BY <2>1 DEF Promised
<1>8. QED BY <1>1, <1>2, <1>5, <1>6, <1>7

LEMMA ReceiveMaps ==
  ASSUME SoloInv, NEW r \in Requests, SoloStep(r), Receive(r)
  PROVE  Store!Ask(r)
<1> USE DEF SoloInv, IsolationInv, RootedInv
<1>1. pc[r] = "idle" /\ Live(r)' /\ UNCHANGED status
  BY DEF Receive, Goto, TypeOK, Live, LivePcs
<1>2. PICK method \in Methods :
        req'[r].method = method /\ req'[r].upload = {}
  BY DEF Receive, TypeOK
<1> HIDE DEF SoloInv, IsolationInv, RootedInv
<1>3. /\ settled' = settled /\ status[r] = 0 /\ AskedOf[r] = "none"
      /\ AskedOf' = [AskedOf EXCEPT ![r] = method]
      /\ UploadOf[r] = {} /\ UploadOf' = [UploadOf EXCEPT ![r] = {}]
      /\ Promised' = Promised
  BY <1>1, <1>2, BeginsInStore
<1>4. UploadOf' = UploadOf
  BY <1>3 DEF UploadOf
<1>5. QED BY <1>1, <1>3, <1>4 DEF Store!Ask, AskedOf, Promised, UploadOf

LEMMA StartPartMaps ==
  ASSUME SoloInv, NEW r \in Requests, SoloStep(r), StartPart(r)
  PROVE  Store!AskPart(r)
<1> USE DEF SoloInv, IsolationInv, RootedInv
<1>1. pc[r] = "idle" /\ Live(r)' /\ UNCHANGED status
  BY DEF StartPart, Goto, TypeOK, Live, LivePcs
<1>2. PICK u \in Requests :
        /\ pc[u] = "receiving"
        /\ req'[r].method = "PART" /\ req'[r].upload = {u}
  BY DEF StartPart, TypeOK
<1> HIDE DEF SoloInv, IsolationInv, RootedInv
<1>3. AskedOf[u] = "UPLOAD"
  BY <1>2 DEF SoloInv, Blanks, Uploading, AskedOf, Asked
<1>4. /\ settled' = settled /\ status[r] = 0 /\ AskedOf[r] = "none"
      /\ AskedOf' = [AskedOf EXCEPT ![r] = "PART"]
      /\ UploadOf' = [UploadOf EXCEPT ![r] = {u}]
      /\ Promised' = Promised
  BY <1>1, <1>2, BeginsInStore
<1>5. QED BY <1>1, <1>3, <1>4 DEF Store!AskPart, AskedOf, Promised, UploadOf

\* Answers that say what was found, or that nothing was done.
LEMMA LookingMaps ==
  ASSUME SoloInv, NEW r \in Requests, SoloStep(r),
         \/ Refuse(r) \/ Read(r) \/ List(r) \/ Stream(r)
         \/ RejectPost(r) \/ RejectCopy(r) \/ RejectDelete(r)
  PROVE  Store!Reject(r) \/ Store!Read(r)
<1>1. pc[r] = "perform"
  BY DEF Refuse, Read, List, Stream, Gets, RejectPost, RejectCopy,
         RejectDelete, Performs
<1>2. Live(r) /\ status[r] = 0 /\ tree = settled
  BY <1>1, AtPerform
<1>3. CASE \E code \in {400, 403, 404, 405, 406, 409, 500} :
             EndUntouched(r, code)
  <2>1. PICK code \in {400, 403, 404, 405, 406, 409, 500} :
          EndUntouched(r, code)
    BY <1>3
  <2>2. req[r].method \in Methods
    BY <1>1, AtPerform
  <2>3. QED BY <1>2, <2>1, <2>2, ToReject
<1>4. CASE req[r].method \in {"GET", "HEAD"} /\ EndUntouched(r, 200)
  <2>1. End(r, 200) /\ tree' = tree
    BY <1>4 DEF EndUntouched, Effect
  <2>2. Store!Answers(r, {"GET", "HEAD"}, 200) /\ settled' = tree'
    BY <1>2, <1>4, <2>1, ToAnswers
  <2>3. QED BY <1>2, <2>1, <2>2 DEF Store!Read
<1>5. CASE Refuse(r) \/ Read(r) \/ List(r)
  BY <1>3, <1>4, <1>5 DEF Refuse, Read, List, Gets, Performs
<1>6. CASE Stream(r)
  BY <1>3, <1>4, <1>6 DEF Stream, Gets, Performs
<1>7. CASE RejectPost(r) \/ RejectCopy(r) \/ RejectDelete(r)
  BY <1>3, <1>7 DEF RejectPost, RejectCopy, RejectDelete
<1>8. QED BY <1>5, <1>6, <1>7

LEMMA LoadPatchMaps ==
  ASSUME SoloInv, NEW r \in Requests, SoloStep(r), LoadPatch(r)
  PROVE  Store!Reject(r) \/ Unseen
<1>1. pc[r] = "perform"
  BY DEF LoadPatch, Performs
<1>2. /\ Live(r) /\ status[r] = 0 /\ tree = settled
      /\ req[r].method \in Methods
  BY <1>1, AtPerform
<1>3. CASE EndUntouched(r, 500) \/ EndUntouched(r, 409)
  BY <1>2, <1>3, ToReject
<1>4. CASE ~EndUntouched(r, 500) /\ ~EndUntouched(r, 409)
  <2>1. PICK drop :
          /\ req' = [req EXCEPT ![r].drop = drop,
                                ![r].body = PatchedGraph(r, drop)]
          /\ Goto(r, "mkdir")
          /\ UNCHANGED status
    BY <1>4 DEF LoadPatch
  <2>2. /\ req'[r].method = req[r].method /\ Live(r)'
        /\ req'[r].upload = req[r].upload
    BY <2>1, StillLive
       DEF SoloInv, IsolationInv, RootedInv, TypeOK, RequestStates, LivePcs
  <2>3. Serve(r) /\ status[r] # 201
    BY <1>2 DEF Serve
  <2>4. QED BY <2>1, <2>2, <2>3, ToUnseen
<1>5. QED BY <1>3, <1>4

\* The steps that prepare an effect, or have it in the middle of a request.
LEMMA QuietMaps ==
  ASSUME SoloInv, NEW r \in Requests, SoloStep(r),
         \/ NamePost(r) \/ SeekIndex(r) \/ MakeParents(r) \/ OpenFile(r)
         \/ WriteChunk(r) \/ ListForDelete(r)
  PROVE  Unseen
<1> USE DEF SoloInv, IsolationInv, RootedInv
<1>1. UNCHANGED status
  BY DEF NamePost, SeekIndex, MakeParents, OpenFile, WriteChunk, ListForDelete
<1>2. Serve(r) /\ Live(r)'
  <2>1. \E step \in LivePcs : Goto(r, step)
    BY DEF NamePost, SeekIndex, MakeParents, OpenFile, WriteChunk,
           ListForDelete, LivePcs
  <2>2. QED BY <2>1, StillLive DEF Serve
<1>3. CASE MakeParents(r) \/ OpenFile(r) \/ WriteChunk(r) \/ ListForDelete(r)
  <2>1. req' = req
    BY <1>3 DEF MakeParents, OpenFile, WriteChunk, ListForDelete
  <2>2. QED BY <1>1, <1>2, <2>1, ToUnseen
<1>4. CASE NamePost(r) \/ SeekIndex(r)
  <2>1. status[r] # 201
    <3>1. pc[r] = "perform"
      BY <1>4 DEF NamePost, SeekIndex, Performs
    <3>2. status[r] = 0
      BY <3>1, AtPerform
    <3>3. QED BY <3>2
  <2>2. req'[r].method = req[r].method /\ req'[r].upload = req[r].upload
    <3>1. CASE NamePost(r)
      <4>1. PICK e, slash :
              req' = [req EXCEPT ![r].path = e, ![r].slash = slash]
        BY <3>1 DEF NamePost
      <4>2. QED BY <4>1 DEF TypeOK, RequestStates
    <3>2. CASE SeekIndex(r)
      <4>1. PICK e, c :
              req' = [req EXCEPT ![r].path = e, ![r].slash = FALSE,
                                 ![r].exists = TRUE, ![r].container = c]
        BY <3>2 DEF SeekIndex
      <4>2. QED BY <4>1 DEF TypeOK, RequestStates
    <3>3. QED BY <1>4, <3>1, <3>2
  <2>3. QED BY <1>1, <1>2, <2>1, <2>2, ToUnseen
<1>5. QED BY <1>3, <1>4

\* A container is put in a rooted tree where nothing, or one, is.
LEMMA ContainerPlaced ==
  ASSUME NEW t \in [Paths -> Nodes], NEW p \in Paths
  PROVE  /\ t[p].kind # "file" =>
              WithDirectories(t, Above[p] \cup {p}) = Placed(t, p, Directory)
         /\ Rooted(t) /\ t[p].kind = "dir" =>
              Walkable(t, p) /\ Placed(t, p, Directory) = t
<1>1. /\ t[p].kind = "dir" => t[p] = Directory
      /\ t[p].kind \in {"absent", "dir", "file"}
  BY NodeShapes
<1>2. ASSUME t[p].kind # "file"
      PROVE  WithDirectories(t, Above[p] \cup {p}) = Placed(t, p, Directory)
  <2>1. \A q \in Paths :
          WithDirectories(t, Above[p] \cup {p})[q] = Placed(t, p, Directory)[q]
    BY <1>1, <1>2, PathsAssumption DEF WithDirectories, Placed
  <2>2. QED BY <2>1 DEF WithDirectories, Placed
<1>3. ASSUME Rooted(t), t[p].kind = "dir"
      PROVE  Walkable(t, p) /\ Placed(t, p, Directory) = t
  <2>1. \A a \in Above[p] : a \in Paths /\ t[a].kind = "dir"
    BY <1>3, PathsAssumption DEF Rooted, Reachable
  <2>2. \A q \in Paths : Placed(t, p, Directory)[q] = t[q]
    BY <1>1, <1>3, <2>1 DEF WithDirectories, Placed
  <2>3. Placed(t, p, Directory) = t
    BY <2>2 DEF WithDirectories, Placed
  <2>4. QED BY <2>1, <2>3 DEF Walkable
<1>4. QED BY <1>2, <1>3

LEMMA PutContainerMaps ==
  ASSUME SoloInv, NEW r \in Requests, SoloStep(r), PutContainer(r)
  PROVE  Store!Reject(r) \/ Store!PutContainer(r)
<1> USE DEF SoloInv, IsolationInv, RootedInv
<1> DEFINE p == req[r].path
           known == IF settled[p] = Absent THEN 201 ELSE 204
<1>1. /\ pc[r] = "perform" /\ req[r].method \in {"PUT"}
      /\ req[r].container
  BY DEF PutContainer, Performs
<1>2. /\ Live(r) /\ status[r] = 0 /\ tree = settled
      /\ req[r].method \in Methods /\ req[r].method # "PART"
  BY <1>1, AtPerform
<1>3. /\ req[r].exists = Found(settled, p, req[r].slash)
      /\ req[r].slash \/ settled[p].kind = "dir"
  BY <1>1, StatOfSettled
<1>4. p \in Paths /\ settled \in [Paths -> Nodes] /\ Rooted(settled)
  BY TreeTypes DEF SettledOK
<1>5. settled[p].kind = "absent" <=> settled[p] = Absent
  BY <1>4, NodeShapes, NodeKinds
<1>6. ASSUME NEW code, End(r, code), code = known,
             Walkable(settled, p), settled[p].kind # "file",
             tree' = Placed(settled, p, Directory)
      PROVE  Store!PutContainer(r)
  <2>1. PICK q \in Paths : q = p
    BY <1>4
  <2>2. Store!Answers(r, {"PUT"}, code) /\ settled' = tree'
    BY <1>1, <1>2, <1>6, ToAnswers
  <2>3. settled' = Store!Holding(q, Store!Directory)
    BY <1>6, <2>1, <2>2, StoreHolding, StoreTrees
  <2>4. Store!Answers(r, {"PUT"}, IF settled[q] = Store!Absent THEN 201 ELSE 204)
    <3>1. CASE settled[q] = Store!Absent
      BY <1>6, <2>1, <2>2, <3>1, StoreTrees DEF Store!Answers
    <3>2. CASE settled[q] # Store!Absent
      BY <1>6, <2>1, <2>2, <3>2, StoreTrees DEF Store!Answers
    <3>3. QED BY <3>1, <3>2
  <2>5. Store!Walkable(settled, q) /\ settled[q].kind # "file"
    BY <1>6, <2>1, StoreTrees
  <2>6. QED BY <2>3, <2>4, <2>5 DEF Store!PutContainer, Store!Answers
<1>7. CASE req[r].exists /\ EndUntouched(r, 204)
  <2>1. settled[p].kind = "dir"
    BY <1>3, <1>7 DEF Found
  <2>2. Walkable(settled, p) /\ Placed(settled, p, Directory) = settled
    BY <1>4, <2>1, ContainerPlaced
  <2>3. End(r, 204) /\ tree' = settled
    BY <1>2, <1>7 DEF EndUntouched, Effect
  <2>4. known = 204
    BY <1>5, <2>1
  <2>5. QED BY <1>6, <2>1, <2>2, <2>3, <2>4
<1>8. CASE /\ ~req[r].exists /\ CanMakeContainer(p)
           /\ End(r, 201) /\ Effect(r, WithContainer(p))
  <2>1. Walkable(settled, p) /\ settled[p].kind # "file"
    BY <1>2, <1>8 DEF CanMakeContainer
  <2>2. tree' = Placed(settled, p, Directory)
    BY <1>2, <1>4, <1>8, <2>1, ContainerPlaced DEF Effect, WithContainer
  <2>3. settled[p].kind # "dir"
    BY <1>3, <1>8 DEF Found
  <2>4. settled[p].kind \in {"absent", "dir", "file"}
    BY <1>4, NodeShapes
  <2>5. known = 201
    BY <1>5, <2>1, <2>3, <2>4
  <2>6. QED BY <1>6, <1>8, <2>1, <2>2, <2>5
<1>9. CASE EndUntouched(r, 500)
  BY <1>2, <1>9, ToReject
<1>10. QED BY <1>7, <1>8, <1>9 DEF PutContainer

\* A rejection that nobody awaits.
LEMMA UnhandledMaps ==
  ASSUME SoloInv, NEW r \in Requests, SoloStep(r), Live(r), Unhandled(r),
         req[r].method \in Methods
  PROVE  Store!Abandon(r)
<1>1. EndUntouched(r, 500)
  BY DEF Unhandled, SoloStep
<1>2. UNCHANGED tree /\ End(r, 500)
  BY <1>1 DEF EndUntouched, Effect
<1>3. ~Live(r)'
  BY <1>2, OthersStayAtEnd
     DEF End, SoloInv, IsolationInv, RootedInv, Live, LivePcs
<1>4. QED BY <1>2, <1>3, IsOver, ToAbandon

\* A request that is done has written its whole body.
LEMMA FinishPlaced ==
  ASSUME SoloInv, NEW r \in Requests, pc[r] = "write", Complete(r)
  PROVE  tree = Placed(settled, req[r].path, File(req[r].body))
<1> DEFINE part == [i \in 1..MaxChunks |->
                      IF i <= pos[r] THEN req[r].body[i] ELSE {}]
<1>1. req[r].body \in Contents /\ pos[r] \in 0..MaxChunks
  BY DEF SoloInv, IsolationInv, RootedInv, TypeOK, RequestStates
<1>2. \A i \in 1..MaxChunks : ~(i <= pos[r]) => i > pos[r]
  BY <1>1, ChunksAssumption
<1>3. \A i \in 1..MaxChunks : part[i] = req[r].body[i]
  BY <1>2 DEF Complete
<1>4. part = req[r].body
  BY <1>1, <1>3 DEF Contents
<1>5. tree = Placed(settled, req[r].path, File(part))
  BY WrittenSoFar
<1>6. QED BY <1>4, <1>5

\* The file of a part, and what the upload is told.
LEMMA FinishPartMaps ==
  ASSUME SoloInv, NEW r \in Requests, SoloStep(r), Finish(r),
         req[r].method = "PART"
  PROVE  Store!WritePart(r)
<1>1. pc[r] = "write" /\ Serve(r) /\ Complete(r)
  BY DEF Finish, Serve
<1>2. Live(r) /\ Stage(r) /\ TypeOK
  BY <1>1, ServesLive DEF SoloInv, IsolationInv, RootedInv
<1>3. Over(r) /\ tree' = tree /\ UNCHANGED status
  BY DEF Finish, Effect
<1>4. OverNow(r)
  BY <1>2, <1>3, OthersStayAtEnd, IsOver DEF Live, LivePcs
<1>5. Store!PartOver(r) /\ settled' = tree
  BY <1>2, <1>3, <1>4, ToPartOver
<1>6. PICK p \in Paths : p = req[r].path
  BY <1>2, TreeTypes
<1>7. PICK n \in 1..MaxChunks : req[r].body = Body(r, n)
  BY <1>2 DEF Stage, BodyStage
<1>8. PICK body : body = req[r].body
  OBVIOUS
<1>9. body \in Store!Bodies(r)
  BY <1>7, <1>8, StoreBodies DEF Store!Bodies
<1>10. settled' = Store!Holding(p, Store!File(body))
  <2>1. tree = Placed(settled, p, File(body))
    BY <1>1, <1>6, <1>8, FinishPlaced
  <2>2. QED BY <1>5, <2>1, StoreHolding, StoreTrees
<1>11. Store!Room(p)
  <2>1. Walkable(settled, p) /\ settled[p].kind # "dir"
    BY <1>1, <1>2, <1>6 DEF Stage, TreeStage
  <2>2. QED BY <2>1, StoreRoom
<1>12. QED BY <1>3, <1>5, <1>9, <1>10, <1>11 DEF Store!WritePart

LEMMA FailPartMaps ==
  ASSUME SoloInv, NEW r \in Requests, SoloStep(r), Live(r), FailPart(r),
         req[r].method = "PART"
  PROVE  Store!AbandonPart(r)
<1>1. Over(r) /\ tree' = tree
  BY DEF FailPart, Effect
<1>2. OverNow(r)
  BY <1>1, OthersStayAtEnd, IsOver
     DEF SoloInv, IsolationInv, RootedInv, Live, LivePcs
<1>3. /\ Store!PartOver(r) /\ settled' = tree'
      /\ \E u \in Requests :
           /\ UploadOf[r] = {u}
           /\ pc[u] \in {"receiving", "stalled"} \/ status[u] # 0
  BY <1>2, ToPartOver
<1>4. Store!Leaves(r)
  BY <1>1, <1>3, ToLeaves
<1>5. PICK u \in Requests :
        /\ UploadOf[r] = {u}
        /\ pc[u] \in {"receiving", "stalled"} \/ status[u] # 0
  BY <1>3
<1>6. req[r].upload = {u}
  BY <1>5 DEF UploadOf
<1>7. status' = [q \in Requests |->
                   IF q = u /\ status[u] = 0 THEN 400 ELSE status[q]]
  BY <1>5, <1>6 DEF FailPart
<1>8. status \in [Requests -> Codes]
  BY DEF SoloInv, IsolationInv, RootedInv, TypeOK
<1>9. \/ status[u] = 0 /\ status' = [status EXCEPT ![u] = 400]
      \/ status[u] # 0 /\ status' = status
  BY <1>7, <1>8
<1>10. \A q \in UploadOf[r] :
         \/ status[q] = 0 /\ status' = [status EXCEPT ![q] = 400]
         \/ (status[q] # 0 \/ AskedOf[q] = "CUT") /\ status' = status
  BY <1>5, <1>9
<1>11. QED BY <1>3, <1>4, <1>10 DEF Store!AbandonPart, AskedOf, UploadOf

\* A request that waits for the rest of its body.
LEMMA StallMaps ==
  ASSUME SoloInv, NEW r \in Requests, SoloStep(r), Serve(r),
         BreakOff(r) \/ StreamStalls(r)
  PROVE  Store!Abandon(r) \/ Store!AbandonPart(r)
<1>1. Live(r) /\ Stage(r) /\ Stall(r)
  BY ServesLive DEF SoloInv, BreakOff, StreamStalls
<1>2. UNCHANGED tree /\ UNCHANGED status
  BY <1>1 DEF Stall, Effect
<1>3. OverNow(r)
  <2>1. ~Live(r)'
    BY <1>1 DEF Stall, Goto, SoloInv, IsolationInv, RootedInv, TypeOK, Live,
                LivePcs
  <2>2. QED BY <2>1, IsOver
<1>4. CASE req[r].method # "PART"
  <2>1. req[r].method \in Methods
    BY <1>1, <1>4 DEF Stage, MethodStage
  <2>2. QED BY <1>1, <1>2, <1>3, <2>1, ToAbandon
<1>5. CASE req[r].method = "PART"
  <2>1. /\ Store!PartOver(r) /\ settled' = tree'
        /\ \E u \in Requests :
             /\ UploadOf[r] = {u}
             /\ \/ AskedOf[u] = "CUT"
                \/ pc[u] = "receiving"
                \/ status[u] # 0
    BY <1>1, <1>3, <1>5, ToPartOver
  <2>2. PICK u \in Requests :
          /\ UploadOf[r] = {u}
          /\ \/ AskedOf[u] = "CUT"
             \/ pc[u] = "receiving"
             \/ status[u] # 0
    BY <2>1
  <2>3. pc[u] = "stalled" \/ status[u] = 400
    <3>1. BreakOff(r)
      BY <1>5, RequestsAssumption DEF StreamStalls, Gets, Performs
    <3>2. u \in req[r].upload
      BY <2>2 DEF UploadOf
    <3>3. QED BY <3>1, <3>2 DEF BreakOff
  <2>4. status[u] # 0 \/ AskedOf[u] = "CUT"
    BY <2>2, <2>3
  <2>5. \A q \in UploadOf[r] :
          (status[q] # 0 \/ AskedOf[q] = "CUT") /\ status' = status
    BY <1>2, <2>2, <2>4
  <2>6. Store!Leaves(r)
    BY <1>1, <1>2, <2>1, ToLeaves
  <2>7. QED BY <2>1, <2>5, <2>6 DEF Store!AbandonPart, AskedOf, UploadOf
<1>6. QED BY <1>4, <1>5

LEMMA FailWriteMaps ==
  ASSUME SoloInv, NEW r \in Requests, SoloStep(r), Serve(r), FailWrite(r)
  PROVE  Store!Abandon(r) \/ Store!AbandonPart(r)
<1>1. Live(r) /\ Stage(r)
  BY ServesLive DEF SoloInv
<1>2. CASE req[r].method = "PART"
  BY <1>1, <1>2, FailPartMaps DEF FailWrite
<1>3. CASE req[r].method = "POST"
  <2>1. Unhandled(r) /\ req[r].method \in Methods
    BY <1>1, <1>3 DEF FailWrite, Stage, MethodStage
  <2>2. QED BY <1>1, <2>1, UnhandledMaps
<1>4. CASE req[r].method \notin {"PART", "POST"}
  <2>1. EndUntouched(r, 500)
    BY <1>4 DEF FailWrite
  <2>2. UNCHANGED tree /\ \E code \in {400, 500} : End(r, code)
    BY <2>1 DEF EndUntouched, Effect
  <2>3. ~Live(r)'
    BY <2>2, OthersStayAtEnd
       DEF End, SoloInv, IsolationInv, RootedInv, Live, LivePcs
  <2>4. req[r].method \in Methods
    BY <1>1, <1>4 DEF Stage, MethodStage
  <2>5. QED BY <1>1, <2>2, <2>3, <2>4, IsOver, ToAbandon
<1>5. QED BY <1>2, <1>3, <1>4

\* A 201 that comes before the effect is a promise.
LEMMA ToPromise ==
  ASSUME SoloInv, NEW r \in Requests, SoloStep(r), Serve(r), Live(r)',
         req' = req, status[r] = 0, Respond(r, 201),
         req[r].method = "POST",
         NEW p \in Paths, p = req[r].path,
         NEW node, node = IF req[r].slash THEN Directory
                                          ELSE File(req[r].body),
         req[r].slash \/ \E n \in 1..MaxChunks : req[r].body = Body(r, n),
         settled[p].kind # "dir",
         ~req[r].slash => settled[p] = Absent
  PROVE  Store!Promise(r)
<1> USE DEF SoloInv, IsolationInv, RootedInv
<1>1. settled' = settled /\ Live(r)
  BY GoesOn, ServesLive DEF SoloStep
<1>2. status' = [status EXCEPT ![r] = 201]
  BY DEF Respond
<1>3. AskedOf' = AskedOf /\ AskedOf[r] = "POST" /\ UploadOf' = UploadOf
  <2>1. \A q \in Requests : Asked(q)' = Asked(q)
    BY <1>1, OthersRest DEF Asked, Live, LivePcs
  <2>2. QED BY <1>1, <2>1, AskedLive DEF AskedOf, UploadOf
<1>4. Promised' = [Promised EXCEPT ![r] = [path |-> p, node |-> node]]
  <2>1. ASSUME NEW q \in Requests
        PROVE  Owed(q)' = IF q = r THEN [path |-> p, node |-> node] ELSE Owed(q)
    <3>1. CASE q = r
      <4>1. status'[r] = 201
        BY <1>2 DEF TypeOK
      <4>2. QED BY <3>1, <4>1 DEF Owed
    <3>2. CASE q # r
      <4>1. ~Live(q)' /\ ~Live(q)
        BY <3>2, OthersRest
      <4>2. QED BY <3>2, <4>1 DEF Owed
    <3>3. QED BY <3>1, <3>2
  <2>2. Promised' = [q \in Requests |->
          IF q = r THEN [path |-> p, node |-> node] ELSE Owed(q)]
    BY <2>1 DEF Promised
  <2>3. QED BY <2>2 DEF Promised
<1>5. node \in {Store!Directory}
                 \cup {Store!File(body) : body \in Store!Bodies(r)}
  <2>1. CASE req[r].slash
    BY <2>1, StoreTrees
  <2>2. CASE ~req[r].slash
    <3>1. PICK n \in 1..MaxChunks : req[r].body = Body(r, n)
      BY <2>2
    <3>2. req[r].body \in Store!Bodies(r)
      BY <3>1, StoreBodies DEF Store!Bodies
    <3>3. node = Store!File(req[r].body)
      BY <2>2, StoreTrees
    <3>4. QED BY <3>2, <3>3
  <2>3. QED BY <2>1, <2>2
<1>6. node # Store!Directory => settled[p] = Store!Absent
  <2>1. req[r].slash => node = Store!Directory
    BY StoreTrees
  <2>2. QED BY <2>1, StoreTrees
<1> HIDE DEF SoloInv, IsolationInv, RootedInv
<1>7. QED BY <1>1, <1>2, <1>3, <1>4, <1>5, <1>6
          DEF Store!Promise, AskedOf, Promised, UploadOf

LEMMA LaunchPostMaps ==
  ASSUME SoloInv, NEW r \in Requests, SoloStep(r), LaunchPost(r)
  PROVE  Store!Promise(r)
<1> USE DEF SoloInv, IsolationInv, RootedInv
<1>1. pc[r] = "named" /\ Serve(r)
  BY DEF LaunchPost, Serve
<1>2. Live(r) /\ Stage(r) /\ PostGood(r) /\ r \notin disturbed
  BY <1>1, ServesLive DEF Good
<1>3. req[r].method = "POST" /\ status[r] = 0 /\ tree = settled
  BY <1>1, <1>2 DEF Stage, MethodStage, TreeStage
<1>4. PICK p \in Paths : p = req[r].path
  BY TreeTypes
<1>5. ~Found(settled, p, req[r].slash)
  BY <1>1, <1>2, <1>3, <1>4 DEF PostGood
<1>6. /\ settled[p].kind # "dir"
      /\ ~req[r].slash => settled[p] = Absent
  <2>1. settled[p] \in Nodes
    BY DEF SettledOK
  <2>2. QED BY <1>5, <2>1, NodeShapes, NodeKinds DEF Found
<1>7. /\ Respond(r, 201) /\ req' = req
      /\ \E step \in LivePcs : Goto(r, step)
  BY <1>3, <1>4, <1>5 DEF LaunchPost, LivePcs
<1>8. Live(r)'
  BY <1>7, StillLive
<1>9. \E n \in 1..MaxChunks : req[r].body = Body(r, n)
  BY <1>2, <1>3 DEF Stage, BodyStage
<1>10. QED BY <1>1, <1>3, <1>4, <1>6, <1>7, <1>8, <1>9, ToPromise

\* What was promised is delivered.
LEMMA ToDeliver ==
  ASSUME SoloInv, NEW r \in Requests, SoloStep(r), Live(r), status[r] = 201,
         req[r].method # "PART",
         NEW code, End(r, code),
         NEW p \in Paths, p = req[r].path,
         NEW node, node = IF req[r].slash THEN Directory
                                          ELSE File(req[r].body),
         tree' = Placed(settled, p, node)
  PROVE  Store!Deliver(r)
<1>1. ~Live(r)'
  BY OthersStayAtEnd
     DEF End, SoloInv, IsolationInv, RootedInv, Live, LivePcs
<1>2. OverNow(r)
  BY <1>1, IsOver
<1>3. /\ AskedOf' = [AskedOf EXCEPT ![r] = "none"]
      /\ Promised' = [Promised EXCEPT ![r] = Nothing]
      /\ UploadOf' = UploadOf
      /\ settled' = tree'
  BY <1>2, OverInStore, NoUpload
<1>4. status' = status
  BY EndAnswers DEF SoloInv, IsolationInv, RootedInv
<1>5. Promised[r] = [path |-> p, node |-> node]
  BY DEF Promised, Owed
<1>6. Promised[r].path = p /\ Promised[r].node = node
  BY <1>5
<1>7. node # Store!Absent
  BY StoreTrees, NodeKinds
<1>8. settled' = Store!Holding(Promised[r].path, Promised[r].node)
  BY <1>3, <1>6, StoreHolding
<1>9. Store!Nothing = Nothing
  BY StoreTrees DEF Store!Nothing, Nothing
<1>10. QED BY <1>3, <1>4, <1>6, <1>7, <1>8, <1>9
           DEF Store!Deliver, AskedOf, Promised, UploadOf

LEMMA MakePostedMaps ==
  ASSUME SoloInv, NEW r \in Requests, SoloStep(r), MakePosted(r)
  PROVE  Store!Deliver(r) \/ Store!Abandon(r)
<1> USE DEF SoloInv, IsolationInv, RootedInv
<1>1. pc[r] = "mkcontainer" /\ Serve(r)
  BY DEF MakePosted, Serve
<1>2. Live(r) /\ Stage(r)
  BY <1>1, ServesLive
<1>3. /\ status[r] = 201 /\ req[r].slash /\ tree = settled
      /\ req[r].method \in Methods /\ req[r].method # "PART"
  BY <1>1, <1>2 DEF Stage, MethodStage, TreeStage
<1>4. PICK p \in Paths : p = req[r].path
  BY TreeTypes
<1>5. CASE Unhandled(r)
  BY <1>2, <1>3, <1>5, UnhandledMaps
<1>6. CASE /\ CanMakeContainer(p)
           /\ End(r, 201) /\ Effect(r, WithContainer(p))
  <2>1. settled[p].kind # "file" /\ settled \in [Paths -> Nodes]
    BY <1>3, <1>6 DEF CanMakeContainer, SettledOK
  <2>2. tree' = Placed(settled, p, Directory)
    BY <1>3, <1>6, <2>1, ContainerPlaced DEF Effect, WithContainer
  <2>3. Directory = IF req[r].slash THEN Directory ELSE File(req[r].body)
    BY <1>3
  <2>4. QED BY <1>2, <1>3, <1>4, <1>6, <2>2, <2>3, ToDeliver
<1>7. QED BY <1>4, <1>5, <1>6 DEF MakePosted

LEMMA FinishEnds ==
  ASSUME NEW r \in Requests, Finish(r), req[r].method # "PART"
  PROVE  /\ req[r].method = "PUT" /\ req[r].exists => EndUntouched(r, 204)
         /\ req[r].method = "PUT" /\ ~req[r].exists => EndUntouched(r, 201)
         /\ req[r].method = "PATCH" => EndUntouched(r, 200)
         /\ req[r].method \notin {"PUT", "PATCH"} => EndUntouched(r, 201)
<1>1. ASSUME NEW code, Success(r) = code PROVE EndUntouched(r, code)
  BY <1>1 DEF Finish, EndUntouched, End, Respond
<1>2. /\ req[r].method = "PUT" /\ req[r].exists => Success(r) = 204
      /\ req[r].method = "PUT" /\ ~req[r].exists => Success(r) = 201
      /\ req[r].method = "PATCH" => Success(r) = 200
      /\ req[r].method \notin {"PUT", "PATCH"} => Success(r) = 201
  BY DEF Success
<1>3. QED BY <1>1, <1>2

LEMMA FinishMaps ==
  ASSUME SoloInv, NEW r \in Requests, SoloStep(r), Finish(r),
         req[r].method # "PART"
  PROVE  Store!Put(r) \/ Store!Patch(r) \/ Store!Import(r) \/ Store!Deliver(r)
<1>1. pc[r] = "write" /\ Serve(r) /\ Complete(r)
  BY DEF Finish, Serve
<1>2. Live(r) /\ Stage(r) /\ TypeOK
  BY <1>1, ServesLive DEF SoloInv, IsolationInv, RootedInv
<1>3. PICK p \in Paths : p = req[r].path
  BY <1>2, TreeTypes
<1>4. PICK body : body = req[r].body
  OBVIOUS
<1>5. /\ tree = Placed(settled, p, File(body))
      /\ \A code : EndUntouched(r, code) => End(r, code) /\ tree' = tree
  BY <1>1, <1>3, <1>4, FinishPlaced DEF EndUntouched, Effect
<1>6. Store!Room(p) /\ settled \in [Paths -> Nodes]
  <2>1. Walkable(settled, p) /\ settled[p].kind # "dir"
    BY <1>1, <1>2, <1>3 DEF Stage, TreeStage
  <2>2. QED BY <2>1, StoreRoom DEF SoloInv, SettledOK
<1>7. ASSUME NEW methods, req[r].method \in methods, status[r] = 0,
             NEW code, EndUntouched(r, code)
      PROVE  /\ Store!Answers(r, methods, code)
             /\ settled' = Store!Holding(p, Store!File(body))
  <2>1. Store!Answers(r, methods, code) /\ settled' = tree'
    BY <1>2, <1>5, <1>7, ToAnswers
  <2>2. QED BY <1>5, <1>7, <2>1, StoreHolding, StoreTrees
<1>8. req[r].method \in {"PUT", "COPY"} => body \in Store!Bodies(r)
  <2>1. SUFFICES ASSUME req[r].method \in {"PUT", "COPY"}
                 PROVE  body \in Store!Bodies(r)
    OBVIOUS
  <2>2. PICK n \in 1..MaxChunks : body = Body(r, n)
    BY <1>2, <1>4, <2>1 DEF Stage, BodyStage
  <2>3. QED BY <2>2, StoreBodies DEF Store!Bodies
<1>9. CASE req[r].method = "PUT"
  <2>1. status[r] = 0 /\ (req[r].exists <=> settled[p] # Absent)
    BY <1>1, <1>2, <1>3, <1>9 DEF Stage, MethodStage, BodyStage
  <2>2. CASE req[r].exists
    <3>1. /\ Store!Answers(r, {"PUT"}, 204)
          /\ settled' = Store!Holding(p, Store!File(body))
      BY <1>7, <1>9, <2>1, <2>2, FinishEnds
    <3>2. settled[p] # Store!Absent
      BY <2>1, <2>2, StoreTrees
    <3>3. QED BY <1>6, <1>8, <1>9, <3>1, <3>2 DEF Store!Put, Store!Answers
  <2>3. CASE ~req[r].exists
    <3>1. /\ Store!Answers(r, {"PUT"}, 201)
          /\ settled' = Store!Holding(p, Store!File(body))
      BY <1>7, <1>9, <2>1, <2>3, FinishEnds
    <3>2. settled[p] = Store!Absent
      BY <2>1, <2>3, StoreTrees
    <3>3. QED BY <1>6, <1>8, <1>9, <3>1, <3>2 DEF Store!Put, Store!Answers
  <2>4. QED BY <2>2, <2>3
<1>10. CASE req[r].method = "PATCH"
  <2>1. status[r] = 0
    BY <1>1, <1>2, <1>10 DEF Stage, MethodStage
  <2>2. body \in Store!Patched(r, p)
    <3>1. PICK drop \in SUBSET Marks(settled[p].data) :
            body = Merged(settled, r, p, drop)
      BY <1>1, <1>2, <1>3, <1>4, <1>10 DEF Stage, BodyStage
    <3>2. QED BY <3>1, StoreParts
  <2>3. /\ Store!Answers(r, {"PATCH"}, 200)
        /\ settled' = Store!Holding(p, Store!File(body))
    BY <1>7, <1>10, <2>1, FinishEnds
  <2>4. QED BY <1>6, <2>2, <2>3 DEF Store!Patch
<1>11. CASE req[r].method \notin {"PUT", "PATCH"}
  <2>1. EndUntouched(r, 201)
    BY <1>11, FinishEnds
  <2>2. /\ req[r].method \in {"POST", "COPY"}
        /\ status[r] = 0 => req[r].method = "COPY"
        /\ status[r] # 0 => status[r] = 201 /\ ~req[r].slash
    BY <1>1, <1>2, <1>11 DEF Stage, MethodStage, BodyStage
  <2>3. CASE status[r] = 0
    <3>1. /\ Store!Answers(r, {"COPY"}, 201)
          /\ settled' = Store!Holding(p, Store!File(body))
      BY <1>7, <2>1, <2>2, <2>3
    <3>2. body \in Store!Bodies(r)
      BY <1>8, <2>2, <2>3
    <3>3. QED BY <1>6, <3>1, <3>2 DEF Store!Import
  <2>4. CASE status[r] # 0
    <3>1. File(body) = IF req[r].slash THEN Directory ELSE File(req[r].body)
      BY <1>4, <2>2, <2>4
    <3>2. tree' = Placed(settled, p, File(body)) /\ End(r, 201)
      BY <1>5, <2>1
    <3>3. QED BY <1>2, <1>3, <2>2, <2>4, <3>1, <3>2, ToDeliver
  <2>5. QED BY <2>3, <2>4
<1>12. QED BY <1>9, <1>10, <1>11

\* What a COPY that fails leaves at its destination.
LEMMA DropMaps ==
  ASSUME SoloInv, NEW r \in Requests, SoloStep(r), Copying(r), DropCopy(r)
  PROVE  Store!LoseDestination(r)
<1>1. Live(r) /\ Stage(r) /\ TypeOK
  BY DEF Copying, Live, LivePcs, SoloInv, IsolationInv, RootedInv
<1>2. PICK p \in Paths : p = req[r].path
  BY <1>1, TreeTypes
<1>3. ~Down
  BY DEF SoloStep
<1>4. CASE /\ tree[p].kind = "file"
           /\ \E code \in {400, 404} : End(r, code)
           /\ \/ Effect(r, Without(tree, p))
              \/ pc[r] = "open" /\ Effect(r, [tree EXCEPT ![p] = File(Blank)])
  <2>1. ~Live(r)'
    BY <1>1, <1>4, OthersStayAtEnd DEF End, Live, LivePcs
  <2>2. Store!Fails(r, {"COPY"}, {400, 404}) /\ settled' = tree'
    BY <1>1, <1>4, <2>1, IsOver, ToFails DEF Copying
  <2>3. settled \in [Paths -> Nodes]
    BY DEF SoloInv, SettledOK
  <2>4. /\ Walkable(settled, p) /\ settled[p].kind # "dir"
        /\ \A q \in Paths : q # p => tree[q] = WithDirectories(settled, Above[p])[q]
    <3>1. CASE pc[r] = "open"
      <4>1. /\ Walkable(settled, p)
            /\ tree = WithDirectories(settled, Above[p])
        BY <1>1, <1>2, <3>1 DEF Stage, TreeStage
      <4>2. QED BY <1>4, <2>3, <4>1, PlacedAt
    <3>2. CASE pc[r] = "write"
      <4>1. /\ Walkable(settled, p) /\ settled[p].kind # "dir"
            /\ \E c \in Contents : tree = Placed(settled, p, File(c))
        BY <1>1, <1>2, <3>2 DEF Stage, TreeStage
      <4>2. QED BY <4>1 DEF Placed, WithDirectories
    <3>3. QED BY <3>1, <3>2 DEF Copying
  <2>5. Store!Room(p)
    BY <2>4, StoreRoom
  <2>6. CASE tree' = Without(tree, p)
    <3>1. ASSUME NEW q \in Paths
          PROVE  Without(tree, p)[q]
                   = WithDirectories(Without(settled, p), Above[p])[q]
      <4>1. CASE q = p \/ p \in Above[q]
        <5>1. q \notin Above[p]
          BY <4>1, PathsAssumption
        <5>2. QED BY <4>1, <5>1 DEF Without, WithDirectories
      <4>2. CASE q # p /\ p \notin Above[q]
        <5>1. tree[q] = WithDirectories(settled, Above[p])[q]
          BY <2>4, <4>2
        <5>2. QED BY <4>2, <5>1 DEF Without, WithDirectories
      <4>3. QED BY <4>1, <4>2
    <3>2. Without(tree, p) = WithDirectories(Without(settled, p), Above[p])
      BY <3>1 DEF Without, WithDirectories
    <3>3. settled' = Store!WithDirectories(Store!Without(settled, p), Above[p])
      BY <2>2, <2>6, <3>2, StoreTrees
    <3>4. QED BY <2>2, <2>5, <3>3 DEF Store!LoseDestination
  <2>7. CASE pc[r] = "open" /\ tree' = [tree EXCEPT ![p] = File(Blank)]
    <3>1. tree = WithDirectories(settled, Above[p])
      BY <1>1, <1>2, <2>7 DEF Stage, TreeStage
    <3>2. settled' = Store!Holding(p, Store!File(Store!Blank))
      BY <2>2, <2>7, <3>1, StoreHolding, StoreTrees DEF Placed
    <3>3. QED BY <2>2, <2>5, <3>2 DEF Store!LoseDestination
  <2>8. QED BY <1>4, <2>6, <2>7 DEF Effect
<1>5. QED BY <1>2, <1>3, <1>4 DEF DropCopy

LEMMA RemoveMaps ==
  ASSUME SoloInv, NEW r \in Requests, SoloStep(r),
         RemoveContainer(r) \/ RemoveResource(r)
  PROVE  Store!Delete(r) \/ Store!Reject(r)
<1>1. /\ pc[r] = "rmdir" \/ (pc[r] = "perform" /\ req[r].method = "DELETE")
      /\ Serve(r)
  BY DEF RemoveContainer, RemoveResource, Performs, Serve
<1>2. /\ Live(r) /\ Stage(r) /\ TypeOK
      /\ DeleteGood(r) /\ r \notin disturbed
  BY <1>1, ServesLive DEF SoloInv, IsolationInv, RootedInv, Good
<1>3. /\ req[r].method = "DELETE" /\ status[r] = 0 /\ tree = settled
      /\ req[r].method \in Methods
  BY <1>1, <1>2 DEF Stage, MethodStage, TreeStage
<1>4. PICK p \in Paths : p = req[r].path
  BY <1>2, TreeTypes
<1>5. CASE EndUntouched(r, 500)
  BY <1>2, <1>3, <1>5, ToReject
<1>6. CASE End(r, 200) /\ Effect(r, Without(tree, p))
  <2>1. Store!Answers(r, {"DELETE"}, 200) /\ settled' = tree'
    BY <1>2, <1>3, <1>6, ToAnswers
  <2>2. settled' = Store!Without(settled, p)
    BY <1>3, <1>6, <2>1, StoreTrees DEF Effect
  <2>3. /\ settled[p].kind # "absent"
        /\ settled[p].kind = "dir" => Listing(settled, p) \subseteq Hidden
    <3>1. CASE RemoveContainer(r)
      BY <1>2, <1>3, <1>4, <3>1 DEF RemoveContainer, DeleteGood
    <3>2. CASE RemoveResource(r)
      BY <1>2, <1>3, <1>4, <3>2 DEF RemoveResource, DeleteGood
    <3>3. QED BY <3>1, <3>2
  <2>4. settled[p].kind = "dir" => Store!Listing(settled, p) \subseteq Hidden
    BY <2>3, StoreTrees
  <2>5. QED BY <2>1, <2>2, <2>3, <2>4 DEF Store!Delete
<1>7. QED BY <1>4, <1>5, <1>6 DEF RemoveContainer, RemoveResource

-----------------------------------------------------------------------------
(***************************************************************************)
(* Every step of the server, and the theorem.                              *)
(***************************************************************************)
LEMMA ServeMaps ==
  ASSUME SoloInv, NEW r \in Requests, SoloStep(r)
  PROVE  Unseen \/ Store!Next
<1>1. CASE \/ Receive(r) \/ StartPart(r) \/ LoadPatch(r) \/ PutContainer(r)
           \/ Refuse(r) \/ Read(r) \/ List(r) \/ Stream(r)
           \/ RejectPost(r) \/ RejectCopy(r) \/ RejectDelete(r)
  BY <1>1, ReceiveMaps, StartPartMaps, LoadPatchMaps, PutContainerMaps,
     LookingMaps DEF Store!Next
<1>2. CASE \/ NamePost(r) \/ SeekIndex(r) \/ MakeParents(r) \/ OpenFile(r)
           \/ WriteChunk(r) \/ ListForDelete(r)
  BY <1>2, QuietMaps
<1>3. CASE LaunchPost(r) \/ MakePosted(r)
  BY <1>3, LaunchPostMaps, MakePostedMaps DEF Store!Next
<1>4. CASE Finish(r)
  BY <1>4, FinishMaps, FinishPartMaps DEF Store!Next
<1>5. CASE Serve(r) /\ (BreakOff(r) \/ StreamStalls(r) \/ FailWrite(r))
  BY <1>5, StallMaps, FailWriteMaps DEF Store!Next
<1>6. CASE FailCopy(r) \/ SourceFails(r)
  <2>1. Copying(r) /\ DropCopy(r)
    BY <1>6 DEF FailCopy, SourceFails
  <2>2. QED BY <2>1, DropMaps DEF Store!Next
<1>7. CASE RemoveContainer(r) \/ RemoveResource(r)
  BY <1>7, RemoveMaps DEF Store!Next
<1>8. QED BY <1>1, <1>2, <1>3, <1>4, <1>5, <1>6, <1>7 DEF SoloStep, Serve

\* What an upload does to the store: it ends, or will not end well any more.
LEMMA CollectMaps ==
  ASSUME SoloInv, NEW r \in Requests, Collect(r), ~Down, SettledStep
  PROVE  Unseen \/ Store!Next
<1>1. /\ settled' = settled /\ ~Live(r)' /\ Uploading(r)
      /\ \A q \in Requests : q # r =>
           /\ pc'[q] = pc[q] /\ req'[q] = req[q] /\ status'[q] = status[q]
           /\ Live(q)' = Live(q)
  BY CollectStays
<1>2. status \in [Requests -> Codes] /\ TypeOK
  BY DEF SoloInv, IsolationInv, RootedInv, TypeOK
<1>3. ~Live(r) \/ status[r] = 0
  BY CollectsBefore, AtPerform DEF Live, LivePcs
<1>4. Promised' = Promised
  <2>1. ASSUME NEW q \in Requests PROVE Owed(q)' = Owed(q)
    <3>1. CASE q = r
      BY <1>1, <1>3, <3>1 DEF Owed
    <3>2. CASE q # r
      BY <1>1, <3>2 DEF Owed
    <3>3. QED BY <3>1, <3>2
  <2>2. QED BY <2>1 DEF Promised
<1>5. \A q \in Requests : q # r => Asked(q)' = Asked(q)
  BY <1>1 DEF Asked
<1>6. CASE StartUpload(r)
  <2>1. /\ req' = req /\ status' = status
        /\ pc[r] = "perform" /\ pc'[r] = "receiving"
    BY <1>2, <1>6 DEF StartUpload, Performs, Goto, TypeOK
  <2>2. Asked(r)' = Asked(r)
    BY <2>1 DEF Asked
  <2>3. QED BY <1>1, <1>4, <1>5, <2>1, <2>2 DEF Unseen, AskedOf, UploadOf
<1>7. CASE BreakOffUpload(r)
  <2>1. /\ req' = req /\ status' = status
        /\ pc[r] = "receiving" /\ pc'[r] = "stalled"
    BY <1>2, <1>7 DEF BreakOffUpload, Goto, TypeOK
  <2>2. Asked(r)' = "CUT" /\ Asked(r) = "UPLOAD"
    BY <1>1, <2>1 DEF Asked, Uploading
  <2>3. AskedOf' = [AskedOf EXCEPT ![r] = "CUT"] /\ AskedOf[r] = "UPLOAD"
    BY <1>5, <2>2 DEF AskedOf
  <2>4. Store!CutUpload(r)
    BY <1>1, <1>4, <2>1, <2>3
       DEF Store!CutUpload, AskedOf, UploadOf, Promised
  <2>5. QED BY <2>4 DEF Store!Next
<1>8. CASE EndUpload(r)
  <2>1. PICK code \in {201, 400} : End(r, code)
    BY <1>8 DEF EndUpload, EndUntouched
  <2>2. /\ pc[r] = "receiving" /\ pc'[r] = "done"
        /\ req' = [req EXCEPT ![r] = NoRequest]
    BY <1>2, <1>8, <2>1 DEF EndUpload, End, Over, Goto, TypeOK
  <2>3. Asked(r)' = "none" /\ Asked(r) = "UPLOAD"
    BY <1>1, <1>2, <2>2 DEF Asked, Uploading, NoRequest, TypeOK
  <2>4. AskedOf' = [AskedOf EXCEPT ![r] = "none"] /\ AskedOf[r] = "UPLOAD"
    BY <1>5, <2>3 DEF AskedOf
  <2>5. UploadOf' = UploadOf
    BY <1>1, <1>2, <2>2 DEF UploadOf, Uploading, NoRequest, TypeOK
  <2>6. /\ status[r] = 0 => status' = [status EXCEPT ![r] = code]
        /\ status[r] # 0 => status' = status
    BY <1>2, <2>1, EndAnswers
  <2>7. CASE status[r] = 0 /\ code = 400
    <3>1. "UPLOAD" \in Methods
      BY <1>1 DEF Uploading
    <3>2. Store!Answers(r, Methods, 400)
      BY <1>4, <2>4, <2>5, <2>6, <2>7, <3>1
         DEF Store!Answers, AskedOf, UploadOf, Promised
    <3>3. Store!Reject(r)
      BY <1>1, <3>2 DEF Store!Reject
    <3>4. QED BY <3>3 DEF Store!Next
  <2>8. CASE status[r] # 0 \/ code = 201
    <3>1. status' = [status EXCEPT ![r] =
                       IF status[r] = 0 THEN 201 ELSE status[r]]
      BY <1>2, <2>6, <2>8
    <3>2. Store!FinishUpload(r)
      BY <1>1, <1>4, <2>4, <2>5, <3>1
         DEF Store!FinishUpload, AskedOf, UploadOf, Promised
    <3>3. QED BY <3>2 DEF Store!Next
  <2>9. QED BY <2>7, <2>8
<1>9. QED BY <1>6, <1>7, <1>8 DEF Collect, UploadStops

\* The end of the process abandons the request that is at work, if there is one.
LEMMA DownMaps ==
  ASSUME SoloInv, [Next]_vars, Down, SettledStep
  PROVE  Store!Stop
<1>1. Idle' /\ settled' = tree
  BY DownKeeps
<1>2. UNCHANGED <<tree, status>> /\ req' = [q \in Requests |-> NoRequest]
  BY DEF Down
<1>3. AskedOf' = [q \in Requests |-> "none"]
  BY <1>2 DEF AskedOf, Asked, NoRequest
<1>4. UploadOf' = [q \in Requests |-> {}]
  BY <1>2 DEF UploadOf, NoRequest
<1>5. Promised' = [q \in Requests |-> Nothing]
  BY <1>1 DEF Promised, Owed, Idle, Nothing
<1>6. Store!Nothing = Nothing
  BY StoreTrees DEF Store!Nothing, Nothing
<1>7. settled' = settled \/ \E r \in Requests : Store!Leaves(r)
  <2>1. CASE Idle
    BY <1>1, <2>1 DEF SoloInv, SettledOK
  <2>2. CASE ~Idle
    <3>1. PICK r \in Requests : Live(r)
      BY <2>2 DEF Idle
    <3>2. Store!Leaves(r)
      BY <1>1, <3>1, ToLeaves
    <3>3. QED BY <3>2
  <2>3. QED BY <2>1, <2>2
<1>8. QED BY <1>2, <1>3, <1>4, <1>5, <1>6, <1>7
          DEF Store!Stop, AskedOf, UploadOf, Promised

LEMMA StepMaps == SoloInv /\ [SoloNext]_soloVars => [Store!Next]_(Store!vars)
<1>1. SUFFICES ASSUME SoloInv, [SoloNext]_soloVars PROVE Unseen \/ Store!Next
  BY DEF Unseen, Store!vars, AskedOf, Promised, UploadOf
<1>2. ASSUME NEW r \in Requests, SoloStep(r) PROVE Unseen \/ Store!Next
  BY <1>1, <1>2, ServeMaps
<1>3. ASSUME NEW r \in Requests, Collect(r), ~Down, SettledStep
      PROVE  Unseen \/ Store!Next
  BY <1>1, <1>3, CollectMaps
<1>4. CASE Down /\ SettledStep
  <2>1. Store!Stop
    BY <1>1, <1>4, SoloSteps, DownMaps
  <2>2. QED BY <2>1 DEF Store!Next
<1>5. CASE (Restart /\ SettledStep) \/ UNCHANGED soloVars
  <2>1. UNCHANGED <<tree, pc, req, status, disturbed, settled>>
    BY <1>1, <1>5, RestartStays
  <2>2. QED BY <2>1
            DEF Unseen, AskedOf, Asked, Promised, Owed, Live, UploadOf
<1>6. QED BY <1>1, <1>2, <1>3, <1>4, <1>5, SoloSteps

LEMMA InitMaps == SoloInit => Store!Init
<1>1. SUFFICES ASSUME SoloInit PROVE Store!Init
  OBVIOUS
<1>2. SoloInv /\ Idle /\ status = [r \in Requests |-> 0]
  BY <1>1, SoloInvAtFirst DEF SoloInit, Init, Idle, Live, LivePcs
<1>3. settled \in [Paths -> Store!Nodes] /\ Store!Rooted(settled)
  BY <1>2, StoreTypes DEF SoloInv, SettledOK
<1>4. ASSUME NEW r \in Requests
      PROVE  /\ Asked(r) = "none" /\ Owed(r) = Store!Nothing
             /\ req[r].upload = {}
  <2>1. ~Live(r) /\ req[r] = NoRequest
    BY <1>1 DEF SoloInit, Init, Live, LivePcs
  <2>2. Asked(r) = "none" /\ req[r].upload = {}
    BY <2>1 DEF Asked, NoRequest
  <2>3. Owed(r) = Store!Nothing
    BY <2>1, StoreTrees DEF Owed, Store!Nothing
  <2>4. QED BY <2>2, <2>3
<1>5. QED BY <1>2, <1>3, <1>4 DEF Store!Init

\* While one request is at work, the tree differs from the one it started from
\* by what its last step says (TreeStage), it is at a step its method gets to,
\* with the answer that step comes after (MethodStage), and it writes its own
\* body, or the graph it found and patched (BodyStage).  The steps are those of
\* ldp-request.js and ldp-file-store.js.
THEOREM SoloInvariant == SoloSpec => []SoloInv
<1>1. QED BY SoloInvAtFirst, SoloInvKept, PTL DEF SoloSpec

\* Requests that do not overlap are atomic, however many steps on the disk they
\* are made of (ldp-file-store.js), and so is every part of an upload, of which
\* some may stay when another fails: through crashes and restarts, what a client
\* sees between two of them is ResourceStore, whose exceptions (a promise in a
\* 201, part of a body, the destination of a COPY) are the only ones.
THEOREM AtomicWhenAlone == SoloSpec => ImplementsResourceStore
<1>1. QED BY SoloInvariant, InitMaps, StepMaps, PTL
          DEF SoloSpec, ImplementsResourceStore, Store!Spec
=============================================================================
