----------------------------- MODULE LdpServer ------------------------------
(***************************************************************************)
(* The request handler of the LDP server (src/storage/api.js), the         *)
(* requests of src/storage/ldp-request.js and the file store they run on   *)
(* (src/storage/ldp-backend-fs/ldp-file-store.js).                         *)
(*                                                                         *)
(* Node runs the handlers on one thread, and every `await` lets the other  *)
(* requests in.  A request is therefore a process whose steps are the      *)
(* stretches of code between two awaits: it stats its target, is           *)
(* authorized, and performs an operation whose file system calls take a    *)
(* step each.  Nothing locks a resource between the steps.                 *)
(***************************************************************************)
EXTENDS FileTree

CONSTANTS
  Requests,      \* the requests clients may send and the parts of uploads,
                 \* each of them once
  Parts,         \* the ones that are file parts of a multipart upload
  Methods,       \* the methods they use
  Urls,          \* the targets they name: a path, and whether a slash ends it
  Names,         \* the entries a slug or a file name can stand for
  Index,         \* the `index.html` entries of containers
  Uuids,         \* Uuids[r]: the entries named by a UUID generated for r
  InitialTrees,  \* what the data directory may hold at first
  MaxCrashes     \* bounds how often the process is killed

ASSUME RequestsAssumption ==
  /\ Requests \subseteq Writers
  /\ Parts \subseteq Requests
  /\ Methods \subseteq {"GET", "HEAD", "PUT", "POST", "UPLOAD", "PATCH",
                        "DELETE", "COPY"}
  /\ Urls \subseteq [path : Names, slash : BOOLEAN]
  /\ Names \subseteq Paths
  /\ Index \subseteq Names
  /\ Uuids \in [Requests -> SUBSET Paths]
  /\ \A r \in Requests : Uuids[r] \cap Names = {}
  /\ \A r \in Requests : \A p \in Paths : Uuids[r] \cap Above[p] = {}
  /\ \A q, r \in Requests : q # r => Uuids[q] \cap Uuids[r] = {}
  /\ MaxCrashes \in Nat

ASSUME InitialTreesAssumption ==
  \A t \in InitialTrees :
    /\ t \in [Paths -> Nodes]
    /\ Rooted(t)
    /\ \A r \in Requests : \A p \in Uuids[r] : t[p] = Absent

VARIABLES
  tree,       \* the files and directories under the data root
  up,         \* the server process runs
  pc,         \* pc[r]: the step request r is at
  req,        \* req[r]: its target, what stat() said of it, and its body
  pos,        \* pos[r]: how many chunks it has written to the file it opened
  status,     \* status[r]: the HTTP status it was answered with, 0 for none
  detached,   \* the writers whose open file has been removed from the tree
  disturbed,  \* history: live requests whose surroundings another one changed
  crashes     \* how often the process was killed

vars == <<tree, up, pc, req, pos, status, detached, disturbed, crashes>>

LivePcs ==
  {"perform", "named", "mkcontainer", "mkdir", "open", "write", "rmdir"}

NoRequest ==
  [method |-> "none", path |-> CHOOSE p \in Paths : TRUE, slash |-> FALSE,
   exists |-> FALSE, container |-> FALSE, drop |-> {}, body |-> Blank,
   upload |-> {}]

RequestStates ==
  [method : Methods \cup {"none", "PART"}, path : Paths, slash : BOOLEAN,
   exists : BOOLEAN, container : BOOLEAN, drop : SUBSET Writers,
   body : Contents, upload : SUBSET Requests]

Codes == {0, 200, 201, 204, 400, 403, 404, 405, 406, 409, 500}

Live(r) == pc[r] \in LivePcs

\* The part of the tree whose changes can matter to r.
Scope(r) ==
  {req[r].path} \cup Above[req[r].path] \cup Below(req[r].path)

Init ==
  /\ tree \in InitialTrees
  /\ up = TRUE
  /\ pc = [r \in Requests |-> "idle"]
  /\ req = [r \in Requests |-> NoRequest]
  /\ pos = [r \in Requests |-> 0]
  /\ status = [r \in Requests |-> 0]
  /\ detached = {}
  /\ disturbed = {}
  /\ crashes = 0

-----------------------------------------------------------------------------
(***************************************************************************)
(* How a step ends.  Effect says what it does to the tree, and what that   *)
(* does to the others: removing an entry detaches the writers that have it *)
(* open, and changing anything in the scope of a live request disturbs it. *)
(***************************************************************************)
Effect(r, newTree) ==
  /\ tree' = newTree
  /\ detached' = {q \in Requests :
       /\ pc'[q] = "write"
       /\ q \in detached \/ newTree[req[q].path].kind # "file"}
  /\ disturbed' = {q \in Requests :
       /\ pc'[q] \in LivePcs
       /\ \/ q \in disturbed
          \/ q # r /\ \E p \in Scope(q) : newTree[p] # tree[p]}

Goto(r, step) ==
  /\ pc' = [pc EXCEPT ![r] = step]
  /\ UNCHANGED <<up, crashes>>

\* Mutant: a late failure sends its own response.
RespondAgain(r, code) == status' = [status EXCEPT ![r] = code]

\* Responses are sent once: a later failure has no response to go to.
Respond(r, code) ==
  status' = [status EXCEPT ![r] = IF status[r] = 0 THEN code ELSE status[r]]

Over(r) ==
  /\ Goto(r, "done")
  /\ req' = [req EXCEPT ![r] = NoRequest]
  /\ pos' = [pos EXCEPT ![r] = 0]

\* r is over, answered with code unless it has been answered before.
End(r, code) == Over(r) /\ Respond(r, code)

EndUntouched(r, code) == End(r, code) /\ Effect(r, tree)

\* r waits for something that never comes, and will not be answered any more.
Stall(r) ==
  /\ Goto(r, "stalled")
  /\ Effect(r, tree)
  /\ req' = [req EXCEPT ![r] = NoRequest]
  /\ pos' = [pos EXCEPT ![r] = 0]
  /\ UNCHANGED status

\* The process ends: every request in it is lost, the files stay.
Down ==
  /\ up' = FALSE
  /\ pc' = [r \in Requests |-> IF Live(r) \/ pc[r] \in {"receiving", "stalled"}
                                 THEN "lost" ELSE pc[r]]
  /\ req' = [r \in Requests |-> NoRequest]
  /\ pos' = [r \in Requests |-> 0]
  /\ detached' = {}
  /\ disturbed' = {}
  /\ UNCHANGED <<tree, status>>

-----------------------------------------------------------------------------
(***************************************************************************)
(* A request arrives.  handleRequest stats the target; what it learns is   *)
(* used by every later step and not looked up again.                       *)
(***************************************************************************)
\* A body of n chunks sent by r.
Body(r, n) == [i \in 1..MaxChunks |-> IF i <= n THEN {r} ELSE {}]

Sizes(method) ==
  IF method \in {"PUT", "POST", "COPY"} THEN 1..MaxChunks ELSE {0}

\* Mutant: a slash at the end makes no difference.
SlashlessStat(url) ==
  [exists |-> tree[url.path].kind # "absent",
   container |-> url.slash \/ tree[url.path].kind = "dir"]

StatOf(url) ==
  [exists |-> Found(tree, url.path, url.slash),
   container |-> url.slash \/ tree[url.path].kind = "dir"]

Receive(r) ==
  /\ up
  /\ pc[r] = "idle" /\ r \notin Parts
  /\ \E method \in Methods, url \in Urls : \E n \in Sizes(method) :
       req' = [req EXCEPT ![r] =
                [method |-> method, path |-> url.path, slash |-> url.slash,
                 exists |-> StatOf(url).exists,
                 container |-> StatOf(url).container,
                 drop |-> {}, body |-> Body(r, n), upload |-> {}]]
  /\ Goto(r, "perform")
  /\ UNCHANGED <<tree, pos, status, detached, disturbed>>

Performs(r, methods) == pc[r] = "perform" /\ req[r].method \in methods

\* wac.allow() rejects the request; module Wac says when.
Refuse(r) == pc[r] = "perform" /\ EndUntouched(r, 403)

\* A URL that ends in a slash, with an `index.html` below it.
IndexThere(r) ==
  /\ req[r].slash
  /\ \E e \in Entries(req[r].path) \cap Index : tree[e].kind # "absent"

\* HEAD trusts stat(), and so does the 404 of a GET.  A HEAD of a container
\* with an `index.html` fails: it calls a method that a target does not have.
Read(r) ==
  \/ Performs(r, {"GET"}) /\ ~req[r].exists /\ EndUntouched(r, 404)
  \/ /\ Performs(r, {"HEAD"}) /\ ~IndexThere(r)
     /\ EndUntouched(r, IF req[r].exists THEN 200 ELSE 404)
  \/ Performs(r, {"HEAD"}) /\ IndexThere(r) /\ EndUntouched(r, 500)

\* A GET of a container by a browser is one of its `index.html` from here on.
SeekIndex(r) ==
  /\ Performs(r, {"GET"}) /\ IndexThere(r)
  /\ \E e \in Entries(req[r].path) \cap Index :
       /\ tree[e].kind # "absent"
       /\ req' = [req EXCEPT ![r].path = e, ![r].slash = FALSE,
                             ![r].exists = TRUE,
                             ![r].container = (tree[e].kind = "dir")]
  /\ Goto(r, "perform")
  /\ UNCHANGED <<tree, pos, status, detached, disturbed>>

Gets(r) == Performs(r, {"GET"}) /\ req[r].exists

\* GET of a container: the directory is read, and listed unless the type asked
\* for is none the serializer has.
List(r) ==
  /\ Gets(r) /\ req[r].container
  /\ \E code \in IF tree[req[r].path].kind = "dir" THEN {200, 500} ELSE {500} :
       EndUntouched(r, code)

CanStream(r) == tree[req[r].path].kind = "file" /\ ~req[r].slash

\* GET of a file, and a GET with a Range header of anything: the file is opened
\* (open() takes a directory too) and sent, or the type asked for cannot be
\* had, or the graph in it cannot be translated.
Stream(r) ==
  /\ Gets(r) /\ tree[req[r].path].kind # "dir"
  /\ \E code \in IF CanStream(r) THEN {200, 400, 406} ELSE {500} :
       EndUntouched(r, code)

\* A directory opens, and fails at the first read: by then the promise of the
\* stream is settled, and `pipe` does not end the response of a broken source.
StreamStalls(r) == Gets(r) /\ tree[req[r].path].kind = "dir" /\ Stall(r)

-----------------------------------------------------------------------------
(***************************************************************************)
(* PUT and POST of containers.                                             *)
(***************************************************************************)
CanMakeContainer(p) == Walkable(tree, p) /\ tree[p].kind # "file"

WithContainer(p) == WithDirectories(tree, Above[p] \cup {p})

PutContainer(r) ==
  LET p == req[r].path IN
  /\ Performs(r, {"PUT"}) /\ req[r].container
  /\ \/ req[r].exists /\ EndUntouched(r, 204)
     \/ /\ ~req[r].exists /\ CanMakeContainer(p)
        /\ End(r, 201) /\ Effect(r, WithContainer(p))
     \/ /\ ~req[r].exists /\ ~CanMakeContainer(p)
        /\ EndUntouched(r, 500)

RejectPost(r) ==
  /\ Performs(r, {"POST", "UPLOAD"})
  /\ \/ ~req[r].container /\ EndUntouched(r, 405)
     \/ req[r].container /\ ~req[r].exists /\ EndUntouched(r, 404)
     \/ \* a slug with `:`, `|` or `/` in it
        /\ req[r].container /\ req[r].exists /\ req[r].method = "POST"
        /\ EndUntouched(r, 400)
     \/ \* a multipart body without a boundary
        /\ req[r].container /\ req[r].exists /\ req[r].method = "UPLOAD"
        /\ EndUntouched(r, 500)

\* Mutant: the name is not looked up.
AnyNames(r, asContainer) == Entries(req[r].path) \cap Names

\* targetFromSlug(): the slug's own entry if it is free, else a UUID's.
FreeNames(r, asContainer) ==
  {e \in Entries(req[r].path) \cap Names : ~Found(tree, e, asContainer)}

NamePost(r) ==
  /\ Performs(r, {"POST"}) /\ req[r].container /\ req[r].exists
  /\ \E asContainer \in BOOLEAN :
     \E e \in FreeNames(r, asContainer)
                \cup (Entries(req[r].path) \cap Uuids[r]) :
       req' = [req EXCEPT ![r].path = e, ![r].slash = asContainer]
  /\ Goto(r, "named")
  /\ UNCHANGED <<tree, pos, status, detached, disturbed>>

\* The new target is stat'ed, and the write begun but not awaited: the
\* response leaves before the first file system call returns.
LaunchPost(r) ==
  LET found == Found(tree, req[r].path, req[r].slash)
      asContainer == req[r].slash \/ tree[req[r].path].kind = "dir"
  IN
  /\ pc[r] = "named"
  /\ IF asContainer /\ found
       THEN EndUntouched(r, 201)
       ELSE /\ Goto(r, IF asContainer THEN "mkcontainer" ELSE "mkdir")
            /\ Respond(r, 201)
            /\ UNCHANGED <<tree, req, pos, detached, disturbed>>

\* A rejection nobody awaits: a warning, or the end of the process, as the
\* version of Node has it.
Unhandled(r) ==
  \/ EndUntouched(r, 500)
  \/ Down /\ UNCHANGED crashes

MakePosted(r) ==
  /\ pc[r] = "mkcontainer"
  /\ \/ /\ CanMakeContainer(req[r].path)
        /\ End(r, 201) /\ Effect(r, WithContainer(req[r].path))
     \/ ~CanMakeContainer(req[r].path) /\ Unhandled(r)

-----------------------------------------------------------------------------
(***************************************************************************)
(* A multipart upload.  The parser starts a write for every file part it   *)
(* meets, under the name the part carries, taken or not.  The writes go on *)
(* by themselves and next to each other; the upload only learns that one   *)
(* has failed, or that all parts have been read, written or not.           *)
(***************************************************************************)
StartUpload(r) ==
  /\ Performs(r, {"UPLOAD"}) /\ req[r].container /\ req[r].exists
  /\ Goto(r, "receiving")
  /\ UNCHANGED <<tree, req, pos, status, detached, disturbed>>

StartPart(q) ==
  /\ q \in Parts /\ pc[q] = "idle"
  /\ \E r \in Requests : \E e \in Entries(req[r].path) \cap Names :
       /\ pc[r] = "receiving"
       /\ \E n \in 1..MaxChunks :
            req' = [req EXCEPT ![q] =
                     [method |-> "PART", path |-> e, slash |-> FALSE,
                      exists |-> FALSE, container |-> FALSE, drop |-> {},
                      body |-> Body(q, n), upload |-> {r}]]
  /\ Goto(q, "mkdir")
  /\ UNCHANGED <<tree, pos, status, detached, disturbed>>

\* A part is read from when its directories have been made.
Unread(r) == {q \in Parts : r \in req[q].upload /\ pc[q] = "mkdir"}

\* The parser is through, or finds that the body is no multipart body.  An
\* upload that was refused for one of its parts takes no more of them.
EndUpload(r) ==
  /\ pc[r] = "receiving"
  /\ \/ Unread(r) = {} /\ EndUntouched(r, 201)
     \/ EndUntouched(r, 400)

BreakOffUpload(r) ==
  /\ pc[r] = "receiving"
  /\ Goto(r, "stalled")
  /\ UNCHANGED <<tree, req, pos, status, detached, disturbed>>

\* A file name that makes no URL throws out of the parser's event handler.
UploadStops(r) == pc[r] = "receiving" /\ Down /\ UNCHANGED crashes

\* Mutant: the write of a part fails, and the upload is not told.
FailUntold(q) == Over(q) /\ Effect(q, tree) /\ UNCHANGED status

\* The write of a part fails: that is the answer to its upload, if it still
\* waits for one.  The other parts stay.
FailPart(q) ==
  /\ Over(q)
  /\ Effect(q, tree)
  /\ status' = [r \in Requests |->
       IF /\ r \in req[q].upload
          /\ pc[r] \in {"receiving", "stalled"} /\ status[r] = 0
         THEN 400 ELSE status[r]]

-----------------------------------------------------------------------------
(***************************************************************************)
(* PATCH reads the graph here and writes it back some steps later.         *)
(***************************************************************************)
\* The triples of whose requests the patch deletes: nobody's, or one's.
Deletions == {{}} \cup {{q} : q \in Requests}

\* Mutant: the deletions are not applied.
InsertedGraph(r, drop) ==
  [i \in 1..MaxChunks |->
    IF i = 1 THEN Marks(tree[req[r].path].data) \cup {r} ELSE {}]

PatchedGraph(r, drop) ==
  [i \in 1..MaxChunks |->
    IF i = 1 THEN (Marks(tree[req[r].path].data) \ drop) \cup {r} ELSE {}]

CanLoad(r) ==
  LET p == req[r].path IN
  \/ tree[p].kind = "absent" /\ Walkable(tree, p)
  \/ tree[p].kind = "file" /\ ~req[r].slash

LoadPatch(r) ==
  /\ Performs(r, {"PATCH"})
  /\ \/ \* EISDIR, ENOTDIR, or a body that does not parse
        /\ ~CanLoad(r) \/ tree[req[r].path].kind = "file"
        /\ EndUntouched(r, 500)
     \/ /\ CanLoad(r)
        /\ \E drop \in Deletions :
             \/ /\ ~(drop \subseteq Marks(tree[req[r].path].data))
                /\ EndUntouched(r, 409)
             \/ /\ drop \subseteq Marks(tree[req[r].path].data)
                /\ req' = [req EXCEPT ![r].drop = drop,
                                      ![r].body = PatchedGraph(r, drop)]
                /\ Goto(r, "mkdir")
                /\ UNCHANGED <<tree, pos, status, detached, disturbed>>

-----------------------------------------------------------------------------
(***************************************************************************)
(* Writing a file: writeResourceStream, writeBlob and copyResource create  *)
(* the directories above it, open it (which truncates it) and then write   *)
(* what arrives.                                                           *)
(***************************************************************************)
AtMkdir(r) ==
  \/ pc[r] = "mkdir"
  \/ Performs(r, {"PUT"}) /\ ~req[r].container
  \/ Performs(r, {"COPY"})

MakeParents(r) ==
  /\ AtMkdir(r)
  /\ Walkable(tree, req[r].path)
  /\ Goto(r, "open")
  /\ Effect(r, WithDirectories(tree, Above[req[r].path]))
  /\ UNCHANGED <<req, pos, status>>

\* COPY without a Source header.
RejectCopy(r) == Performs(r, {"COPY"}) /\ EndUntouched(r, 400)

CanOpen(r) ==
  LET p == req[r].path IN
  ~req[r].slash /\ Reachable(tree, p) /\ tree[p].kind # "dir"

\* Mutant: the file is opened without truncating it.
OpenKeeping(r) ==
  /\ pc[r] = "open" /\ CanOpen(r)
  /\ Goto(r, "write")
  /\ Effect(r, [tree EXCEPT ![req[r].path].kind = "file"])
  /\ UNCHANGED <<req, pos, status>>

OpenFile(r) ==
  /\ pc[r] = "open" /\ CanOpen(r)
  /\ Goto(r, "write")
  /\ Effect(r, [tree EXCEPT ![req[r].path] = File(Blank)])
  /\ UNCHANGED <<req, pos, status>>

Complete(r) == \A i \in 1..MaxChunks : i > pos[r] => req[r].body[i] = {}

WriteChunk(r) ==
  LET p == req[r].path
      k == pos[r] + 1
  IN
  /\ pc[r] = "write" /\ ~Complete(r)
  /\ Goto(r, "write")
  /\ Effect(r, IF r \in detached THEN tree
               ELSE [tree EXCEPT ![p] =
                       File([tree[p].data EXCEPT ![k] = req[r].body[k]])])
  /\ pos' = [pos EXCEPT ![r] = k]
  /\ UNCHANGED <<req, status>>

Success(r) ==
  CASE req[r].method = "PUT" -> IF req[r].exists THEN 204 ELSE 201
    [] req[r].method = "PATCH" -> 200
    [] OTHER -> 201

\* Mutant: a writer waits for the others that have the resource open.
FinishInTurn(r) ==
  /\ pc[r] = "write" /\ Complete(r)
  /\ \A q \in Requests : q # r /\ pc[q] = "write" => req[q].path # req[r].path
  /\ EndUntouched(r, IF req[r].method = "PART" THEN status[r] ELSE Success(r))

Finish(r) ==
  /\ pc[r] = "write" /\ Complete(r)
  /\ IF req[r].method = "PART"
       THEN Over(r) /\ Effect(r, tree) /\ UNCHANGED status
       ELSE EndUntouched(r, Success(r))

\* The client, or the server a COPY reads from, goes away in the middle of a
\* body: `pipe` neither ends the file nor fails, and the promise stays pending.
\* The body of a PATCH has arrived, and so has a part's unless its upload has
\* broken off or failed.
BreakOff(r) ==
  /\ pc[r] = "write" /\ ~Complete(r) /\ req[r].method # "PATCH"
  /\ \A u \in req[r].upload : pc[u] = "stalled" \/ status[u] = 400
  /\ Stall(r)

\* A call fails: it must, or (in the middle of a write) the disk may be full.
Troubled(r) ==
  \/ AtMkdir(r) /\ ~Walkable(tree, req[r].path)
  \/ pc[r] = "open" /\ ~CanOpen(r)
  \/ pc[r] = "write" /\ ~Complete(r)

Copying(r) == req[r].method = "COPY" /\ pc[r] \in {"open", "write"}

\* Mutant: the number of the error (ENOTDIR) is sent in the place of a status.
FailWithErrno(r) == Troubled(r) /\ ~Copying(r) /\ EndUntouched(r, 20)

FailWrite(r) ==
  /\ Troubled(r) /\ ~Copying(r)
  /\ CASE req[r].method = "POST" -> Unhandled(r)
       [] req[r].method = "PART" -> FailPart(r)
       [] OTHER -> EndUntouched(r, 500)

\* The error handlers of copyResource unlink the destination synchronously.
\* Where there is no file to unlink that throws out of the event handler,
\* which ends the process.  An open that is still pending may recreate it.
DropCopy(r) ==
  LET p == req[r].path IN
  \/ /\ tree[p].kind = "file" /\ ~req[r].slash
     /\ \E code \in {400, 404} : End(r, code)
     /\ \/ Effect(r, Without(tree, p))
        \/ pc[r] = "open" /\ Effect(r, [tree EXCEPT ![p] = File(Blank)])
  \/ /\ tree[p].kind # "file" \/ req[r].slash
     /\ Down /\ UNCHANGED crashes

FailCopy(r) == Copying(r) /\ Troubled(r) /\ DropCopy(r)

\* The request for the source fails, or is not answered with a 200.
SourceFails(r) == Copying(r) /\ pos[r] = 0 /\ DropCopy(r)

-----------------------------------------------------------------------------
(***************************************************************************)
(* DELETE.  A container is listed, and removed a step later.               *)
(***************************************************************************)
\* Mutant: the last entry does not count either.
VisibleButOne(p) ==
  {q \in Listing(tree, p) \ Hidden : Listing(tree, p) \ Hidden # {q}}

\* isContainerEmpty(): the `.acl` and `.meta` entries do not count.
Visible(p) == Listing(tree, p) \ Hidden

RejectDelete(r) ==
  LET p == req[r].path IN
  /\ Performs(r, {"DELETE"})
  /\ \/ ~req[r].exists /\ EndUntouched(r, 404)
     \/ /\ req[r].exists /\ req[r].container
        /\ \/ tree[p].kind # "dir" /\ EndUntouched(r, 500)
           \/ tree[p].kind = "dir" /\ Visible(p) # {} /\ EndUntouched(r, 409)

ListForDelete(r) ==
  LET p == req[r].path IN
  /\ Performs(r, {"DELETE"}) /\ req[r].exists /\ req[r].container
  /\ tree[p].kind = "dir" /\ Visible(p) = {}
  /\ Goto(r, "rmdir")
  /\ UNCHANGED <<tree, req, pos, status, detached, disturbed>>

\* A path that ends in a slash does not lead to a file that took the place of
\* the container meanwhile.
RemoveContainer(r) ==
  LET barred == req[r].slash /\ tree[req[r].path].kind = "file" IN
  /\ pc[r] = "rmdir"
  /\ \/ barred /\ EndUntouched(r, 500)
     \/ ~barred /\ End(r, 200) /\ Effect(r, Without(tree, req[r].path))

RemoveResource(r) ==
  /\ Performs(r, {"DELETE"}) /\ req[r].exists /\ ~req[r].container
  /\ End(r, 200)
  /\ Effect(r, Without(tree, req[r].path))

-----------------------------------------------------------------------------
(***************************************************************************)
(* The process may be killed at any step, and is started again.            *)
(***************************************************************************)
Crash ==
  /\ up /\ crashes < MaxCrashes
  /\ Down
  /\ crashes' = crashes + 1

Restart ==
  /\ ~up
  /\ up' = TRUE
  /\ UNCHANGED <<tree, pc, req, pos, status, detached, disturbed, crashes>>

Serve(r) ==
  \/ Refuse(r) \/ Read(r) \/ SeekIndex(r) \/ List(r) \/ Stream(r)
  \/ StreamStalls(r)
  \/ PutContainer(r) \/ RejectPost(r) \/ NamePost(r) \/ LaunchPost(r)
  \/ MakePosted(r) \/ LoadPatch(r)
  \/ MakeParents(r) \/ RejectCopy(r) \/ OpenFile(r) \/ WriteChunk(r)
  \/ Finish(r) \/ BreakOff(r) \/ FailWrite(r) \/ FailCopy(r) \/ SourceFails(r)
  \/ RejectDelete(r) \/ ListForDelete(r) \/ RemoveContainer(r)
  \/ RemoveResource(r)

Collect(r) ==
  \/ StartUpload(r) \/ EndUpload(r) \/ BreakOffUpload(r) \/ UploadStops(r)

Next ==
  \/ \E r \in Requests : Receive(r) \/ Serve(r) \/ Collect(r) \/ StartPart(r)
  \/ Crash \/ Restart

Spec == Init /\ [][Next]_vars

\* Node runs every ready callback, so a live request keeps taking steps: a body
\* that never arrives is BreakOff.  A service manager restarts the process.
\* Nothing makes clients send requests, and nothing has to crash.
Fairness ==
  /\ \A r \in Requests : WF_vars(Serve(r) \/ Collect(r))
  /\ WF_vars(Restart)

FairSpec == Spec /\ Fairness
-----------------------------------------------------------------------------
(***************************************************************************)
(* Properties.                                                             *)
(***************************************************************************)
\* The values the variables take.
TypeOK ==
  /\ tree \in [Paths -> Nodes]
  /\ up \in BOOLEAN
  /\ pc \in [Requests ->
              LivePcs \cup {"idle", "receiving", "stalled", "done", "lost"}]
  /\ req \in [Requests -> RequestStates]
  /\ pos \in [Requests -> 0..MaxChunks]
  /\ status \in [Requests -> Codes]
  /\ detached \subseteq Requests
  /\ disturbed \subseteq Requests
  /\ crashes \in 0..MaxCrashes

\* Whatever writers, deletions and crashes do to each other, every entry lies in
\* directories that exist: no file is left where no listing can reach it.
TreeIsRooted == Rooted(tree)

\* As long as nobody else changes the resource, its ancestors or its contents,
\* what a request has written so far is exactly what the file holds.  With
\* Finish this says that a PUT is only answered with a success, and a POST,
\* PATCH or COPY only ends, when its whole body is there and nothing else is.
UndisturbedWrite ==
  \A r \in Requests : pc[r] = "write" /\ r \notin disturbed =>
    /\ r \notin detached
    /\ tree[req[r].path] =
         File([i \in 1..MaxChunks |->
                 IF i <= pos[r] THEN req[r].body[i] ELSE {}])

\* PATCH is a read, a modification and a write of the graph with awaits between
\* them.  Undisturbed, what it is about to write is what the file holds now,
\* less what it deletes, with what it inserts: no other triple is lost.
UndisturbedPatch ==
  \A r \in Requests :
    /\ req[r].method = "PATCH"
    /\ pc[r] \in {"mkdir", "open"}
    /\ r \notin disturbed
    => \A i \in 1..MaxChunks :
         req[r].body[i] =
           IF i = 1
             THEN (Marks(tree[req[r].path].data) \ req[r].drop) \cup {r}
             ELSE {}

\* POST looks for a free name, stats it again and writes in the background.
\* Undisturbed, the entry it is about to create does not exist, so that it
\* never overwrites a resource.
UndisturbedPost ==
  \A r \in Requests :
    /\ req[r].method = "POST"
    /\ pc[r] \in {"named", "mkcontainer", "mkdir", "open"}
    /\ r \notin disturbed
    => ~Found(tree, req[r].path, req[r].slash)

\* fs.remove is `rm -rf`.  Undisturbed, a DELETE applies it to a file, or to a
\* container with no visible entry in it.
UndisturbedDelete ==
  \A r \in Requests : r \notin disturbed =>
    /\ pc[r] = "rmdir" =>
         /\ tree[req[r].path].kind = "dir"
         /\ Listing(tree, req[r].path) \subseteq Hidden
    /\ Performs(r, {"DELETE"}) /\ req[r].exists /\ ~req[r].container =>
         tree[req[r].path].kind = "file"

\* What stat() said of the target may be out of date when a GET or a HEAD is
\* performed.  Undisturbed, the answer is true of the store it is sent from: a
\* 404 is only sent for what is not there, a file that is there is served but
\* for the authorization and the type asked for, and only a container may end
\* in a 500 (a listing in a type that is no RDF, a HEAD with an `index.html`).
UndisturbedRead ==
  [][\A r \in Requests :
       /\ Performs(r, {"GET", "HEAD"}) /\ r \notin disturbed
       /\ status[r] = 0 /\ status'[r] # 0
       => status'[r] \in
            IF ~Found(tree, req[r].path, req[r].slash) THEN {403, 404}
            ELSE IF tree[req[r].path].kind = "dir" THEN {200, 403, 500}
            ELSE {200, 400, 403, 406}]_vars

\* A request is answered once: what fails after the answer does not change it.
AnswersOnce ==
  [][\A r \in Requests : status[r] # 0 => status'[r] = status[r]]_vars

\* Every request that arrives is answered, unless the process ends under it or
\* its body breaks off, or it streams what is now a directory: no request waits
\* for another one, and no upload for the writes of its parts.
Answered ==
  \A r \in Requests :
    pc[r] = "perform" ~> (status[r] # 0 \/ pc[r] \in {"lost", "stalled"})

(***************************************************************************)
(* What the comments promise and concurrent requests refute.               *)
(***************************************************************************)
\* ldp-store.js: "POSTs only create resources, and not overwrite".
PostCreatesOnly ==
  [][\A r \in Requests :
       req[r].method = "POST" /\ pc[r] = "open" /\ pc'[r] = "write"
         => tree[req[r].path] = Absent]_vars

\* ldp-request.js: POST "creates a new resource", and says so with a 201.
CreatedIsThere ==
  [][\A r \in Requests :
       req[r].method = "POST" /\ status[r] = 0 /\ status'[r] = 201
         => tree'[req[r].path].kind # "absent"]_vars

\* ldp-file-store.js: the calling code enforces "don't delete if not empty".
DeletesOnlyEmpty ==
  [][\A r \in Requests :
       pc[r] = "rmdir" /\ pc'[r] = "done"
         => Listing(tree, req[r].path) \subseteq Hidden]_vars

\* ldp-request.js: COPY throws a 400 "if something else goes wrong".
CopyIsAnswered == [][up /\ ~up' => crashes' = crashes + 1]_vars
=============================================================================
