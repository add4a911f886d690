--------------------------- MODULE ResourceStore ----------------------------
(***************************************************************************)
(* What the LDP server promises to clients whose requests do not overlap:  *)
(* each request has its whole effect on the store in one step, or none,    *)
(* and its answer says which.  A multipart upload is not one step: each of *)
(* its file parts is, and the upload is told of the first one that fails.  *)
(* The promise has three exceptions, and they are the only ones: a POST    *)
(* may be answered before it takes effect, and an upload before its parts  *)
(* do; a body that breaks off leaves what arrived of it; and a COPY whose  *)
(* source fails loses the destination.                                     *)
(***************************************************************************)
EXTENDS FileTree

CONSTANTS Requests, Methods

VARIABLES
  store,  \* the resources and containers
  asked,  \* asked[r]: the method of a request in progress, or "none"
  reply,  \* reply[r]: the status r was answered with, 0 for none
  owed,   \* owed[r]: what r was promised with a 201 and is not there yet
  upload  \* upload[q]: the upload that q is a part of, {} if it is none

vars == <<store, asked, reply, owed, upload>>

Nothing == [path |-> CHOOSE p \in Paths : TRUE, node |-> Absent]

Init ==
  /\ store \in [Paths -> Nodes]
  /\ Rooted(store)
  /\ asked = [r \in Requests |-> "none"]
  /\ reply = [r \in Requests |-> 0]
  /\ owed = [r \in Requests |-> Nothing]
  /\ upload = [r \in Requests |-> {}]

BodyOf(r, n) == [i \in 1..MaxChunks |-> IF i <= n THEN {r} ELSE {}]

Bodies(r) == {BodyOf(r, n) : n \in 1..MaxChunks}

\* node takes the place of whatever is at p, in containers that are made for it.
Holding(p, node) ==
  [WithDirectories(store, Above[p]) EXCEPT ![p] = node]

Room(p) == Walkable(store, p) /\ store[p].kind # "dir"

Ask(r) ==
  /\ asked[r] = "none" /\ reply[r] = 0
  /\ \E m \in Methods : asked' = [asked EXCEPT ![r] = m]
  /\ UNCHANGED <<store, reply, owed, upload>>

\* A request with one of these methods is answered, and is over.
Answers(r, methods, code) ==
  /\ asked[r] \in methods /\ reply[r] = 0
  /\ reply' = [reply EXCEPT ![r] = code]
  /\ asked' = [asked EXCEPT ![r] = "none"]
  /\ UNCHANGED <<owed, upload>>

-----------------------------------------------------------------------------
\* Reads, and rejected requests of any method.
Read(r) ==
  /\ Answers(r, {"GET", "HEAD"}, 200)
  /\ UNCHANGED store

Reject(r) ==
  /\ \E code \in {400, 403, 404, 405, 406, 409, 500} :
       Answers(r, Methods, code)
  /\ UNCHANGED store

Put(r) ==
  \E p \in Paths, body \in Bodies(r) :
    /\ Room(p)
    /\ store' = Holding(p, File(body))
    /\ Answers(r, {"PUT"}, IF store[p] = Absent THEN 201 ELSE 204)

PutContainer(r) ==
  \E p \in Paths :
    /\ Walkable(store, p) /\ store[p].kind # "file"
    /\ store' = Holding(p, Directory)
    /\ Answers(r, {"PUT"}, IF store[p] = Absent THEN 201 ELSE 204)

\* The graph at p less some of the triples in it, and with r's.
Patched(r, p) ==
  {[i \in 1..MaxChunks |->
      IF i = 1 THEN (Marks(store[p].data) \ drop) \cup {r} ELSE {}] :
     drop \in SUBSET Marks(store[p].data)}

Patch(r) ==
  \E p \in Paths :
    /\ Room(p)
    /\ \E graph \in Patched(r, p) : store' = Holding(p, File(graph))
    /\ Answers(r, {"PATCH"}, 200)

\* This one overwrites, and answers 201 all the same.
Import(r) ==
  \E p \in Paths, body \in Bodies(r) :
    /\ Room(p)
    /\ store' = Holding(p, File(body))
    /\ Answers(r, {"COPY"}, 201)

Delete(r) ==
  \E p \in Paths :
    /\ store[p].kind # "absent"
    /\ store[p].kind = "dir" => Listing(store, p) \subseteq Hidden
    /\ store' = Without(store, p)
    /\ Answers(r, {"DELETE"}, 200)

\* A POST is promised an entry that does not exist yet.
Promise(r) ==
  \E p \in Paths, node \in {Directory} \cup {File(body) : body \in Bodies(r)} :
    /\ asked[r] = "POST" /\ reply[r] = 0
    /\ node # Directory => store[p] = Absent
    /\ store[p].kind # "dir"
    /\ owed' = [owed EXCEPT ![r] = [path |-> p, node |-> node]]
    /\ reply' = [reply EXCEPT ![r] = 201]
    /\ UNCHANGED <<store, asked, upload>>

Deliver(r) ==
  /\ owed[r].node # Absent
  /\ store' = Holding(owed[r].path, owed[r].node)
  /\ owed' = [owed EXCEPT ![r] = Nothing]
  /\ asked' = [asked EXCEPT ![r] = "none"]
  /\ UNCHANGED <<reply, upload>>

-----------------------------------------------------------------------------
\* Uploads and their parts.
AskPart(q) ==
  /\ asked[q] = "none" /\ reply[q] = 0
  /\ \E r \in Requests :
       /\ asked[r] = "UPLOAD"
       /\ upload' = [upload EXCEPT ![q] = {r}]
  /\ asked' = [asked EXCEPT ![q] = "PART"]
  /\ UNCHANGED <<store, reply, owed>>

PartOver(q) ==
  /\ asked[q] = "PART"
  /\ asked' = [asked EXCEPT ![q] = "none"]
  /\ upload' = [upload EXCEPT ![q] = {}]
  /\ UNCHANGED owed

\* Like an import, whatever was at the name before.
WritePart(q) ==
  \E p \in Paths, body \in Bodies(q) :
    /\ Room(p)
    /\ store' = Holding(p, File(body))
    /\ PartOver(q)
    /\ UNCHANGED reply

\* The body of the upload breaks off: it will not be answered with a success.
CutUpload(r) ==
  /\ asked[r] = "UPLOAD"
  /\ asked' = [asked EXCEPT ![r] = "CUT"]
  /\ UNCHANGED <<store, reply, owed, upload>>

\* Every part has been read, and none has failed; or one has.
FinishUpload(r) ==
  /\ asked[r] = "UPLOAD"
  /\ asked' = [asked EXCEPT ![r] = "none"]
  /\ reply' = [reply EXCEPT ![r] = IF reply[r] = 0 THEN 201 ELSE reply[r]]
  /\ UNCHANGED <<store, owed, upload>>

-----------------------------------------------------------------------------
\* What r may leave behind when it does not get to its end: the containers may
\* have been made, and part of the body may be there, or all of it.
Leaves(r) ==
  \/ store' = store
  \/ \E p \in Paths :
       Walkable(store, p) /\ store' = WithDirectories(store, Above[p])
  \/ /\ asked[r] \in {"PUT", "POST", "PART", "COPY", "PATCH"}
     /\ \E p \in Paths :
          /\ Room(p)
          /\ \E part \in {BodyOf(r, n) : n \in 0..MaxChunks}
                            \cup (IF asked[r] = "PATCH"
                                    THEN Patched(r, p) ELSE {}) :
               store' = Holding(p, File(part))

\* r is over, and answered with an error or not at all.
Fails(r, methods, codes) ==
  /\ asked[r] \in methods
  /\ asked' = [asked EXCEPT ![r] = "none"]
  /\ owed' = [owed EXCEPT ![r] = Nothing]
  /\ UNCHANGED upload
  /\ \/ reply' = reply
     \/ reply[r] = 0 /\ \E code \in codes : reply' = [reply EXCEPT ![r] = code]

\* A body breaks off, or cannot be written.  A promise is broken.
Abandon(r) == Fails(r, Methods, {400, 500}) /\ Leaves(r)

\* The same of a part.  If its upload still expects a success, it is told.
AbandonPart(q) ==
  /\ PartOver(q)
  /\ Leaves(q)
  /\ \A r \in upload[q] :
       \/ reply[r] = 0 /\ reply' = [reply EXCEPT ![r] = 400]
       \/ (reply[r] # 0 \/ asked[r] = "CUT") /\ reply' = reply

\* The process ends: everything in progress is over, and nobody is answered.
Stop ==
  /\ asked' = [r \in Requests |-> "none"]
  /\ owed' = [r \in Requests |-> Nothing]
  /\ upload' = [r \in Requests |-> {}]
  /\ store' = store \/ \E r \in Requests : Leaves(r)
  /\ UNCHANGED reply

\* The source of a COPY fails: nothing is left at the destination, or an empty
\* file.
LoseDestination(r) ==
  /\ Fails(r, {"COPY"}, {400, 404})
  /\ \E p \in Paths :
       /\ Room(p)
       /\ store' \in {WithDirectories(Without(store, p), Above[p]),
                      Holding(p, File(Blank))}

Next ==
  \/ \E r \in Requests :
       \/ Ask(r) \/ Read(r) \/ Reject(r)
       \/ Put(r) \/ PutContainer(r) \/ Patch(r) \/ Import(r) \/ Delete(r)
       \/ Promise(r) \/ Deliver(r)
       \/ AskPart(r) \/ WritePart(r) \/ CutUpload(r) \/ FinishUpload(r)
       \/ Abandon(r) \/ AbandonPart(r) \/ LoseDestination(r)
  \/ Stop

Spec == Init /\ [][Next]_vars
=============================================================================
