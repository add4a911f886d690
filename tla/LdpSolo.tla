------------------------------ MODULE LdpSolo -------------------------------
(***************************************************************************)
(* The LDP server with one request at a time: a request is received, and a *)
(* part of an upload begun, only when nothing else is live, the write a    *)
(* POST leaves behind included.  (An upload itself touches nothing: while  *)
(* its body arrives, its parts and other requests take turns.)  Then it    *)
(* implements ResourceStore.                                               *)
(*                                                                         *)
(* The store a client can observe is the tree between two requests, so a   *)
(* history variable keeps the tree a request started from for as long as   *)
(* it runs.                                                                *)
(***************************************************************************)
EXTENDS LdpServer

VARIABLE settled  \* the tree when no request was live last

soloVars == <<vars, settled>>

Idle == \A r \in Requests : ~Live(r)

SoloInit == Init /\ settled = tree

Alone(r) == \A q \in Requests : q # r => ~Live(q)

SoloNext ==
  /\ \/ \E r \in Requests : Alone(r) /\ (Receive(r) \/ Serve(r) \/ StartPart(r))
     \/ \E r \in Requests : Collect(r)
     \/ Crash \/ Restart
  /\ settled' = IF Idle' THEN tree' ELSE settled

SoloSpec == SoloInit /\ [][SoloNext]_soloVars

\* What a client was told with a 201 while the write is still going on.
Owed(r) ==
  IF Live(r) /\ status[r] = 201
    THEN [path |-> req[r].path,
          node |-> IF req[r].slash THEN Directory ELSE File(req[r].body)]
    ELSE [path |-> CHOOSE p \in Paths : TRUE, node |-> Absent]

\* An upload whose body broke off is on its own: it will be told of a failure,
\* but not of a success.
Asked(r) == IF pc[r] = "stalled" /\ req[r].method = "UPLOAD"
              THEN "CUT" ELSE req[r].method

Store == INSTANCE ResourceStore WITH
           store <- settled,
           asked <- [r \in Requests |-> Asked(r)],
           reply <- status,
           owed <- [r \in Requests |-> Owed(r)],
           upload <- [r \in Requests |-> req[r].upload]

\* Requests that do not overlap are atomic: every step of the server is a step
\* of the abstract store, or invisible in it.
ImplementsResourceStore == Store!Spec
=============================================================================
