---------------------------- MODULE MCLdpServer -----------------------------
(***************************************************************************)
(* Small instances of LdpServer: a container c below the root, with a      *)
(* resource f and an `.acl` in it, and room for a UUID's entry of each     *)
(* request.                                                                *)
(***************************************************************************)
EXTENDS LdpServer

CONSTANTS r1, r2, p1, p2, seed

MCPaths == {"root", "c", "f", "acl", "u1", "u2"}

MCAbove ==
  [p \in MCPaths |-> CASE p = "root" -> {}
                       [] p = "c" -> {"root"}
                       [] OTHER -> {"root", "c"}]

MCUuids == [r \in Requests |-> CASE r = r1 -> {"u1"}
                                 [] r = r2 -> {"u2"}
                                 [] OTHER -> {}]

MCNames == {"root", "c", "f", "acl"}

Url(p, s) == [path |-> p, slash |-> s]

\* The container, the resource, and the two with the slash confused.
AllUrls == {Url("c", TRUE), Url("c", FALSE), Url("f", FALSE), Url("f", TRUE),
            Url("acl", FALSE)}

ContainerAndResource == {Url("c", TRUE), Url("f", FALSE)}

TreeWith(dirs, files) ==
  [p \in MCPaths |-> IF p \in dirs THEN Directory
                     ELSE IF p \in files THEN File(Body(seed, 1)) ELSE Absent]

MCInitialTrees ==
  {TreeWith({"root"}, {}), TreeWith({"root", "c"}, {"f"}),
   TreeWith({"root", "c"}, {"acl"})}

MCWriters == Requests \cup {seed}
=============================================================================
