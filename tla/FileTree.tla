------------------------------ MODULE FileTree ------------------------------
(***************************************************************************)
(* The directory tree that backs the LDP store, and the operations of      *)
(* fs-extra that the store calls on it.  The library is external: each     *)
(* operation is modelled by what src/storage/ldp-backend-fs relies on.     *)
(*                                                                         *)
(* A path is a model value; Above[p] is the set of directories a path lies *)
(* in, however deep.  A node is a record, so that absent entries,          *)
(* directories and files can be compared.  A file holds chunks: the chunk  *)
(* at a position is the set of writers whose data is there, {} when        *)
(* nothing is (a hole, or past the end of the file).                       *)
(***************************************************************************)
EXTENDS Integers

CONSTANTS
  Paths,     \* every path a request can name or create
  Above,     \* Above[p]: the proper ancestors of p, the parent included
  Hidden,    \* the `.acl` and `.meta` entries of containers
  Writers,   \* whoever can put data in a file
  MaxChunks  \* the number of chunks of the longest body

ASSUME PathsAssumption ==
  /\ Paths # {}
  /\ Above \in [Paths -> SUBSET Paths]
  /\ \A p \in Paths : p \notin Above[p]
  /\ \A p \in Paths : \A q \in Above[p] : Above[q] \subseteq Above[p]
  /\ Hidden \subseteq Paths

ASSUME ChunksAssumption == MaxChunks \in Nat \ {0}

Contents == [1..MaxChunks -> SUBSET Writers]

Blank == [i \in 1..MaxChunks |-> {}]

Absent == [kind |-> "absent", data |-> Blank]

Directory == [kind |-> "dir", data |-> Blank]

File(contents) == [kind |-> "file", data |-> contents]

Nodes == {Absent, Directory} \cup {File(contents) : contents \in Contents}

\* Everyone whose data a content holds: the triples of a parsed graph.
Marks(contents) == UNION {contents[i] : i \in 1..MaxChunks}

Below(p) == {q \in Paths : p \in Above[q]}

Entries(p) == {q \in Paths : Above[q] = Above[p] \cup {p}}

-----------------------------------------------------------------------------

\* stat(): a URL that ends in a slash only finds a directory.
Found(tree, p, slash) ==
  IF slash THEN tree[p].kind = "dir" ELSE tree[p].kind # "absent"

\* No ancestor of p is a file: the path can be walked or created.
Walkable(tree, p) == \A a \in Above[p] : tree[a].kind # "file"

\* Every ancestor of p is a directory: an entry can be created at p.
Reachable(tree, p) == \A a \in Above[p] : tree[a].kind = "dir"

\* readdir(): the names present in a directory.
Listing(tree, p) == {q \in Entries(p) : tree[q].kind # "absent"}

\* ensureDir() on every directory of dirs; the missing ones are created.
WithDirectories(tree, dirs) ==
  [p \in Paths |-> IF p \in dirs /\ tree[p].kind = "absent"
                     THEN Directory ELSE tree[p]]

\* Mutant: the entry goes, what is in it stays.
Unlinked(tree, p) == [tree EXCEPT ![p] = Absent]

\* fs.remove(): rm -rf of whatever is at p now.
Without(tree, p) ==
  [q \in Paths |-> IF q = p \/ p \in Above[q] THEN Absent ELSE tree[q]]

\* Every entry that exists lies in directories that exist.
Rooted(tree) ==
  \A p \in Paths : tree[p].kind # "absent" => Reachable(tree, p)
=============================================================================
