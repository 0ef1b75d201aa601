--------------------------- MODULE MCPolicyStore ----------------------------
(***************************************************************************)
(* Instances of PolicyStore for TLC: who asks which node for what.         *)
(***************************************************************************)
EXTENDS PolicyStore

CONSTANTS n1, n2, n3, n4, alice, bob, carol, f, g

Req(n, k, u, file) ==
  [node |-> n, kind |-> k, user |-> u, file |-> file, target |-> carol,
   permission |-> "read", value |-> TRUE]

Upload(n, u, file)   == Req(n, "upload", u, file)
Download(n, u, file) == Req(n, "download", u, file)
List(n, u, file)     == Req(n, "list", u, file)
Public(n, u, file)   == Req(n, "public", u, file)
Share(n, u, file, to, perm) ==
  [Req(n, "share", u, file) EXCEPT !.target = to, !.permission = perm]

Owned(u) == [owner |-> u, readers |-> {}, writers |-> {}, public |-> FALSE]

\* f belongs to alice, g is new.
AliceOwnsF == [x \in Files |-> IF x = f THEN Owned(alice) ELSE NoRule]

\* One request per node: two claims of the same new file, a grant, and a
\* download by the user who is about to be granted nothing but write access.
OnePerNode == {Upload(n1, alice, g), Upload(n2, bob, g),
               Share(n3, alice, f, bob, "write"), Download(n4, bob, f)}

\* Two updates queue up on a node, while another one serves an upload.
CrashWithQueue == {Share(n1, alice, f, bob, "read"), Public(n1, alice, f),
                   Upload(n2, bob, g)}

\* A grant and a listing served by the same node.
GrantAndList == {Share(n1, alice, f, bob, "read"), List(n1, bob, f)}

\* bob uploads alice's file while alice shares it with carol.
StrangerUploads == {Share(n1, alice, f, carol, "read"), Upload(n2, bob, f)}
=============================================================================
