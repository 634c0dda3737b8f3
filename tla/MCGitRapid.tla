------------------------------- MODULE MCGitRapid ------------------------------
(* Two commits under the tag stable: the first with nodes that are left out, of *)
(* a directory, outside of the prefix and without a URL; the second with two    *)
(* paths that become one name, and one of which nothing is left.                *)
EXTENDS GitRapid

CONSTANTS stable, test, c1, c2, c3, a, A, dots, doc, dir, top, x, y

MCEditions ==
  << [t \in {stable} |-> c1], [t \in {stable, test} |-> IF t = stable THEN c2 ELSE c3] >>
MCPaths == {a, A, dots, doc, dir, top}
MCNode(path, file) == [path |-> path, blob |-> path # dir, url |-> path # doc, file |-> file]
MCTree ==
  [c \in {c1, c2, c3} |->
     CASE c = c1 -> <<MCNode(top, y), MCNode(dir, x), MCNode(doc, y), MCNode(a, x)>>
       [] c = c2 -> <<MCNode(dots, y), MCNode(a, y), MCNode(A, x)>>
       [] c = c3 -> <<MCNode(a, y)>>]
MCUnder == {a, A, dots, doc, dir}
MCArchivePath == [p \in MCPaths |-> IF p = A THEN a ELSE IF p = dots THEN NoName ELSE p]
MCNames == {a, doc, dir, top}
MCRank == [n \in MCNames |-> 1]
MCRapidPackages ==
  {<<[name |-> a, file |-> x]>>, <<[name |-> a, file |-> x], [name |-> a, file |-> y]>>}
================================================================================
