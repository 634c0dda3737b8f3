------------------------------ MODULE MCRapidStore -----------------------------
(* A mod with a file a, a file sx and, in its second commit, a submodule s; the *)
(* third commit has a modinfo.lua nobody gets through; the fourth is the first  *)
(* with a renamed to A.                                                         *)
EXTENDS RapidStore

CONSTANTS c1, c2, c3, c4, s1,
          modinfo, a, A, s, sx,
          info, stuck, x,
          ziptag

MCNames == {modinfo, a, A, s, sx}
MCDiffOrder == <<A, a, modinfo, s, sx>>
MCLower == [n \in MCNames |-> IF n = A THEN a ELSE n]
MCBegins == {<<n, n>> : n \in MCNames} \cup {<<sx, s>>}
MCCommits == {c1, c2, c3, c4, s1}
MCTree == [c \in MCCommits |->
  CASE c = c1 -> [n \in {modinfo, a, sx} |-> IF n = modinfo THEN info ELSE x]
    [] c = c2 -> [n \in {modinfo, a, s, sx} |->
                    CASE n \in {modinfo, a} -> info [] n = s -> s1 [] OTHER -> x]
    [] c = c3 -> [n \in {modinfo} |-> stuck]
    [] c = c4 -> [n \in {modinfo, A, sx} |-> IF n = modinfo THEN info ELSE x]
    [] c = s1 -> [n \in {a} |-> x]]
MCBranch == [c \in Main |-> IF c = c2 THEN Stable ELSE Test]
MCVersion == [c \in Main |-> c]
MCZip == [q \in {<<modinfo>>} |-> info]
MCWanted == {Raw(x)}
MCTagOrder == <<c1, c2, c3, c4, Stable, Test, ziptag>>
================================================================================
