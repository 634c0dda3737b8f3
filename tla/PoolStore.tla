------------------------------- MODULE PoolStore -------------------------------
(***************************************************************************)
(* What the rapid pool promises to everybody who shares it.                *)
(*                                                                         *)
(* The pool is a directory of gzipped files named after the md5 of their   *)
(* content; all packages share it.  To a reader a pool file is absent,     *)
(* valid (it hashes to its name) or broken.  Whatever a download does, a   *)
(* file appears under its pool name in one step, a broken one can only be  *)
(* removed, and a valid one is never touched again.                        *)
(***************************************************************************)
CONSTANT PoolFiles   \* the names (md5 sums) of pool files

VARIABLE pool        \* pool[f]: the file stored under the name f

Content == {"absent", "valid", "broken"}

TypeOK == pool \in [PoolFiles -> Content]

Init == pool \in [PoolFiles -> {"absent", "valid"}]

\* A file that was missing shows up under its final name.
Arrive(f) ==
  /\ pool[f] = "absent"
  /\ \E c \in {"valid", "broken"} : pool' = [pool EXCEPT ![f] = c]

\* Some broken files are deleted.
Purge(F) ==
  /\ \A f \in F : pool[f] = "broken"
  /\ pool' = [f \in PoolFiles |-> IF f \in F THEN "absent" ELSE pool[f]]

Next ==
  \/ \E f \in PoolFiles : Arrive(f)
  \/ \E F \in SUBSET PoolFiles : Purge(F)

Spec == Init /\ [][Next]_pool
================================================================================
