-------------------------------- MODULE Catalog --------------------------------
(***************************************************************************)
(* What a rapid repository promises to its clients: whatever versions.gz   *)
(* lists can be fetched, the package and all of its files, from the moment *)
(* it is listed and for ever after.                                        *)
(***************************************************************************)
CONSTANTS
  FilesOf(_),   \* the files a package lists
  Tags

VARIABLES
  store,        \* the files in the pool
  packages,     \* the packages in packages/
  listing       \* listing[t]: the package listed under the tag t

Init == store = {} /\ packages = {} /\ listing = << >>

StoreFiles ==
  /\ store \subseteq store'
  /\ UNCHANGED <<packages, listing>>

StorePackage ==
  /\ packages \subseteq packages'
  /\ \A p \in packages' \ packages : FilesOf(p) \subseteq store
  /\ UNCHANGED <<store, listing>>

\* What is listed may change in any way.
List ==
  /\ DOMAIN listing' \subseteq Tags
  /\ \A t \in DOMAIN listing' : listing'[t] \in packages
  /\ UNCHANGED <<store, packages>>

Next == StoreFiles \/ StorePackage \/ List

Spec == Init /\ [][Next]_<<store, packages, listing>>

\* What this means for a client.
ListedIsComplete ==
  \A t \in DOMAIN listing : listing[t] \in packages /\ FilesOf(listing[t]) \subseteq store
================================================================================
