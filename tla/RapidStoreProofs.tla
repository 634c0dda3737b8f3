---------------------------- MODULE RapidStoreProofs ---------------------------
(***************************************************************************)
(* Theorems about RapidStore, for any number of programs, any history of   *)
(* commits and any contents: it implements Catalog, tags are kept, and     *)
(* what it handles is well-formed.  RapidPackageProofs goes on from here.  *)
(*                                                                         *)
(* Inv is inductive.  What is listed is complete because everything that   *)
(* can become a line of versions.gz is: the packages, the last one, the    *)
(* list each program holds, and all files of the package it is making,     *)
(* which are in the pool before the package is saved (WholeInv).           *)
(***************************************************************************)
EXTENDS RapidStore, FiniteSetTheorems, SequenceTheorems, TLAPS

Whole == {f \in Contents : pool[f] = "whole"}

FunctionInv ==
  /\ pc \in [Programs -> {"off", "diff", "replace", "save", "load", "list", "saving",
                          "last", "zip"}]
  /\ job \in [Programs -> Main \cup {None}]
  /\ archive = [r \in Programs |-> archive[r]] /\ versions = [r \in Programs |-> versions[r]]

\* Nothing is listed or made that is not in the pool.
WholeInv ==
  /\ \A p \in packages : FilesOf(p) \subseteq Whole
  /\ \A r \in Programs : FilesOf(archive[r]) \subseteq Whole
  /\ last # None => last.package \in packages

IsListing(f) == \A t \in DOMAIN f : t \in Tags /\ f[t] \in packages

ListingInv ==
  /\ IsListing(versionsgz.entries)
  /\ \A r \in Programs : IsListing(versions[r])

\* What a program has done by the time it is at pc.
ProgramInv ==
  \A r \in Programs :
    /\ pc[r] \in {"diff", "replace"} => job[r] \in Main
    /\ pc[r] \in {"list", "saving", "last", "zip"} => archive[r] \in packages
    /\ pc[r] = "load" /\ IsGit(r) => archive[r] \in packages
    /\ pc[r] = "off" => job[r] = None

Inv == FunctionInv /\ WholeInv /\ ListingInv /\ ProgramInv

CatalogVars == <<Whole, packages, versionsgz.entries>>
CatalogStep == Published!Next \/ UNCHANGED CatalogVars

----------------------------------------------------------------------------
LEMMA NewTagsAreTags ==
  ASSUME Inv, NEW r \in Programs
  PROVE  NewTags(r) \subseteq Tags
<1>1. job[r] \in Main \cup {None}
  BY DEF Inv, FunctionInv
<1>2. job[r] \in Main => Branch[job[r]] \in {Stable, Test}
  BY StoreAssumption
<1> QED BY <1>1, <1>2 DEF NewTags, IsGit, Tags

\* Pool files are only added.
LEMMA CommitGrows ==
  ASSUME NEW F \in SUBSET Contents, CommitFiles(F)
  PROVE  Whole \subseteq Whole' /\ F \subseteq Whole'
BY DEF CommitFiles, Whole

\* What processDiff lists comes from the package before or from the files it has
\* just stored.
LEMMA DiffIsStored ==
  ASSUME NEW call, NEW files
  PROVE  /\ NewFiles(call) \subseteq Contents
         /\ FilesOf(ProcessDiff(call, files)) \subseteq FilesOf(files) \cup NewFiles(call)
<1>1. NewFiles(call) \subseteq Contents
  BY DEF NewFiles, BlobAt, TreeOf, Empty, Raw, Contents
<1>2. ASSUME NEW q, Comes(call, q)
      PROVE  AddedFile(call, q) \in NewFiles(call)
  <2> DEFINE IsLast(i) == i \in Touching(call, q) /\ \A j \in Touching(call, q) : j <= i
             i == CHOOSE k \in Touching(call, q) : \A j \in Touching(call, q) : j <= k
  <2>1. PICK k : IsLast(k) /\ Adds(call, DiffOrder[k], q)
    BY <1>2 DEF Comes
  <2>2. IsLast(i)
    BY <2>1
  <2>3. i = k
    <3>1. i \in Int /\ k \in Int
      BY <2>1, <2>2, StoreAssumption DEF Touching
    <3>2. i <= k /\ k <= i
      BY <2>1, <2>2
    <3> QED BY <3>1, <3>2
  <2>4. DiffOrder[i] \in Deltas(call) /\ BlobAt(call.new, DiffOrder[i])
    BY <2>1, <2>2, <2>3 DEF Touching, Adds
  <2> QED BY <2>4 DEF AddedFile, Decides, NewFiles
<1>3. ASSUME NEW f \in FilesOf(ProcessDiff(call, files))
      PROVE  f \in FilesOf(files) \cup NewFiles(call)
  BY <1>2 DEF ProcessDiff, FilesOf
<1> QED BY <1>1, <1>3
----------------------------------------------------------------------------
LEMMA InitInv ==
  ASSUME Init
  PROVE  Inv /\ Published!Init
<1>1. Whole = {} /\ packages = {} /\ versionsgz.entries = << >>
  BY DEF Init, Whole, Empty
<1>2. FunctionInv
  BY DEF Init, FunctionInv
<1>3. WholeInv
  BY DEF Init, WholeInv, FilesOf, Empty
<1>4. ListingInv
  BY DEF Init, ListingInv, IsListing, Empty
<1>5. ProgramInv
  BY DEF Init, ProgramInv
<1>6. Published!Init
  BY <1>1 DEF Published!Init, Whole
<1> QED BY <1>2, <1>3, <1>4, <1>5, <1>6 DEF Inv

\* A program that ends leaves nothing behind that could become a line.
LEMMA EndKeeps ==
  ASSUME Inv, NEW r \in Programs, End(r), Whole' = Whole, packages' = packages,
         last' # None => last'.package \in packages, IsListing(versionsgz.entries)'
  PROVE  Inv'
<1> USE DEF Inv
<1>1. FunctionInv'
  BY DEF End, FunctionInv
<1>2. archive'[r] = Empty /\ versions'[r] = Empty /\ pc'[r] = "off"
  BY DEF End, FunctionInv
<1>3. \A s \in Programs \ {r} : /\ archive'[s] = archive[s] /\ versions'[s] = versions[s]
                                /\ pc'[s] = pc[s] /\ job'[s] = job[s]
  BY DEF End, FunctionInv
<1>4. WholeInv'
  BY <1>2, <1>3 DEF WholeInv, FilesOf, Empty
<1>5. ListingInv'
  BY <1>2, <1>3 DEF ListingInv, IsListing, Empty
<1>6. ProgramInv'
  BY <1>2, <1>3 DEF ProgramInv, IsGit, End, FunctionInv
<1> QED BY <1>1, <1>4, <1>5, <1>6

LEMMA BuildGitStep ==
  ASSUME Inv, NEW r \in Programs, NEW c \in Main, BuildGit(r, c)
  PROVE  Inv' /\ CatalogStep
<1> USE DEF Inv
<1>1. UNCHANGED <<Whole, packages, versionsgz, last, versions>>
  BY DEF BuildGit, storeVars, Whole
<1>2. FunctionInv'
  BY DEF BuildGit, FunctionInv, storeVars
<1>3. WholeInv'
  BY <1>1 DEF BuildGit, FunctionInv, WholeInv, FilesOf, Empty
<1>4. ListingInv'
  BY <1>1 DEF ListingInv, IsListing
<1>5. ProgramInv'
  BY <1>1 DEF BuildGit, FunctionInv, ProgramInv, IsGit
<1> QED BY <1>1, <1>2, <1>3, <1>4, <1>5 DEF CatalogStep, CatalogVars

LEMMA ProcessRepoStep ==
  ASSUME Inv, NEW r \in Programs, ProcessRepo(r)
  PROVE  Inv' /\ CatalogStep
<1> USE DEF Inv
<1>1. UNCHANGED <<packages, versionsgz, last, versions, job>>
  BY DEF ProcessRepo
<1>2. PICK call :
        CommitFiles(NewFiles(call)) /\ archive' = [archive EXCEPT ![r] = ProcessDiff(call, archive[r])]
  BY DEF ProcessRepo
<1>3. Whole \subseteq Whole' /\ FilesOf(archive'[r]) \subseteq Whole'
  <2>1. archive'[r] = ProcessDiff(call, archive[r])
    BY <1>2 DEF FunctionInv
  <2>2. FilesOf(ProcessDiff(call, archive[r])) \subseteq FilesOf(archive[r]) \cup NewFiles(call)
    BY DiffIsStored
  <2>3. Whole \subseteq Whole' /\ NewFiles(call) \subseteq Whole'
    BY <1>2, DiffIsStored, CommitGrows
  <2> QED BY <2>1, <2>2, <2>3 DEF WholeInv
<1>4. FunctionInv'
  BY <1>2 DEF ProcessRepo, FunctionInv
<1>5. WholeInv'
  BY <1>1, <1>2, <1>3 DEF WholeInv, FunctionInv, FilesOf
<1>6. ListingInv'
  BY <1>1 DEF ListingInv, IsListing
<1>7. ProgramInv'
  BY <1>1, <1>2 DEF ProcessRepo, FunctionInv, ProgramInv, IsGit
<1>8. Published!StoreFiles
  BY <1>1, <1>3 DEF Published!StoreFiles, Whole
<1> QED BY <1>4, <1>5, <1>6, <1>7, <1>8 DEF CatalogStep, Published!Next

LEMMA ReplaceVersionStep ==
  ASSUME Inv, NEW r \in Programs, ReplaceVersion(r)
  PROVE  Inv' /\ CatalogStep
<1> USE DEF Inv
<1> DEFINE f == [blob |-> Tree[job[r]][Modinfo], version |-> Version[job[r]]]
<1>1. UNCHANGED <<packages, versionsgz, last, versions, job>>
  BY DEF ReplaceVersion
<1>2. f \in Contents
  BY DEF ReplaceVersion, ProgramInv, Contents
<1>3. CommitFiles({f}) /\ archive' = [archive EXCEPT ![r] = Put(archive[r], LowerPath(<<Modinfo>>), f)]
  BY DEF ReplaceVersion
<1>4. Whole \subseteq Whole' /\ FilesOf(archive'[r]) \subseteq Whole'
  <2> HIDE DEF f
  <2>1. Whole \subseteq Whole' /\ f \in Whole'
    BY <1>2, <1>3, CommitGrows
  <2>2. archive'[r] = Put(archive[r], LowerPath(<<Modinfo>>), f)
    BY <1>3 DEF FunctionInv
  <2>3. FilesOf(Put(archive[r], LowerPath(<<Modinfo>>), f)) \subseteq FilesOf(archive[r]) \cup {f}
    BY DEF FilesOf, Put
  <2> QED BY <2>1, <2>2, <2>3 DEF WholeInv
<1>5. FunctionInv'
  BY <1>3 DEF ReplaceVersion, FunctionInv
<1>6. WholeInv'
  BY <1>1, <1>3, <1>4 DEF WholeInv, FunctionInv, FilesOf
<1>7. ListingInv'
  BY <1>1 DEF ListingInv, IsListing
<1>8. ProgramInv'
  BY <1>1, <1>3 DEF ReplaceVersion, FunctionInv, ProgramInv, IsGit
<1>9. Published!StoreFiles
  BY <1>1, <1>4 DEF Published!StoreFiles, Whole
<1> QED BY <1>5, <1>6, <1>7, <1>8, <1>9 DEF CatalogStep, Published!Next

LEMMA AddZipStep ==
  ASSUME Inv, NEW r \in Programs, AddZip(r)
  PROVE  Inv' /\ CatalogStep
<1> USE DEF Inv
<1> DEFINE F == {Raw(Zip[q]) : q \in DOMAIN Zip}
<1>1. UNCHANGED <<packages, versionsgz, last, versions, job>>
  BY DEF AddZip
<1>2. F \subseteq Contents
  BY StoreAssumption DEF Raw, Contents
<1>3. CommitFiles(F) /\ archive' = [archive EXCEPT ![r] = [q \in DOMAIN Zip |-> Raw(Zip[q])]]
  BY DEF AddZip
<1>4. Whole \subseteq Whole' /\ FilesOf(archive'[r]) \subseteq Whole'
  <2>1. Whole \subseteq Whole' /\ F \subseteq Whole'
    <3> HIDE DEF F
    <3> QED BY <1>2, <1>3, CommitGrows
  <2>2. FilesOf(archive'[r]) = F
    BY <1>3 DEF FunctionInv, FilesOf
  <2> QED BY <2>1, <2>2
<1>5. FunctionInv'
  BY <1>3 DEF AddZip, FunctionInv
<1>6. WholeInv'
  BY <1>1, <1>3, <1>4 DEF WholeInv, FunctionInv, FilesOf
<1>7. ListingInv'
  BY <1>1 DEF ListingInv, IsListing
<1>8. ProgramInv'
  <2>1. \A s \in Programs \ {r} : pc'[s] = pc[s] /\ archive'[s] = archive[s]
    BY <1>3 DEF AddZip, FunctionInv
  <2>2. pc'[r] = "load" /\ job[r] = None
    BY DEF AddZip, FunctionInv, Start, ProgramInv
  <2> QED BY <1>1, <2>1, <2>2 DEF ProgramInv, IsGit
<1>9. Published!StoreFiles
  BY <1>1, <1>4 DEF Published!StoreFiles, Whole
<1> QED BY <1>5, <1>6, <1>7, <1>8, <1>9 DEF CatalogStep, Published!Next
LEMMA SaveArchiveStep ==
  ASSUME Inv, NEW r \in Programs, SaveArchive(r)
  PROVE  Inv' /\ CatalogStep
<1> USE DEF Inv
<1>1. UNCHANGED <<pool, versionsgz, last, versions, job, archive>>
  BY DEF SaveArchive
<1>2. packages' = packages \cup {archive[r]}
  BY DEF SaveArchive
<1>3. FunctionInv'
  BY DEF SaveArchive, FunctionInv
<1>4. WholeInv'
  BY <1>1, <1>2 DEF WholeInv, Whole
<1>5. ListingInv'
  BY <1>1, <1>2 DEF ListingInv, IsListing
<1>6. ProgramInv'
  BY <1>1, <1>2 DEF SaveArchive, FunctionInv, ProgramInv, IsGit
<1>7. Published!StorePackage
  BY <1>1, <1>2 DEF Published!StorePackage, WholeInv, Whole
<1> QED BY <1>3, <1>4, <1>5, <1>6, <1>7 DEF CatalogStep, Published!Next

LEMMA LoadVersionsStep ==
  ASSUME Inv, NEW r \in Programs, LoadVersions(r)
  PROVE  Inv' /\ CatalogStep
<1> USE DEF Inv
<1>1. UNCHANGED <<Whole, packages, versionsgz, last, job, archive>>
  BY DEF LoadVersions, storeVars, Whole
<1>2. FunctionInv'
  BY DEF LoadVersions, FunctionInv
<1>3. WholeInv'
  BY <1>1 DEF WholeInv
<1>4. ListingInv'
  BY <1>1 DEF LoadVersions, FunctionInv, ListingInv, IsListing
<1>5. ProgramInv'
  BY <1>1 DEF LoadVersions, FunctionInv, ProgramInv, IsGit
<1> QED BY <1>1, <1>2, <1>3, <1>4, <1>5 DEF CatalogStep, CatalogVars

LEMMA ListedIsListing ==
  ASSUME Inv, NEW r \in Programs, archive[r] \in packages
  PROVE  IsListing(Listed(r))
<1>1. IsListing(versions[r]) /\ NewTags(r) \subseteq Tags
  BY NewTagsAreTags DEF Inv, ListingInv
<1> QED BY <1>1 DEF Listed, IsListing

LEMMA OpenVersionsStep ==
  ASSUME Inv, NEW r \in Programs, OpenVersions(r)
  PROVE  Inv' /\ CatalogStep
<1> USE DEF Inv
<1>1. UNCHANGED <<Whole, packages, last, job, archive>>
  BY DEF OpenVersions, Whole
<1>2. IsListing(Listed(r))
  BY ListedIsListing DEF OpenVersions, ProgramInv
<1>3. IsListing(versionsgz'.entries)
  <2>1. PICK k \in Cuts : versionsgz'.entries =
          [t \in {u \in DOMAIN Listed(r) : \E i \in 1..k : TagOrder[i] = u} |-> Listed(r)[t]]
    BY DEF OpenVersions
  <2> QED BY <1>2, <2>1 DEF IsListing
<1>4. FunctionInv'
  BY DEF OpenVersions, FunctionInv
<1>5. WholeInv'
  BY <1>1 DEF WholeInv
<1>6. ListingInv'
  BY <1>1, <1>2, <1>3 DEF OpenVersions, FunctionInv, ListingInv, IsListing
<1>7. ProgramInv'
  BY <1>1 DEF OpenVersions, FunctionInv, ProgramInv, IsGit
<1>8. Published!List
  BY <1>1, <1>3 DEF Published!List, Whole, IsListing
<1> QED BY <1>4, <1>5, <1>6, <1>7, <1>8 DEF CatalogStep, Published!Next

LEMMA CloseVersionsStep ==
  ASSUME Inv, NEW r \in Programs, CloseVersions(r)
  PROVE  Inv' /\ CatalogStep
<1> USE DEF Inv
<1>1. UNCHANGED <<Whole, packages, last>>
  BY DEF CloseVersions, Whole
<1>2. versionsgz'.entries = versions[r] /\ IsListing(versionsgz'.entries)
  BY DEF CloseVersions, ListingInv, IsListing
<1>3. Inv'
  <2>1. CASE IsGit(r)
    <3>1. UNCHANGED <<job, archive, versions>> /\ pc' = [pc EXCEPT ![r] = "last"]
      BY <2>1 DEF CloseVersions
    <3>2. FunctionInv'
      BY <3>1 DEF FunctionInv
    <3>3. WholeInv'
      BY <1>1, <3>1 DEF WholeInv
    <3>4. ListingInv'
      BY <1>1, <1>2, <3>1 DEF ListingInv, IsListing
    <3>5. ProgramInv'
      BY <1>1, <3>1 DEF CloseVersions, FunctionInv, ProgramInv, IsGit
    <3> QED BY <3>2, <3>3, <3>4, <3>5
  <2>2. CASE ~IsGit(r)
    <3>1. End(r)
      BY <2>2 DEF CloseVersions
    <3>2. IsListing(versionsgz.entries)'
      BY <1>1, <1>2 DEF IsListing
    <3> QED BY <1>1, <3>1, <3>2, EndKeeps DEF WholeInv
  <2> QED BY <2>1, <2>2
<1>4. Published!List
  BY <1>1, <1>2 DEF Published!List, Whole, IsListing
<1> QED BY <1>3, <1>4 DEF CatalogStep, Published!Next

LEMMA SaveLastStep ==
  ASSUME Inv, NEW r \in Programs, SaveLast(r)
  PROVE  Inv' /\ CatalogStep
<1> USE DEF Inv
<1>1. UNCHANGED <<Whole, packages, versionsgz>>
  BY DEF SaveLast, Whole
<1>2. last'.package \in packages
  BY DEF SaveLast, ProgramInv
<1>3. Inv'
  <2>1. CASE Branch[job[r]] = Stable
    <3>1. UNCHANGED <<job, archive, versions>> /\ pc' = [pc EXCEPT ![r] = "zip"]
      BY <2>1 DEF SaveLast
    <3>2. FunctionInv'
      BY <3>1 DEF FunctionInv
    <3>3. WholeInv'
      BY <1>1, <1>2, <3>1 DEF WholeInv
    <3>4. ListingInv'
      BY <1>1, <3>1 DEF ListingInv, IsListing
    <3>5. ProgramInv'
      BY <1>1, <3>1 DEF SaveLast, FunctionInv, ProgramInv, IsGit
    <3> QED BY <3>2, <3>3, <3>4, <3>5
  <2>2. CASE Branch[job[r]] # Stable
    <3>1. End(r)
      BY <2>2 DEF SaveLast
    <3>2. IsListing(versionsgz.entries)'
      BY <1>1 DEF ListingInv, IsListing
    <3> QED BY <1>1, <1>2, <3>1, <3>2, EndKeeps
  <2> QED BY <2>1, <2>2
<1> QED BY <1>1, <1>3 DEF CatalogStep, CatalogVars

\* Steps that end a program and leave pool, packages, versions.gz and the last
\* commit alone.
LEMMA EndingStep ==
  ASSUME Inv, NEW r \in Programs, MakeZip(r) \/ Throw(r) \/ Fail(r)
  PROVE  Inv' /\ CatalogStep
<1>1. End(r) /\ UNCHANGED <<Whole, packages, versionsgz, last>>
  BY DEF MakeZip, Throw, Fail, storeVars, Whole
<1>2. IsListing(versionsgz.entries)' /\ (last' # None => last'.package \in packages)
  BY <1>1 DEF Inv, ListingInv, WholeInv, IsListing
<1>3. Inv'
  BY <1>1, <1>2, EndKeeps
<1> QED BY <1>1, <1>3 DEF CatalogStep, CatalogVars

LEMMA StreamerStep ==
  ASSUME Inv, UNCHANGED <<storeVars, programVars>>
  PROVE  Inv' /\ CatalogStep
<1>1. UNCHANGED <<pool, packages, versionsgz, last, builds, pc, job, archive, versions>>
  BY DEF storeVars, programVars
<1>2. Inv'
  BY <1>1 DEF Inv, FunctionInv, WholeInv, Whole, ListingInv, IsListing, ProgramInv, IsGit
<1> QED BY <1>1, <1>2 DEF CatalogStep, CatalogVars, Whole

LEMMA StepInv ==
  ASSUME Inv, [Next]_vars
  PROVE  Inv' /\ CatalogStep
<1>1. ASSUME NEW r \in Programs, NEW c \in Main, BuildGit(r, c)
      PROVE  Inv' /\ CatalogStep
  BY <1>1, BuildGitStep
<1>2. ASSUME NEW r \in Programs, AddZip(r)
      PROVE  Inv' /\ CatalogStep
  BY <1>2, AddZipStep
<1>3. ASSUME NEW r \in Programs, Run(r) \/ Fail(r)
      PROVE  Inv' /\ CatalogStep
  BY <1>3, ProcessRepoStep, ReplaceVersionStep, SaveArchiveStep, LoadVersionsStep,
     OpenVersionsStep, CloseVersionsStep, SaveLastStep, EndingStep DEF Run
<1>4. ASSUME NEW p \in packages, NEW F \in SUBSET (FilesOf(p) \cap Wanted), Announce(p, F)
      PROVE  Inv' /\ CatalogStep
  BY <1>4, StreamerStep DEF Announce
<1>5. ASSUME Send \/ HangUp \/ UNCHANGED vars
      PROVE  Inv' /\ CatalogStep
  BY <1>5, StreamerStep DEF Send, HangUp, vars
<1> QED BY <1>1, <1>2, <1>3, <1>4, <1>5 DEF Next

\* What versions.gz lists is complete in every reachable state, and clients see
\* nothing but new files, new packages and changes of the list, whatever programs
\* fail, overlap or die (PoolArchive.cpp:66-121, Versions.cpp:95-130).
THEOREM ImplementsCatalog == Spec => CatalogSpec
<1>1. Init => Inv /\ Published!Init
  BY InitInv
<1>2. Inv /\ [Next]_vars => Inv'
  BY StepInv
<1>3. Inv /\ [Next]_vars =>
        [Published!Next]_<<{f \in Contents : pool[f] = "whole"}, packages, versionsgz.entries>>
  BY StepInv DEF CatalogStep, CatalogVars, Whole
<1> QED BY <1>1, <1>2, <1>3, PTL DEF Spec, CatalogSpec, Published!Spec
----------------------------------------------------------------------------
(* Tags are kept: while nothing is disturbed one program runs at a time, and what *)
(* it is going to write contains all that was listed before.                      *)

Quiet == \A r \in Programs : pc[r] # "saving"
Holds(r) == pc[r] \in {"list", "saving"} \/ (pc[r] = "save" /\ ~IsGit(r))

SoloInv == \A r \in Programs, s \in Programs : pc[r] # "off" /\ pc[s] # "off" => r = s
ListedInv == Quiet => published \subseteq DOMAIN versionsgz.entries /\ ~versionsgz.bad
HeldInv == \A r \in Programs : Holds(r) => published \subseteq DOMAIN versions[r]
SavingInv == \A r \in Programs : pc[r] = "saving" => NewTags(r) \subseteq DOMAIN versions[r]

TagInv ==
  /\ ~disturbed => SoloInv /\ ~versionsgz.mixed /\ ListedInv /\ HeldInv
  /\ SavingInv

LEMMA InitTagInv ==
  ASSUME Init
  PROVE  TagInv
BY DEF Init, TagInv, SoloInv, ListedInv, HeldInv, SavingInv, Quiet, Holds, Empty

\* A step of r that writes neither versions.gz nor any program's list.
LEMMA OtherTagStep ==
  ASSUME Inv, TagInv, NEW r \in Programs, UNCHANGED <<versionsgz, versions>>,
         \A s \in Programs \ {r} : pc'[s] = pc[s] /\ job'[s] = job[s],
         pc[r] # "saving", pc'[r] # "saving", (Holds(r))' => Holds(r),
         pc[r] = "off" => (disturbed' <=> disturbed \/ \E s \in Programs : pc[s] # "off"),
         pc[r] # "off" => disturbed' = disturbed,
         disturbed' => published' = {},
         ~disturbed' => published' = published
  PROVE  TagInv'
<1>1. SavingInv'
  BY DEF TagInv, SavingInv, NewTags, IsGit
<1>2. ~disturbed' => ~disturbed /\ SoloInv'
  BY DEF TagInv, SoloInv
<1>3. ~disturbed' => ListedInv'
  BY <1>2 DEF TagInv, ListedInv, Quiet
<1>4. ~disturbed' => HeldInv'
  BY <1>2 DEF TagInv, HeldInv, Holds, IsGit
<1> QED BY <1>1, <1>2, <1>3, <1>4 DEF TagInv

\* A program that ends, which changes no tag.
LEMMA EndTagStep ==
  ASSUME Inv, TagInv, NEW r \in Programs, End(r), UNCHANGED versionsgz,
         disturbed' <=> disturbed \/ pc[r] = "saving", published' = IF disturbed' THEN {} ELSE published
  PROVE  TagInv'
<1>1. pc'[r] = "off" /\ \A s \in Programs \ {r} :
        pc'[s] = pc[s] /\ job'[s] = job[s] /\ versions'[s] = versions[s]
  BY DEF Inv, FunctionInv, End
<1>2. SavingInv'
  BY <1>1 DEF TagInv, SavingInv, NewTags, IsGit
<1>3. ~disturbed' => ~disturbed /\ pc[r] # "saving" /\ SoloInv'
  BY <1>1 DEF TagInv, SoloInv
<1>4. ~disturbed' => ListedInv'
  BY <1>1, <1>3 DEF TagInv, ListedInv, Quiet
<1>5. ~disturbed' => HeldInv'
  BY <1>1, <1>3 DEF TagInv, HeldInv, Holds, IsGit
<1> QED BY <1>2, <1>3, <1>4, <1>5 DEF TagInv

LEMMA StartTagStep ==
  ASSUME Inv, TagInv, NEW r \in Programs, (\E c \in Main : BuildGit(r, c)) \/ AddZip(r)
  PROVE  TagInv'
<1>1. UNCHANGED <<versionsgz, versions>>
  BY DEF BuildGit, AddZip, storeVars
<1>2. \A s \in Programs \ {r} : pc'[s] = pc[s] /\ job'[s] = job[s]
  BY DEF Inv, FunctionInv, BuildGit, AddZip
<1>3. pc[r] = "off" /\ pc'[r] \in {"diff", "load"}
  BY DEF Inv, FunctionInv, BuildGit, AddZip, Start
<1>4. /\ disturbed' <=> disturbed \/ \E s \in Programs : pc[s] # "off"
      /\ disturbed' => published' = {}
      /\ ~disturbed' => published' = published
  BY DEF BuildGit, AddZip, Start, Disturbed
<1> QED BY <1>1, <1>2, <1>3, <1>4, OtherTagStep DEF Holds

LEMMA WorkTagStep ==
  ASSUME Inv, TagInv, disturbed => published = {}, NEW r \in Programs,
         ProcessRepo(r) \/ ReplaceVersion(r) \/ SaveArchive(r)
  PROVE  TagInv'
<1>1. UNCHANGED <<versionsgz, versions, job, disturbed, published>>
  BY DEF ProcessRepo, ReplaceVersion, SaveArchive, historyVars
<1>2. \A s \in Programs \ {r} : pc'[s] = pc[s]
  BY DEF Inv, FunctionInv, ProcessRepo, ReplaceVersion, SaveArchive
<1>3. pc[r] \in {"diff", "replace", "save"} /\ pc'[r] # "saving"
  BY DEF Inv, FunctionInv, ProcessRepo, ReplaceVersion, SaveArchive
<1>4. (Holds(r))' => Holds(r)
  <2>1. CASE ProcessRepo(r)
    BY <2>1 DEF Inv, FunctionInv, ProcessRepo, Holds
  <2>2. CASE ReplaceVersion(r)
    BY <1>1, <2>2, StoreAssumption DEF Inv, FunctionInv, ProgramInv, ReplaceVersion, Holds, IsGit
  <2>3. CASE SaveArchive(r)
    BY <1>1, <2>3 DEF Inv, FunctionInv, SaveArchive, Holds, IsGit
  <2> QED BY <2>1, <2>2, <2>3
<1> QED BY <1>1, <1>2, <1>3, <1>4, OtherTagStep

LEMMA LoadTagStep ==
  ASSUME Inv, TagInv, NEW r \in Programs, LoadVersions(r)
  PROVE  TagInv'
<1>1. UNCHANGED <<versionsgz, job, disturbed, published>>
  BY DEF LoadVersions, storeVars, historyVars
<1>2. /\ \A s \in Programs \ {r} : pc'[s] = pc[s] /\ versions'[s] = versions[s]
      /\ pc[r] = "load" /\ pc'[r] \in {"list", "save"} /\ versions'[r] = versionsgz.entries
  BY DEF Inv, FunctionInv, LoadVersions
<1>3. SavingInv'
  BY <1>1, <1>2 DEF TagInv, SavingInv, NewTags, IsGit
<1>4. ~disturbed => SoloInv' /\ Quiet
  BY <1>2 DEF TagInv, SoloInv, Quiet
<1>5. ~disturbed => ListedInv'
  BY <1>1, <1>4 DEF TagInv, ListedInv
<1>6. ~disturbed => HeldInv'
  BY <1>1, <1>2, <1>4 DEF TagInv, ListedInv, HeldInv, Holds, IsGit
<1> QED BY <1>1, <1>3, <1>4, <1>5, <1>6 DEF TagInv

LEMMA OpenTagStep ==
  ASSUME Inv, TagInv, NEW r \in Programs, OpenVersions(r)
  PROVE  TagInv'
<1>1. UNCHANGED <<job, archive, disturbed, published>>
  BY DEF OpenVersions, historyVars
<1>2. /\ \A s \in Programs \ {r} : pc'[s] = pc[s] /\ versions'[s] = versions[s]
      /\ pc[r] = "list" /\ pc'[r] = "saving" /\ versions'[r] = Listed(r)
  BY DEF Inv, FunctionInv, OpenVersions
<1>3. DOMAIN Listed(r) = DOMAIN versions[r] \cup NewTags(r)
  BY DEF Listed
<1>4. SavingInv'
  BY <1>1, <1>2, <1>3 DEF TagInv, SavingInv, NewTags, IsGit
<1>5. ~disturbed => SoloInv'
  BY <1>2 DEF TagInv, SoloInv
<1>6. ~disturbed => ~versionsgz'.mixed
  BY <1>2 DEF TagInv, SoloInv, OpenVersions
<1>7. ~disturbed => ListedInv'
  BY <1>2 DEF ListedInv, Quiet
<1>8. ~disturbed => HeldInv'
  BY <1>1, <1>2, <1>3 DEF TagInv, HeldInv, Holds, IsGit
<1> QED BY <1>1, <1>4, <1>5, <1>6, <1>7, <1>8 DEF TagInv

LEMMA CloseTagStep ==
  ASSUME Inv, TagInv, NEW r \in Programs, CloseVersions(r)
  PROVE  TagInv'
<1>1. /\ versionsgz'.entries = versions[r] /\ disturbed' = disturbed
      /\ ~versionsgz.mixed => ~versionsgz'.bad /\ ~versionsgz'.mixed
  <2> DEFINE still == versionsgz.mixed /\ \E s \in Programs \ {r} : pc[s] = "saving"
  <2>1. PICK bad \in IF versionsgz.mixed THEN BOOLEAN ELSE {FALSE} :
          versionsgz' = [entries |-> versions[r], bad |-> bad, mixed |-> still]
    BY DEF CloseVersions
  <2>2. versionsgz'.entries = versions[r] /\ versionsgz'.bad = bad /\ versionsgz'.mixed = still
    <3> HIDE DEF still
    <3> QED BY <2>1, Zenon
  <2>3. ~versionsgz.mixed => bad = FALSE /\ still = FALSE
    BY Zenon
  <2> QED BY <2>2, <2>3 DEF CloseVersions
<1>2. /\ \A s \in Programs \ {r} :
           pc'[s] = pc[s] /\ job'[s] = job[s] /\ versions'[s] = versions[s]
      /\ pc[r] = "saving" /\ pc'[r] \in {"last", "off"}
  BY DEF Inv, FunctionInv, CloseVersions, End
<1>3. published' = IF disturbed THEN {} ELSE published \cup NewTags(r)
  BY DEF CloseVersions
<1>4. SavingInv'
  BY <1>2 DEF TagInv, SavingInv, NewTags, IsGit
<1>5. ~disturbed => SoloInv'
  BY <1>2 DEF TagInv, SoloInv
<1>6. ~disturbed => ListedInv'
  BY <1>1, <1>2, <1>3 DEF TagInv, ListedInv, HeldInv, SavingInv, Holds
<1>7. ~disturbed => HeldInv'
  BY <1>2 DEF TagInv, SoloInv, HeldInv, Holds
<1> QED BY <1>1, <1>4, <1>5, <1>6, <1>7 DEF TagInv

LEMMA LastTagStep ==
  ASSUME Inv, TagInv, disturbed => published = {}, NEW r \in Programs,
         SaveLast(r) \/ MakeZip(r) \/ Throw(r) \/ Fail(r)
  PROVE  TagInv'
<1>1. CASE SaveLast(r) /\ Branch[job[r]] = Stable
  <2>1. UNCHANGED <<versionsgz, versions, job, disturbed, published>>
    BY <1>1 DEF SaveLast, historyVars
  <2>2. \A s \in Programs \ {r} : pc'[s] = pc[s]
    BY <1>1 DEF Inv, FunctionInv, SaveLast
  <2>3. pc[r] = "last" /\ pc'[r] = "zip"
    BY <1>1 DEF Inv, FunctionInv, SaveLast
  <2> QED BY <2>1, <2>2, <2>3, OtherTagStep DEF Holds
<1>2. CASE (SaveLast(r) /\ Branch[job[r]] # Stable) \/ MakeZip(r) \/ Throw(r)
  <2>1. End(r) /\ UNCHANGED <<versionsgz, disturbed, published>> /\ pc[r] # "saving"
    BY <1>2 DEF SaveLast, MakeZip, Throw, storeVars, historyVars
  <2>2. disturbed' <=> disturbed \/ pc[r] = "saving"
    BY <2>1
  <2> QED BY <2>1, <2>2, EndTagStep
<1>3. CASE Fail(r)
  BY <1>3, EndTagStep DEF Fail, Disturbed, storeVars
<1> QED BY <1>1, <1>2, <1>3

HistoryInv == disturbed \in BOOLEAN /\ (disturbed => published = {})

LEMMA HistoryStep ==
  ASSUME HistoryInv, [Next]_vars
  PROVE  HistoryInv'
<1>1. ASSUME NEW now \in BOOLEAN, Disturbed(now)
      PROVE  HistoryInv'
  BY <1>1 DEF HistoryInv, Disturbed
<1>2. ASSUME NEW r \in Programs, CloseVersions(r)
      PROVE  HistoryInv'
  BY <1>2 DEF HistoryInv, CloseVersions
<1>3. ASSUME NEW r \in Programs, (\E c \in Main : BuildGit(r, c)) \/ AddZip(r)
      PROVE  HistoryInv'
  BY <1>1, <1>3 DEF BuildGit, AddZip, Start
<1>4. ASSUME NEW r \in Programs, Fail(r)
      PROVE  HistoryInv'
  BY <1>1, <1>4 DEF Fail
<1>5. ASSUME UNCHANGED historyVars
      PROVE  HistoryInv'
  BY <1>5 DEF HistoryInv, historyVars
<1>6. ASSUME NEW r \in Programs, SaveArchive(r)
      PROVE  HistoryInv'
  BY <1>6 DEF HistoryInv, SaveArchive
<1>7. ASSUME NEW r \in Programs, Run(r)
      PROVE  CloseVersions(r) \/ SaveArchive(r) \/ UNCHANGED historyVars
  BY <1>7 DEF Run, ProcessRepo, ReplaceVersion, LoadVersions, OpenVersions, SaveLast, MakeZip,
     Throw
<1>8. ASSUME (\E p \in packages : \E F \in SUBSET (FilesOf(p) \cap Wanted) : Announce(p, F))
             \/ Send \/ HangUp \/ UNCHANGED vars
      PROVE  UNCHANGED historyVars
  BY <1>8 DEF Announce, Send, HangUp, vars
<1> QED BY <1>2, <1>3, <1>4, <1>5, <1>6, <1>7, <1>8 DEF Next

LEMMA TagStep ==
  ASSUME Inv, HistoryInv, TagInv, [Next]_vars
  PROVE  TagInv'
<1>1. ASSUME NEW r \in Programs,
             (\E c \in Main : BuildGit(r, c)) \/ AddZip(r) \/ Run(r) \/ Fail(r)
      PROVE  TagInv'
  BY <1>1, StartTagStep, WorkTagStep, LoadTagStep, OpenTagStep, CloseTagStep, LastTagStep
     DEF Run, HistoryInv
<1>2. ASSUME UNCHANGED <<storeVars, programVars, historyVars>>
      PROVE  TagInv'
  <2>1. UNCHANGED <<versionsgz, pc, job, versions, disturbed, published>>
    BY <1>2 DEF storeVars, programVars, historyVars
  <2> QED BY <2>1 DEF TagInv, SoloInv, ListedInv, HeldInv, SavingInv, Quiet, Holds, NewTags, IsGit
<1>3. ASSUME (\E p \in packages : \E F \in SUBSET (FilesOf(p) \cap Wanted) : Announce(p, F))
             \/ Send \/ HangUp \/ UNCHANGED vars
      PROVE  UNCHANGED <<storeVars, programVars, historyVars>>
  BY <1>3 DEF Announce, Send, HangUp, vars
<1> QED BY <1>1, <1>2, <1>3 DEF Next

\* A tag that was listed stays listed, in every reachable state, unless programs
\* ran at once or one died while it wrote versions.gz (Versions.cpp:95).
THEOREM KeepsTags == Spec => []TagsKept
<1>1. Init => Inv /\ HistoryInv /\ TagInv
  <2>1. Init => HistoryInv
    BY DEF Init, HistoryInv
  <2> QED BY <2>1, InitInv, InitTagInv
<1>2. Inv /\ HistoryInv /\ TagInv /\ [Next]_vars => (Inv /\ HistoryInv /\ TagInv)'
  BY StepInv, HistoryStep, TagStep
<1>3. TagInv => TagsKept
  BY DEF TagInv, ListedInv, TagsKept, Quiet
<1> QED BY <1>1, <1>2, <1>3, PTL DEF Spec

----------------------------------------------------------------------------
(* Types.  A program that is to diff has something to diff, and what is saved last *)
(* is a commit.                                                                    *)

WorkInv ==
  /\ work = [r \in Programs |-> work[r]]
  /\ \A r \in Programs : /\ pc[r] = "diff" => work[r] # <<>>
                         /\ pc[r] \in {"last", "zip"} => job[r] \in Main

TypeInv == TypeOK /\ Inv /\ WorkInv

\* The calls for the submodules enter each one that is not left out once.
LEMMA SubmoduleFacts ==
  ASSUME NEW call \in Calls, NEW S \in SUBSET Changed(call), NEW calls \in Submodules(call, S)
  PROVE  \E n \in Nat : \E g \in [1..n -> Names] :
    /\ calls = [i \in 1..n |-> Enter(call, g[i])]
    /\ \A i \in 1..n : Enters(call, g[i])
    /\ \A i, j \in 1..n : g[i] = g[j] => i = j
    /\ \A m \in Names : m \in S => \E i \in 1..n : g[i] = m
<1> DEFINE K == {i \in DOMAIN DiffOrder : DiffOrder[i] \in S}
           n == Cardinality(K)
<1>1. PICK f \in InOrder(K) : calls = [i \in DOMAIN f |-> Enter(call, DiffOrder[f[i]])]
  BY DEF Submodules
<1>2. DOMAIN DiffOrder = 1..Len(DiffOrder) /\ Len(DiffOrder) \in Nat
  BY StoreAssumption
<1>3. n \in Nat
  <2>1. IsFiniteSet(1..Len(DiffOrder))
    BY <1>2, FS_Interval
  <2>2. IsFiniteSet(K)
    BY <1>2, <2>1, FS_Subset
  <2> QED BY <2>2, FS_CardinalityType
<1>4. /\ f \in [1..n -> K] /\ \A i, j \in 1..n : i < j => f[i] < f[j]
      /\ \A k \in K : \E i \in 1..n : f[i] = k
  BY DEF InOrder
<1> DEFINE g == [i \in 1..n |-> DiffOrder[f[i]]]
<1> HIDE DEF n
<1>5. \A i \in 1..n : f[i] \in DOMAIN DiffOrder /\ f[i] \in Nat /\ Enters(call, DiffOrder[f[i]])
  BY <1>2, <1>4 DEF Changed
<1>6. g \in [1..n -> Names] /\ \A i \in 1..n : Enters(call, g[i])
  BY <1>5, StoreAssumption
<1>7. ASSUME NEW i \in 1..n, NEW j \in 1..n, g[i] = g[j]
      PROVE  i = j
  <2>3. DiffOrder[f[i]] = DiffOrder[f[j]]
    BY <1>7
  <2>4. f[i] \in DOMAIN DiffOrder /\ f[j] \in DOMAIN DiffOrder
    BY <1>5
  <2> HIDE DEF g
  <2>1. f[i] = f[j]
    BY <2>3, <2>4, StoreAssumption
  <2>2. ~(i < j) /\ ~(j < i)
    BY <1>4, <1>5, <2>1
  <2> QED BY <1>3, <2>2
<1>8. ASSUME NEW m \in Names, m \in S
      PROVE  \E i \in 1..n : g[i] = m
  <2>1. PICK k \in DOMAIN DiffOrder : DiffOrder[k] = m
    BY StoreAssumption
  <2>2. k \in K
    BY <1>8, <2>1
  <2> QED BY <1>4, <2>1, <2>2
<1>9. calls = [i \in 1..n |-> Enter(call, g[i])]
  BY <1>1, <1>4
<1> HIDE DEF g
<1> QED BY <1>3, <1>6, <1>7, <1>8, <1>9

LEMMA EnterTypes ==
  ASSUME NEW call \in Calls, NEW m \in Names, Enters(call, m)
  PROVE  Enter(call, m) \in Calls
<1>1. Append(call.at, m) \in Paths
  BY AppendProperties DEF Calls, Paths
<1>2. Tree[call.new][m] \in Commits
  BY StoreAssumption DEF Enters, SubmoduleAt, TreeOf, Calls
<1>3. SubmoduleAt(call.old, m) => TreeOf(call.old)[m] \in Commits
  BY DEF SubmoduleAt
<1> QED BY <1>1, <1>2, <1>3 DEF Enter, Calls

LEMMA SubmodulesTypes ==
  ASSUME NEW call \in Calls, NEW S \in SUBSET Changed(call), NEW calls \in Submodules(call, S)
  PROVE  calls \in Seq(Calls)
<1>1. PICK n \in Nat : \E h \in [1..n -> Names] :
        calls = [i \in 1..n |-> Enter(call, h[i])] /\ \A i \in 1..n : Enters(call, h[i])
  BY SubmoduleFacts
<1>4. PICK g \in [1..n -> Names] :
        calls = [i \in 1..n |-> Enter(call, g[i])] /\ \A i \in 1..n : Enters(call, g[i])
  BY <1>1
<1>2. \A i \in 1..n : Enter(call, g[i]) \in Calls
  BY <1>4, EnterTypes
<1>3. calls \in [1..n -> Calls]
  BY <1>2, <1>4
<1> QED BY <1>3

LEMMA DeltasFacts ==
  ASSUME NEW call \in Calls
  PROVE  /\ Deltas(call) =
              {n \in DOMAIN TreeOf(call.old) \cup DOMAIN Tree[call.new] :
                 ~(n \in DOMAIN TreeOf(call.old) /\ n \in DOMAIN Tree[call.new] /\
                   TreeOf(call.old)[n] = Tree[call.new][n])}
         /\ DOMAIN TreeOf(call.old) \subseteq Names /\ DOMAIN Tree[call.new] \subseteq Names
<1>1. call.old \in Commits \cup {None} /\ call.new \in Commits
  BY DEF Calls
<1>2. DOMAIN TreeOf(call.old) \subseteq Names /\ DOMAIN Tree[call.new] \subseteq Names
  BY <1>1, StoreAssumption DEF TreeOf, Empty
<1> QED BY <1>1, <1>2 DEF Deltas, Diff

LEMMA LowerPathFacts ==
  ASSUME NEW q \in Paths
  PROVE  /\ LowerPath(q) \in Paths /\ Len(LowerPath(q)) = Len(q) /\ Len(q) \in Nat
         /\ \A i \in 1..Len(q) : q[i] \in Names /\ LowerPath(q)[i] = Lower[q[i]]
<1>1. Len(q) \in Nat /\ DOMAIN q = 1..Len(q) /\ \A i \in 1..Len(q) : q[i] \in Names
  BY LenProperties DEF Paths
<1>2. LowerPath(q) = [i \in 1..Len(q) |-> Lower[q[i]]]
  BY <1>1 DEF LowerPath
<1>3. LowerPath(q) \in [1..Len(q) -> Names]
  BY <1>1, <1>2, StoreAssumption
<1> QED BY <1>1, <1>2, <1>3 DEF Paths

\* What processDiff makes of a package is one.
LEMMA DiffIsPackage ==
  ASSUME NEW call \in Calls, NEW files, IsPackage(files)
  PROVE  IsPackage(ProcessDiff(call, files))
<1>1. ASSUME NEW n \in Names
      PROVE  FullPath(call, n) \in Paths
  <2>1. Append(call.at, n) \in Paths
    BY AppendProperties DEF Calls, Paths
  <2> QED BY <2>1, LowerPathFacts DEF FullPath
<1>2. Deltas(call) \subseteq Names
  BY DeltasFacts
<1>3. DOMAIN ProcessDiff(call, files) \subseteq Paths
  BY <1>1, <1>2 DEF ProcessDiff, Keys, IsPackage
<1>4. FilesOf(ProcessDiff(call, files)) \subseteq Contents
  <2>1. FilesOf(files) \subseteq Contents
    BY DEF FilesOf, IsPackage
  <2> QED BY <2>1, DiffIsStored
<1> QED BY <1>3, <1>4 DEF IsPackage, FilesOf

\* Pool files are written by CommitFiles alone.
LEMMA PoolTypes ==
  ASSUME TypeInv, [Next]_vars
  PROVE  pool' \in [Contents -> {"absent", "part", "whole"}]
<1>1. ASSUME NEW F, CommitFiles(F)
      PROVE  pool' \in [Contents -> {"absent", "part", "whole"}]
  BY <1>1 DEF TypeInv, TypeOK, CommitFiles
<1>2. ASSUME NEW r \in Programs, (\E c \in Main : BuildGit(r, c)) \/ AddZip(r) \/ Run(r) \/ Fail(r)
      PROVE  (\E F : CommitFiles(F)) \/ UNCHANGED pool
  <2>1. CASE ProcessRepo(r)
    BY <2>1 DEF ProcessRepo
  <2>2. CASE ReplaceVersion(r)
    BY <2>2 DEF ReplaceVersion
  <2>3. CASE AddZip(r)
    BY <2>3 DEF AddZip
  <2> QED BY <1>2, <2>1, <2>2, <2>3 DEF BuildGit, Run, SaveArchive, LoadVersions, OpenVersions,
          CloseVersions, SaveLast, MakeZip, Throw, Fail, storeVars
<1>3. ASSUME (\E p \in packages : \E F \in SUBSET (FilesOf(p) \cap Wanted) : Announce(p, F))
             \/ Send \/ HangUp \/ UNCHANGED vars
      PROVE  UNCHANGED pool
  BY <1>3 DEF Announce, Send, HangUp, vars, storeVars
<1> QED BY <1>1, <1>2, <1>3 DEF Next, TypeInv, TypeOK

\* Packages come from those that programs make, and so do the last one and the zips.
LEMMA PackageTypes ==
  ASSUME TypeInv, [Next]_vars
  PROVE  /\ \A p \in packages' : IsPackage(p)
         /\ last' # None => last'.commit \in Main /\ IsPackage(last'.package)
         /\ \A z \in builds' : z.version \in {Version[c] : c \in Main} /\ IsPackage(z.package)
         /\ deviant' \subseteq packages'
<1> DEFINE Goal == /\ \A p \in packages' : IsPackage(p)
                   /\ last' # None => last'.commit \in Main /\ IsPackage(last'.package)
                   /\ \A z \in builds' : z.version \in {Version[c] : c \in Main} /\ IsPackage(z.package)
                   /\ deviant' \subseteq packages'
<1>1. ASSUME UNCHANGED <<packages, last, builds, deviant>>
      PROVE  Goal
  BY <1>1 DEF TypeInv, TypeOK
<1>2. ASSUME NEW r \in Programs, SaveArchive(r)
      PROVE  Goal
  BY <1>2 DEF TypeInv, TypeOK, SaveArchive
<1>3. ASSUME NEW r \in Programs, SaveLast(r)
      PROVE  Goal
  <2>1. job[r] \in Main
    BY <1>3 DEF TypeInv, WorkInv, SaveLast
  <2>2. last' = [commit |-> job[r], package |-> archive[r]] /\ UNCHANGED <<packages, builds, deviant>>
    BY <1>3 DEF SaveLast, historyVars
  <2> QED BY <2>1, <2>2 DEF TypeInv, TypeOK
<1>4. ASSUME NEW r \in Programs, MakeZip(r)
      PROVE  Goal
  <2>1. job[r] \in Main
    BY <1>4 DEF TypeInv, WorkInv, MakeZip
  <2>2. UNCHANGED <<packages, last, deviant>> /\
        builds' \subseteq builds \cup {[version |-> Version[job[r]], package |-> archive[r]]}
    BY <1>4 DEF MakeZip, historyVars
  <2> QED BY <2>1, <2>2 DEF TypeInv, TypeOK
<1>5. ASSUME NEW r \in Programs, (\E c \in Main : BuildGit(r, c)) \/ AddZip(r) \/ Run(r) \/ Fail(r)
      PROVE  SaveArchive(r) \/ SaveLast(r) \/ MakeZip(r) \/ UNCHANGED <<packages, last, builds, deviant>>
  BY <1>5 DEF BuildGit, AddZip, Run, ProcessRepo, ReplaceVersion, LoadVersions, OpenVersions,
          CloseVersions, Throw, Fail, storeVars, historyVars
<1>6. ASSUME (\E p \in packages : \E F \in SUBSET (FilesOf(p) \cap Wanted) : Announce(p, F))
             \/ Send \/ HangUp \/ UNCHANGED vars
      PROVE  UNCHANGED <<packages, last, builds, deviant>>
  BY <1>6 DEF Announce, Send, HangUp, vars, storeVars, historyVars
<1> HIDE DEF Goal
<1>7. Goal
  BY <1>1, <1>2, <1>3, <1>4, <1>5, <1>6 DEF Next
<1> QED BY <1>7 DEF Goal

\* What programs make: packages, and calls to come.
WorkType(r) == IsPackage(archive[r]) /\ work[r] \in Seq(Calls)

LEMMA EmptyTypes ==
  /\ IsPackage(Empty) /\ <<>> \in Seq(Calls)
BY DEF IsPackage, Empty

LEMMA DiffWork ==
  ASSUME TypeInv, NEW r \in Programs, ProcessRepo(r)
  PROVE  WorkType(r)' /\ (pc'[r] = "diff" => work'[r] # <<>>)
<1>1. work[r] \in Seq(Calls) /\ work[r] # <<>>
  BY DEF TypeInv, TypeOK, WorkInv, ProcessRepo
<1>2. Head(work[r]) \in Calls /\ Tail(work[r]) \in Seq(Calls)
  BY <1>1, HeadTailProperties
<1> DEFINE call == Head(work[r])
<1>3. PICK S \in SUBSET Changed(call) : \E calls \in Submodules(call, S) :
        /\ archive' = [archive EXCEPT ![r] = ProcessDiff(call, archive[r])]
        /\ work' = [work EXCEPT ![r] = calls \o Tail(work[r])]
  BY DEF ProcessRepo
<1>9. PICK calls \in Submodules(call, S) :
        /\ archive' = [archive EXCEPT ![r] = ProcessDiff(call, archive[r])]
        /\ work' = [work EXCEPT ![r] = calls \o Tail(work[r])]
  BY <1>3
<1>4. archive'[r] = ProcessDiff(call, archive[r]) /\ work'[r] = calls \o Tail(work[r])
  BY <1>9 DEF TypeInv, Inv, FunctionInv, WorkInv
<1>5. IsPackage(archive[r])
  BY DEF TypeInv, TypeOK
<1>6. IsPackage(archive'[r])
  BY <1>2, <1>4, <1>5, DiffIsPackage
<1>10. calls \in Seq(Calls)
  <2> HIDE DEF call
  <2> QED BY <1>2, SubmodulesTypes DEF call
<1>7. work'[r] \in Seq(Calls)
  BY <1>2, <1>4, <1>10, ConcatProperties
<1>8. pc'[r] = "diff" => work'[r] # <<>>
  BY DEF ProcessRepo, TypeInv, TypeOK
<1> QED BY <1>6, <1>7, <1>8 DEF WorkType

LEMMA BuildWork ==
  ASSUME TypeInv, NEW r \in Programs, NEW c \in Main, BuildGit(r, c)
  PROVE  WorkType(r)' /\ work'[r] # <<>>
<1>1. archive'[r] = IF last = None THEN Empty ELSE last.package
  BY DEF BuildGit, TypeInv, Inv, FunctionInv
<1>2. IsPackage(archive'[r])
  BY <1>1, EmptyTypes DEF TypeInv, TypeOK
<1> DEFINE call == [old |-> IF last = None THEN None ELSE last.commit, new |-> c, at |-> <<>>]
<1>3. call \in Calls
  BY StoreAssumption DEF TypeInv, TypeOK, Calls, Paths
<1>4. work'[r] = <<call>>
  BY DEF BuildGit, TypeInv, WorkInv
<1> HIDE DEF call
<1>5. work'[r] \in Seq(Calls) /\ work'[r] # <<>>
  BY <1>3, <1>4
<1> QED BY <1>2, <1>5 DEF WorkType

LEMMA ReplaceWork ==
  ASSUME TypeInv, NEW r \in Programs, ReplaceVersion(r)
  PROVE  WorkType(r)'
<1> DEFINE f == [blob |-> Tree[job[r]][Modinfo], version |-> Version[job[r]]]
           key == LowerPath(<<Modinfo>>)
<1>1. f \in Contents
  BY DEF ReplaceVersion, TypeInv, Inv, ProgramInv, Contents
<1>2. key \in Paths
  <2>1. <<Modinfo>> \in Paths
    BY StoreAssumption DEF Paths
  <2> QED BY <2>1, LowerPathFacts
<1>3. archive'[r] = Put(archive[r], key, f) /\ UNCHANGED work
  BY DEF ReplaceVersion, TypeInv, Inv, FunctionInv
<1>4. WorkType(r)
  BY DEF TypeInv, TypeOK, WorkType
<1> HIDE DEF f, key
<1>5. IsPackage(Put(archive[r], key, f))
  BY <1>1, <1>2, <1>4 DEF WorkType, IsPackage, Put
<1> QED BY <1>3, <1>4, <1>5 DEF WorkType

LEMMA ZipWork ==
  ASSUME TypeInv, NEW r \in Programs, AddZip(r)
  PROVE  WorkType(r)'
<1>1. archive'[r] = [q \in DOMAIN Zip |-> Raw(Zip[q])] /\ UNCHANGED work
  BY DEF AddZip, TypeInv, Inv, FunctionInv
<1>2. IsPackage([q \in DOMAIN Zip |-> Raw(Zip[q])])
  BY StoreAssumption DEF IsPackage, Paths, Raw, Contents
<1> QED BY <1>1, <1>2 DEF WorkType, TypeInv, TypeOK

LEMMA WorkTypes ==
  ASSUME TypeInv, [Next]_vars
  PROVE  WorkInv' /\ \A r \in Programs : WorkType(r)'
<1> DEFINE Goal == WorkInv' /\ \A r \in Programs : WorkType(r)'
<1>0. \A r \in Programs : WorkType(r)
  BY DEF TypeInv, TypeOK, WorkType
<1>1. ASSUME NEW r \in Programs, WorkType(r)', work' = [s \in Programs |-> work'[s]],
             \A s \in Programs \ {r} : /\ archive'[s] = archive[s] /\ work'[s] = work[s]
                                       /\ pc'[s] = pc[s] /\ job'[s] = job[s],
             pc'[r] = "diff" => work'[r] # <<>>,
             pc'[r] \in {"last", "zip"} => job'[r] \in Main
      PROVE  Goal
  BY <1>0, <1>1 DEF TypeInv, WorkInv, WorkType
<1>2. ASSUME NEW r \in Programs, End(r)
      PROVE  Goal
  <2>1. WorkType(r)'
    BY <1>2, EmptyTypes DEF End, TypeInv, Inv, FunctionInv, WorkInv, WorkType
  <2> QED BY <1>1, <1>2, <2>1 DEF End, TypeInv, Inv, FunctionInv, WorkInv
<1>3. ASSUME NEW r \in Programs, NEW c \in Main, BuildGit(r, c)
      PROVE  Goal
  BY <1>1, <1>3, BuildWork DEF BuildGit, TypeInv, Inv, FunctionInv, WorkInv
<1>4. ASSUME NEW r \in Programs, ProcessRepo(r)
      PROVE  Goal
  <2>1. WorkType(r)' /\ (pc'[r] = "diff" => work'[r] # <<>>) /\ pc'[r] \in {"diff", "replace"}
    BY <1>4, DiffWork DEF ProcessRepo, TypeInv, Inv, FunctionInv
  <2>2. \E x, y : archive' = [archive EXCEPT ![r] = x] /\ work' = [work EXCEPT ![r] = y]
    BY <1>4 DEF ProcessRepo
  <2> QED BY <1>1, <1>4, <2>1, <2>2 DEF ProcessRepo, TypeInv, Inv, FunctionInv, WorkInv
<1>5. ASSUME NEW r \in Programs, ReplaceVersion(r)
      PROVE  Goal
  BY <1>1, <1>5, ReplaceWork DEF ReplaceVersion, TypeInv, Inv, FunctionInv, WorkInv
<1>6. ASSUME NEW r \in Programs, AddZip(r)
      PROVE  Goal
  BY <1>1, <1>6, ZipWork DEF AddZip, TypeInv, Inv, FunctionInv, WorkInv
<1>7. ASSUME NEW r \in Programs, SaveArchive(r) \/ LoadVersions(r) \/ OpenVersions(r)
      PROVE  Goal
  BY <1>0, <1>1, <1>7 DEF SaveArchive, LoadVersions, OpenVersions, WorkType, TypeInv, Inv,
     FunctionInv, WorkInv
<1>8. ASSUME NEW r \in Programs, CloseVersions(r)
      PROVE  Goal
  <2>1. CASE IsGit(r)
    <3>1. job[r] \in Main
      BY <2>1 DEF IsGit, TypeInv, Inv, FunctionInv
    <3> QED BY <1>0, <1>1, <1>8, <2>1, <3>1 DEF CloseVersions, WorkType, TypeInv, Inv,
            FunctionInv, WorkInv
  <2> QED BY <1>2, <1>8, <2>1 DEF CloseVersions
<1>9. ASSUME NEW r \in Programs, SaveLast(r)
      PROVE  Goal
  <2>1. CASE Branch[job[r]] = Stable
    BY <1>0, <1>1, <1>9, <2>1 DEF SaveLast, WorkType, TypeInv, Inv, FunctionInv, WorkInv
  <2> QED BY <1>2, <1>9, <2>1 DEF SaveLast
<1>10. ASSUME NEW r \in Programs, MakeZip(r) \/ Throw(r) \/ Fail(r)
       PROVE  Goal
  BY <1>2, <1>10 DEF MakeZip, Throw, Fail
<1>11. ASSUME UNCHANGED programVars
       PROVE  Goal
  BY <1>0, <1>11 DEF programVars, TypeInv, WorkInv, WorkType
<1>12. ASSUME (\E p \in packages : \E F \in SUBSET (FilesOf(p) \cap Wanted) : Announce(p, F))
             \/ Send \/ HangUp \/ UNCHANGED vars
      PROVE  UNCHANGED programVars
  BY <1>12 DEF Announce, Send, HangUp, vars
<1> HIDE DEF Goal
<1>13. Goal
  BY <1>2, <1>3, <1>4, <1>5, <1>6, <1>7, <1>8, <1>9, <1>10, <1>11, <1>12 DEF Next, Run
<1> QED BY <1>13 DEF Goal

LEMMA ListTypes ==
  ASSUME TypeInv, [Next]_vars
  PROVE  versionsgz'.bad \in BOOLEAN /\ versionsgz'.mixed \in BOOLEAN
<1>1. ASSUME NEW r \in Programs, OpenVersions(r)
      PROVE  versionsgz'.bad \in BOOLEAN /\ versionsgz'.mixed \in BOOLEAN
  <2> DEFINE others == \E s \in Programs \ {r} : pc[s] = "saving"
  <2>1. PICK bad \in BOOLEAN : \E entries :
          versionsgz' = [entries |-> entries, bad |-> bad, mixed |-> others]
    BY <1>1 DEF OpenVersions
  <2>4. PICK entries :
          versionsgz' = [entries |-> entries, bad |-> bad, mixed |-> others]
    BY <2>1, Zenon
  <2>2. others \in BOOLEAN
    BY Zenon
  <2> HIDE DEF others
  <2>3. versionsgz'.bad = bad /\ versionsgz'.mixed = others
    BY <2>4, Zenon
  <2> QED BY <2>2, <2>3
<1>2. ASSUME NEW r \in Programs, CloseVersions(r)
      PROVE  versionsgz'.bad \in BOOLEAN /\ versionsgz'.mixed \in BOOLEAN
  <2> DEFINE still == versionsgz.mixed /\ \E s \in Programs \ {r} : pc[s] = "saving"
  <2>1. PICK bad \in IF versionsgz.mixed THEN BOOLEAN ELSE {FALSE} :
          versionsgz' = [entries |-> versions[r], bad |-> bad, mixed |-> still]
    BY <1>2 DEF CloseVersions
  <2>2. still \in BOOLEAN /\ bad \in BOOLEAN
    BY Zenon
  <2> HIDE DEF still
  <2>3. versionsgz'.bad = bad /\ versionsgz'.mixed = still
    BY <2>1, Zenon
  <2> QED BY <2>2, <2>3
<1>3. ASSUME NEW r \in Programs, (\E c \in Main : BuildGit(r, c)) \/ AddZip(r) \/ Run(r) \/ Fail(r)
      PROVE  OpenVersions(r) \/ CloseVersions(r) \/ UNCHANGED versionsgz
  BY <1>3 DEF BuildGit, AddZip, Run, ProcessRepo, ReplaceVersion, SaveArchive, LoadVersions,
     SaveLast, MakeZip, Throw, Fail, storeVars
<1>4. ASSUME (\E p \in packages : \E F \in SUBSET (FilesOf(p) \cap Wanted) : Announce(p, F))
             \/ Send \/ HangUp \/ UNCHANGED vars
      PROVE  UNCHANGED versionsgz
  BY <1>4 DEF Announce, Send, HangUp, vars, storeVars
<1>5. versionsgz.bad \in BOOLEAN /\ versionsgz.mixed \in BOOLEAN
  BY DEF TypeInv, TypeOK
<1> QED BY <1>1, <1>2, <1>3, <1>4, <1>5 DEF Next

LEMMA StreamTypes ==
  ASSUME TypeInv, [Next]_vars
  PROVE  stream' \subseteq [file : Contents, size : {"part", "whole"}]
<1>1. ASSUME NEW p \in packages, NEW F \in SUBSET (FilesOf(p) \cap Wanted), Announce(p, F)
      PROVE  stream' \subseteq [file : Contents, size : {"part", "whole"}]
  <2>1. F \subseteq Contents
    BY DEF TypeInv, TypeOK, IsPackage, FilesOf
  <2>2. \A f \in F : pool[f] \in {"part", "whole"}
    BY <1>1, <2>1 DEF TypeInv, TypeOK, Announce
  <2>3. stream' = {[file |-> f, size |-> pool[f]] : f \in F}
    BY <1>1 DEF Announce
  <2> QED BY <2>1, <2>2, <2>3
<1>2. ASSUME Send \/ HangUp
      PROVE  stream' \subseteq stream
  BY <1>2 DEF Send, HangUp
<1>3. ASSUME NEW r \in Programs, (\E c \in Main : BuildGit(r, c)) \/ AddZip(r) \/ Run(r) \/ Fail(r)
      PROVE  UNCHANGED stream
  BY <1>3 DEF BuildGit, AddZip, Run, ProcessRepo, ReplaceVersion, SaveArchive, LoadVersions,
     OpenVersions, CloseVersions, SaveLast, MakeZip, Throw, Fail
<1>4. ASSUME UNCHANGED vars
      PROVE  UNCHANGED stream
  BY <1>4 DEF vars
<1> QED BY <1>1, <1>2, <1>3, <1>4 DEF Next, TypeInv, TypeOK

LEMMA DeviatesTypes ==
  ASSUME TypeInv, [Next]_vars
  PROVE  deviates' \in [Programs -> BOOLEAN]
<1>1. ASSUME NEW r, NEW b \in BOOLEAN, deviates' = [deviates EXCEPT ![r] = b]
      PROVE  deviates' \in [Programs -> BOOLEAN]
  BY <1>1, Zenon DEF TypeInv, TypeOK
<1>2. ASSUME NEW r \in Programs, NEW c \in Main, BuildGit(r, c)
      PROVE  \E b \in BOOLEAN : deviates' = [deviates EXCEPT ![r] = b]
  <2> DEFINE b == last # None /\ last.package \in deviant
  <2>1. b \in BOOLEAN
    BY Zenon
  <2>2. deviates' = [deviates EXCEPT ![r] = b]
    BY <1>2 DEF BuildGit
  <2> HIDE DEF b
  <2> QED BY <2>1, <2>2
<1>3. ASSUME NEW r \in Programs, ProcessRepo(r)
      PROVE  \E b \in BOOLEAN : deviates' = [deviates EXCEPT ![r] = b]
  <2>3. PICK S \in SUBSET Changed(Head(work[r])) :
          deviates' = [deviates EXCEPT ![r] =
            @ \/ Deviates(Head(work[r]), archive[r]) \/ S # Changed(Head(work[r]))]
    BY <1>3 DEF ProcessRepo
  <2> DEFINE b == \/ deviates[r] \/ Deviates(Head(work[r]), archive[r])
                  \/ S # Changed(Head(work[r]))
  <2>1. b \in BOOLEAN
    BY Zenon
  <2>2. deviates' = [deviates EXCEPT ![r] = b]
    BY <2>3
  <2> HIDE DEF b
  <2> QED BY <2>1, <2>2
<1>4. ASSUME NEW r \in Programs, AddZip(r) \/ Run(r) \/ Fail(r)
      PROVE  ProcessRepo(r) \/ deviates' = [deviates EXCEPT ![r] = FALSE] \/ UNCHANGED deviates
  BY <1>4 DEF AddZip, Run, ReplaceVersion, SaveArchive, LoadVersions, OpenVersions, CloseVersions,
     SaveLast, MakeZip, Throw, Fail, End
<1>5. ASSUME (\E p \in packages : \E F \in SUBSET (FilesOf(p) \cap Wanted) : Announce(p, F))
             \/ Send \/ HangUp \/ UNCHANGED vars
      PROVE  UNCHANGED deviates
  BY <1>5 DEF Announce, Send, HangUp, vars, programVars
<1>6. deviates \in [Programs -> BOOLEAN]
  BY DEF TypeInv, TypeOK
<1> QED BY <1>1, <1>2, <1>3, <1>4, <1>5, <1>6 DEF Next

LEMMA HistoryTypes ==
  ASSUME TypeInv, [Next]_vars
  PROVE  published' \subseteq Tags /\ disturbed' \in BOOLEAN /\ runs' \in 0..MaxRuns
<1> DEFINE Goal == published' \subseteq Tags /\ disturbed' \in BOOLEAN /\ runs' \in 0..MaxRuns
<1>0. published \subseteq Tags /\ disturbed \in BOOLEAN /\ runs \in 0..MaxRuns
  BY DEF TypeInv, TypeOK
<1>1. ASSUME NEW now \in BOOLEAN, Disturbed(now)
      PROVE  published' \subseteq Tags /\ disturbed' \in BOOLEAN
  BY <1>0, <1>1 DEF Disturbed
<1>2. ASSUME NEW r \in Programs, (\E c \in Main : BuildGit(r, c)) \/ AddZip(r)
      PROVE  Goal
  <2>1. runs' = runs + 1 /\ runs < MaxRuns
    BY <1>2 DEF BuildGit, AddZip, Start
  <2>2. runs' \in 0..MaxRuns
    BY <1>0, <2>1, StoreAssumption
  <2> QED BY <1>1, <1>2, <2>2 DEF BuildGit, AddZip, Start
<1>3. ASSUME NEW r \in Programs, Fail(r)
      PROVE  Goal
  BY <1>0, <1>1, <1>3 DEF Fail
<1>4. ASSUME NEW r \in Programs, CloseVersions(r)
      PROVE  Goal
  BY <1>0, <1>4, NewTagsAreTags DEF CloseVersions, TypeInv
<1>5. ASSUME NEW r \in Programs, Run(r)
      PROVE  CloseVersions(r) \/ UNCHANGED <<published, disturbed, runs>>
  BY <1>5 DEF Run, ProcessRepo, ReplaceVersion, SaveArchive, LoadVersions, OpenVersions,
     SaveLast, MakeZip, Throw, historyVars
<1>6. ASSUME (\E p \in packages : \E F \in SUBSET (FilesOf(p) \cap Wanted) : Announce(p, F))
             \/ Send \/ HangUp \/ UNCHANGED vars
      PROVE  UNCHANGED <<published, disturbed, runs>>
  BY <1>6 DEF Announce, Send, HangUp, vars, historyVars
<1> QED BY <1>0, <1>2, <1>3, <1>4, <1>5, <1>6 DEF Next

LEMMA InitTypes ==
  ASSUME Init
  PROVE  TypeInv
<1>1. WorkInv
  BY DEF Init, WorkInv
<1>2. 0 \in 0..MaxRuns
  BY StoreAssumption
<1>3. /\ pool \in [Contents -> {"absent", "part", "whole"}]
      /\ pc \in [Programs -> {"off", "diff", "replace", "save", "load", "list", "saving",
                              "last", "zip"}]
      /\ job \in [Programs -> Main \cup {None}] /\ deviates \in [Programs -> BOOLEAN]
  BY DEF Init
<1>4. versionsgz.bad \in BOOLEAN /\ versionsgz.mixed \in BOOLEAN
  <2>1. versionsgz.bad = FALSE /\ versionsgz.mixed = FALSE
    BY DEF Init
  <2> QED BY <2>1
<1>5. /\ DOMAIN versionsgz.entries \subseteq Tags
      /\ \A r \in Programs : IsPackage(archive[r]) /\ work[r] \in Seq(Calls)
      /\ \A r \in Programs : DOMAIN versions[r] \subseteq Tags
  BY EmptyTypes DEF Init, Empty
<1>6. TypeOK
  BY <1>2, <1>3, <1>4, <1>5 DEF Init, TypeOK
<1> QED BY <1>1, <1>6, InitInv DEF TypeInv

LEMMA TypeStep ==
  ASSUME TypeInv, [Next]_vars
  PROVE  TypeInv'
<1>1. Inv'
  BY StepInv DEF TypeInv
<1>2. TypeOK'
  BY <1>1, PoolTypes, PackageTypes, WorkTypes, ListTypes, StreamTypes, DeviatesTypes, HistoryTypes
     DEF TypeOK, WorkType, Inv, FunctionInv, ListingInv, IsListing
<1> QED BY <1>1, <1>2, WorkTypes DEF TypeInv

\* In every reachable state the store, the lists the programs hold, the calls of
\* processRepo that are to come and what is sent are well-formed (BuildGit.cpp:225-395,
\* PoolArchive.cpp:66-157, Streamer.cpp:62-98).
THEOREM TypeCorrect == Spec => []TypeOK
<1>1. Init => TypeInv
  BY InitTypes
<1>2. TypeInv /\ [Next]_vars => TypeInv'
  BY TypeStep
<1>3. TypeInv => TypeOK
  BY DEF TypeInv
<1> QED BY <1>1, <1>2, <1>3, PTL DEF Spec
================================================================================
