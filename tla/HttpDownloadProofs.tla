--------------------------- MODULE HttpDownloadProofs --------------------------
(***************************************************************************)
(* The safety properties of HttpDownload, for any number of downloads,     *)
(* mirrors and versions of any lengths.                                    *)
(*                                                                         *)
(* The invariant has these parts beside the types: FilesInv (what stands   *)
(* on disk and in the .tmp under an open CFile), SlotsInv (which transfers *)
(* there are in which phase), CountInv (what the last count of running     *)
(* transfers says of them), TriedInv (how far the batch is), TurnsInv      *)
(* (which mirrors had their turn) and DigestInv (which digests are of the  *)
(* file, or will be when the batch has been verified).                     *)
(***************************************************************************)
EXTENDS HttpDownload, TLAPS, FiniteSetTheorems, WellFoundedInduction

FilesInv ==
  \A d \in Downloads :
    /\ file[d] = "open" /\ isnew[d] => disk[d] = NoFile /\ tmp[d] \in Content
    /\ file[d] = "open" /\ ~isnew[d] => tmp[d] = NoFile /\ disk[d] \in Content
    /\ disk[d] # NoFile => tmp[d] = NoFile

Pend == {"active", "ok", "failed"}

SlotsInv ==
  /\ pc = "idle" => slot = NoSlots
  /\ pc = "setup" => last = -1 /\ ~aborted
  /\ pc = "loop" => it = 1 /\ ~aborted
  /\ \A d \in Downloads :
       /\ slot[d] # "none" => d \in batch /\ file[d] # "null"
       /\ pc = "setup" => slot[d] = "none" \/ (slot[d] = "active" /\ d < it)
       /\ pc \in {"setup", "loop"} /\ slot[d] = "active" => state[d] # "FINISHED"

\* The last count is that of the transfers not yet seen to have ended, or none was taken.
CountInv ==
  /\ pc = "loop" => last = -1 \/ last = Cardinality(Slots(Pend))
  /\ pc \in {"verify", "cleanup"} /\ ~aborted => Slots(Pend) = {}

TriedInv ==
  pc \in {"setup", "loop", "verify", "cleanup"} =>
    \A d \in batch : (pc = "setup" => d < it) =>
      state[d] = "FINISHED" \/ slot[d] \in Pend \cup {"broken"}

\* Until every mirror has failed those that were asked are one turn ahead.
TurnsInv ==
  \A d \in Downloads :
    /\ \/ \A m \in Mirrors(d) : turn[d][m] = IF status[d][m] = "UNKNOWN" THEN 0 ELSE 1
       \/ \A m \in Mirrors(d) : status[d][m] # "UNKNOWN" /\ turn[d][m] = 0
    /\ slot[d] \in Pend => mirror[d] \in Mirrors(d) /\ status[d][mirror[d]] # "UNKNOWN"
    /\ \A m \in Mirrors(d) : maxspeed[d][m] > -1 => state[d] = "FINISHED"

Described(d) == \E n \in 1..Len(Cur(d)) : hash[d] = SubSeq(Cur(d), 1, n)

\* A finished download's digest is one of the file, or will be made one.
DigestInv ==
  \A d \in Hashed :
    /\ hash[d] # NoHash
    /\ state[d] = "FINISHED" /\ hash[d] # Unset /\ pc # "dead" =>
         \/ Described(d)
         \/ d \in batch /\ file[d] # "null" /\ (pc = "loop" \/ (pc = "verify" /\ it <= d))

DiskType ==
  /\ disk \in [Downloads -> Content \union {NoFile}] /\ tmp \in [Downloads -> Content \union {NoFile}]
  /\ mtime \in [Downloads -> 0..MaxVer] /\ ver \in Versions /\ abort \in BOOLEAN
DlType ==
  /\ state \in [Downloads -> {"NONE", "FINISHED"}]
  /\ hash \in [Downloads -> Content \union {NoHash, Unset}]
  /\ size \in [Downloads -> Lengths \union {-1}]
MirrorType ==
  /\ DOMAIN status = Downloads /\ DOMAIN maxspeed = Downloads
  /\ DOMAIN turn = Downloads /\ DOMAIN mirror = Downloads
  /\ \A d \in Downloads :
       /\ status[d] \in [Mirrors(d) -> {"BROKEN", "OK", "UNKNOWN"}]
       /\ maxspeed[d] \in [Mirrors(d) -> {-1, 0}]
       /\ turn[d] \in [Mirrors(d) -> Nat] /\ mirror[d] \in 0..MirrorCount[d]
FileType ==
  /\ file \in [Downloads -> {"null", "open", "closed"}] /\ isnew \in [Downloads -> BOOLEAN]
  /\ fsize \in [Downloads -> Lengths \union {-1}] /\ curpos \in [Downloads -> Lengths]
  /\ stamp \in [Downloads -> 0..MaxVer]
SlotType ==
  /\ slot \in [Downloads -> {"none", "active", "ok", "failed", "done", "broken"}]
  /\ ifmodified \in [Downloads -> BOOLEAN] /\ served \in [Downloads -> 0..MaxVer]
LoopType ==
  /\ batch \in SUBSET Downloads /\ ret \in {"none", "true", "false"}
  /\ pc \in {"idle", "setup", "loop", "verify", "cleanup", "dead"}
  /\ it \in 1..(N + 1) /\ running \in 0..(N + 1) /\ last \in -1..N /\ aborted \in BOOLEAN

\* TypeOK, and that the records of the mirrors are functions.
TypeInv == DiskType /\ DlType /\ MirrorType /\ FileType /\ SlotType /\ LoopType

IInv == TypeInv /\ FilesInv /\ SlotsInv /\ CountInv /\ TriedInv /\ TurnsInv /\ DigestInv

----------------------------------------------------------------------------
(* Contents *)

LEMMA Least ==
  ASSUME NEW S \in SUBSET Nat, S # {}
  PROVE  \E m \in S : \A k \in S : m <= k
<1> DEFINE R == {ss \in Nat \X Nat : ss[1] < ss[2]}
<1>1. IsWellFoundedOn(R, Nat)
  BY NatLessThanWellFounded DEF OpToRel
<1>2. PICK m \in S : \A k \in S : ~(<<k, m>> \in R)
  BY <1>1, WFMin
<1>3. \A k \in S : ~(k < m)
  BY <1>2
<1> QED BY <1>3

LEMMA LengthFacts ==
  /\ MaxVer \in Nat \ {0}
  /\ \A v \in Versions : BodyLen[v] \in Nat \ {0}
  /\ \A n \in Lengths : n \in Nat /\ \A k \in 0..n : k \in Lengths
  /\ \A v \in Versions : \A k \in 0..BodyLen[v] : k \in Lengths
  /\ 0 \in Lengths
<1>1. MaxVer \in Nat \ {0} /\ \A v \in Versions : BodyLen[v] \in Nat \ {0}
  BY HttpAssumption DEF MaxVer, Versions
<1>2. \A n \in Lengths : \E v \in Versions : n \in 0..BodyLen[v]
  BY DEF Lengths
<1>3. \A v \in Versions : \A k \in 0..BodyLen[v] : k \in Lengths
  BY DEF Lengths
<1>4. \A n \in Lengths : n \in Nat /\ \A k \in 0..n : k \in Lengths
  <2> SUFFICES ASSUME NEW n \in Lengths PROVE n \in Nat /\ \A k \in 0..n : k \in Lengths
    OBVIOUS
  <2>1. PICK v \in Versions : n \in 0..BodyLen[v]
    BY <1>2
  <2> QED BY <1>1, <1>3, <2>1
<1>5. 0 \in Lengths
  <2>1. 1 \in Versions
    BY <1>1 DEF Versions
  <2> QED BY <1>1, <1>3, <2>1
<1> QED BY <1>1, <1>3, <1>4, <1>5

LEMMA SeqFacts ==
  ASSUME NEW S
  PROVE  /\ \A n \in Nat : \A c \in [1..n -> S] : c \in Seq(S) /\ Len(c) = n
         /\ \A c \in Seq(S) :
              /\ c \in [1..Len(c) -> S]
              /\ \A v \in S : Append(c, v) \in [1..(Len(c) + 1) -> S]
              /\ \A n \in 1..Len(c) : SubSeq(c, 1, n) \in [1..n -> S]
<1>1. \A n \in Nat : \A c \in [1..n -> S] : c \in Seq(S) /\ Len(c) = n
  OBVIOUS
<1>2. \A c \in Seq(S) : c \in [1..Len(c) -> S]
  OBVIOUS
<1>3. ASSUME NEW c \in Seq(S), NEW v \in S
      PROVE  Append(c, v) \in [1..(Len(c) + 1) -> S]
  <2>1. Append(c, v) \in Seq(S) /\ Len(Append(c, v)) = Len(c) + 1
    OBVIOUS
  <2> QED BY <1>2, <2>1
<1>4. ASSUME NEW c \in Seq(S), NEW n \in 1..Len(c)
      PROVE  SubSeq(c, 1, n) \in [1..n -> S]
  <2>1. SubSeq(c, 1, n) \in Seq(S) /\ Len(SubSeq(c, 1, n)) = n
    OBVIOUS
  <2> QED BY <1>2, <2>1
<1> QED BY <1>1, <1>2, <1>3, <1>4

LEMMA ContentFacts ==
  /\ \A c \in Content : /\ c \in Seq(0..MaxVer) /\ Len(c) \in Lengths /\ Len(c) \in Nat
                        /\ DOMAIN c = 1..Len(c) /\ \A i \in 1..Len(c) : c[i] \in 0..MaxVer
  /\ \A n \in Lengths : \A c \in [1..n -> 0..MaxVer] : c \in Content
  /\ <<>> \in Content
  /\ \A v \in Versions : Body(v) \in Content
<1>1. \A n \in Lengths : \A c \in [1..n -> 0..MaxVer] : c \in Content
  BY DEF Content
<1>2. ASSUME NEW c \in Content
      PROVE  /\ c \in Seq(0..MaxVer) /\ Len(c) \in Lengths /\ Len(c) \in Nat
             /\ DOMAIN c = 1..Len(c) /\ \A i \in 1..Len(c) : c[i] \in 0..MaxVer
  <2>1. PICK n \in Lengths : c \in [1..n -> 0..MaxVer]
    BY DEF Content
  <2>2. n \in Nat
    BY LengthFacts
  <2>3. c \in Seq(0..MaxVer) /\ Len(c) = n
    BY <2>1, <2>2, SeqFacts
  <2> QED BY <2>1, <2>2, <2>3
<1>3. <<>> \in Content
  <2>1. <<>> \in [1..0 -> 0..MaxVer]
    OBVIOUS
  <2> QED BY <1>1, <2>1, LengthFacts
<1>4. ASSUME NEW v \in Versions PROVE Body(v) \in Content
  <2>1. BodyLen[v] \in Lengths
    BY LengthFacts
  <2>2. Body(v) \in [1..BodyLen[v] -> 0..MaxVer]
    BY LengthFacts DEF Body, Versions
  <2> QED BY <1>1, <2>1, <2>2
<1> QED BY <1>1, <1>2, <1>3, <1>4

LEMMA OverwriteContent ==
  ASSUME NEW c \in Content, NEW v \in Versions, NEW i \in Nat, i < BodyLen[v]
  PROVE  Overwrite(c, i, v) \in Content
<1>1. /\ c \in Seq(0..MaxVer) /\ Len(c) \in Lengths /\ Len(c) \in Nat /\ DOMAIN c = 1..Len(c)
      /\ v \in 0..MaxVer /\ BodyLen[v] \in Nat
  BY ContentFacts, LengthFacts DEF Versions
<1>2. CASE i < Len(c)
  <2>1. Overwrite(c, i, v) \in [1..Len(c) -> 0..MaxVer]
    <3>1. c \in [1..Len(c) -> 0..MaxVer] /\ Overwrite(c, i, v) = [c EXCEPT ![i + 1] = v]
      BY <1>1, <1>2, SeqFacts DEF Overwrite
    <3> QED BY <1>1, <3>1
  <2> QED BY <1>1, <2>1, ContentFacts
<1>3. CASE ~(i < Len(c))
  <2>1. Len(c) + 1 \in Lengths
    <3>1. Len(c) + 1 \in 0..BodyLen[v]
      BY <1>1, <1>3
    <3> QED BY <3>1, LengthFacts
  <2>2. Append(c, v) \in [1..(Len(c) + 1) -> 0..MaxVer]
    BY <1>1, SeqFacts
  <2> QED BY <1>3, <2>1, <2>2, ContentFacts DEF Overwrite
<1> QED BY <1>2, <1>3

LEMMA ResizeContent ==
  ASSUME NEW c \in Content, NEW n \in Lengths
  PROVE  Resize(c, n) \in Content
<1>1. \A i \in 1..Len(c) : c[i] \in 0..MaxVer
  BY ContentFacts
<1>2. Resize(c, n) \in [1..n -> 0..MaxVer]
  BY <1>1, LengthFacts DEF Resize
<1> QED BY <1>2, ContentFacts

\* What CFile::Hash makes of an open file, or of none.
LEMMA DigestFacts ==
  ASSUME TypeInv, NEW d \in Downloads, Cur(d) \in Content
  PROVE  /\ Digest(d) \in Content \cup {Unset}
         /\ Digest(d) # Unset => \E n \in 1..Len(Cur(d)) : Digest(d) = SubSeq(Cur(d), 1, n)
<1> DEFINE c == Cur(d)
           n == IF fsize[d] < 0 THEN Len(c) ELSE fsize[d]
<1>1. c \in Seq(0..MaxVer) /\ Len(c) \in Lengths /\ Len(c) \in Nat
  BY ContentFacts
<1>2. fsize[d] \in Lengths \cup {-1}
  BY DEF TypeInv, FileType
<1>3. n \in Nat
  BY <1>1, <1>2, LengthFacts
<1>4. Digest(d) = IF n = 0 \/ n > Len(c) THEN Unset ELSE SubSeq(c, 1, n)
  BY DEF Digest
<1> HIDE DEF c, n
<1>5. CASE n = 0 \/ n > Len(c)
  BY <1>4, <1>5
<1>6. CASE ~(n = 0 \/ n > Len(c))
  <2>1. n \in 1..Len(c) /\ n \in Lengths
    BY <1>1, <1>3, <1>6, LengthFacts
  <2>2. SubSeq(c, 1, n) \in [1..n -> 0..MaxVer]
    BY <1>1, <2>1, SeqFacts
  <2>3. SubSeq(c, 1, n) \in Content
    BY <2>1, <2>2, ContentFacts
  <2> QED BY <1>4, <1>6, <2>1, <2>3 DEF c
<1> QED BY <1>5, <1>6

----------------------------------------------------------------------------
(* Mirrors *)

\* getFastestMirror chooses one that was not tried, if there is one, and is at
\* its beginning again after all have failed.
LEMMA FastestFacts ==
  ASSUME TypeInv, NEW d \in Downloads, MirrorCount[d] > 0
  PROVE  LET c == GetFastestMirror(d) IN
         /\ c.mirror \in Mirrors(d) /\ c.status \in [Mirrors(d) -> {"BROKEN", "OK", "UNKNOWN"}]
         /\ c.status[c.mirror] # "UNKNOWN" \/ \E m \in Mirrors(d) : maxspeed[d][m] > -1
         /\ (\E m \in Mirrors(d) : status[d][m] = "UNKNOWN") =>
              /\ status[d][c.mirror] = "UNKNOWN"
              /\ c.status = [status[d] EXCEPT ![c.mirror] = "OK"]
         /\ (\A m \in Mirrors(d) : status[d][m] # "UNKNOWN" /\ ~(maxspeed[d][m] > -1)) =>
              /\ c.mirror = 1
              /\ c.status = [m \in Mirrors(d) |-> IF m = 1 THEN "OK" ELSE "UNKNOWN"]
<1> DEFINE unknown == {m \in Mirrors(d) : status[d][m] = "UNKNOWN"}
           measured == {m \in Mirrors(d) : status[d][m] # "BROKEN" /\ maxspeed[d][m] > -1}
           First(M) == CHOOSE m \in M : \A k \in M : m <= k
           fastest == {m \in measured : \A k \in measured : maxspeed[d][k] <= maxspeed[d][m]}
           c == GetFastestMirror(d)
<1>1. /\ MirrorCount[d] \in Nat \ {0} /\ Mirrors(d) = 1..MirrorCount[d] /\ 1 \in Mirrors(d)
      /\ status[d] \in [Mirrors(d) -> {"BROKEN", "OK", "UNKNOWN"}]
      /\ maxspeed[d] \in [Mirrors(d) -> {-1, 0}]
  BY HttpAssumption DEF Mirrors, TypeInv, MirrorType
<1>2. ASSUME NEW M \in SUBSET Mirrors(d), M # {}
      PROVE  First(M) \in M
  <2>1. M \in SUBSET Nat
    BY <1>1
  <2>2. \E m \in M : \A k \in M : m <= k
    BY <1>2, <2>1, Least
  <2> QED BY <2>2
<1>3. c = IF unknown # {}
            THEN [mirror |-> First(unknown), status |-> [status[d] EXCEPT ![First(unknown)] = "OK"]]
          ELSE IF measured # {} THEN [mirror |-> First(fastest), status |-> status[d]]
          ELSE [mirror |-> 1, status |-> [m \in Mirrors(d) |-> IF m = 1 THEN "OK" ELSE "UNKNOWN"]]
  BY DEF GetFastestMirror
<1> HIDE DEF c
<1>4. CASE unknown # {}
  <2>1. First(unknown) \in unknown
    BY <1>2, <1>4
  <2> HIDE DEF First
  <2>2. c.mirror = First(unknown) /\ c.status = [status[d] EXCEPT ![First(unknown)] = "OK"]
    BY <1>3, <1>4
  <2> QED BY <1>1, <1>4, <2>1, <2>2 DEF c
<1>5. CASE unknown = {} /\ measured # {}
  <2>1. measured \subseteq fastest
    <3>1. \A m \in measured : maxspeed[d][m] = 0
      BY <1>1
    <3> QED BY <3>1
  <2>2. First(fastest) \in fastest
    <3>1. fastest \in SUBSET Mirrors(d) /\ fastest # {}
      BY <1>5, <2>1
    <3> HIDE DEF fastest
    <3> QED BY <1>2, <3>1
  <2> HIDE DEF First
  <2>3. c.mirror = First(fastest) /\ c.status = status[d]
    BY <1>3, <1>5
  <2> QED BY <1>1, <1>5, <2>2, <2>3 DEF c
<1>6. CASE unknown = {} /\ measured = {}
  <2>1. c.mirror = 1 /\ c.status = [m \in Mirrors(d) |-> IF m = 1 THEN "OK" ELSE "UNKNOWN"]
    BY <1>3, <1>6
  <2> QED BY <1>1, <1>6, <2>1 DEF c
<1> QED BY <1>4, <1>5, <1>6

LEMMA UsedFacts ==
  ASSUME TypeInv, NEW d \in Downloads, NEW m \in Mirrors(d)
  PROVE  Used(d, m) \in [Mirrors(d) -> Nat]
<1> DEFINE t == [turn[d] EXCEPT ![m] = turn[d][m] + 1]
<1>1. t \in [Mirrors(d) -> Nat]
  BY DEF TypeInv, MirrorType
<1>2. (\A k \in Mirrors(d) : t[k] > 0) => [k \in Mirrors(d) |-> t[k] - 1] \in [Mirrors(d) -> Nat]
  BY <1>1
<1> HIDE DEF t
<1>3. Used(d, m) = IF \A k \in Mirrors(d) : t[k] > 0 THEN [k \in Mirrors(d) |-> t[k] - 1] ELSE t
  BY DEF Used, t
<1> QED BY <1>1, <1>2, <1>3

----------------------------------------------------------------------------
(* Types *)

USE DEF diskVars, envVars, dlVars, mirrorVars, fileVars, slotVars, loopVars

LEMMA CurContent ==
  ASSUME FilesInv, NEW d \in Downloads, file[d] = "open"
  PROVE  Cur(d) \in Content
BY DEF FilesInv, Cur

LEMMA NewTypes ==
  ASSUME TypeInv, NewDownloads
  PROVE  DlType' /\ FileType' /\ (mirror' \in [Downloads -> {0}] \/ mirror' = mirror => MirrorType')
<1>1. Body(ver) \in Content /\ BodyLen[ver] \in Lengths
  <2>1. ver \in Versions
    BY DEF TypeInv, DiskType
  <2>2. BodyLen[ver] \in 0..BodyLen[ver]
    BY <2>1, LengthFacts
  <2> QED BY <2>1, <2>2, ContentFacts, LengthFacts
<1>2. DlType'
  BY <1>1 DEF NewDownloads, DlType
<1>3. FileType'
  BY LengthFacts DEF NewDownloads, FileType
<1>4. mirror' \in [Downloads -> {0}] \/ mirror' = mirror => MirrorType'
  BY HttpAssumption DEF NewDownloads, MirrorType, TypeInv
<1> QED BY <1>2, <1>3, <1>4

LEMMA LoopBounds ==
  /\ N \in Nat \ {0} /\ 1 \in 1..(N + 1) /\ 0 \in 0..(N + 1) /\ 1 \in 0..(N + 1) /\ -1 \in -1..N
  /\ {} \in SUBSET Downloads /\ FALSE \in BOOLEAN
  /\ 0 \in 0..MaxVer /\ 1 \in 0..MaxVer
<1>1. /\ N \in Nat \ {0} /\ 1 \in 1..(N + 1) /\ 0 \in 0..(N + 1) /\ 1 \in 0..(N + 1) /\ -1 \in -1..N
      /\ 0 \in 0..MaxVer /\ 1 \in 0..MaxVer
  BY HttpAssumption, LengthFacts
<1> QED BY <1>1

LEMMA EndTypes ==
  ASSUME EndCall
  PROVE  /\ SlotType' /\ mirror' \in [Downloads -> {0}]
         /\ (ret' \in {"none", "true", "false"} => LoopType')
<1>1. SlotType' /\ mirror' \in [Downloads -> {0}]
  BY LengthFacts DEF EndCall, NoSlots, SlotType
<1>2. ret' \in {"none", "true", "false"} => LoopType'
  BY LoopBounds DEF EndCall, LoopType
<1> QED BY <1>1, <1>2

LEMMA InitTypes == Init => TypeInv
<1> SUFFICES ASSUME Init PROVE TypeInv
  OBVIOUS
<1>1. 1 \in Versions /\ Body(1) \in Content /\ BodyLen[1] \in Lengths
  <2>1. 1 \in Versions
    BY LengthFacts DEF Versions
  <2>2. BodyLen[1] \in 0..BodyLen[1]
    BY <2>1, LengthFacts
  <2> QED BY <2>1, <2>2, ContentFacts, LengthFacts
<1>2. DiskType
  <2>1. disk \in [Downloads -> Content \union {NoFile}] /\ tmp \in [Downloads -> Content \union {NoFile}]
    BY <1>1 DEF Init
  <2>2. mtime \in [Downloads -> 0..MaxVer]
    BY LoopBounds DEF Init
  <2> QED BY <1>1, <2>1, <2>2, LoopBounds DEF Init, DiskType
<1>3. DlType
  BY <1>1 DEF Init, DlType
<1>4. MirrorType
  BY HttpAssumption DEF Init, MirrorType
<1>5. FileType /\ SlotType
  BY LengthFacts DEF Init, FileType, SlotType, NoSlots
<1>6. LoopType
  BY LoopBounds DEF Init, LoopType
<1> QED BY <1>2, <1>3, <1>4, <1>5, <1>6 DEF TypeInv

\* How many transfers can run.
LEMMA SlotCount ==
  ASSUME NEW s
  PROVE  /\ IsFiniteSet(Slots(s)) /\ Cardinality(Slots(s)) \in 0..N
         /\ (Cardinality(Slots(s)) = 0 <=> Slots(s) = {})
<1>1. IsFiniteSet(Downloads) /\ Cardinality(Downloads) = N
  <2>1. IsFiniteSet(1..N) /\ Cardinality(1..N) = IF 1 > N THEN 0 ELSE N - 1 + 1
    <3>1. 1 \in Int /\ N \in Int
      BY HttpAssumption
    <3> QED BY <3>1, FS_Interval
  <2> QED BY <2>1, HttpAssumption DEF Downloads
<1>2. Slots(s) \in SUBSET Downloads
  BY DEF Slots
<1>3. IsFiniteSet(Slots(s)) /\ Cardinality(Slots(s)) <= N
  BY <1>1, <1>2, FS_Subset
<1>4. Cardinality(Slots(s)) \in Nat
  BY <1>3, FS_CardinalityType
<1> QED BY <1>3, <1>4, HttpAssumption, FS_EmptySet

LEMMA ProcessTypes ==
  ASSUME TypeInv, TurnsInv, ProcessMessages
  PROVE  /\ state' \in [Downloads -> {"NONE", "FINISHED"}]
         /\ slot' \in [Downloads -> {"none", "active", "ok", "failed", "done", "broken"}]
         /\ DOMAIN status' = Downloads /\ DOMAIN maxspeed' = Downloads
         /\ \A d \in Downloads : /\ status'[d] \in [Mirrors(d) -> {"BROKEN", "OK", "UNKNOWN"}]
                                 /\ maxspeed'[d] \in [Mirrors(d) -> {-1, 0}]
<1>1. state' \in [Downloads -> {"NONE", "FINISHED"}]
  BY DEF ProcessMessages, TypeInv, DlType
<1>2. slot' \in [Downloads -> {"none", "active", "ok", "failed", "done", "broken"}]
  BY DEF ProcessMessages, TypeInv, SlotType
<1>3. DOMAIN status' = Downloads /\ DOMAIN maxspeed' = Downloads
  BY DEF ProcessMessages
<1>4. ASSUME NEW d \in Downloads
      PROVE  /\ status'[d] \in [Mirrors(d) -> {"BROKEN", "OK", "UNKNOWN"}]
             /\ maxspeed'[d] \in [Mirrors(d) -> {-1, 0}]
  BY DEF ProcessMessages, TypeInv, MirrorType
<1> QED BY <1>1, <1>2, <1>3, <1>4

LEMMA SetupTypes ==
  ASSUME TypeInv, FilesInv, NEW d \in Downloads,
         SetupFails(d) \/ OpenFile(d) \/ SetupFinds(d) \/ SetupDownload(d)
  PROVE  TypeInv'
<1>1. CASE SetupFails(d)
  <2>1. MirrorType'
    BY <1>1, EndTypes, HttpAssumption DEF SetupFails, TypeInv, MirrorType
  <2>2. SlotType' /\ LoopType'
    BY <1>1, EndTypes DEF SetupFails
  <2> QED BY <1>1, <2>1, <2>2 DEF SetupFails, TypeInv, DiskType, DlType, FileType
<1>2. CASE OpenFile(d)
  <2>1. disk[d] # NoFile /\ size[d] > 0 => Resize(disk[d], size[d]) \in Content
    BY ResizeContent DEF TypeInv, DiskType, DlType
  <2>2. disk' \in [Downloads -> Content \union {NoFile}]
    BY <1>2, <2>1 DEF OpenFile, TypeInv, DiskType
  <2>3. tmp' \in [Downloads -> Content \union {NoFile}]
    BY <1>2, ContentFacts DEF OpenFile, TypeInv, DiskType
  <2>4. mtime' \in [Downloads -> 0..MaxVer] /\ ver' \in Versions /\ abort' \in BOOLEAN
    BY <1>2 DEF OpenFile, TypeInv, DiskType, Versions
  <2>5. FileType'
    <3>1. isnew' \in [Downloads -> BOOLEAN]
      BY <1>2 DEF OpenFile, TypeInv, FileType
    <3>2. fsize' \in [Downloads -> Lengths \union {-1}]
      BY <1>2 DEF OpenFile, TypeInv, FileType, DlType
    <3>3. stamp' \in [Downloads -> 0..MaxVer]
      BY <1>2, LengthFacts DEF OpenFile, TypeInv, FileType, DiskType
    <3> QED BY <1>2, <3>1, <3>2, <3>3, LengthFacts DEF OpenFile, TypeInv, FileType
  <2> QED BY <1>2, <2>2, <2>3, <2>4, <2>5 DEF OpenFile, TypeInv, DiskType, DlType, MirrorType, SlotType, LoopType
<1>3. CASE SetupFinds(d)
  <2>1. CASE file[d] = "closed"
    BY <1>3, <2>1 DEF SetupFinds, Die, TypeInv, DiskType, DlType, MirrorType, FileType, SlotType, LoopType
  <2>2. CASE file[d] # "closed"
    <3>1. it' \in 1..(N + 1)
      BY <1>3, <2>2, HttpAssumption DEF SetupFinds, Pending, Downloads
    <3> QED BY <1>3, <2>2, <3>1 DEF SetupFinds, TypeInv, DiskType, DlType, MirrorType, FileType, SlotType, LoopType
  <2> QED BY <2>1, <2>2
<1>4. CASE SetupDownload(d)
  <2> DEFINE c == GetFastestMirror(d)
  <2>1. /\ Pending(d) /\ MirrorCount[d] > 0
        /\ size' = [size EXCEPT ![d] = IF fsize[d] >= 0 THEN fsize[d]
                                       ELSE IF file[d] = "open" THEN Len(Cur(d)) ELSE -1]
        /\ status' = [status EXCEPT ![d] = c.status]
        /\ turn' = [turn EXCEPT ![d] = Used(d, c.mirror)]
        /\ mirror' = [mirror EXCEPT ![d] = c.mirror]
        /\ slot' = [slot EXCEPT ![d] = "active"]
        /\ ifmodified' = [ifmodified EXCEPT ![d] = hash[d] = NoHash]
        /\ served' = [served EXCEPT ![d] = 0] /\ it' = it + 1
        /\ UNCHANGED <<diskVars, envVars, state, hash, maxspeed, fileVars, batch,
                       ret, pc, running, last, aborted>>
    BY <1>4 DEF SetupDownload
  <2>2. c.mirror \in Mirrors(d) /\ c.status \in [Mirrors(d) -> {"BROKEN", "OK", "UNKNOWN"}]
    BY <2>1, FastestFacts
  <2>3. MirrorType'
    <3> HIDE DEF c
    <3>1. Used(d, c.mirror) \in [Mirrors(d) -> Nat]
      BY <2>2, UsedFacts
    <3>2. c.mirror \in 0..MirrorCount[d]
      BY <2>2, HttpAssumption DEF Mirrors
    <3> QED BY <2>1, <2>2, <3>1, <3>2 DEF TypeInv, MirrorType
  <2>4. DlType'
    <3>1. file[d] = "open" => Len(Cur(d)) \in Lengths
      BY CurContent, ContentFacts
    <3> QED BY <2>1, <3>1 DEF TypeInv, DlType, FileType
  <2>5. SlotType'
    <3>1. ifmodified' \in [Downloads -> BOOLEAN]
      BY <2>1 DEF TypeInv, SlotType
    <3> QED BY <2>1, <3>1, LengthFacts DEF TypeInv, SlotType
  <2>6. LoopType'
    <3>1. it' \in 1..(N + 1)
      BY <2>1, HttpAssumption DEF Pending, Downloads
    <3> QED BY <2>1, <3>1 DEF TypeInv, LoopType
  <2> QED BY <2>1, <2>3, <2>4, <2>5, <2>6 DEF TypeInv, DiskType, FileType
<1> QED BY <1>1, <1>2, <1>3, <1>4

LEMMA TransferTypes ==
  ASSUME TypeInv, FilesInv, SlotsInv, NEW d \in Downloads, Transfer(d)
  PROVE  TypeInv'
<1>1. CASE Answer(d)
  <2>1. served' \in [Downloads -> 0..MaxVer]
    <3>1. ver \in 0..MaxVer
      BY LengthFacts DEF TypeInv, DiskType, Versions
    <3> QED BY <1>1, <3>1 DEF Answer, TypeInv, SlotType
  <2>2. slot' \in [Downloads -> {"none", "active", "ok", "failed", "done", "broken"}]
    BY <1>1 DEF Answer, TypeInv, SlotType
  <2> QED BY <1>1, <2>1, <2>2 DEF Answer, TypeInv, DiskType, DlType, MirrorType, FileType, SlotType, LoopType
<1>2. CASE Write(d)
  <2>1. CASE file[d] = "closed"
    BY <1>2, <2>1 DEF Write, Die, TypeInv, DiskType, DlType, MirrorType, FileType, SlotType, LoopType
  <2>2. CASE file[d] # "closed"
    <3>1. file[d] = "open" /\ served[d] \in Versions /\ curpos[d] \in Nat /\ curpos[d] < BodyLen[served[d]]
      <4>1. file[d] = "open" /\ served[d] \in 0..MaxVer /\ served[d] # 0 /\ curpos[d] \in Lengths
            /\ curpos[d] < BodyLen[served[d]]
        BY <1>2, <2>2 DEF Write, TypeInv, FileType, SlotType, SlotsInv
      <4> QED BY <4>1, LengthFacts DEF Versions
    <3> DEFINE c == Overwrite(Cur(d), curpos[d], served[d])
    <3>2. c \in Content
      BY <3>1, CurContent, OverwriteContent
    <3>3. /\ IF isnew[d] THEN tmp' = [tmp EXCEPT ![d] = c] /\ UNCHANGED disk
                         ELSE disk' = [disk EXCEPT ![d] = c] /\ UNCHANGED tmp
          /\ mtime' = [mtime EXCEPT ![d] = ver]
          /\ curpos' = [curpos EXCEPT ![d] = curpos[d] + 1]
          /\ UNCHANGED <<envVars, dlVars, mirrorVars, file, fsize, isnew, stamp,
                         slotVars, batch, ret, pc, loopVars>>
      BY <1>2, <2>2 DEF Write
    <3> HIDE DEF c
    <3>4. DiskType'
      <4>1. ver \in 0..MaxVer
        BY LengthFacts DEF TypeInv, DiskType, Versions
      <4> QED BY <3>2, <3>3, <4>1 DEF TypeInv, DiskType
    <3>5. curpos[d] + 1 \in Lengths
      <4>1. curpos[d] + 1 \in 0..BodyLen[served[d]]
        BY <3>1, LengthFacts
      <4> QED BY <3>1, <4>1, LengthFacts
    <3> QED BY <3>3, <3>4, <3>5 DEF TypeInv, DlType, MirrorType, FileType, SlotType, LoopType
  <2> QED BY <2>1, <2>2
<1>3. CASE \E res \in {"ok", "failed"} : Finish(d, res)
  BY <1>3 DEF Finish, TypeInv, DiskType, DlType, MirrorType, FileType, SlotType, LoopType
<1> QED BY <1>1, <1>2, <1>3 DEF Transfer

LEMMA PerformTypes ==
  ASSUME TypeInv, TurnsInv, Perform
  PROVE  TypeInv'
<1> DEFINE r == Cardinality(Slots({"active"}))
<1>1. r \in 0..N
  BY SlotCount
<1> HIDE DEF r
<1>2. /\ \/ last # r /\ ProcessMessages /\ last' = r /\ running' = r + 1
         \/ running' = r /\ UNCHANGED <<state, slot, status, maxspeed, last>>
      /\ pc' \in {"loop", "verify"}
      /\ UNCHANGED <<diskVars, envVars, hash, size, turn, fileVars, mirror,
                     ifmodified, served, batch, ret, it, aborted>>
  BY DEF Perform, r
<1>3. last' \in -1..N /\ running' \in 0..(N + 1)
  BY <1>1, <1>2, HttpAssumption DEF TypeInv, LoopType
<1>4. /\ state' \in [Downloads -> {"NONE", "FINISHED"}]
      /\ slot' \in [Downloads -> {"none", "active", "ok", "failed", "done", "broken"}]
      /\ DOMAIN status' = Downloads /\ DOMAIN maxspeed' = Downloads
      /\ \A d \in Downloads : /\ status'[d] \in [Mirrors(d) -> {"BROKEN", "OK", "UNKNOWN"}]
                              /\ maxspeed'[d] \in [Mirrors(d) -> {-1, 0}]
  <2>1. CASE ProcessMessages
    BY <2>1, ProcessTypes
  <2>2. CASE UNCHANGED <<state, slot, status, maxspeed, last>>
    BY <2>2 DEF TypeInv, DlType, SlotType, MirrorType
  <2> QED BY <1>2, <2>1, <2>2
<1> QED BY <1>2, <1>3, <1>4 DEF TypeInv, DiskType, DlType, MirrorType, FileType, SlotType, LoopType

LEMMA VerifyTypes ==
  ASSUME TypeInv, FilesInv, NEW d \in Downloads, Verify(d)
  PROVE  TypeInv'
<1>1. CASE file[d] = "closed"
  BY <1>1 DEF Verify, Die, TypeInv, DiskType, DlType, MirrorType, FileType, SlotType, LoopType
<1>2. CASE file[d] # "closed"
  <2>1. /\ hash' = [hash EXCEPT ![d] = Digest(d)]
        /\ state' = IF Digest(d) = Unset THEN state ELSE [state EXCEPT ![d] = "FINISHED"]
        /\ it' = it + 1 /\ d = it
        /\ UNCHANGED <<diskVars, envVars, size, mirrorVars, fileVars,
                       slotVars, batch, ret, pc, running, last, aborted>>
    BY <1>2 DEF Verify
  <2>2. Digest(d) \in Content \cup {Unset}
    <3>1. file[d] = "open"
      BY <1>2 DEF Verify, TypeInv, FileType
    <3> QED BY <3>1, CurContent, DigestFacts
  <2>3. it' \in 1..(N + 1)
    BY <2>1, HttpAssumption DEF Downloads
  <2> QED BY <2>1, <2>2, <2>3 DEF TypeInv, DiskType, DlType, MirrorType, FileType, SlotType, LoopType
<1> QED BY <1>1, <1>2

LEMMA CloseTypes ==
  ASSUME TypeInv, NEW D \in SUBSET Downloads, Close(D)
  PROVE  disk' \in [Downloads -> Content \union {NoFile}] /\ tmp' \in [Downloads -> Content \union {NoFile}]
BY DEF Close, TypeInv, DiskType

LEMMA CleanupTypes ==
  ASSUME TypeInv, CleanupDownloads
  PROVE  TypeInv'
<1>1. /\ Close(batch) /\ EndCall /\ ret' = IF aborted THEN "false" ELSE "true"
      /\ UNCHANGED <<envVars, dlVars, mirrorVars, fsize, stamp, curpos>>
      /\ isnew' = [d \in Downloads |-> isnew[d] /\ d \notin batch]
      /\ batch \in SUBSET Downloads
  BY DEF CleanupDownloads, TypeInv, LoopType
<1>2. mtime' \in [Downloads -> 0..MaxVer]
  <2>1. \A d \in Downloads : mtime[d] \in 0..MaxVer /\ served[d] \in 0..MaxVer /\ (served[d] # 0 => served[d] - 1 \in 0..MaxVer)
    BY LengthFacts DEF TypeInv, DiskType, SlotType
  <2> QED BY <2>1 DEF CleanupDownloads
<1>3. DiskType'
  BY <1>1, <1>2, CloseTypes DEF TypeInv, DiskType
<1>4. FileType'
  <2>1. file' \in [Downloads -> {"null", "open", "closed"}]
    BY DEF CleanupDownloads, TypeInv, FileType
  <2>2. isnew' \in [Downloads -> BOOLEAN]
    BY <1>1
  <2> QED BY <1>1, <2>1, <2>2 DEF TypeInv, FileType
<1>5. MirrorType'
  BY <1>1, EndTypes, HttpAssumption DEF TypeInv, MirrorType
<1>6. SlotType' /\ LoopType'
  BY <1>1, EndTypes
<1> QED BY <1>1, <1>3, <1>4, <1>5, <1>6 DEF TypeInv, DlType

\* The other steps change little.
LEMMA OtherTypes ==
  ASSUME TypeInv,
         \/ \E b \in SUBSET Downloads : Call(b)
         \/ SetupSkip \/ SetupDone \/ VerifySkip \/ VerifyDone \/ PerformFails
         \/ Search \/ Publish \/ SetAbortDownloads \/ Crash
  PROVE  TypeInv'
<1>1. CASE \E b \in SUBSET Downloads : Call(b)
  <2>1. LoopType'
    BY <1>1, LoopBounds DEF Call, TypeInv, LoopType
  <2> QED BY <1>1, <2>1 DEF Call, TypeInv, DiskType, DlType, MirrorType, FileType, SlotType
<1>2. CASE SetupSkip \/ VerifySkip
  <2>1. it' \in 1..(N + 1)
    BY <1>2, LoopBounds DEF SetupSkip, VerifySkip, TypeInv, LoopType
  <2> QED BY <1>2, <2>1 DEF SetupSkip, VerifySkip, TypeInv, DiskType, DlType, MirrorType, FileType, SlotType, LoopType
<1>3. CASE SetupDone \/ VerifyDone \/ PerformFails
  <2>1. LoopType'
    BY <1>3, LoopBounds DEF SetupDone, VerifyDone, PerformFails, TypeInv, LoopType
  <2> QED BY <1>3, <2>1 DEF SetupDone, VerifyDone, PerformFails, TypeInv, DiskType, DlType, MirrorType, FileType, SlotType
<1>4. CASE Search
  <2>1. DlType' /\ FileType' /\ MirrorType'
    BY <1>4, NewTypes DEF Search
  <2>2. DiskType'
    BY <1>4, CloseTypes DEF Search, TypeInv, DiskType
  <2> QED BY <1>4, <2>1, <2>2 DEF Search, TypeInv, SlotType, LoopType
<1>5. CASE Publish \/ SetAbortDownloads
  <2>1. DiskType'
    <3>1. ver' \in Versions
      BY <1>5, LengthFacts DEF Publish, SetAbortDownloads, TypeInv, DiskType, Versions
    <3>2. abort' \in BOOLEAN
      BY <1>5 DEF Publish, SetAbortDownloads, TypeInv, DiskType
    <3> QED BY <1>5, <3>1, <3>2 DEF Publish, SetAbortDownloads, TypeInv, DiskType
  <2> QED BY <1>5, <2>1 DEF Publish, SetAbortDownloads, TypeInv, DlType, MirrorType, FileType, SlotType, LoopType
<1>6. CASE Crash
  <2>1. DlType' /\ FileType' /\ MirrorType' /\ SlotType' /\ LoopType'
    BY <1>6, NewTypes, EndTypes DEF Crash
  <2> QED BY <1>6, <2>1 DEF Crash, TypeInv, DiskType
<1> QED BY <1>1, <1>2, <1>3, <1>4, <1>5, <1>6

LEMMA TypeStep ==
  ASSUME IInv, [Next]_vars
  PROVE  TypeInv'
<1>1. TypeInv /\ FilesInv /\ SlotsInv /\ TurnsInv
  BY DEF IInv
<1>2. CASE Step
  BY <1>1, <1>2, SetupTypes, VerifyTypes, PerformTypes, CleanupTypes, OtherTypes DEF Step
<1>3. CASE \E d \in Downloads : Transfer(d)
  BY <1>1, <1>3, TransferTypes
<1>4. CASE \/ \E b \in SUBSET Downloads : Call(b)
           \/ PerformFails \/ Search \/ Publish \/ SetAbortDownloads \/ Crash
  BY <1>1, <1>4, OtherTypes
<1>5. CASE UNCHANGED vars
  BY <1>1, <1>5 DEF vars, TypeInv, DiskType, DlType, MirrorType, FileType, SlotType, LoopType
<1> QED BY <1>2, <1>3, <1>4, <1>5 DEF Next

----------------------------------------------------------------------------
(* The file and its .tmp *)

\* The steps that touch neither a file nor a CFile.
Aside ==
  \/ \E b \in SUBSET Downloads : Call(b)
  \/ SetupSkip \/ SetupDone \/ VerifySkip \/ VerifyDone
  \/ Perform \/ PerformFails \/ Publish \/ SetAbortDownloads
  \/ \E d \in Downloads :
       \/ SetupFails(d) \/ SetupFinds(d) \/ SetupDownload(d) \/ Verify(d) \/ Answer(d)
       \/ (Write(d) /\ file[d] = "closed") \/ \E res \in {"ok", "failed"} : Finish(d, res)

LEMMA AsideKeepsFiles ==
  ASSUME Aside \/ UNCHANGED vars
  PROVE  UNCHANGED <<disk, tmp, file, isnew>>
<1>1. CASE \/ \E b \in SUBSET Downloads : Call(b)
           \/ SetupSkip \/ SetupDone \/ VerifySkip \/ VerifyDone
           \/ Perform \/ PerformFails \/ Publish \/ SetAbortDownloads
  BY <1>1 DEF Call, SetupSkip, SetupDone, VerifySkip, VerifyDone, Perform, PerformFails, Publish, SetAbortDownloads
<1>2. ASSUME NEW d \in Downloads,
             \/ SetupFails(d) \/ SetupFinds(d) \/ SetupDownload(d) \/ Verify(d) \/ Answer(d)
             \/ (Write(d) /\ file[d] = "closed") \/ \E res \in {"ok", "failed"} : Finish(d, res)
      PROVE  UNCHANGED <<disk, tmp, file, isnew>>
  BY <1>2 DEF SetupFails, SetupFinds, SetupDownload, Verify, Answer, Write, Finish, Die
<1>3. CASE UNCHANGED vars
  BY <1>3 DEF vars
<1> QED BY <1>1, <1>2, <1>3 DEF Aside

\* Every step is one of these.
LEMMA FileCases ==
  ASSUME [Next]_vars
  PROVE  \/ Aside \/ UNCHANGED vars
         \/ \E d \in Downloads : OpenFile(d)
         \/ \E d \in Downloads : Write(d) /\ file[d] # "closed"
         \/ CleanupDownloads \/ Search \/ Crash
BY DEF Next, Step, Transfer, Aside

LEMMA WriteFacts ==
  ASSUME TypeInv, FilesInv, SlotsInv, NEW d \in Downloads, Write(d), file[d] # "closed"
  PROVE  /\ file[d] = "open" /\ pc = "loop" /\ slot[d] = "active" /\ state[d] # "FINISHED"
         /\ \E c \in Content :
              IF isnew[d] THEN tmp' = [tmp EXCEPT ![d] = c] /\ UNCHANGED disk
                          ELSE disk' = [disk EXCEPT ![d] = c] /\ UNCHANGED tmp
         /\ UNCHANGED <<envVars, dlVars, mirrorVars, file, fsize, isnew, stamp,
                        slotVars, batch, ret, pc, loopVars>>
<1>1. file[d] = "open" /\ pc = "loop" /\ slot[d] = "active" /\ state[d] # "FINISHED"
  BY DEF Write, TypeInv, FileType, SlotsInv
<1>2. served[d] \in Versions /\ curpos[d] \in Nat /\ curpos[d] < BodyLen[served[d]]
  <2>1. served[d] \in 0..MaxVer /\ served[d] # 0 /\ curpos[d] \in Lengths /\ curpos[d] < BodyLen[served[d]]
    BY DEF Write, TypeInv, FileType, SlotType
  <2> QED BY <2>1, LengthFacts DEF Versions
<1>3. Overwrite(Cur(d), curpos[d], served[d]) \in Content
  BY <1>1, <1>2, CurContent, OverwriteContent
<1> QED BY <1>1, <1>3 DEF Write

LEMMA CloseFacts ==
  ASSUME TypeInv, NEW D \in SUBSET Downloads, Close(D), NEW d \in Downloads
  PROVE  IF d \in D /\ file[d] = "open" /\ isnew[d]
         THEN disk'[d] = tmp[d] /\ tmp'[d] = NoFile
         ELSE disk'[d] = disk[d] /\ tmp'[d] = tmp[d]
BY DEF Close

LEMMA CleanupFacts ==
  ASSUME TypeInv, SlotsInv, CleanupDownloads, NEW d \in Downloads
  PROVE  /\ Close(batch) /\ batch \in SUBSET Downloads
         /\ d \in batch => file'[d] # "open"
         /\ d \notin batch => file'[d] = file[d] /\ isnew'[d] = isnew[d]
<1>1. batch \in SUBSET Downloads /\ Close(batch)
  BY DEF CleanupDownloads, TypeInv, LoopType
<1>2. d \in Slots({"active", "ok", "failed"}) => d \in batch
  BY DEF SlotsInv, Slots
<1>3. d \in batch => file'[d] # "open"
  BY <1>1, <1>2 DEF CleanupDownloads
<1>4. d \notin batch => file'[d] = file[d]
  BY <1>1, <1>2 DEF CleanupDownloads
<1>5. d \notin batch => isnew'[d] = isnew[d]
  <2>1. isnew[d] \in BOOLEAN
    BY DEF TypeInv, FileType
  <2>2. isnew'[d] = (isnew[d] /\ d \notin batch)
    BY DEF CleanupDownloads
  <2> QED BY <2>1, <2>2, Zenon
<1> QED BY <1>1, <1>3, <1>4, <1>5

LEMMA FilesStep ==
  ASSUME IInv, [Next]_vars
  PROVE  FilesInv'
<1>1. TypeInv /\ FilesInv /\ SlotsInv
  BY DEF IInv
<1>2. CASE Aside \/ UNCHANGED vars
  BY <1>1, <1>2, AsideKeepsFiles DEF FilesInv
<1>3. ASSUME NEW d \in Downloads, OpenFile(d)
      PROVE  FilesInv'
  <2>1. disk[d] # NoFile /\ size[d] > 0 => Resize(disk[d], size[d]) \in Content
    BY <1>1, ResizeContent DEF TypeInv, DiskType, DlType
  <2>2. disk[d] # NoFile => disk[d] \in Content /\ tmp[d] = NoFile
    BY <1>1 DEF FilesInv, TypeInv, DiskType
  <2>3. /\ file' = [file EXCEPT ![d] = "open"] /\ isnew' = [isnew EXCEPT ![d] = ~(disk[d] # NoFile)]
        /\ tmp' = IF disk[d] # NoFile THEN tmp ELSE [tmp EXCEPT ![d] = <<>>]
        /\ \/ disk' = disk
           \/ disk[d] # NoFile /\ size[d] > 0 /\ disk' = [disk EXCEPT ![d] = Resize(disk[d], size[d])]
    BY <1>3 DEF OpenFile
  <2>4. \A e \in Downloads : e # d =>
          file'[e] = file[e] /\ isnew'[e] = isnew[e] /\ tmp'[e] = tmp[e] /\ disk'[e] = disk[e]
    BY <1>1, <2>3 DEF TypeInv, FileType, DiskType
  <2>5. CASE disk[d] = NoFile
    <3>1. isnew'[d] = TRUE /\ tmp'[d] = <<>> /\ disk'[d] = NoFile
      BY <1>1, <2>3, <2>5 DEF TypeInv, FileType, DiskType
    <3> QED BY <1>1, <2>4, <3>1, ContentFacts DEF FilesInv
  <2>6. CASE disk[d] # NoFile
    <3>1. isnew'[d] = FALSE /\ tmp'[d] = NoFile /\ disk'[d] \in Content
      BY <1>1, <2>1, <2>2, <2>3, <2>6 DEF TypeInv, FileType, DiskType
    <3> QED BY <1>1, <2>4, <3>1 DEF FilesInv
  <2> QED BY <2>5, <2>6
<1>4. ASSUME NEW d \in Downloads, Write(d), file[d] # "closed"
      PROVE  FilesInv'
  <2>1. PICK c \in Content :
          /\ file[d] = "open" /\ UNCHANGED <<file, isnew>>
          /\ IF isnew[d] THEN tmp' = [tmp EXCEPT ![d] = c] /\ UNCHANGED disk
                         ELSE disk' = [disk EXCEPT ![d] = c] /\ UNCHANGED tmp
    BY <1>1, <1>4, WriteFacts
  <2> QED BY <1>1, <2>1 DEF FilesInv, TypeInv, DiskType
<1>5. CASE CleanupDownloads
  <2> SUFFICES ASSUME NEW d \in Downloads
               PROVE  /\ file'[d] = "open" /\ isnew'[d] => disk'[d] = NoFile /\ tmp'[d] \in Content
                      /\ file'[d] = "open" /\ ~isnew'[d] => tmp'[d] = NoFile /\ disk'[d] \in Content
                      /\ disk'[d] # NoFile => tmp'[d] = NoFile
    BY DEF FilesInv
  <2> QED BY <1>1, <1>5, CleanupFacts, CloseFacts DEF FilesInv
<1>6. CASE Search \/ Crash
  <2>1. \A d \in Downloads : file'[d] # "open"
    BY <1>6 DEF Search, Crash, NewDownloads
  <2>2. \A d \in Downloads : disk'[d] # NoFile => tmp'[d] = NoFile
    BY <1>1, <1>6, CloseFacts DEF Search, Crash, FilesInv
  <2> QED BY <2>1, <2>2 DEF FilesInv
<1> QED BY <1>2, <1>3, <1>4, <1>5, <1>6, FileCases

----------------------------------------------------------------------------
(* Transfers *)

LEMMA SlotsStep ==
  ASSUME IInv, [Next]_vars
  PROVE  SlotsInv'
<1>1. TypeInv /\ SlotsInv
  BY DEF IInv
<1>2. CASE (\E d \in Downloads : SetupFails(d)) \/ CleanupDownloads \/ Crash
  BY <1>2 DEF SetupFails, CleanupDownloads, Crash, EndCall, SlotsInv, NoSlots
<1>3. CASE \/ \E b \in SUBSET Downloads : Call(b)
           \/ Search \/ Publish \/ SetAbortDownloads \/ UNCHANGED vars
  BY <1>1, <1>3 DEF Call, Search, Publish, SetAbortDownloads, vars, SlotsInv, NoSlots
<1>4. CASE SetupSkip \/ SetupDone
  BY <1>1, <1>4 DEF SetupSkip, SetupDone, SlotsInv, NoSlots, TypeInv, LoopType, Downloads
<1>5. CASE PerformFails \/ VerifySkip \/ VerifyDone
  BY <1>1, <1>5 DEF PerformFails, VerifySkip, VerifyDone, SlotsInv
<1>6. CASE Perform
  <2>1. CASE UNCHANGED <<slot, state>>
    BY <1>1, <1>6, <2>1 DEF Perform, SlotsInv
  <2>2. CASE ProcessMessages
    <3>1. \A d \in Downloads : slot'[d] # "none" => slot[d] # "none"
      BY <2>2 DEF ProcessMessages, Slots
    <3>2. \A d \in Downloads : slot'[d] = "active" => slot[d] = "active" /\ state'[d] = state[d]
      BY <2>2 DEF ProcessMessages, Slots
    <3> QED BY <1>1, <1>6, <3>1, <3>2 DEF Perform, SlotsInv
  <2> QED BY <1>6, <2>1, <2>2 DEF Perform
<1>7. ASSUME NEW d \in Downloads, SetupFinds(d) \/ SetupDownload(d) \/ OpenFile(d)
      PROVE  SlotsInv'
  <2>1. pc = "setup" /\ d = it /\ d \in batch /\ state[d] # "FINISHED" /\ it \in Int
    BY <1>7 DEF SetupFinds, SetupDownload, OpenFile, Pending, Downloads
  <2>2. slot[d] = "none"
    BY <1>1, <2>1 DEF SlotsInv
  <2>3. CASE SetupFinds(d)
    <3>1. CASE file[d] = "closed"
      BY <1>1, <2>3, <3>1 DEF SetupFinds, Die, SlotsInv
    <3>2. CASE file[d] # "closed"
      <4>1. /\ state' = [state EXCEPT ![d] = "FINISHED"] /\ it' = it + 1
            /\ UNCHANGED <<slot, batch, file, last, aborted, pc>>
        BY <2>3, <3>2 DEF SetupFinds
      <4> QED BY <1>1, <2>1, <2>2, <4>1 DEF SlotsInv, TypeInv, DlType, Downloads
    <3> QED BY <3>1, <3>2
  <2>4. CASE SetupDownload(d)
    BY <1>1, <2>1, <2>2, <2>4 DEF SetupDownload, SlotsInv, TypeInv, SlotType, Downloads
  <2>5. CASE OpenFile(d)
    BY <1>1, <2>1, <2>2, <2>5 DEF OpenFile, SlotsInv, TypeInv, FileType
  <2> QED BY <1>7, <2>3, <2>4, <2>5
<1>8. ASSUME NEW d \in Downloads, Transfer(d) \/ Verify(d)
      PROVE  SlotsInv'
  <2>1. CASE Answer(d)
    BY <1>1, <2>1 DEF Answer, SlotsInv, TypeInv, SlotType
  <2>2. CASE Write(d)
    BY <1>1, <2>2 DEF Write, Die, SlotsInv
  <2>3. CASE \E res \in {"ok", "failed"} : Finish(d, res)
    BY <1>1, <2>3 DEF Finish, SlotsInv, TypeInv, SlotType
  <2>4. CASE Verify(d)
    BY <1>1, <2>4 DEF Verify, Die, SlotsInv
  <2> QED BY <1>8, <2>1, <2>2, <2>3, <2>4 DEF Transfer
<1> QED BY <1>2, <1>3, <1>4, <1>5, <1>6, <1>7, <1>8 DEF Next, Step

----------------------------------------------------------------------------
(* The count of running transfers *)

\* What processMessages does to a transfer.
LEMMA ProcessFacts ==
  ASSUME TypeInv, ProcessMessages, NEW d \in Downloads
  PROVE  /\ slot'[d] = IF slot[d] = "ok" THEN "done" ELSE IF slot[d] = "failed" THEN "broken" ELSE slot[d]
         /\ state'[d] = IF slot[d] = "ok" THEN "FINISHED" ELSE state[d]
         /\ maxspeed'[d] = IF slot[d] = "ok" THEN [maxspeed[d] EXCEPT ![mirror[d]] = 0] ELSE maxspeed[d]
         /\ status'[d] = IF slot[d] = "failed" THEN [status[d] EXCEPT ![mirror[d]] = "BROKEN"]
                         ELSE IF slot[d] = "ok" /\ status[d][mirror[d]] = "UNKNOWN"
                         THEN [status[d] EXCEPT ![mirror[d]] = "OK"] ELSE status[d]
BY DEF ProcessMessages, Slots

LEMMA CountStep ==
  ASSUME IInv, [Next]_vars
  PROVE  CountInv'
<1>1. TypeInv /\ SlotsInv /\ CountInv
  BY DEF IInv
<1>2. CASE (\E d \in Downloads : SetupFails(d)) \/ CleanupDownloads \/ Crash
  BY <1>2 DEF SetupFails, CleanupDownloads, Crash, EndCall, CountInv
<1>3. CASE \/ \E b \in SUBSET Downloads : Call(b)
           \/ SetupSkip \/ VerifySkip \/ VerifyDone \/ PerformFails
           \/ Search \/ Publish \/ SetAbortDownloads \/ UNCHANGED vars
  BY <1>1, <1>3 DEF Call, SetupSkip, VerifySkip, VerifyDone, PerformFails, Search, Publish,
                    SetAbortDownloads, vars, CountInv, Slots
<1>4. CASE SetupDone
  BY <1>1, <1>4 DEF SetupDone, SlotsInv, CountInv, Slots, NoSlots, Pend
<1>5. ASSUME NEW d \in Downloads,
             SetupFinds(d) \/ SetupDownload(d) \/ OpenFile(d) \/ Verify(d)
      PROVE  CountInv'
  <2>1. CASE SetupFinds(d) \/ SetupDownload(d) \/ OpenFile(d)
    <3>1. pc' \in {"setup", "dead"}
      BY <2>1 DEF SetupFinds, SetupDownload, OpenFile, Pending, Die
    <3> QED BY <3>1 DEF CountInv
  <2>2. CASE Verify(d)
    <3>1. pc = "verify" /\ pc' \in {"verify", "dead"} /\ UNCHANGED <<slot, aborted>>
      BY <2>2 DEF Verify, Die
    <3> QED BY <1>1, <3>1 DEF CountInv, Slots
  <2> QED BY <1>5, <2>1, <2>2
<1>6. ASSUME NEW d \in Downloads, Transfer(d)
      PROVE  CountInv'
  <2>1. CASE Write(d)
    <3>1. pc = "loop" /\ pc' \in {"loop", "dead"} /\ UNCHANGED <<slot, last>>
      BY <2>1 DEF Write, Die
    <3> QED BY <1>1, <3>1 DEF CountInv, Slots
  <2>2. CASE Answer(d) \/ \E res \in {"ok", "failed"} : Finish(d, res)
    <3>1. pc = "loop" /\ pc' = "loop" /\ last' = last /\ slot[d] = "active"
          /\ \E x \in Pend : slot' = [slot EXCEPT ![d] = x]
      <4>1. slot \in [Downloads -> {"none", "active", "ok", "failed", "done", "broken"}]
        BY <1>1 DEF TypeInv, SlotType
      <4>2. slot[d] = "active" => slot = [slot EXCEPT ![d] = "active"]
        BY <4>1
      <4> QED BY <2>2, <4>2 DEF Answer, Finish, Pend
    <3>2. Slots(Pend)' = Slots(Pend)
      BY <1>1, <3>1 DEF Slots, Pend, TypeInv, SlotType
    <3> QED BY <1>1, <3>1, <3>2 DEF CountInv
  <2> QED BY <1>6, <2>1, <2>2 DEF Transfer
<1>7. CASE Perform
  <2> DEFINE r == Cardinality(Slots({"active"}))
  <2>1. r \in 0..N /\ (r = 0 <=> Slots({"active"}) = {})
    BY SlotCount
  <2>2. CASE last # r /\ ProcessMessages /\ last' = r /\ running' = r + 1
    <3>1. Slots(Pend)' = Slots({"active"})
      BY <1>1, <2>2, ProcessFacts DEF Slots, Pend, TypeInv, SlotType
    <3>2. pc' = "loop"
      BY <1>7, <2>1, <2>2 DEF Perform
    <3> QED BY <2>2, <3>1, <3>2 DEF CountInv
  <2>3. CASE last = r /\ running' = r /\ UNCHANGED <<state, slot, status, maxspeed, last>>
    <3>1. Slots(Pend)' = Slots(Pend)
      BY <2>3 DEF Slots
    <3>2. pc = "loop" /\ last # -1
      BY <1>7, <2>1, <2>3 DEF Perform
    <3>3. r = Cardinality(Slots(Pend))
      BY <1>1, <2>3, <3>2 DEF CountInv
    <3>4. pc' = IF r > 0 THEN "loop" ELSE "verify"
      BY <1>7, <2>3 DEF Perform
    <3>5. r = 0 <=> Slots(Pend) = {}
      BY <3>3, SlotCount
    <3> HIDE DEF r
    <3> QED BY <2>1, <2>3, <3>1, <3>3, <3>4, <3>5 DEF CountInv
  <2> QED BY <1>7, <2>2, <2>3 DEF Perform
<1> QED BY <1>2, <1>3, <1>4, <1>5, <1>6, <1>7 DEF Next, Step

LEMMA TriedStep ==
  ASSUME IInv, [Next]_vars
  PROVE  TriedInv'
<1>1. TypeInv /\ SlotsInv /\ TriedInv
  BY DEF IInv
<1>2. CASE (\E d \in Downloads : SetupFails(d)) \/ CleanupDownloads \/ Crash \/ Search
  BY <1>2 DEF SetupFails, CleanupDownloads, Crash, Search, EndCall, TriedInv
<1>3. CASE \E b \in SUBSET Downloads : Call(b)
  BY <1>3 DEF Call, TriedInv, Downloads
<1>4. CASE VerifySkip \/ VerifyDone \/ PerformFails \/ Publish \/ SetAbortDownloads \/ UNCHANGED vars
  BY <1>1, <1>4 DEF VerifySkip, VerifyDone, PerformFails, Publish, SetAbortDownloads, vars, TriedInv
<1>5. CASE SetupSkip
  <2>1. pc = "setup" /\ it' = it + 1 /\ (it \notin batch \/ state[it] = "FINISHED")
        /\ UNCHANGED <<pc, state, slot, batch>> /\ it \in Int
    BY <1>1, <1>5 DEF SetupSkip, TypeInv, LoopType
  <2>2. \A d \in Downloads : d < it + 1 => d < it \/ d = it
    BY <2>1 DEF Downloads
  <2> QED BY <1>1, <2>1, <2>2 DEF TriedInv, TypeInv, LoopType
<1>6. CASE SetupDone
  <2>1. pc = "setup" /\ it = N + 1 /\ UNCHANGED <<state, slot, batch>>
    BY <1>6 DEF SetupDone
  <2>2. \A d \in Downloads : d < N + 1
    BY HttpAssumption DEF Downloads
  <2> QED BY <1>1, <2>1, <2>2 DEF TriedInv, TypeInv, LoopType
<1>7. ASSUME NEW d \in Downloads, SetupFinds(d) \/ SetupDownload(d) \/ OpenFile(d)
      PROVE  TriedInv'
  <2>1. pc = "setup" /\ d = it /\ d \in Nat /\ \A e \in Downloads : e < d + 1 => e < d \/ e = d
    BY <1>7 DEF SetupFinds, SetupDownload, OpenFile, Pending, Downloads
  <2>2. CASE OpenFile(d)
    BY <1>1, <2>2 DEF OpenFile, TriedInv
  <2>3. CASE SetupFinds(d) /\ file[d] = "closed"
    BY <2>3 DEF SetupFinds, Die, TriedInv
  <2>4. CASE SetupFinds(d) /\ file[d] # "closed"
    <3>1. state' = [state EXCEPT ![d] = "FINISHED"] /\ it' = it + 1 /\ UNCHANGED <<pc, slot, batch>>
      BY <2>4 DEF SetupFinds
    <3> QED BY <1>1, <2>1, <3>1 DEF TriedInv, TypeInv, LoopType, DlType
  <2>5. CASE SetupDownload(d)
    <3>1. slot' = [slot EXCEPT ![d] = "active"] /\ it' = it + 1 /\ UNCHANGED <<pc, state, batch>>
      BY <2>5 DEF SetupDownload
    <3> QED BY <1>1, <2>1, <3>1 DEF TriedInv, TypeInv, LoopType, SlotType, Pend
  <2> QED BY <1>7, <2>2, <2>3, <2>4, <2>5
<1>8. ASSUME NEW d \in Downloads, Transfer(d) \/ Verify(d)
      PROVE  TriedInv'
  <2>1. CASE Answer(d)
    BY <1>1, <2>1 DEF Answer, TriedInv, TypeInv, SlotType, LoopType, Pend
  <2>2. CASE Write(d)
    BY <1>1, <2>2 DEF Write, Die, TriedInv
  <2>3. CASE \E res \in {"ok", "failed"} : Finish(d, res)
    BY <1>1, <2>3 DEF Finish, TriedInv, TypeInv, SlotType, LoopType, Pend
  <2>4. CASE Verify(d)
    <3>1. pc = "verify" /\ pc' \in {"verify", "dead"} /\ UNCHANGED <<slot, batch>>
          /\ state' \in {state, [state EXCEPT ![d] = "FINISHED"]}
      BY <2>4 DEF Verify, Die
    <3> QED BY <1>1, <3>1 DEF TriedInv, TypeInv, DlType, LoopType
  <2> QED BY <1>8, <2>1, <2>2, <2>3, <2>4 DEF Transfer
<1>9. CASE Perform
  <2>1. pc = "loop" /\ pc' \in {"loop", "verify"} /\ batch' = batch
        /\ (ProcessMessages \/ UNCHANGED <<slot, state>>)
    BY <1>9 DEF Perform
  <2>2. \A d \in Downloads :
          state[d] = "FINISHED" \/ slot[d] \in Pend \cup {"broken"} =>
          state'[d] = "FINISHED" \/ slot'[d] \in Pend \cup {"broken"}
    BY <1>1, <2>1, ProcessFacts DEF Pend
  <2> QED BY <1>1, <2>1, <2>2 DEF TriedInv, TypeInv, LoopType
<1> QED BY <1>2, <1>3, <1>4, <1>5, <1>6, <1>7, <1>8, <1>9 DEF Next, Step

----------------------------------------------------------------------------
(* The turns of the mirrors *)

\* The mirror that is asked next keeps the turns balanced.
LEMMA NextTurn ==
  ASSUME TypeInv, TurnsInv, NEW d \in Downloads, MirrorCount[d] > 0, state[d] # "FINISHED"
  PROVE  LET c == GetFastestMirror(d)
             u == Used(d, c.mirror)
         IN  \/ \A m \in Mirrors(d) : u[m] = IF c.status[m] = "UNKNOWN" THEN 0 ELSE 1
             \/ \A m \in Mirrors(d) : c.status[m] # "UNKNOWN" /\ u[m] = 0
<1> DEFINE c == GetFastestMirror(d)
           t == [turn[d] EXCEPT ![c.mirror] = turn[d][c.mirror] + 1]
           u == Used(d, c.mirror)
<1>1. /\ turn[d] \in [Mirrors(d) -> Nat] /\ status[d] \in [Mirrors(d) -> {"BROKEN", "OK", "UNKNOWN"}]
      /\ 1 \in Mirrors(d) /\ c.mirror \in Mirrors(d)
  <2>1. turn[d] \in [Mirrors(d) -> Nat] /\ status[d] \in [Mirrors(d) -> {"BROKEN", "OK", "UNKNOWN"}]
    BY DEF TypeInv, MirrorType
  <2>2. 1 \in Mirrors(d)
    BY HttpAssumption DEF Mirrors
  <2>3. c.mirror \in Mirrors(d)
    BY FastestFacts
  <2> QED BY <2>1, <2>2, <2>3
<1>2. u = IF \A k \in Mirrors(d) : t[k] > 0 THEN [k \in Mirrors(d) |-> t[k] - 1] ELSE t
  BY DEF Used
<1>3. \A m \in Mirrors(d) : ~(maxspeed[d][m] > -1)
  BY DEF TurnsInv
<1>4. CASE \E m \in Mirrors(d) : status[d][m] = "UNKNOWN"
  <2>1. status[d][c.mirror] = "UNKNOWN" /\ c.status = [status[d] EXCEPT ![c.mirror] = "OK"]
    BY <1>4, FastestFacts
  <2>2. \A m \in Mirrors(d) : turn[d][m] = IF status[d][m] = "UNKNOWN" THEN 0 ELSE 1
    BY <1>4 DEF TurnsInv
  <2> HIDE DEF c, u
  <2>3. \A m \in Mirrors(d) : t[m] = IF c.status[m] = "UNKNOWN" THEN 0 ELSE 1
    BY <1>1, <2>1, <2>2
  <2> HIDE DEF t
  <2>4. CASE \A k \in Mirrors(d) : t[k] > 0
    <3>1. \A m \in Mirrors(d) : c.status[m] # "UNKNOWN" /\ t[m] = 1
      BY <2>3, <2>4
    <3> QED BY <1>2, <2>4, <3>1 DEF c, u
  <2>5. CASE ~\A k \in Mirrors(d) : t[k] > 0
    BY <1>2, <2>3, <2>5 DEF c, u
  <2> QED BY <2>4, <2>5
<1>5. CASE \A m \in Mirrors(d) : status[d][m] # "UNKNOWN"
  <2>1. c.mirror = 1 /\ c.status = [m \in Mirrors(d) |-> IF m = 1 THEN "OK" ELSE "UNKNOWN"]
    BY <1>3, <1>5, FastestFacts
  <2>2. \E x \in {0, 1} : \A m \in Mirrors(d) : turn[d][m] = x
    <3>1. CASE \A m \in Mirrors(d) : turn[d][m] = IF status[d][m] = "UNKNOWN" THEN 0 ELSE 1
      BY <1>5, <3>1
    <3>2. CASE \A m \in Mirrors(d) : status[d][m] # "UNKNOWN" /\ turn[d][m] = 0
      BY <3>2
    <3> QED BY <3>1, <3>2 DEF TurnsInv
  <2>3. PICK x \in {0, 1} : \A m \in Mirrors(d) : turn[d][m] = x
    BY <2>2
  <2> HIDE DEF c, u
  <2>4. \A m \in Mirrors(d) : t[m] = (IF m = 1 THEN x + 1 ELSE x) /\ c.status[m] = (IF m = 1 THEN "OK" ELSE "UNKNOWN")
    BY <1>1, <2>1, <2>3
  <2> HIDE DEF t
  <2>5. CASE x = 1
    <3>1. \A k \in Mirrors(d) : t[k] > 0 /\ t[k] - 1 = IF k = 1 THEN 1 ELSE 0
      BY <2>4, <2>5
    <3> QED BY <1>2, <2>4, <3>1 DEF c, u
  <2>6. CASE x = 0
    <3>1. CASE \A k \in Mirrors(d) : t[k] > 0
      <4>1. \A k \in Mirrors(d) : k = 1 /\ t[k] - 1 = 0 /\ c.status[k] # "UNKNOWN"
        BY <2>4, <2>6, <3>1
      <4> QED BY <1>2, <3>1, <4>1 DEF c, u
    <3>2. CASE ~\A k \in Mirrors(d) : t[k] > 0
      BY <1>2, <2>4, <2>6, <3>2 DEF c, u
    <3> QED BY <3>1, <3>2
  <2> QED BY <2>3, <2>5, <2>6
<1> QED BY <1>4, <1>5

LEMMA TurnsStep ==
  ASSUME IInv, [Next]_vars
  PROVE  TurnsInv'
<1>1. TypeInv /\ SlotsInv /\ TurnsInv
  BY DEF IInv
<1>2. CASE Search \/ Crash
  <2> SUFFICES ASSUME NEW d \in Downloads
               PROVE  /\ \A m \in Mirrors(d) : turn'[d][m] = IF status'[d][m] = "UNKNOWN" THEN 0 ELSE 1
                      /\ slot'[d] = "none"
                      /\ \A m \in Mirrors(d) : ~(maxspeed'[d][m] > -1)
    BY DEF TurnsInv, Pend, Mirrors
  <2>1. slot'[d] = "none"
    BY <1>1, <1>2 DEF Search, Crash, EndCall, SlotsInv, NoSlots
  <2> QED BY <1>2, <2>1 DEF Search, Crash, NewDownloads
<1>3. CASE (\E d \in Downloads : SetupFails(d)) \/ CleanupDownloads
  <2>1. slot' = NoSlots /\ UNCHANGED <<state, turn, status, maxspeed>>
    BY <1>3 DEF SetupFails, CleanupDownloads, EndCall
  <2> QED BY <1>1, <2>1 DEF TurnsInv, NoSlots, Pend, Mirrors
<1>4. CASE \/ \E b \in SUBSET Downloads : Call(b)
           \/ SetupSkip \/ SetupDone \/ VerifySkip \/ VerifyDone \/ PerformFails
           \/ Publish \/ SetAbortDownloads \/ UNCHANGED vars
           \/ \E d \in Downloads : OpenFile(d) \/ Write(d)
  <2>1. UNCHANGED <<slot, mirror, state, turn, status, maxspeed>>
    BY <1>4 DEF Call, SetupSkip, SetupDone, VerifySkip, VerifyDone, PerformFails, Publish,
                SetAbortDownloads, vars, OpenFile, Write, Die
  <2> QED BY <1>1, <2>1 DEF TurnsInv, Mirrors
<1>5. ASSUME NEW d \in Downloads, SetupFinds(d) \/ Verify(d)
      PROVE  TurnsInv'
  <2>1. /\ state' \in {state, [state EXCEPT ![d] = "FINISHED"]}
        /\ UNCHANGED <<slot, mirror, turn, status, maxspeed>>
    BY <1>5 DEF SetupFinds, Verify, Die
  <2>2. \A e \in Downloads : state[e] = "FINISHED" => state'[e] = "FINISHED"
    BY <1>1, <2>1 DEF TypeInv, DlType
  <2> QED BY <1>1, <2>1, <2>2 DEF TurnsInv, Mirrors
<1>6. ASSUME NEW d \in Downloads, Answer(d) \/ \E res \in {"ok", "failed"} : Finish(d, res)
      PROVE  TurnsInv'
  <2>1. /\ \E x \in Pend : slot' = slot \/ slot' = [slot EXCEPT ![d] = x]
        /\ slot[d] \in Pend /\ UNCHANGED <<mirror, state, turn, status, maxspeed>>
    BY <1>6 DEF Answer, Finish, Pend
  <2>2. \A e \in Downloads : slot'[e] \in Pend => slot[e] \in Pend
    BY <1>1, <2>1 DEF TypeInv, SlotType
  <2> QED BY <1>1, <2>1, <2>2 DEF TurnsInv, Mirrors
<1>7. CASE Perform
  <2>1. UNCHANGED <<mirror, turn>> /\ (ProcessMessages \/ UNCHANGED <<slot, state, status, maxspeed>>)
    BY <1>7 DEF Perform
  <2>2. CASE UNCHANGED <<slot, state, status, maxspeed>>
    BY <1>1, <2>1, <2>2 DEF TurnsInv, Mirrors
  <2>3. CASE ProcessMessages
    <3> SUFFICES ASSUME NEW d \in Downloads
                 PROVE  /\ \A m \in Mirrors(d) : status'[d][m] = "UNKNOWN" <=> status[d][m] = "UNKNOWN"
                        /\ slot'[d] \in Pend => slot[d] \in Pend
                        /\ \A m \in Mirrors(d) : maxspeed'[d][m] > -1 => state'[d] = "FINISHED"
      BY <1>1, <2>1 DEF TurnsInv, Mirrors
    <3>1. status[d] \in [Mirrors(d) -> {"BROKEN", "OK", "UNKNOWN"}] /\ maxspeed[d] \in [Mirrors(d) -> {-1, 0}]
      BY <1>1 DEF TypeInv, MirrorType
    <3>2. slot[d] \in Pend => mirror[d] \in Mirrors(d) /\ status[d][mirror[d]] # "UNKNOWN"
      BY <1>1 DEF TurnsInv
    <3>3. \A m \in Mirrors(d) : status'[d][m] = "UNKNOWN" <=> status[d][m] = "UNKNOWN"
      BY <1>1, <2>3, <3>1, <3>2, ProcessFacts DEF Pend
    <3>4. slot'[d] \in Pend => slot[d] \in Pend
      BY <1>1, <2>3, ProcessFacts DEF Pend
    <3>5. \A m \in Mirrors(d) : maxspeed'[d][m] > -1 => state'[d] = "FINISHED"
      BY <1>1, <2>3, <3>1, ProcessFacts DEF TurnsInv
    <3> QED BY <3>3, <3>4, <3>5
  <2> QED BY <2>1, <2>2, <2>3
<1>8. ASSUME NEW d \in Downloads, SetupDownload(d)
      PROVE  TurnsInv'
  <2> DEFINE c == GetFastestMirror(d)
             u == Used(d, c.mirror)
  <2>1. /\ MirrorCount[d] > 0 /\ state[d] # "FINISHED"
        /\ status' = [status EXCEPT ![d] = c.status] /\ turn' = [turn EXCEPT ![d] = u]
        /\ mirror' = [mirror EXCEPT ![d] = c.mirror] /\ slot' = [slot EXCEPT ![d] = "active"]
        /\ UNCHANGED <<state, maxspeed>>
    BY <1>8 DEF SetupDownload, Pending
  <2>2. \/ \A m \in Mirrors(d) : u[m] = IF c.status[m] = "UNKNOWN" THEN 0 ELSE 1
        \/ \A m \in Mirrors(d) : c.status[m] # "UNKNOWN" /\ u[m] = 0
    BY <1>1, <2>1, NextTurn
  <2>3. c.mirror \in Mirrors(d) /\ c.status[c.mirror] # "UNKNOWN"
    BY <1>1, <2>1, FastestFacts DEF TurnsInv
  <2> HIDE DEF c, u
  <2>4. /\ status'[d] = c.status /\ turn'[d] = u /\ mirror'[d] = c.mirror
        /\ \A e \in Downloads : e # d => status'[e] = status[e] /\ turn'[e] = turn[e]
                                         /\ mirror'[e] = mirror[e] /\ slot'[e] = slot[e]
    BY <1>1, <2>1 DEF TypeInv, MirrorType, SlotType
  <2> SUFFICES ASSUME NEW e \in Downloads
               PROVE  /\ \/ \A m \in Mirrors(e) : turn'[e][m] = IF status'[e][m] = "UNKNOWN" THEN 0 ELSE 1
                         \/ \A m \in Mirrors(e) : status'[e][m] # "UNKNOWN" /\ turn'[e][m] = 0
                      /\ slot'[e] \in Pend => mirror'[e] \in Mirrors(e) /\ status'[e][mirror'[e]] # "UNKNOWN"
                      /\ \A m \in Mirrors(e) : maxspeed'[e][m] > -1 => state'[e] = "FINISHED"
    BY DEF TurnsInv, Mirrors
  <2>5. CASE e = d
    BY <1>1, <2>1, <2>2, <2>3, <2>4, <2>5 DEF TurnsInv
  <2>6. CASE e # d
    BY <1>1, <2>1, <2>4, <2>6 DEF TurnsInv
  <2> QED BY <2>5, <2>6
<1> QED BY <1>2, <1>3, <1>4, <1>5, <1>6, <1>7, <1>8 DEF Next, Step, Transfer

----------------------------------------------------------------------------
(* Digests *)

\* A finished download keeps its content as long as it is kept.
LEMMA KeptContent ==
  ASSUME IInv, [Next]_vars, NEW d \in Downloads, state[d] = "FINISHED"
  PROVE  Cur(d)' = Cur(d) \/ Search \/ Crash
<1>1. TypeInv /\ FilesInv /\ SlotsInv
  BY DEF IInv
<1>2. CASE Aside \/ UNCHANGED vars
  BY <1>2, AsideKeepsFiles DEF Cur
<1>3. ASSUME NEW e \in Downloads, OpenFile(e)
      PROVE  Cur(d)' = Cur(d)
  <2>1. /\ \E x : file' = [file EXCEPT ![e] = x]
        /\ \E x : isnew' = [isnew EXCEPT ![e] = x]
        /\ \E x : tmp' = tmp \/ tmp' = [tmp EXCEPT ![e] = x]
        /\ \E x : disk' = disk \/ disk' = [disk EXCEPT ![e] = x]
        /\ state[e] # "FINISHED"
    BY <1>3 DEF OpenFile, Pending
  <2>2. file'[d] = file[d] /\ isnew'[d] = isnew[d] /\ tmp'[d] = tmp[d] /\ disk'[d] = disk[d]
    BY <1>1, <2>1 DEF TypeInv, DiskType, FileType
  <2> QED BY <2>2 DEF Cur
<1>4. ASSUME NEW e \in Downloads, Write(e), file[e] # "closed"
      PROVE  Cur(d)' = Cur(d)
  <2>1. /\ \E x : tmp' = tmp \/ tmp' = [tmp EXCEPT ![e] = x]
        /\ \E x : disk' = disk \/ disk' = [disk EXCEPT ![e] = x]
        /\ state[e] # "FINISHED" /\ UNCHANGED <<file, isnew>>
    BY <1>1, <1>4, WriteFacts
  <2>2. tmp'[d] = tmp[d] /\ disk'[d] = disk[d]
    BY <1>1, <2>1 DEF TypeInv, DiskType
  <2> QED BY <2>1, <2>2 DEF Cur
<1>5. CASE CleanupDownloads
  <2>1. CASE d \in batch
    BY <1>1, <1>5, <2>1, CleanupFacts, CloseFacts DEF Cur
  <2>2. CASE d \notin batch
    BY <1>1, <1>5, <2>2, CleanupFacts, CloseFacts DEF Cur
  <2> QED BY <2>1, <2>2
<1> QED BY <1>2, <1>3, <1>4, <1>5, FileCases

\* ... and a step that leaves its digest alone keeps that true.
LEMMA KeptDescribed ==
  ASSUME IInv, [Next]_vars, NEW d \in Downloads, state[d] = "FINISHED",
         hash'[d] = hash[d], ~(Search \/ Crash), Described(d)
  PROVE  Described(d)'
BY KeptContent DEF Described

LEMMA DigestStep ==
  ASSUME IInv, [Next]_vars
  PROVE  DigestInv'
<1>1. TypeInv /\ FilesInv /\ SlotsInv /\ DigestInv
  BY DEF IInv
<1>2. \A d \in Hashed : d \in Downloads
  BY HttpAssumption
<1>3. CASE Search \/ Crash
  <2>1. \A d \in Downloads : state'[d] = "NONE"
    BY <1>3 DEF Search, Crash, NewDownloads
  <2>2. Body(ver) \in Content
    BY <1>1, ContentFacts DEF TypeInv, DiskType
  <2>3. \A d \in Hashed : hash'[d] = Body(ver)
    BY <1>2, <1>3 DEF Search, Crash, NewDownloads
  <2> QED BY <1>2, <2>1, <2>2, <2>3, HttpAssumption DEF DigestInv
<1>4. CASE pc' = "dead" /\ UNCHANGED hash
  BY <1>1, <1>4 DEF DigestInv
\* The steps that change neither state nor digest.
<1>5. ASSUME ~(Search \/ Crash), UNCHANGED <<state, hash>>,
             \A d \in Hashed : d \in batch /\ file[d] # "null" /\ (pc = "loop" \/ (pc = "verify" /\ it <= d))
               => Described(d) \/ (d \in batch' /\ file'[d] # "null" /\ (pc' = "loop" \/ (pc' = "verify" /\ it' <= d))),
             pc # "dead" \/ UNCHANGED <<disk, tmp, file, isnew, pc>>
      PROVE  DigestInv'
  <2> SUFFICES ASSUME NEW d \in Hashed, state[d] = "FINISHED", hash[d] # Unset, pc' # "dead"
               PROVE  \/ Described(d)'
                      \/ d \in batch' /\ file'[d] # "null" /\ (pc' = "loop" \/ (pc' = "verify" /\ it' <= d))
    BY <1>1, <1>5 DEF DigestInv
  <2>1. pc # "dead"
    BY <1>5
  <2> QED BY <1>1, <1>2, <1>5, <2>1, KeptDescribed DEF DigestInv
<1>6. CASE \/ \E b \in SUBSET Downloads : Call(b)
           \/ SetupSkip \/ SetupDone \/ VerifyDone \/ PerformFails
           \/ Publish \/ SetAbortDownloads
           \/ \E d \in Downloads : SetupFails(d) \/ SetupDownload(d) \/ OpenFile(d)
  <2>1. UNCHANGED <<state, hash>>
    BY <1>6 DEF Call, SetupSkip, SetupDone, VerifyDone, PerformFails, Publish, SetAbortDownloads,
                SetupFails, SetupDownload, OpenFile
  <2>2. pc # "dead" \/ UNCHANGED <<disk, tmp, file, isnew, pc>>
    BY <1>6 DEF Call, SetupSkip, SetupDone, VerifyDone, PerformFails, Publish, SetAbortDownloads,
                SetupFails, SetupDownload, OpenFile, Pending
  <2>3. ASSUME NEW d \in Hashed, d \in batch, file[d] # "null", pc = "loop" \/ (pc = "verify" /\ it <= d)
        PROVE  d \in batch' /\ file'[d] # "null" /\ (pc' = "loop" \/ (pc' = "verify" /\ it' <= d))
    <3>1. d \in Nat /\ 1 <= d /\ d < N + 1
      BY <1>2, HttpAssumption DEF Downloads
    <3>2. CASE PerformFails
      BY <1>1, <2>3, <3>1, <3>2 DEF PerformFails, SlotsInv
    <3>3. CASE Publish \/ SetAbortDownloads
      BY <2>3, <3>3 DEF Publish, SetAbortDownloads
    <3>4. ~((\E b \in SUBSET Downloads : Call(b)) \/ SetupSkip \/ SetupDone \/ VerifyDone)
      BY <2>3, <3>1, HttpAssumption DEF Call, SetupSkip, SetupDone, VerifyDone
    <3>5. ~\E e \in Downloads : SetupFails(e) \/ SetupDownload(e) \/ OpenFile(e)
      BY <2>3 DEF SetupFails, SetupDownload, OpenFile, Pending
    <3> QED BY <1>6, <3>2, <3>3, <3>4, <3>5
  <2>4. CASE Search \/ Crash
    BY <1>3, <2>4
  <2> QED BY <1>5, <2>1, <2>2, <2>3, <2>4
<1>7. CASE UNCHANGED vars
  BY <1>1, <1>7 DEF vars, DigestInv, Described, Cur
<1>8. CASE CleanupDownloads \/ VerifySkip
  <2>1. UNCHANGED <<state, hash>> /\ pc \in {"cleanup", "verify"}
    BY <1>8 DEF CleanupDownloads, VerifySkip
  <2>2. CASE CleanupDownloads
    BY <1>3, <1>5, <2>1, <2>2 DEF CleanupDownloads
  <2>3. CASE VerifySkip
    <3>1. /\ pc = "verify" /\ pc' = "verify" /\ it' = it + 1 /\ UNCHANGED <<batch, file>>
          /\ (it \notin batch \/ hash[it] = NoHash \/ file[it] = "null") /\ it \in Nat
      BY <1>1, <2>3 DEF VerifySkip, TypeInv, LoopType
    <3>2. ASSUME NEW d \in Hashed, d \in batch, file[d] # "null", it <= d
          PROVE  it' <= d
      <4>1. d # it
        BY <1>1, <3>1, <3>2 DEF DigestInv
      <4> QED BY <1>1, <1>2, <3>1, <3>2, <4>1 DEF Downloads, TypeInv, LoopType
    <3> QED BY <1>3, <1>5, <2>1, <3>1, <3>2
  <2> QED BY <1>8, <2>2, <2>3
<1>9. CASE Perform
  <2>1. /\ pc = "loop" /\ UNCHANGED <<hash, batch, file, it>> /\ pc' \in {"loop", "verify"} /\ it = 1
        /\ (ProcessMessages /\ pc' = "loop") \/ UNCHANGED state
    <3>1. Cardinality(Slots({"active"})) \in 0..N
      BY SlotCount
    <3> QED BY <1>1, <1>9, <3>1 DEF Perform, SlotsInv
  <2>2. \A d \in Hashed : it <= d
    BY <1>2, <2>1 DEF Downloads
  <2>3. CASE UNCHANGED state
    BY <1>3, <1>5, <2>1, <2>2, <2>3
  <2>4. CASE ProcessMessages /\ pc' = "loop"
    <3> SUFFICES ASSUME NEW d \in Hashed, state'[d] = "FINISHED", hash[d] # Unset, ~(Search \/ Crash)
                 PROVE  Described(d)' \/ (d \in batch /\ file[d] # "null")
      BY <1>1, <1>3, <2>1, <2>4 DEF DigestInv
    <3>1. CASE slot[d] = "ok"
      BY <1>1, <1>2, <3>1 DEF SlotsInv
    <3>2. CASE slot[d] # "ok"
      <4>1. state[d] = "FINISHED"
        BY <1>1, <1>2, <2>4, <3>2, ProcessFacts
      <4> QED BY <1>1, <1>2, <2>1, <4>1, KeptDescribed DEF DigestInv
    <3> QED BY <3>1, <3>2
  <2> QED BY <2>1, <2>3, <2>4
<1>10. ASSUME NEW e \in Downloads, Transfer(e)
       PROVE  DigestInv'
  <2>1. UNCHANGED <<state, hash, file, batch, it>> /\ pc = "loop" /\ pc' \in {"loop", "dead"}
    BY <1>10 DEF Transfer, Answer, Write, Finish, Die
  <2> QED BY <1>3, <1>4, <1>5, <2>1
<1>11. ASSUME NEW e \in Downloads, SetupFinds(e)
       PROVE  DigestInv'
  <2>1. CASE file[e] = "closed"
    BY <1>4, <1>11, <2>1 DEF SetupFinds, Die
  <2>2. CASE file[e] # "closed"
    <3>1. /\ state' = [state EXCEPT ![e] = "FINISHED"] /\ Digest(e) = hash[e] /\ hash[e] # Unset
          /\ file[e] = "open" /\ pc = "setup" /\ pc' = "setup" /\ UNCHANGED <<disk, tmp, file, isnew, hash>>
      BY <1>1, <1>11, <2>2 DEF SetupFinds, Pending, TypeInv, FileType
    <3>2. Described(e)
      BY <1>1, <3>1, CurContent, DigestFacts DEF Described
    <3>3. \A d \in Downloads : Described(d)' <=> Described(d)
      BY <3>1 DEF Described, Cur
    <3>4. \A d \in Downloads : state'[d] = IF d = e THEN "FINISHED" ELSE state[d]
      BY <1>1, <3>1 DEF TypeInv, DlType
    <3> QED BY <1>1, <1>2, <3>1, <3>2, <3>3, <3>4 DEF DigestInv
  <2> QED BY <2>1, <2>2
<1>12. ASSUME NEW e \in Downloads, Verify(e)
       PROVE  DigestInv'
  <2>1. CASE file[e] = "closed"
    BY <1>4, <1>12, <2>1 DEF Verify, Die
  <2>2. CASE file[e] # "closed"
    <3>1. /\ hash' = [hash EXCEPT ![e] = Digest(e)] /\ pc = "verify" /\ pc' = "verify"
          /\ state' \in {state, [state EXCEPT ![e] = "FINISHED"]} /\ e = it /\ it' = it + 1
          /\ file[e] = "open" /\ UNCHANGED <<disk, tmp, file, isnew, batch>>
      BY <1>1, <1>12, <2>2 DEF Verify, TypeInv, FileType
    <3>2. /\ Digest(e) \in Content \cup {Unset}
          /\ Digest(e) # Unset => \E n \in 1..Len(Cur(e)) : Digest(e) = SubSeq(Cur(e), 1, n)
      BY <1>1, <3>1, CurContent, DigestFacts
    <3>3. hash'[e] = Digest(e) /\ \A d \in Downloads : d # e => hash'[d] = hash[d] /\ state'[d] = state[d]
      BY <1>1, <3>1 DEF TypeInv, DlType
    <3>4. \A d \in Downloads : Cur(d)' = Cur(d)
      BY <3>1 DEF Cur
    <3>5. hash'[e] # NoHash /\ (hash'[e] # Unset => Described(e)')
      BY <3>2, <3>3, <3>4, HttpAssumption DEF Described
    <3>6. \A d \in Downloads : d # e => (Described(d)' <=> Described(d))
      BY <3>3, <3>4 DEF Described
    <3>7. \A d \in Downloads : d # e /\ it <= d => it' <= d
      BY <3>1 DEF Downloads
    <3> QED BY <1>1, <1>2, <3>1, <3>3, <3>5, <3>6, <3>7 DEF DigestInv
  <2> QED BY <2>1, <2>2
<1> QED BY <1>3, <1>6, <1>7, <1>8, <1>9, <1>10, <1>11, <1>12 DEF Next, Step

----------------------------------------------------------------------------
(* The properties *)

LEMMA InitInv == Init => IInv
<1> SUFFICES ASSUME Init PROVE IInv
  OBVIOUS
<1>1. TypeInv
  BY InitTypes
<1>2. FilesInv
  BY DEF Init, FilesInv
<1>3. SlotsInv /\ CountInv /\ TriedInv
  BY DEF Init, SlotsInv, CountInv, TriedInv, NoSlots
<1>4. TurnsInv
  BY DEF Init, TurnsInv, NoSlots, Pend
<1>5. DigestInv
  <2>1. Body(1) \in Content /\ Hashed \subseteq Downloads
    BY LengthFacts, ContentFacts, HttpAssumption DEF Versions
  <2> QED BY <2>1, HttpAssumption DEF Init, DigestInv
<1> QED BY <1>1, <1>2, <1>3, <1>4, <1>5 DEF IInv

LEMMA StepInv == IInv /\ [Next]_vars => IInv'
BY TypeStep, FilesStep, SlotsStep, CountStep, TriedStep, TurnsStep, DigestStep DEF IInv

LEMMA AlwaysInv == Spec => []IInv
BY InitInv, StepInv, PTL DEF Spec

\* Every variable keeps its type: a file holds the beginning of a version, or of
\* several on top of each other, but is never longer than the longest of them.
THEOREM TypeCorrect == Spec => []TypeOK
<1>1. IInv => TypeOK
  BY DEF IInv, TypeInv, TypeOK, DiskType, DlType, MirrorType, FileType, SlotType, LoopType
<1> QED BY <1>1, AlwaysInv, PTL

\* download() does not leave its loop before the end of every transfer was seen.
THEOREM AllAreProcessed == Spec => []AllProcessed
<1>1. IInv => AllProcessed
  BY DEF IInv, CountInv, AllProcessed, Pend
<1> QED BY <1>1, AlwaysInv, PTL

\* When download() returns true every file of the batch is there or was tried.
THEOREM TrueWasAttempted == Spec => []TrueMeansAttempted
<1>1. IInv => TrueMeansAttempted
  <2> SUFFICES ASSUME IInv, pc = "cleanup", ~aborted, NEW d \in batch
               PROVE  state[d] = "FINISHED" \/ slot[d] = "broken"
    BY DEF TrueMeansAttempted
  <2>1. state[d] = "FINISHED" \/ slot[d] \in Pend \cup {"broken"}
    BY DEF IInv, TriedInv
  <2>2. slot[d] \notin Pend
    BY DEF IInv, CountInv, Slots, TypeInv, LoopType
  <2> QED BY <2>1, <2>2
<1> QED BY <1>1, AlwaysInv, PTL

\* CFile::Close renames the .tmp over nothing.
THEOREM TmpStandsAlone == Spec => []NoTmpBesideFile
<1>1. IInv => NoTmpBesideFile
  BY DEF IInv, FilesInv, NoTmpBesideFile
<1> QED BY <1>1, AlwaysInv, PTL

\* getFastestMirror does not come back to a mirror before it tried the others.
THEOREM TurnsAreKept == Spec => []MirrorsTakeTurns
<1>1. IInv => MirrorsTakeTurns
  <2> SUFFICES ASSUME IInv, NEW d \in Downloads, NEW m \in Mirrors(d)
               PROVE  turn[d][m] <= 1
    BY DEF MirrorsTakeTurns
  <2> QED BY DEF IInv, TurnsInv
<1> QED BY <1>1, AlwaysInv, PTL

\* The digest that VerifySinglePieceDownload leaves in a finished download is one
\* of the file.
THEOREM DigestIsOfFile == Spec => []DigestDescribesFile
<1>1. IInv => DigestDescribesFile
  BY DEF IInv, DigestInv, DigestDescribesFile, Described
<1> QED BY <1>1, AlwaysInv, PTL

\* A finished download is skipped by every further call, so its file stays.
THEOREM FinishedIsKept == Spec => FinishedStays
<1> DEFINE Stays == \A d \in Downloads :
                      state[d] = "FINISHED" /\ state'[d] = "FINISHED" => Cur(d)' = Cur(d)
<1>1. IInv /\ [Next]_vars => [Stays]_vars
  <2> SUFFICES ASSUME IInv, [Next]_vars, NEW d \in Downloads,
                      state[d] = "FINISHED", state'[d] = "FINISHED"
               PROVE  Cur(d)' = Cur(d)
    OBVIOUS
  <2>1. ~(Search \/ Crash)
    BY DEF Search, Crash, NewDownloads
  <2> QED BY <2>1, KeptContent
<1>2. IInv /\ [Next]_vars => [\A d \in Downloads :
        state[d] = "FINISHED" /\ state'[d] = "FINISHED" => Cur(d)' = Cur(d)]_vars
  BY <1>1
<1> QED BY <1>2, AlwaysInv, PTL DEF Spec, FinishedStays

================================================================================
