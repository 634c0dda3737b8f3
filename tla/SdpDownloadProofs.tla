--------------------------- MODULE SdpDownloadProofs ---------------------------
(***************************************************************************)
(* Theorems about SdpDownload, for packages of any length and files of any *)
(* size: the invariants and the refinement that the run SdpDownload checks *)
(* on a package of three entries.                                          *)
(*                                                                         *)
(* Inv is inductive.  Its core is InStepInv: as long as an answer was not  *)
(* started with length bytes of an earlier one, the parser's state is a    *)
(* function of the server's.  StaleInv describes the other answers: their  *)
(* first file is closed broken, so the parser never gets to a second one.  *)
(***************************************************************************)
EXTENDS SdpDownload, TLAPS

\* Undamaged copies are sent with the length of the file.
SentInv == \A f \in PoolFiles \ damaged : sentLen[f] = Size[f]

\* What belongs to the control states: the open file, the length field.
ShapeInv ==
  /\ pc # "idle" => state = "NONE"
  /\ pc \in {"body", "close"} <=> file_handle # "none"
  /\ pc \in {"open", "body", "close"} <=> skipped = LENGTH_SIZE
  /\ pc \in {"body", "close", "verify"} =>
       list_it \in want /\ file_name = Entries[list_it]
  /\ pc = "body" => file_pos < compsize
  /\ pc = "close" => file_pos = compsize
  /\ pc = "verify" => pool[file_name] # "absent"
  /\ file_handle = "new" => pool[file_name] = "absent"
  /\ file_handle = "inplace" => pool[file_name] = "valid"

\* Files that were asked for and are still to come are not in the pool, except
\* the one just closed and second copies of what has come already.
WantedInv ==
  /\ pc = "request" => want # {} /\ \A i \in want : pool[Entries[i]] = "absent"
  /\ pc \in Streaming =>
       \A i \in want :
         /\ i < list_it => pool[Entries[i]] = "valid" /\ Entries[i] \notin damaged
         /\ i >= list_it /\ pool[Entries[i]] # "absent" =>
              \/ pc = "verify" /\ Entries[i] = file_name
              \/ \E j \in want : j < list_it /\ Entries[j] = Entries[i]

\* The first n bytes of the length field are in cursize_buf.
FieldRead(n) ==
  \A i \in 1..n : cursize_buf[i] = LengthField(sentLen[Entries[srv]])[i]

InStepInv ==
  stale = 0 =>
    /\ pc = "header" => /\ IsNextWanted(list_it, srv)
                        /\ off = skipped
                        /\ srv <= nfiles => FieldRead(skipped)
    /\ pc = "open" => /\ IsNextWanted(list_it, srv) /\ srv <= nfiles
                      /\ off = LENGTH_SIZE /\ FieldRead(LENGTH_SIZE)
    /\ pc = "body" => /\ list_it = srv
                      /\ compsize = sentLen[file_name]
                      /\ off = LENGTH_SIZE + file_pos
                      /\ clean <=> file_pos = 0 \/ file_name \notin damaged
    /\ pc = "close" => /\ IsNextWanted(list_it + 1, srv) /\ off = 0
                       /\ file_pos = sentLen[file_name]
                       /\ clean <=> file_name \notin damaged
    /\ pc = "verify" => /\ IsNextWanted(list_it + 1, srv) /\ off = 0
                        /\ skipped = 0
                        /\ pool[file_name] = "valid" <=> file_name \notin damaged
    /\ pc = "reject" => file_name \in damaged

StaleInv ==
  stale > 0 =>
    /\ pc \in Streaming => \A i \in want : list_it <= i
    /\ pc \in {"header", "open"} => /\ IsNextWanted(list_it, srv) /\ srv <= nfiles
                                    /\ stale <= skipped /\ off = skipped - stale
    /\ pc = "body" => \/ file_pos = 0 /\ off = LENGTH_SIZE - stale
                      \/ ~clean
    /\ pc = "close" => file_pos = 0 \/ ~clean
    /\ pc = "verify" => pool[file_name] # "valid"

ValidateInv ==
  pc = "validate" =>
    /\ vi > 1 => sdp = "good"
    /\ vvalid => \A i \in 1..(vi - 1) : pool[Entries[i]] = "valid"

Inv ==
  /\ TypeOK /\ SentInv /\ ShapeInv /\ WantedInv /\ InStepInv /\ StaleInv
  /\ ValidateInv

--------------------------------------------------------------------------------
(* The constants, the length field and the list *)

\* The list is made of pool files.
LEMMA EntryFacts ==
  /\ Len(Entries) \in Nat \ {0}
  /\ \A i \in 1..Len(Entries) : Entries[i] \in PoolFiles
  /\ Size \in [PoolFiles -> SentLengths]
  BY SdpAssumption, SMT

\* Lengths are natural numbers of 31 bits.
LEMMA MaxLengthValue == MaxLength = 2147483647
  BY SMT DEF MaxLength

LEMMA MaxLengthBound ==
  /\ MaxLength \in Nat
  /\ \A n \in Nat : n <= MaxLength => n <= 2147483647
  BY MaxLengthValue, SMT

LEMMA LengthFacts ==
  ASSUME NEW n \in 1..MaxLength
  PROVE  n \in Nat /\ n > 0 /\ n <= 2147483647
  <1>1. n \in Nat /\ n > 0 /\ n <= MaxLength
    BY MaxLengthBound, SMT
  <1> QED
    BY <1>1, MaxLengthBound, SMT

\* The bytes of a number of 31 bits ...
LEMMA Bytes ==
  ASSUME NEW n \in Nat, n <= 2147483647
  PROVE  /\ n \div 16777216 \in 0..255
         /\ (n \div 65536) % 256 \in 0..255
         /\ (n \div 256) % 256 \in 0..255
         /\ n % 256 \in 0..255
  <1>1. n \div 65536 \in Nat /\ n \div 256 \in Nat
    BY SMT
  <1>2. \A m \in Nat : m % 256 \in 0..255
    BY SMT
  <1>3. n \div 16777216 \in 0..255
    BY SMT
  <1> QED
    BY <1>1, <1>2, <1>3, SMT

\* ... and how they make it up.
LEMMA ByteSum ==
  ASSUME NEW n \in Nat
  PROVE  /\ (n \div 16777216) * 256 + ((n \div 65536) % 256) = n \div 65536
         /\ (n \div 65536) * 256 + ((n \div 256) % 256) = n \div 256
         /\ (n \div 256) * 256 + (n % 256) = n
  BY SMT

\* A length field is four bytes.
LEMMA LengthFieldType ==
  ASSUME NEW n \in 1..MaxLength, NEW i \in 1..LENGTH_SIZE
  PROVE  LengthField(n)[i] \in Byte
  <1>1. n \in Nat /\ n <= 2147483647
    BY LengthFacts
  <1>2. i = 1 \/ i = 2 \/ i = 3 \/ i = 4
    BY SMT DEF LENGTH_SIZE
  <1>3. /\ LengthField(n)[1] \in Byte /\ LengthField(n)[2] \in Byte
        /\ LengthField(n)[3] \in Byte /\ LengthField(n)[4] \in Byte
    <2>1. /\ LengthField(n)[1] = n \div 16777216
          /\ LengthField(n)[2] = (n \div 65536) % 256
          /\ LengthField(n)[3] = (n \div 256) % 256
          /\ LengthField(n)[4] = n % 256
      BY SMT DEF LengthField
    <2> QED
      BY <1>1, <2>1, Bytes, SMT DEF Byte
  <1> QED
    BY <1>2, <1>3, Zenon

\* parse_int32 reads what the server wrote, for every length.
LEMMA ParseLengthField ==
  ASSUME NEW n \in 1..MaxLength, NEW c,
         \A i \in 1..LENGTH_SIZE : c[i] = LengthField(n)[i]
  PROVE  ParseInt32(c) = n
  <1>1. /\ c[1] = LengthField(n)[1] /\ c[2] = LengthField(n)[2]
        /\ c[3] = LengthField(n)[3] /\ c[4] = LengthField(n)[4]
    BY SMT DEF LENGTH_SIZE
  <1> QED
    BY <1>1, LengthFacts, ByteSum, SMT DEF LengthField, ParseInt32

\* Any four bytes make a length.
LEMMA AnyLength ==
  ASSUME NEW c \in [1..LENGTH_SIZE -> Byte]
  PROVE  ParseInt32(c) \in Nat
  <1>1. c[1] \in Nat /\ c[2] \in Nat /\ c[3] \in Nat /\ c[4] \in Nat
    BY SMT DEF Byte, LENGTH_SIZE
  <1>2. \A a, b \in Nat : a * 256 + b \in Nat
    BY SMT
  <1>3. c[1] * 256 + c[2] \in Nat
    BY <1>1, <1>2, Zenon
  <1>4. (c[1] * 256 + c[2]) * 256 + c[3] \in Nat
    BY <1>1, <1>2, <1>3, Zenon
  <1> QED
    BY <1>1, <1>2, <1>4, Zenon DEF ParseInt32

--------------------------------------------------------------------------------
(* The invariant holds initially and through the steps around the stream *)

\* Streaming spelled out.
LEMMA StreamingStates ==
  /\ "header" \in Streaming /\ "open" \in Streaming /\ "body" \in Streaming
  /\ "close" \in Streaming /\ "verify" \in Streaming /\ "reject" \in Streaming
  /\ \A s \in {"idle", "self", "rename", "parse", "check", "request", "failed",
               "validate"} : s \notin Streaming
  BY DEF Streaming

LEMMA InitInv == Init => Inv
  <1> SUFFICES ASSUME Init PROVE Inv
    OBVIOUS
  <1>1. DiskType /\ CallType /\ FileType /\ ParseType /\ ServerType
    BY EntryFacts, SMT DEF Init, DiskType, CallType, FileType, ParseType,
                           ServerType, LENGTH_SIZE, Byte
  <1>2. FlagType
    BY DEF Init, FlagType
  <1>3. SentInv /\ ShapeInv /\ WantedInv /\ InStepInv /\ StaleInv /\ ValidateInv
    BY SMT DEF Init, SentInv, ShapeInv, WantedInv, InStepInv, StaleInv,
               ValidateInv, Streaming, LENGTH_SIZE
  <1> QED
    BY <1>1, <1>2, <1>3 DEF Inv, TypeOK

\* Call, up to the check of the pool.
LEMMA PrepareInv ==
  ASSUME Inv, Call \/ DownloadSelf \/ RenameSdp \/ ParseDownloaded
  PROVE  Inv'
  <1> USE DEF Call, DownloadSelf, RenameSdp, ParseDownloaded, ParseGoodSdp,
              ParseBadSdp, Return, callVars, listVars, fileVars, parseVars,
              serverVars, validVars, Inv, TypeOK
  <1>1. DiskType'
    BY SMT DEF DiskType
  <1>2. CallType'
    <2>1. \/ want' = {} /\ nfiles' = Len(Entries)
          \/ want' = {} /\ nfiles' \in 0..(Len(Entries) - 1)
          \/ UNCHANGED listVars
      BY SMT
    <2>4. nfiles' \in 0..Len(Entries)
      BY <2>1, EntryFacts, SMT DEF CallType
    <2>5. want' \in SUBSET (1..nfiles')
      <3>1. want' = {} \/ (want' = want /\ nfiles' = nfiles)
        BY <2>1, SMT
      <3> QED
        BY <3>1, Zenon DEF CallType
    <2>2. state' \in {"NONE", "FINISHED"} /\ ret' \in {"none", "true", "false"}
      BY SMT DEF CallType
    <2>3. pc' \in {"idle", "self", "rename", "parse", "check"}
      BY SMT
    <2> QED
      BY <2>2, <2>3, <2>4, <2>5 DEF CallType
  <1>3. FileType' /\ ParseType' /\ ServerType'
    BY SMT DEF FileType, ParseType, ServerType
  <1>4. FlagType'
    BY DEF FlagType
  <1>5. SentInv'
    BY SMT DEF SentInv
  <1>6. ShapeInv'
    BY SMT DEF ShapeInv
  <1>7. WantedInv' /\ InStepInv' /\ StaleInv' /\ ValidateInv'
    BY SMT DEF WantedInv, InStepInv, StaleInv, ValidateInv, Streaming
  <1> QED
    BY <1>1, <1>2, <1>3, <1>4, <1>5, <1>6, <1>7

\* The pool is looked through: what is missing is wanted.
LEMMA CheckPoolInv ==
  ASSUME Inv, CheckPool
  PROVE  Inv'
  <1> USE DEF CheckPool, Return, diskVars, callVars, listVars, fileVars,
              parseVars, serverVars, validVars, Inv, TypeOK
  <1>1. DiskType' /\ CallType'
    BY SMT DEF DiskType, CallType
  <1>2. FileType' /\ ParseType' /\ ServerType'
    BY SMT DEF FileType, ParseType, ServerType
  <1>3. FlagType'
    BY DEF FlagType
  <1>4. SentInv' /\ ShapeInv'
    BY SMT DEF SentInv, ShapeInv
  <1>5. WantedInv' /\ InStepInv' /\ StaleInv' /\ ValidateInv'
    BY SMT DEF WantedInv, Streaming, InStepInv, StaleInv, ValidateInv
  <1> QED
    BY <1>1, <1>2, <1>3, <1>4, <1>5

\* The POST: a new answer, read with whatever is left in `skipped`.
LEMMA RequestInv ==
  ASSUME Inv, Request
  PROVE  Inv'
  <1> USE DEF Request, SafeCloseFile, ClosedPool, diskVars, callVars, listVars,
              fileVars, parseVars, serverVars, validVars, Inv, TypeOK
  <1>p. pool' = pool /\ skipped' = skipped /\ UNCHANGED <<nfiles, want>>
    BY SMT DEF ShapeInv
  <1>1. DiskType'
    BY SMT DEF DiskType
  <1>2. CallType'
    BY StreamingStates, SMT DEF CallType
  <1>3. FileType' /\ ParseType'
    BY SMT DEF FileType, ParseType, LENGTH_SIZE
  <1>4. ServerType'
    <2>1. srv' \in 1..(nfiles + 1) /\ off' = 0
      BY SMT DEF IsNextWanted
    <2>2. nfiles + 1 <= Len(Entries) + 1 /\ nfiles \in Nat
      BY EntryFacts, SMT DEF CallType
    <2>3. skipped \in 0..(LENGTH_SIZE - 1)
      BY SMT DEF ShapeInv, ParseType, LENGTH_SIZE
    <2> QED
      BY <2>1, <2>2, <2>3, EntryFacts, SMT DEF ServerType
  <1>5. FlagType'
    BY DEF FlagType
  <1>6. SentInv' /\ ShapeInv'
    BY SMT DEF SentInv, ShapeInv
  <1>7. InStepInv' /\ ValidateInv'
    BY SMT DEF InStepInv, FieldRead, IsNextWanted, ValidateInv
  <1>8. WantedInv'
    <2>1. /\ pc' = "header" /\ list_it' = 1
          /\ \A i \in want : pool[Entries[i]] = "absent"
      BY SMT DEF WantedInv
    <2>2. \A i \in want : ~(i < 1)
      BY EntryFacts, SMT DEF CallType
    <2> QED
      BY <1>p, <2>1, <2>2, SMT DEF WantedInv
  <1>9. StaleInv'
    <2>1. /\ want # {} /\ \A i \in want : i \in 1..nfiles
          /\ nfiles \in Nat
      BY EntryFacts, SMT DEF WantedInv, CallType
    <2>2. IsNextWanted(1, srv') /\ pc' = "header" /\ list_it' = 1 /\ off' = 0
      BY SMT
    <2>3. srv' <= nfiles
      BY <2>1, <2>2, SMT DEF IsNextWanted
    <2>4. stale' = skipped /\ skipped \in Nat
      BY SMT DEF ParseType
    <2> QED
      BY <1>p, <2>1, <2>2, <2>3, <2>4, SMT DEF StaleInv, IsNextWanted
  <1> QED
    BY <1>1, <1>2, <1>3, <1>4, <1>5, <1>6, <1>7, <1>8, <1>9

-------------------------------------------------------------------------------
(* The stream *)

\* Lengths that are announced, and lengths of files, are positive.
LEMMA SentFacts == \A n \in SentLengths : n \in 1..MaxLength /\ n \in Nat /\ n > 0
  BY SdpAssumption, LengthFacts, SMT

LEMMA SizeFacts ==
  ASSUME ServerType, NEW f \in PoolFiles
  PROVE  /\ sentLen[f] \in 1..MaxLength /\ sentLen[f] \in Nat /\ sentLen[f] > 0
         /\ Size[f] \in Nat /\ Size[f] > 0
  <1>1. sentLen[f] \in SentLengths /\ Size[f] \in SentLengths
    BY EntryFacts, SMT DEF ServerType
  <1> QED
    BY <1>1, SentFacts

\* Wanted entries are entries that were parsed.
LEMMA WantedFacts ==
  ASSUME CallType
  PROVE  /\ nfiles \in Nat /\ nfiles <= Len(Entries)
         /\ \A i \in 1..nfiles : Entries[i] \in PoolFiles
         /\ \A i \in want : i \in 1..nfiles /\ Entries[i] \in PoolFiles
  BY EntryFacts, SMT DEF CallType

\* There is one next wanted entry.
LEMMA NextWantedUnique ==
  ASSUME CallType, NEW i \in Nat, NEW j, NEW k,
         IsNextWanted(i, j), IsNextWanted(i, k)
  PROVE  j = k
  BY WantedFacts, SMT DEF IsNextWanted

\* A wanted file that is there already was sent before, undamaged; so the answer
\* has been read in step.
LEMMA SecondCopy ==
  ASSUME Inv, pc \in {"open", "body", "close"}, NEW i \in want, i >= list_it,
         pool[Entries[i]] # "absent"
  PROVE  /\ stale = 0 /\ Entries[i] \notin damaged
         /\ pool[Entries[i]] = "valid" /\ sentLen[Entries[i]] = Size[Entries[i]]
  <1> USE DEF Inv, TypeOK
  <1>1. pc \in Streaming /\ pc # "verify"
    BY SMT DEF Streaming
  <1>2. PICK j \in want : j < list_it /\ Entries[j] = Entries[i]
    BY <1>1, SMT DEF WantedInv
  <1>3. pool[Entries[i]] = "valid" /\ Entries[i] \notin damaged
    BY <1>1, <1>2, SMT DEF WantedInv
  <1>4. ~(list_it <= j)
    BY <1>2, WantedFacts, SMT DEF ParseType
  <1>5. stale = 0
    BY <1>1, <1>4, SMT DEF StaleInv, ServerType
  <1> QED
    BY <1>3, <1>5, WantedFacts, SMT DEF SentInv

\* Length bytes: never more than the field has left, in step or not.
LEMMA GetLengthInv ==
  ASSUME Inv, NEW k \in 1..LENGTH_SIZE, GetLength(k)
  PROVE  Inv'
  <1> USE DEF GetLength, Consume, BytesLeft, diskVars, callVars, listVars,
              fileVars, parseVars, serverVars, validVars, Inv, TypeOK
  <1>n. nfiles \in Nat /\ srv \in 1..nfiles /\ Entries[srv] \in PoolFiles
    BY WantedFacts, SMT DEF ServerType
  <1>l. /\ sentLen[Entries[srv]] \in 1..MaxLength
        /\ sentLen[Entries[srv]] \in Nat /\ sentLen[Entries[srv]] > 0
    BY <1>n, SizeFacts
  <1>o. off = skipped - stale /\ off \in Nat /\ IsNextWanted(list_it, srv)
    BY SMT DEF InStepInv, StaleInv, ServerType, ParseType, LENGTH_SIZE
  <1>k. k < BytesLeft /\ off + k <= LENGTH_SIZE
    BY <1>l, <1>o, SMT DEF BytesLeft, ServerType, ParseType, LENGTH_SIZE
  <1>s. off' = off + k /\ srv' = srv
    BY <1>k, Zenon DEF Consume
  <1>1. DiskType'
    BY SMT DEF DiskType
  <1>2. CallType'
    BY StreamingStates, SMT DEF CallType
  <1>3. FileType'
    BY SMT DEF FileType
  <1>4. ParseType'
    <2>1. skipped' \in 0..LENGTH_SIZE
      BY SMT DEF ParseType, LENGTH_SIZE
    <2>2. ASSUME NEW i \in (skipped + 1)..(skipped + k), i \in 1..LENGTH_SIZE
          PROVE  off + i - skipped \in 1..LENGTH_SIZE
      BY <1>k, <1>o, SMT DEF ParseType, ServerType, LENGTH_SIZE
    <2>3. \A i \in 1..LENGTH_SIZE :
            i \in (skipped + 1)..(skipped + k) =>
              LengthField(sentLen[Entries[srv]])[off + i - skipped] \in Byte
      BY <2>2, <1>l, LengthFieldType, Zenon
    <2>4. cursize_buf' \in [1..LENGTH_SIZE -> Byte]
      BY <2>3, SMT DEF ParseType
    <2> QED
      BY <2>1, <2>4, SMT DEF ParseType
  <1>5. ServerType'
    BY <1>s, <1>n, <1>o, SMT DEF ServerType, LENGTH_SIZE
  <1>6. FlagType'
    BY DEF FlagType
  <1>7. SentInv' /\ ShapeInv'
    BY SMT DEF SentInv, ShapeInv
  <1>8. WantedInv' /\ ValidateInv'
    BY SMT DEF WantedInv, Streaming, ValidateInv
  <1>9. InStepInv'
    <2> SUFFICES ASSUME stale = 0 PROVE InStepInv'
      BY SMT DEF InStepInv
    <2>1. skipped \in Nat /\ off = skipped /\ FieldRead(skipped)
      BY <1>n, SMT DEF InStepInv, ParseType
    <2>2. ASSUME NEW i \in 1..(skipped + k), i \in 1..LENGTH_SIZE
          PROVE  cursize_buf'[i] = LengthField(sentLen[Entries[srv]])[i]
      <3>1. CASE i \in 1..skipped
        <4>1. i \notin (skipped + 1)..(skipped + k) /\ i \in 1..skipped
          BY <2>1, <3>1, SMT
        <4>2. cursize_buf'[i] = cursize_buf[i]
          BY <4>1, <2>2, SMT
        <4> QED
          BY <4>1, <4>2, <2>1, SMT DEF FieldRead
      <3>2. CASE i \in (skipped + 1)..(skipped + k)
        <4>1. off + i - skipped = i
          BY <2>1, SMT
        <4> QED
          BY <4>1, <3>2, <2>2, SMT
      <3> QED
        BY <2>1, <3>1, <3>2, SMT
    <2>3. FieldRead(skipped)'
      <3>1. skipped' = skipped + k /\ skipped + k <= LENGTH_SIZE /\ sentLen' = sentLen
        BY SMT
      <3>2. \A i \in 1..(skipped + k) :
              cursize_buf'[i] = LengthField(sentLen[Entries[srv]])[i]
        BY <2>1, <2>2, <3>1, SMT DEF LENGTH_SIZE
      <3> QED
        BY <1>s, <3>1, <3>2, SMT DEF FieldRead
    <2>4. IsNextWanted(list_it, srv)' /\ srv' <= nfiles' /\ off' = skipped'
      BY <1>o, <1>s, <2>1, SMT DEF IsNextWanted
    <2>5. pc' = "header" \/ (pc' = "open" /\ skipped' = LENGTH_SIZE)
      BY SMT
    <2> QED
      BY <2>3, <2>4, <2>5, SMT DEF InStepInv
  <1>10. StaleInv'
    <2>1. IsNextWanted(list_it, srv)' /\ srv' <= nfiles'
      BY <1>o, <1>s, <1>n, SMT DEF IsNextWanted
    <2>2. off' = skipped' - stale'
      BY <1>o, <1>s, SMT DEF ParseType, ServerType
    <2>3. pc' \in {"header", "open"} /\ list_it' = list_it /\ want' = want
      BY SMT
    <2>4. stale > 0 => stale' <= skipped' /\ \A i \in want : list_it <= i
      BY StreamingStates, SMT DEF StaleInv, ParseType, ServerType
    <2> QED
      BY <2>1, <2>2, <2>3, <2>4, SMT DEF StaleInv
  <1> QED
    BY <1>1, <1>2, <1>3, <1>4, <1>5, <1>6, <1>7, <1>8, <1>9, <1>10

\* The next file is opened; one that is there already is not cut.
LEMMA OpenNextFileInv ==
  ASSUME Inv, OpenNextFile
  PROVE  Inv' /\ pool' = pool
  <1> USE DEF diskVars, callVars, listVars, fileVars, parseVars, serverVars,
              validVars, Inv, TypeOK
  <1> DEFINE len == ParseInt32(cursize_buf)
  <1>1. PICK j \in list_it..nfiles :
          /\ pc = "open" /\ IsNextWanted(list_it, j)
          /\ list_it' = j /\ compsize' = len
          /\ file_name' = Entries[j] /\ file_pos' = 0 /\ clean' = TRUE
          /\ file_handle' = IF pool[Entries[j]] # "absent" THEN "inplace" ELSE "new"
          /\ pool' = IF pool[Entries[j]] # "absent" /\ len > 0 /\ len # Size[Entries[j]]
                       THEN [pool EXCEPT ![Entries[j]] = "broken"] ELSE pool
          /\ pc' = IF len = 0 THEN "close" ELSE "body"
    BY Zenon DEF OpenNextFile
  <1>2. UNCHANGED <<sdp, sdptmp, callVars, listVars, skipped, cursize_buf,
                    serverVars, validVars>>
    BY Zenon DEF OpenNextFile
  <1>3. /\ list_it \in Nat /\ j \in Nat /\ list_it <= j /\ j \in want
        /\ j \in 1..Len(Entries) /\ Entries[j] \in PoolFiles
    BY <1>1, WantedFacts, SMT DEF IsNextWanted, ParseType
  <1>4. len \in Nat
    BY AnyLength DEF ParseType
  <1>5. stale = 0 => len = sentLen[Entries[j]] /\ j = srv /\ off = LENGTH_SIZE
    <2> SUFFICES ASSUME stale = 0
                 PROVE  len = sentLen[Entries[j]] /\ j = srv /\ off = LENGTH_SIZE
      OBVIOUS
    <2>1. IsNextWanted(list_it, srv) /\ off = LENGTH_SIZE /\ FieldRead(LENGTH_SIZE)
      BY <1>1, SMT DEF InStepInv
    <2>2. j = srv
      BY <1>1, <1>3, <2>1, NextWantedUnique, Zenon
    <2>3. sentLen[Entries[j]] \in 1..MaxLength
      BY <1>3, SizeFacts
    <2> QED
      BY <2>1, <2>2, <2>3, ParseLengthField, Zenon DEF FieldRead
  <1>6. pool' = pool /\ (pool[Entries[j]] # "absent" => pool[Entries[j]] = "valid")
    BY <1>1, <1>3, <1>5, SecondCopy, SMT
  <1>7. \A i \in want : i < list_it \/ i >= j
    <2> SUFFICES ASSUME NEW i \in want, ~(i < list_it), ~(i >= j) PROVE FALSE
      OBVIOUS
    <2>1. i \in list_it..(j - 1)
      BY <1>3, WantedFacts, SMT
    <2> QED
      BY <1>1, <2>1, Zenon DEF IsNextWanted
  <1>8. DiskType' /\ CallType' /\ ServerType' /\ SentInv'
    <2>1. DiskType' /\ ServerType' /\ SentInv'
      BY <1>2, <1>6, SMT DEF DiskType, ServerType, SentInv
    <2>2. pc' \in Streaming
      BY <1>1, StreamingStates, SMT
    <2> QED
      BY <1>2, <2>1, <2>2, SMT DEF CallType
  <1>9. FileType' /\ ParseType'
    BY <1>1, <1>2, <1>3, <1>4, SMT DEF FileType, ParseType
  <1>10. FlagType'
    BY <1>1, <1>2 DEF FlagType
  <1>11. ShapeInv'
    BY <1>1, <1>2, <1>3, <1>4, <1>6, SMT DEF ShapeInv
  <1>12. WantedInv'
    <2>1. ASSUME NEW i \in want, i < j
          PROVE  pool[Entries[i]] = "valid" /\ Entries[i] \notin damaged
      BY <1>1, <1>3, <1>7, <2>1, StreamingStates, WantedFacts, SMT DEF WantedInv
    <2>2. ASSUME NEW i \in want, i >= j, pool[Entries[i]] # "absent"
          PROVE  \E m \in want : m < j /\ Entries[m] = Entries[i]
      <3>1. i >= list_it /\ pc \in Streaming /\ pc # "verify"
        BY <1>1, <1>3, <2>2, StreamingStates, WantedFacts, SMT
      <3>2. PICK m \in want : m < list_it /\ Entries[m] = Entries[i]
        BY <2>2, <3>1, SMT DEF WantedInv
      <3> QED
        BY <1>3, <3>2, WantedFacts, SMT
    <2> QED
      BY <1>1, <1>2, <1>6, <2>1, <2>2, SMT DEF WantedInv
  <1>13. InStepInv'
    <2>1. stale = 0 => pc' = "body"
      BY <1>1, <1>3, <1>5, SizeFacts, SMT
    <2> QED
      BY <1>1, <1>2, <1>5, <2>1, SMT DEF InStepInv, LENGTH_SIZE
  <1>14. StaleInv'
    <2>1. stale > 0 => /\ off = LENGTH_SIZE - stale
                       /\ \A i \in want : j <= i
      BY <1>1, <1>3, <1>7, StreamingStates, WantedFacts, SMT DEF StaleInv, ShapeInv
    <2> QED
      BY <1>1, <1>2, <2>1, SMT DEF StaleInv
  <1>15. ValidateInv'
    BY <1>1, SMT DEF ValidateInv
  <1> QED
    BY <1>6, <1>8, <1>9, <1>10, <1>11, <1>12, <1>13, <1>14, <1>15

\* Bytes are written; over a file that is there already only the same ones.
LEMMA WriteDataInv ==
  ASSUME Inv, NEW k \in 1..compsize, WriteData(k)
  PROVE  Inv' /\ pool' = pool
  <1> USE DEF diskVars, callVars, listVars, fileVars, parseVars, serverVars,
              validVars, Inv, TypeOK
  <1>1. /\ pc = "body" /\ srv <= nfiles /\ file_pos + k <= compsize
        /\ k <= IF off < LENGTH_SIZE THEN LENGTH_SIZE - off ELSE BytesLeft
        /\ file_pos' = file_pos + k
        /\ clean' = (clean /\ RightByte)
        /\ pool' = IF file_handle = "inplace" /\ ~RightByte
                     THEN [pool EXCEPT ![file_name] = "broken"] ELSE pool
        /\ Consume(k)
        /\ pc' = IF file_pos + k = compsize THEN "close" ELSE "body"
    BY Zenon DEF WriteData
  <1>2. UNCHANGED <<sdp, sdptmp, callVars, listVars, parseVars, file_handle,
                    file_name, compsize, damaged, sentLen, stale, validVars>>
    BY Zenon DEF WriteData
  <1>3. /\ list_it \in want /\ file_name = Entries[list_it]
        /\ file_name \in PoolFiles /\ list_it \in Nat
    BY <1>1, WantedFacts, SMT DEF ShapeInv, ParseType
  <1>4. /\ k \in Nat /\ k > 0 /\ file_pos \in Nat /\ compsize \in Nat
        /\ off \in Nat /\ nfiles \in Nat /\ nfiles <= Len(Entries)
        /\ srv \in 1..nfiles /\ stale \in Nat /\ LENGTH_SIZE = 4
        /\ sentLen[Entries[srv]] \in Nat /\ sentLen[Entries[srv]] > 0
    <2>1. /\ file_pos \in Nat /\ compsize \in Nat /\ off \in Nat /\ stale \in Nat
          /\ LENGTH_SIZE = 4
      BY SMT DEF FileType, ServerType, LENGTH_SIZE
    <2>2. nfiles \in Nat /\ nfiles <= Len(Entries) /\ srv \in 1..nfiles
      BY <1>1, WantedFacts, SMT DEF ServerType
    <2>3. Entries[srv] \in PoolFiles
      BY <2>2, WantedFacts
    <2> QED
      BY <2>1, <2>2, <2>3, SizeFacts, SMT
  <1>5. stale = 0 => RightByte <=> file_name \notin damaged
    BY <1>1, <1>4, SMT DEF InStepInv, RightByte, ShapeInv
  <1>6. stale > 0 => ~RightByte \/ ~clean
    BY <1>1, <1>4, SMT DEF StaleInv, RightByte
  <1>7. pool' = pool
    <2>1. CASE file_handle = "inplace"
      <3>1. pool[file_name] # "absent"
        BY <2>1, SMT DEF ShapeInv
      <3>2. stale = 0 /\ file_name \notin damaged
        BY <1>1, <1>3, <3>1, SecondCopy, SMT
      <3> QED
        BY <1>1, <1>5, <3>2, SMT
    <2>2. CASE file_handle # "inplace"
      BY <1>1, <2>2, SMT
    <2> QED
      BY <2>1, <2>2
  <1>8. /\ srv' \in 1..(nfiles + 1) /\ off' \in Nat
        /\ \/ off' = off + k /\ srv' = srv /\ k < BytesLeft
           \/ /\ k = BytesLeft /\ off >= LENGTH_SIZE
              /\ off' = 0 /\ IsNextWanted(srv + 1, srv')
    <2>1. CASE k < BytesLeft
      BY <1>1, <1>4, <2>1, SMT DEF Consume
    <2>2. CASE ~(k < BytesLeft)
      <3>1. BytesLeft \in Int /\ k = BytesLeft /\ off >= LENGTH_SIZE
        BY <1>1, <1>4, <2>2, SMT DEF BytesLeft
      <3>2. /\ off' = 0
            /\ \E j \in (srv + 1)..(nfiles + 1) : IsNextWanted(srv + 1, j) /\ srv' = j
        BY <1>1, <2>2, Zenon DEF Consume
      <3> QED
        BY <1>4, <3>1, <3>2, SMT
    <2> QED
      BY <2>1, <2>2
  <1>9. DiskType' /\ CallType' /\ SentInv'
    <2>1. DiskType' /\ SentInv'
      BY <1>2, <1>7, SMT DEF DiskType, SentInv
    <2>2. pc' \in Streaming
      BY <1>1, StreamingStates, SMT
    <2> QED
      BY <1>2, <2>1, <2>2, SMT DEF CallType
  <1>10. FileType' /\ ParseType' /\ ServerType'
    <2>1. FileType' /\ ParseType'
      BY <1>1, <1>2, <1>4, SMT DEF FileType, ParseType
    <2> QED
      BY <1>2, <1>4, <1>8, <2>1, SMT DEF ServerType
  <1>11. FlagType'
    BY <1>1, <1>2 DEF FlagType
  <1>12. ShapeInv'
    BY <1>1, <1>2, <1>4, <1>7, SMT DEF ShapeInv
  <1>13. WantedInv'
    BY <1>1, <1>2, <1>7, StreamingStates, SMT DEF WantedInv
  <1>14. InStepInv'
    <2> SUFFICES ASSUME stale = 0 PROVE InStepInv'
      BY <1>2, SMT DEF InStepInv
    <2>1. /\ list_it = srv /\ compsize = sentLen[file_name]
          /\ off = LENGTH_SIZE + file_pos
          /\ BytesLeft = compsize - file_pos
      BY <1>1, <1>3, <1>4, SMT DEF InStepInv, BytesLeft
    <2>2. clean' <=> file_name \notin damaged
      <3>1. clean <=> file_pos = 0 \/ file_name \notin damaged
        BY <1>1 DEF InStepInv
      <3>2. clean' <=> clean /\ RightByte
        BY <1>1, Zenon
      <3> QED
        BY <1>5, <3>1, <3>2, Zenon
    <2>3. CASE k < BytesLeft
      <3>1. /\ pc' = "body" /\ off' = off + k /\ srv' = srv /\ file_pos' # 0
        BY <1>1, <1>4, <1>8, <2>1, <2>3, SMT
      <3> QED
        BY <1>1, <1>2, <1>4, <2>1, <2>2, <3>1, SMT DEF InStepInv
    <2>4. CASE ~(k < BytesLeft)
      <3>1. pc' = "close" /\ off' = 0 /\ file_pos' = compsize
        BY <1>1, <1>4, <1>8, <2>1, <2>4, SMT
      <3>2. IsNextWanted(list_it + 1, srv)'
        <4>1. IsNextWanted(srv + 1, srv')
          BY <1>8, <2>4
        <4>2. list_it' = srv /\ nfiles' = nfiles /\ want' = want
          BY <1>2, <2>1, SMT
        <4> QED
          BY <4>1, <4>2, Zenon DEF IsNextWanted
      <3> QED
        BY <1>2, <2>1, <2>2, <3>1, <3>2, SMT DEF InStepInv
    <2> QED
      BY <2>3, <2>4
  <1>15. StaleInv'
    <2>1. stale > 0 => ~clean'
      BY <1>1, <1>6, Zenon
    <2> QED
      BY <1>1, <1>2, <2>1, StreamingStates, SMT DEF StaleInv
  <1>16. ValidateInv'
    BY <1>1, SMT DEF ValidateInv
  <1> QED
    BY <1>7, <1>9, <1>10, <1>11, <1>12, <1>13, <1>14, <1>15, <1>16

\* The file is closed, and takes its place in the pool if it is new.
LEMMA CloseFileInv ==
  ASSUME Inv, CloseFile
  PROVE  Inv'
  <1> USE DEF diskVars, callVars, listVars, fileVars, parseVars, serverVars,
              validVars, Inv, TypeOK
  <1>1. pc = "close" /\ pc' = "verify" /\ SafeCloseFile
    BY Zenon DEF CloseFile
  <1>2. UNCHANGED <<sdp, sdptmp, callVars, listVars, list_it, cursize_buf,
                    file_name, compsize, clean, serverVars, validVars>>
    BY Zenon DEF CloseFile
  <1>3. /\ list_it \in want /\ file_name = Entries[list_it]
        /\ file_name \in PoolFiles /\ list_it \in Nat
        /\ file_handle \in {"new", "inplace"} /\ file_pos = compsize
    BY <1>1, WantedFacts, SMT DEF ShapeInv, ParseType, FileType
  <1>4. pool' = ClosedPool /\ file_handle' = "none" /\ file_pos' = 0 /\ skipped' = 0
    BY <1>1, <1>3, SMT DEF SafeCloseFile
  \* The file that was closed is valid exactly if the server's copy is, ...
  <1>5. /\ pool'[file_name] \in {"valid", "broken"}
        /\ \A f \in PoolFiles : f # file_name => pool'[f] = pool[f]
        /\ pool' \in [PoolFiles -> {"absent", "valid", "broken"}]
    BY <1>3, <1>4, SMT DEF ClosedPool, DiskType, ShapeInv
  <1>6. stale = 0 => (pool'[file_name] = "valid" <=> file_name \notin damaged)
    <2> SUFFICES ASSUME stale = 0
                 PROVE  pool'[file_name] = "valid" <=> file_name \notin damaged
      OBVIOUS
    <2>1. CASE file_handle = "inplace"
      <3>1. pool[file_name] # "absent" /\ pool' = pool
        BY <1>4, <2>1, SMT DEF ShapeInv, ClosedPool
      <3>2. file_name \notin damaged /\ pool[file_name] = "valid"
        BY <1>1, <1>3, <3>1, SecondCopy, SMT
      <3> QED
        BY <3>1, <3>2
    <2>2. CASE file_handle = "new"
      <3>1. /\ clean <=> file_name \notin damaged
            /\ file_pos = sentLen[file_name]
        BY <1>1 DEF InStepInv
      <3>2. pool'[file_name] =
              IF clean /\ file_pos = Size[file_name] THEN "valid" ELSE "broken"
        BY <1>3, <1>4, <2>2, SMT DEF ClosedPool, DiskType
      <3>3. file_name \notin damaged => file_pos = Size[file_name]
        BY <1>3, <3>1, SMT DEF SentInv
      <3> QED
        BY <3>1, <3>2, <3>3, Zenon
    <2> QED
      BY <1>3, <2>1, <2>2, SMT
  \* ... and never when the answer was read from the wrong byte on.
  <1>7. stale > 0 => pool'[file_name] # "valid"
    <2> SUFFICES ASSUME stale > 0 PROVE pool'[file_name] # "valid"
      OBVIOUS
    <2>1. file_handle = "new"
      <3>1. stale # 0
        BY SMT DEF ServerType
      <3>2. pool[file_name] = "absent"
        BY <1>1, <1>3, <3>1, SecondCopy, SMT
      <3> QED
        BY <1>3, <3>2, SMT DEF ShapeInv
    <2>2. file_pos = 0 \/ ~clean
      BY <1>1, SMT DEF StaleInv
    <2>3. Size[file_name] # 0
      BY <1>3, SizeFacts, SMT
    <2>4. ~(clean /\ file_pos = Size[file_name])
      BY <2>2, <2>3, Zenon
    <2>5. pool'[file_name] =
            IF clean /\ file_pos = Size[file_name] THEN "valid" ELSE "broken"
      BY <1>3, <1>4, <2>1, SMT DEF ClosedPool, DiskType
    <2> QED
      BY <2>4, <2>5, Zenon
  <1>8. DiskType' /\ CallType' /\ SentInv'
    <2>1. DiskType' /\ SentInv'
      BY <1>2, <1>5, SMT DEF DiskType, SentInv
    <2>2. pc' \in Streaming
      BY <1>1, StreamingStates, SMT
    <2> QED
      BY <1>2, <2>1, <2>2, SMT DEF CallType
  <1>9. FileType' /\ ParseType' /\ ServerType'
    BY <1>2, <1>4, SMT DEF FileType, ParseType, ServerType, LENGTH_SIZE
  <1>10. FlagType'
    BY <1>2 DEF FlagType
  <1>11. ShapeInv'
    BY <1>1, <1>2, <1>3, <1>4, <1>5, SMT DEF ShapeInv, LENGTH_SIZE
  <1>12. WantedInv'
    <2>1. ASSUME NEW i \in want, i < list_it
          PROVE  pool'[Entries[i]] = "valid" /\ Entries[i] \notin damaged
      <3>1. pool[Entries[i]] = "valid" /\ Entries[i] \notin damaged
        BY <1>1, <2>1, StreamingStates, SMT DEF WantedInv
      <3>2. CASE file_handle = "new"
        BY <1>3, <1>5, <3>1, <3>2, WantedFacts, SMT DEF ShapeInv
      <3>3. CASE file_handle = "inplace"
        BY <1>4, <3>1, <3>3, SMT DEF ClosedPool
      <3> QED
        BY <1>3, <3>2, <3>3, SMT
    <2>2. ASSUME NEW i \in want, i >= list_it, pool'[Entries[i]] # "absent",
                 Entries[i] # file_name
          PROVE  \E m \in want : m < list_it /\ Entries[m] = Entries[i]
      <3>1. pool[Entries[i]] # "absent" /\ pc \in Streaming /\ pc # "verify"
        BY <1>1, <1>5, <2>2, StreamingStates, WantedFacts, SMT
      <3> QED
        BY <2>2, <3>1, SMT DEF WantedInv
    <2> QED
      BY <1>1, <1>2, <2>1, <2>2, SMT DEF WantedInv
  <1>13. InStepInv'
    <2>1. stale = 0 => IsNextWanted(list_it + 1, srv)' /\ off' = 0
      BY <1>1, <1>2, SMT DEF InStepInv, IsNextWanted
    <2> QED
      BY <1>1, <1>2, <1>4, <1>6, <2>1, SMT DEF InStepInv
  <1>14. StaleInv'
    BY <1>1, <1>2, <1>7, StreamingStates, SMT DEF StaleInv
  <1>15. ValidateInv'
    BY <1>1, SMT DEF ValidateInv
  <1> QED
    BY <1>8, <1>9, <1>10, <1>11, <1>12, <1>13, <1>14, <1>15

\* What was written is checked: it is valid iff the server's copy is undamaged.
LEMMA VerifyFileInv ==
  ASSUME Inv, VerifyFile
  PROVE  Inv'
  <1> USE DEF diskVars, callVars, listVars, fileVars, parseVars, serverVars,
              validVars, Inv, TypeOK
  <1>1. pc = "verify"
    BY Zenon DEF VerifyFile
  <1>2. UNCHANGED <<sdp, sdptmp, callVars, listVars, fileVars, skipped,
                    serverVars, validVars>>
    BY Zenon DEF VerifyFile
  <1>3. /\ list_it \in want /\ file_name = Entries[list_it]
        /\ file_name \in PoolFiles /\ list_it \in 1..nfiles
        /\ nfiles \in Nat /\ nfiles <= Len(Entries)
        /\ \A i \in want : i \in 1..nfiles /\ Entries[i] \in PoolFiles
    BY <1>1, WantedFacts, SMT DEF ShapeInv
  <1>4. CASE pool[file_name] = "valid"
    <2>1. /\ list_it' = list_it + 1
          /\ cursize_buf' = [i \in 1..LENGTH_SIZE |-> 0]
          /\ pc' = "header" /\ pool' = pool
      BY <1>4, Zenon DEF VerifyFile
    <2>2. /\ stale = 0 /\ file_name \notin damaged
          /\ IsNextWanted(list_it + 1, srv) /\ off = 0 /\ skipped = 0
      BY <1>1, <1>4, StreamingStates, SMT DEF InStepInv, StaleInv, ServerType
    <2>3. DiskType' /\ CallType' /\ SentInv'
      <3>1. DiskType' /\ SentInv'
        BY <1>2, <2>1, SMT DEF DiskType, SentInv
      <3>2. pc' \in Streaming
        BY <2>1, StreamingStates, SMT
      <3> QED
        BY <1>2, <3>1, <3>2, SMT DEF CallType
    <2>4. FileType' /\ ServerType'
      BY <1>2, SMT DEF FileType, ServerType
    <2>5. ParseType'
      <3>1. list_it' \in 1..(Len(Entries) + 1)
        BY <1>3, <2>1, EntryFacts, SMT
      <3> QED
        BY <1>2, <2>1, <3>1, SMT DEF ParseType, Byte, LENGTH_SIZE
    <2>6. FlagType'
      BY <1>2 DEF FlagType
    <2>7. ShapeInv'
      BY <1>1, <1>2, <2>1, <2>2, SMT DEF ShapeInv, LENGTH_SIZE
    <2>8. WantedInv'
      <3>1. ASSUME NEW i \in want, i < list_it + 1
            PROVE  pool[Entries[i]] = "valid" /\ Entries[i] \notin damaged
        <4>1. i = list_it \/ i < list_it
          BY <1>3, <3>1, SMT
        <4> QED
          BY <1>1, <1>3, <1>4, <2>2, <4>1, StreamingStates, SMT DEF WantedInv
      <3>2. ASSUME NEW i \in want, i >= list_it + 1, pool[Entries[i]] # "absent"
            PROVE  \E m \in want : m < list_it + 1 /\ Entries[m] = Entries[i]
        <4>1. i >= list_it
          BY <1>3, <3>2, SMT
        <4>2. \/ Entries[i] = file_name
              \/ \E m \in want : m < list_it /\ Entries[m] = Entries[i]
          BY <1>1, <3>2, <4>1, StreamingStates, SMT DEF WantedInv
        <4> QED
          BY <1>3, <4>2, SMT
      <3> QED
        BY <1>2, <2>1, <3>1, <3>2, SMT DEF WantedInv
    <2>9. InStepInv'
      <3>1. IsNextWanted(list_it, srv)'
        BY <1>2, <2>1, <2>2, SMT DEF IsNextWanted
      <3>2. FieldRead(skipped)'
        BY <1>2, <2>2, SMT DEF FieldRead
      <3> QED
        BY <1>2, <2>1, <2>2, <3>1, <3>2, SMT DEF InStepInv
    <2>10. StaleInv' /\ ValidateInv'
      BY <1>2, <2>1, <2>2, SMT DEF StaleInv, ValidateInv
    <2> QED
      BY <2>3, <2>4, <2>5, <2>6, <2>7, <2>8, <2>9, <2>10
  <1>5. CASE pool[file_name] # "valid"
    <2>1. /\ pool' = [pool EXCEPT ![file_name] = "absent"]
          /\ pc' = "reject" /\ list_it' = list_it /\ cursize_buf' = cursize_buf
      BY <1>5, Zenon DEF VerifyFile
    <2>2. CallType' /\ SentInv'
      <3>1. pc' \in Streaming
        BY <2>1, StreamingStates, SMT
      <3> QED
        BY <1>2, <3>1, SMT DEF CallType, SentInv
    <2>3. DiskType' /\ FileType' /\ ParseType' /\ ServerType'
      BY <1>2, <1>3, <2>1, SMT DEF DiskType, FileType, ParseType, ServerType
    <2>4. FlagType'
      BY <1>2 DEF FlagType
    <2>5. ShapeInv'
      BY <1>1, <1>2, <2>1, SMT DEF ShapeInv
    <2>6. WantedInv'
      <3>1. ASSUME NEW i \in want, i < list_it
            PROVE  pool'[Entries[i]] = "valid" /\ Entries[i] \notin damaged
        <4>1. pool[Entries[i]] = "valid" /\ Entries[i] \notin damaged
          BY <1>1, <3>1, StreamingStates, SMT DEF WantedInv
        <4> QED
          BY <1>3, <1>5, <2>1, <4>1, SMT DEF DiskType
      <3>2. ASSUME NEW i \in want, i >= list_it, pool'[Entries[i]] # "absent"
            PROVE  \E m \in want : m < list_it /\ Entries[m] = Entries[i]
        <4>1. pool[Entries[i]] # "absent" /\ Entries[i] # file_name
          BY <1>3, <2>1, <3>2, SMT DEF DiskType
        <4> QED
          BY <1>1, <3>2, <4>1, StreamingStates, SMT DEF WantedInv
      <3> QED
        BY <1>2, <2>1, <3>1, <3>2, SMT DEF WantedInv
    <2>7. InStepInv'
      BY <1>1, <1>2, <1>5, <2>1, SMT DEF InStepInv
    <2>8. StaleInv' /\ ValidateInv'
      BY <1>1, <1>2, <2>1, StreamingStates, SMT DEF StaleInv, ValidateInv
    <2> QED
      BY <2>2, <2>3, <2>4, <2>5, <2>6, <2>7, <2>8
  <1> QED
    BY <1>4, <1>5

\* The answer ends, and the file that is still open is closed.
LEMMA EndStreamInv ==
  ASSUME Inv, NEW ok \in BOOLEAN, EndStream(ok)
  PROVE  Inv'
  <1> USE DEF EndStream, SafeCloseFile, ClosedPool, diskVars, callVars,
              listVars, fileVars, parseVars, serverVars, validVars, Inv, TypeOK
  <1>1. DiskType' /\ CallType'
    BY SMT DEF DiskType, CallType
  <1>2. FileType' /\ ParseType' /\ ServerType'
    BY SMT DEF FileType, ParseType, LENGTH_SIZE, ServerType
  <1>3. FlagType'
    BY DEF FlagType
  <1>4. SentInv' /\ ShapeInv'
    BY SMT DEF SentInv, ShapeInv, LENGTH_SIZE
  <1>5. WantedInv' /\ InStepInv' /\ StaleInv' /\ ValidateInv'
    BY SMT DEF WantedInv, Streaming, InStepInv, StaleInv, ValidateInv
  <1> QED
    BY <1>1, <1>2, <1>3, <1>4, <1>5

\* The .sdp is removed.
LEMMA RemoveSdpInv ==
  ASSUME Inv, RemoveSdp \/ ValidateNoSdp
  PROVE  Inv'
  <1> USE DEF RemoveSdp, ValidateNoSdp, Return, diskVars, callVars, listVars,
              fileVars, parseVars, serverVars, validVars, Inv, TypeOK
  <1>1. DiskType'
    BY SMT DEF DiskType
  <1>2. CallType'
    <2>1. pc' = "idle" /\ ret' = "false" /\ state' = state
      BY SMT
    <2>2. nfiles' = nfiles /\ want' = want /\ vi' = vi
      BY SMT
    <2> QED
      BY <2>1, <2>2, Zenon DEF CallType
  <1>3. FileType' /\ ParseType' /\ ServerType'
    BY SMT DEF FileType, ParseType, ServerType
  <1>4. FlagType'
    BY DEF FlagType
  <1>5. SentInv' /\ ShapeInv'
    BY SMT DEF SentInv, ShapeInv
  <1>6. WantedInv' /\ InStepInv' /\ StaleInv' /\ ValidateInv'
    BY SMT DEF WantedInv, Streaming, InStepInv, StaleInv, ValidateInv
  <1> QED
    BY <1>1, <1>2, <1>3, <1>4, <1>5, <1>6

\* An entry is validated, broken files are removed.
LEMMA ValidateEntryInv ==
  ASSUME Inv, ValidateEntry
  PROVE  Inv'
  <1> USE DEF ValidateEntry, diskVars, callVars, listVars, fileVars, parseVars,
              serverVars, validVars, Inv, TypeOK
  <1>e. /\ Entries[vi] \in PoolFiles
        /\ \A i \in 1..vi : i = vi \/ i \in 1..(vi - 1)
    BY EntryFacts, SMT DEF CallType
  <1>p. \/ pool' = pool
        \/ /\ pool[Entries[vi]] = "broken"
           /\ pool' = [pool EXCEPT ![Entries[vi]] = "absent"]
    BY SMT
  <1>1. CallType'
    BY SMT DEF CallType
  <1>2. DiskType'
    BY <1>e, <1>p, SMT DEF DiskType
  <1>3. FileType' /\ ParseType' /\ ServerType'
    BY SMT DEF FileType, ParseType, ServerType
  <1>4. FlagType'
    BY DEF FlagType
  <1>5. SentInv' /\ ShapeInv'
    BY SMT DEF SentInv, ShapeInv
  <1>6. WantedInv' /\ InStepInv' /\ StaleInv'
    BY SMT DEF WantedInv, InStepInv, StaleInv
  <1>7. ValidateInv'
    <2>1. vvalid' => vvalid /\ pool[Entries[vi]] = "valid"
      BY Zenon
    <2>2. ASSUME vvalid' PROVE \A i \in 1..vi : pool'[Entries[i]] = "valid"
      <3>1. \A i \in 1..vi : pool[Entries[i]] = "valid"
        BY <2>1, <2>2, <1>e, SMT DEF ValidateInv
      <3>2. pool' = pool
        BY <2>1, <2>2, <1>p, SMT
      <3> QED
        BY <3>1, <3>2, SMT
    <2>3. vi' - 1 = vi /\ sdp' = "good"
      BY SMT DEF CallType
    <2> QED
      BY <2>2, <2>3, Zenon DEF ValidateInv
  <1> QED
    BY <1>1, <1>2, <1>3, <1>4, <1>5, <1>6, <1>7

\* validateSDP returns.
LEMMA ValidateDoneInv ==
  ASSUME Inv, ValidateDone
  PROVE  Inv'
  <1> USE DEF ValidateDone, Return, diskVars, callVars, listVars, fileVars,
              parseVars, serverVars, validVars, Inv, TypeOK
  <1>1. DiskType' /\ CallType'
    BY SMT DEF DiskType, CallType
  <1>2. FileType' /\ ParseType' /\ ServerType'
    BY SMT DEF FileType, ParseType, ServerType
  <1>3. FlagType'
    BY DEF FlagType
  <1>4. SentInv' /\ ShapeInv'
    BY SMT DEF SentInv, ShapeInv
  <1>5. WantedInv' /\ InStepInv' /\ StaleInv' /\ ValidateInv'
    BY SMT DEF WantedInv, Streaming, InStepInv, StaleInv, ValidateInv
  <1> QED
    BY <1>1, <1>2, <1>3, <1>4, <1>5

\* What happens between two calls.
LEMMA IdleInv ==
  ASSUME Inv, ValidatePool \/ NewSearch
  PROVE  Inv'
  <1> USE DEF ValidatePool, NewSearch, diskVars, callVars, listVars, fileVars,
              parseVars, serverVars, validVars, Inv, TypeOK
  <1>1. DiskType' /\ CallType'
    <2>1. DiskType'
      BY SMT DEF DiskType
    <2>2. CallType'
      BY SMT DEF CallType
    <2> QED
      BY <2>1, <2>2
  <1>2. FileType' /\ ParseType' /\ ServerType'
    BY SMT DEF FileType, ParseType, ServerType
  <1>3. FlagType'
    BY DEF FlagType
  <1>4. SentInv' /\ ShapeInv'
    BY SMT DEF SentInv, ShapeInv
  <1>5. WantedInv' /\ InStepInv' /\ StaleInv' /\ ValidateInv'
    BY SMT DEF WantedInv, Streaming, InStepInv, StaleInv, ValidateInv
  <1> QED
    BY <1>1, <1>2, <1>3, <1>4, <1>5

\* A restart: only the disk is left.
LEMMA CrashInv ==
  ASSUME Inv, Crash
  PROVE  Inv'
  <1> USE DEF Crash, diskVars, callVars, listVars, fileVars, parseVars,
              serverVars, validVars, Inv, TypeOK
  <1>1. DiskType' /\ CallType'
    BY SMT DEF DiskType, CallType
  <1>2. FileType'
    BY SMT DEF FileType
  <1>3. ParseType'
    BY EntryFacts, SMT DEF ParseType, LENGTH_SIZE, Byte
  <1>4. ServerType'
    BY EntryFacts, SMT DEF ServerType, LENGTH_SIZE
  <1>5. FlagType'
    BY DEF FlagType
  <1>6. SentInv' /\ ShapeInv'
    BY SMT DEF SentInv, ShapeInv, LENGTH_SIZE
  <1>7. WantedInv' /\ InStepInv' /\ StaleInv' /\ ValidateInv'
    BY SMT DEF WantedInv, InStepInv, StaleInv, ValidateInv
  <1> QED
    BY <1>1, <1>2, <1>3, <1>4, <1>5, <1>6, <1>7

\* Nothing happens.
LEMMA StutterInv ==
  ASSUME Inv, UNCHANGED vars
  PROVE  Inv'
  <1> USE DEF vars, diskVars, callVars, listVars, fileVars, parseVars,
              serverVars, validVars, Inv, TypeOK
  <1>1. DiskType' /\ CallType'
    BY SMT DEF DiskType, CallType
  <1>2. FileType' /\ ParseType' /\ ServerType'
    BY SMT DEF FileType, ParseType, ServerType
  <1>3. FlagType'
    BY DEF FlagType
  <1>4. SentInv' /\ ShapeInv'
    BY SMT DEF SentInv, ShapeInv
  <1>5. WantedInv' /\ InStepInv' /\ StaleInv' /\ ValidateInv'
    BY SMT DEF WantedInv, InStepInv, FieldRead, IsNextWanted, StaleInv, ValidateInv
  <1> QED
    BY <1>1, <1>2, <1>3, <1>4, <1>5

--------------------------------------------------------------------------------
(* The theorems *)

\* Every step preserves the invariant.
LEMMA NextInv == Inv /\ [Next]_vars => Inv'
  <1> SUFFICES ASSUME Inv, [Next]_vars PROVE Inv'
    OBVIOUS
  <1>1. CASE Call \/ DownloadSelf \/ RenameSdp \/ ParseDownloaded
    BY <1>1, PrepareInv
  <1>2. CASE CheckPool \/ Request
    BY <1>2, CheckPoolInv, RequestInv
  <1>3. CASE Stream
    BY <1>3, GetLengthInv, OpenNextFileInv, WriteDataInv, CloseFileInv,
       VerifyFileInv, EndStreamInv, Zenon DEF Stream
  <1>4. CASE RemoveSdp \/ ValidateNoSdp \/ ValidateEntry \/ ValidateDone
    BY <1>4, RemoveSdpInv, ValidateEntryInv, ValidateDoneInv
  <1>5. CASE ValidatePool \/ NewSearch
    BY <1>5, IdleInv
  <1>6. CASE Crash
    BY <1>6, CrashInv
  <1>7. CASE UNCHANGED vars
    BY <1>7, StutterInv
  <1> QED
    BY <1>1, <1>2, <1>3, <1>4, <1>5, <1>6, <1>7, Zenon DEF Next, Download

LEMMA Invariance == Spec => []Inv
  BY InitInv, NextInv, PTL DEF Spec

\* The variables keep their types; the values read from the answer are lengths
\* of 31 bits whatever the state of the parser.
THEOREM TypeCorrect == Spec => []TypeOK
  <1>1. Inv => TypeOK
    BY DEF Inv
  <1> QED
    BY <1>1, Invariance, PTL

\* However curl cuts the answer, write_streamed_data stays in step with it.
THEOREM StaysInStep == Spec => []InStep
  <1>1. Inv => InStep
    <2> SUFFICES ASSUME Inv, stale = 0 PROVE InStep
      BY DEF InStep
    <2>1. ASSUME pc = "open"
          PROVE  /\ IsNextWanted(list_it, srv) /\ srv <= nfiles
                 /\ ParseInt32(cursize_buf) = sentLen[Entries[srv]]
      <3>1. /\ IsNextWanted(list_it, srv) /\ srv <= nfiles
            /\ FieldRead(LENGTH_SIZE)
        BY <2>1 DEF Inv, InStepInv
      <3>2. CallType /\ ServerType
        BY DEF Inv, TypeOK
      <3>3. srv \in 1..nfiles
        BY <3>1, <3>2, WantedFacts, SMT DEF ServerType
      <3>4. sentLen[Entries[srv]] \in 1..MaxLength
        BY <3>2, <3>3, WantedFacts, SizeFacts
      <3> QED
        BY <3>1, <3>4, ParseLengthField, Zenon DEF FieldRead
    <2>2. ASSUME pc = "body"
          PROVE  /\ list_it = srv /\ file_name = Entries[srv]
                 /\ compsize = sentLen[file_name]
                 /\ off = LENGTH_SIZE + file_pos
      BY <2>2, SMT DEF Inv, InStepInv, ShapeInv
    <2> QED
      BY <2>1, <2>2, SMT DEF Inv, InStepInv, InStep
  <1> QED
    BY <1>1, Invariance, PTL

\* A file is only called broken when the server's copy is, or when the answer
\* was read with length bytes of an earlier one in `skipped`.
THEOREM RejectsOnlyDamaged == Spec => []OnlyDamagedRejected
  <1>1. Inv => OnlyDamagedRejected
    BY SMT DEF Inv, TypeOK, ServerType, InStepInv, OnlyDamagedRejected
  <1> QED
    BY <1>1, Invariance, PTL

\* What list_it has passed is on disk and valid.
THEOREM PassedAreValid == Spec => []PassedFilesValid
  <1>1. Inv => PassedFilesValid
    BY SMT DEF Inv, WantedInv, PassedFilesValid
  <1> QED
    BY <1>1, Invariance, PTL

\* OpenNextFile finds the file a length was sent for.
THEOREM ListHasNext == Spec => []ListNotOverrun
  <1>1. Inv => ListNotOverrun
    <2> SUFFICES ASSUME Inv, pc = "open"
                 PROVE  \E j \in list_it..nfiles : IsNextWanted(list_it, j)
      BY DEF ListNotOverrun
    <2>1. IsNextWanted(list_it, srv) /\ srv <= nfiles
      BY SMT DEF Inv, TypeOK, ServerType, InStepInv, StaleInv
    <2>2. srv \in list_it..nfiles
      BY <2>1, SMT DEF Inv, TypeOK, ServerType, ParseType, IsNextWanted
    <2> QED
      BY <2>1, <2>2
  <1> QED
    BY <1>1, Invariance, PTL

\* A package that came through the streamer is complete when it is finished.
THEOREM FinishedIsComplete == Spec => FinishedByStreamComplete
  <1>1. Inv /\ [Next]_vars =>
          [pc = "validate" /\ state' = "FINISHED" => PackageComplete']_vars
    <2> SUFFICES ASSUME Inv, Next, pc = "validate", state' = "FINISHED"
                 PROVE  PackageComplete'
      OBVIOUS
    <2>1. state # "FINISHED"
      BY SMT DEF Inv, ShapeInv
    <2>2. ValidateDone
      BY <2>1, SMT DEF Next, Download, Stream, Call, DownloadSelf, RenameSdp,
         ParseDownloaded, CheckPool, Request, GetLength, OpenNextFile,
         WriteData, CloseFile, VerifyFile, EndStream, RemoveSdp, ValidateNoSdp,
         ValidateEntry, ValidatePool, NewSearch, Crash, callVars
    <2>3. vvalid /\ vi = Len(Entries) + 1 /\ UNCHANGED diskVars
      BY <2>1, <2>2, Zenon DEF ValidateDone
    <2>4. vi > 1 /\ \A i \in 1..Len(Entries) : i \in 1..(vi - 1)
      BY <2>3, EntryFacts, SMT
    <2>5. sdp = "good" /\ \A i \in 1..Len(Entries) : pool[Entries[i]] = "valid"
      BY <2>3, <2>4, Zenon DEF Inv, ValidateInv
    <2> QED
      BY <2>3, <2>5, SMT DEF PackageComplete, diskVars
  <1> QED
    BY <1>1, Invariance, PTL DEF Spec, FinishedByStreamComplete

\* Closing a file lets it arrive in the pool, if it is new.
LEMMA SafeCloseArrives ==
  ASSUME Inv, SafeCloseFile
  PROVE  pool' = pool \/ \E f \in PoolFiles : Pool!Arrive(f)
  <1>1. CASE file_handle = "new"
    <2>1. file_name \in PoolFiles /\ pool[file_name] = "absent"
      BY <1>1, WantedFacts, SMT DEF Inv, TypeOK, ShapeInv
    <2>2. \E c \in {"valid", "broken"} : pool' = [pool EXCEPT ![file_name] = c]
      BY <1>1, SMT DEF SafeCloseFile, ClosedPool
    <2> QED
      BY <2>1, <2>2, Zenon DEF Pool!Arrive
  <1>2. CASE file_handle # "new"
    BY <1>2, SMT DEF SafeCloseFile, ClosedPool
  <1> QED
    BY <1>1, <1>2

\* Taking a broken file away is a purge.
LEMMA OnePurged ==
  ASSUME Inv, NEW f \in PoolFiles, pool[f] = "broken",
         pool' = [pool EXCEPT ![f] = "absent"]
  PROVE  \E F \in SUBSET PoolFiles : Pool!Purge(F)
  <1>1. pool' = [g \in PoolFiles |-> IF g \in {f} THEN "absent" ELSE pool[g]]
    <2>1. pool \in [PoolFiles -> {"absent", "valid", "broken"}]
      BY DEF Inv, TypeOK, DiskType
    <2>2. pool' = [g \in PoolFiles |-> IF g = f THEN "absent" ELSE pool[g]]
      BY <2>1, Zenon
    <2> QED
      BY <2>2, Zenon
  <1>2. Pool!Purge({f})
    BY <1>1, Zenon DEF Pool!Purge
  <1> QED
    BY <1>2

\* The package download implements the pool that all packages share.
THEOREM ImplementsPool == Spec => PoolSpec
  <1>1. Init => Pool!Init
    BY Zenon DEF Init, Pool!Init
  <1>2. Inv /\ [Next]_vars => [Pool!Next]_pool
    <2> SUFFICES ASSUME Inv, [Next]_vars, pool' # pool
                 PROVE  \/ \E f \in PoolFiles : Pool!Arrive(f)
                        \/ \E F \in SUBSET PoolFiles : Pool!Purge(F)
      BY Zenon DEF Pool!Next
    <2>1. CASE CloseFile \/ (\E ok \in BOOLEAN : EndStream(ok)) \/ Request
      BY <2>1, SafeCloseArrives DEF CloseFile, EndStream, Request
    <2>2. CASE OpenNextFile \/ \E k \in 1..compsize : WriteData(k)
      BY <2>2, OpenNextFileInv, WriteDataInv
    <2>3. CASE VerifyFile
      <3>1. /\ pool' = [pool EXCEPT ![file_name] = "absent"]
            /\ pc = "verify" /\ pool[file_name] # "valid"
        BY <2>3, Zenon DEF VerifyFile
      <3>2. file_name \in PoolFiles /\ pool[file_name] = "broken"
        BY <3>1, WantedFacts, SMT DEF Inv, TypeOK, DiskType, ShapeInv
      <3> QED
        BY <3>1, <3>2, OnePurged
    <2>4. CASE ValidateEntry
      <3>1. /\ pool[Entries[vi]] = "broken" /\ vi <= Len(Entries)
            /\ pool' = [pool EXCEPT ![Entries[vi]] = "absent"]
        BY <2>4, SMT DEF ValidateEntry
      <3>2. Entries[vi] \in PoolFiles
        BY <3>1, EntryFacts, SMT DEF Inv, TypeOK, CallType
      <3> QED
        BY <3>1, <3>2, OnePurged
    <2>5. CASE ValidatePool
      <3>1. Pool!Purge({f \in PoolFiles : pool[f] = "broken"})
        BY <2>5, SMT DEF ValidatePool, Pool!Purge
      <3> QED
        BY <3>1
    <2>6. CASE \/ Call \/ DownloadSelf \/ RenameSdp \/ ParseDownloaded \/ CheckPool
               \/ (\E k \in 1..LENGTH_SIZE : GetLength(k)) \/ RemoveSdp
               \/ ValidateNoSdp \/ ValidateDone \/ NewSearch \/ Crash
               \/ UNCHANGED vars
      BY <2>6, SMT DEF Call, DownloadSelf, RenameSdp, ParseDownloaded, CheckPool,
         GetLength, RemoveSdp, ValidateNoSdp, ValidateDone, NewSearch, Crash,
         vars, diskVars
    <2> QED
      BY <2>1, <2>2, <2>3, <2>4, <2>5, <2>6, Zenon DEF Next, Download, Stream
  <1> QED
    BY <1>1, <1>2, Invariance, PTL DEF Spec, PoolSpec, Pool!Spec
================================================================================
