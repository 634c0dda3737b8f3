------------------------------ MODULE SdpDownload ------------------------------
(***************************************************************************)
(* CSdp::download (src/src/Downloader/Rapid/Sdp.cpp): one rapid package.   *)
(*                                                                         *)
(* A package is an .sdp file, the list of the pool files it is made of.    *)
(* download() fetches the .sdp if the disk has none, looks which pool      *)
(* files are missing, requests these from streamer.cgi with one POST, and  *)
(* cuts the answer, <big endian length><gzip data> per requested file,     *)
(* into pool files while curl delivers it in pieces of any size.           *)
(*                                                                         *)
(* A pool file is abstracted to whether it hashes to its name.  The answer *)
(* is a position: `off` bytes of the item for entry `srv` were consumed.   *)
(* A byte is right when it is written where the server's undamaged copy of *)
(* that very file has it.  Chunk boundaries are arbitrary, so every step   *)
(* may be the last of its callback; an abort request, a timeout or a reset *)
(* connection is EndStream(FALSE).                                         *)
(***************************************************************************)
EXTENDS Integers, Sequences

CONSTANTS
  PoolFiles,    \* names (md5 sums) of pool files
  Entries,      \* the package: the pool files its .sdp lists, in order
  Size,         \* Size[f]: length of the gzipped pool file f
  SentLengths,  \* lengths the server may announce for a file
  NoFile        \* no file name

LENGTH_SIZE == 4
MaxLength == 2147483647        \* lengths go through intmin(int, int)

ASSUME SdpAssumption ==
  /\ Entries \in Seq(PoolFiles) /\ Entries # <<>>
  /\ SentLengths \subseteq 1..MaxLength
  /\ Size \in [PoolFiles -> SentLengths]
  /\ NoFile \notin PoolFiles

VARIABLES
  (* disk *)
  pool,        \* pool[f]: "absent", "valid" or "broken"
  sdp,         \* <md5>.sdp: "absent", "good", or "bad" (digest does not fit)
  sdptmp,      \* <md5>.sdp.tmp, a finished http download not yet renamed
  (* the IDownload of the caller, and what download() last returned *)
  state, ret,
  (* members of the CSdp object, which outlives a call *)
  downloaded,
  nfiles,      \* `files` holds the first nfiles entries
  want,        \* the entries with FileData::download set
  list_it, file_handle, file_name, file_pos, skipped, cursize_buf, compsize,
  clean,       \* every byte written to the open file was right
  (* the answer of streamer.cgi *)
  srv, off,    \* off bytes of the item for entry srv have been consumed
  damaged,     \* files of which the server's own copy is damaged
  sentLen,     \* sentLen[f]: length the server announces and sends for f
  stale,       \* bytes of an earlier answer's length field still in `skipped`
  (* control *)
  pc,
  vi, vvalid   \* loop of validateSDP: next entry, and `valid`

diskVars == <<pool, sdp, sdptmp>>
callVars == <<state, ret, downloaded>>
listVars == <<nfiles, want>>
fileVars == <<file_handle, file_name, file_pos, compsize, clean>>
parseVars == <<list_it, skipped, cursize_buf>>
serverVars == <<srv, off, damaged, sentLen, stale>>
validVars == <<vi, vvalid>>
vars == <<diskVars, callVars, listVars, fileVars, parseVars, serverVars,
          pc, validVars>>

Byte == 0..255
Streaming == {"header", "open", "body", "close", "verify", "reject"}

DiskType ==
  /\ pool \in [PoolFiles -> {"absent", "valid", "broken"}]
  /\ sdp \in {"absent", "good", "bad"}
  /\ sdptmp \in {"absent", "good", "bad"}

CallType ==
  /\ state \in {"NONE", "FINISHED"}
  /\ ret \in {"none", "true", "false"}
  /\ nfiles \in 0..Len(Entries)
  /\ want \in SUBSET (1..nfiles)
  /\ pc \in {"idle", "self", "rename", "parse", "check", "request",
             "failed", "validate"} \union Streaming
  /\ vi \in 1..(Len(Entries) + 1)

FileType ==
  /\ file_handle \in {"none", "new", "inplace"}
  /\ file_name \in PoolFiles \union {NoFile}
  /\ file_pos \in Nat
  /\ compsize \in Nat

ParseType ==
  /\ list_it \in 1..(Len(Entries) + 1)
  /\ skipped \in 0..LENGTH_SIZE
  /\ cursize_buf \in [1..LENGTH_SIZE -> Byte]

ServerType ==
  /\ srv \in 1..(Len(Entries) + 1)
  /\ off \in Nat
  /\ damaged \in SUBSET PoolFiles
  /\ sentLen \in [PoolFiles -> SentLengths]
  /\ stale \in 0..(LENGTH_SIZE - 1)

FlagType == downloaded \in BOOLEAN /\ clean \in BOOLEAN /\ vvalid \in BOOLEAN

TypeOK ==
  DiskType /\ CallType /\ FileType /\ ParseType /\ ServerType /\ FlagType

Init ==
  /\ pool \in [PoolFiles -> {"absent", "valid"}]
  /\ sdp \in {"absent", "good"}
  /\ sdptmp = "absent"
  /\ state = "NONE" /\ ret = "none" /\ downloaded = FALSE
  /\ nfiles = 0 /\ want = {}
  /\ list_it = 1 /\ skipped = 0 /\ cursize_buf = [i \in 1..LENGTH_SIZE |-> 0]
  /\ file_handle = "none" /\ file_name = NoFile /\ file_pos = 0
  /\ compsize = 0 /\ clean = TRUE
  /\ srv = 1 /\ off = 0 /\ damaged = {} /\ sentLen = Size /\ stale = 0
  /\ pc = "idle" /\ vi = 1 /\ vvalid = TRUE

--------------------------------------------------------------------------------
(* Helpers *)

\* The length field of the protocol: a big endian int32 ...
LengthField(n) ==
  <<n \div 16777216, (n \div 65536) % 256, (n \div 256) % 256, n % 256>>

\* ... and parse_int32, which reads it back.
ParseInt32(c) == ((c[1] * 256 + c[2]) * 256 + c[3]) * 256 + c[4]

\* j is the first entry from i on that has to be downloaded, or one past the
\* end of the list.
IsNextWanted(i, j) ==
  /\ j \in i..(nfiles + 1)
  /\ j <= nfiles => j \in want
  /\ \A k \in i..(j - 1) : k \notin want

\* Bytes of the item for entry srv that were not consumed yet.
BytesLeft == LENGTH_SIZE + sentLen[Entries[srv]] - off

\* The consumer takes k bytes of the current item of the answer.
Consume(k) ==
  IF k < BytesLeft
    THEN off' = off + k /\ UNCHANGED srv
    ELSE off' = 0 /\ \E j \in (srv + 1)..(nfiles + 1) :
                       IsNextWanted(srv + 1, j) /\ srv' = j

Return(b) == pc' = "idle" /\ ret' = b

\* CFile::Close: a new file is renamed from its .tmp to its pool name,
\* whatever was written to it.
ClosedPool ==
  IF file_handle = "new"
    THEN [pool EXCEPT ![file_name] =
            IF clean /\ file_pos = Size[file_name] THEN "valid" ELSE "broken"]
    ELSE pool

SafeCloseFile ==
  IF file_handle = "none"
    THEN UNCHANGED <<pool, file_handle, file_pos, skipped>>
    ELSE /\ pool' = ClosedPool
         /\ file_handle' = "none" /\ file_pos' = 0 /\ skipped' = 0

--------------------------------------------------------------------------------
(* The .sdp *)

\* parseSdp of a truncated .sdp: `files` holds the entries before the cut; the
\* .sdp is removed if its digest was computed, and stays if a record is cut.
ParseBadSdp ==
  /\ nfiles' \in 0..(Len(Entries) - 1)
  /\ sdp' \in {"absent", "bad"}
  /\ want' = {}

ParseGoodSdp ==
  /\ nfiles' = Len(Entries)
  /\ want' = {}
  /\ UNCHANGED sdp

\* download(): an .sdp that is on disk and parses needs no download.
Call ==
  /\ pc = "idle" /\ state = "NONE"
  /\ IF downloaded
       THEN ret' = "true" /\ UNCHANGED <<pc, sdp, listVars>>
       ELSE /\ ret' = "none"
            /\ \/ sdp = "good" /\ ParseGoodSdp /\ pc' = "check"
               \/ sdp = "bad" /\ ParseBadSdp /\ pc' = "self"
               \/ sdp = "absent" /\ pc' = "self" /\ UNCHANGED <<sdp, listVars>>
  /\ UNCHANGED <<pool, sdptmp, state, downloaded, fileVars, parseVars,
                 serverVars, validVars>>

\* downloadSelf(), the http download: CHttpDownloader::download also returns
\* true when the transfer failed, and closing its new file renames whatever
\* has arrived to <md5>.sdp.tmp.
DownloadSelf ==
  /\ pc = "self"
  /\ \/ /\ sdptmp' \in IF sdptmp = "good" THEN {"good"} ELSE {"good", "bad"}
        /\ \/ pc' = "rename" /\ UNCHANGED ret
           \/ Return("false")
     \/ Return("false") /\ UNCHANGED sdptmp
  /\ UNCHANGED <<pool, sdp, state, downloaded, listVars, fileVars, parseVars,
                 serverVars, validVars>>

RenameSdp ==
  /\ pc = "rename"
  /\ \/ sdp' = sdptmp /\ sdptmp' = "absent" /\ pc' = "parse" /\ UNCHANGED ret
     \/ Return("false") /\ UNCHANGED <<sdp, sdptmp>>
  /\ UNCHANGED <<pool, state, downloaded, listVars, fileVars, parseVars,
                 serverVars, validVars>>

\* The second parseSdp, whose result download() ignores.
ParseDownloaded ==
  /\ pc = "parse"
  /\ IF sdp = "good" THEN ParseGoodSdp ELSE ParseBadSdp
  /\ pc' = "check"
  /\ UNCHANGED <<pool, sdptmp, callVars, fileVars, parseVars, serverVars,
                 validVars>>

\* Which pool files does the disk not have?  None missing: done.
CheckPool ==
  LET missing == {i \in 1..nfiles : pool[Entries[i]] = "absent"} IN
  /\ pc = "check"
  /\ want' = missing
  /\ \/ /\ missing = {}
        /\ state' = "FINISHED" /\ downloaded' = TRUE /\ Return("true")
     \/ /\ missing # {}
        /\ pc' = "request" /\ UNCHANGED callVars
     \/ Return("false") /\ UNCHANGED <<state, downloaded>>  \* no pool directory
  /\ UNCHANGED <<diskVars, nfiles, fileVars, parseVars, serverVars, validVars>>

--------------------------------------------------------------------------------
(* downloadStream and its curl callback write_streamed_data *)

\* The POST.  The server answers with the requested files in list order; its
\* copies of some of them may be damaged, and then of any length.
Request ==
  /\ pc = "request"
  /\ SafeCloseFile
  /\ list_it' = 1 /\ file_name' = NoFile
  /\ \E j \in 1..(nfiles + 1) : IsNextWanted(1, j) /\ srv' = j
  /\ off' = 0 /\ stale' = skipped
  /\ damaged' \in SUBSET PoolFiles
  /\ sentLen' \in [PoolFiles -> SentLengths]
  /\ \A f \in PoolFiles \ damaged' : sentLen'[f] = Size[f]
  /\ pc' = "header"
  /\ UNCHANGED <<sdp, sdptmp, callVars, listVars, cursize_buf, compsize, clean,
                 validVars>>

\* GetLength without the offset of what an earlier packet brought.
GetLengthAtStart(k) ==
  /\ pc = "header" /\ srv <= nfiles
  /\ skipped + k <= LENGTH_SIZE /\ k <= BytesLeft
  /\ cursize_buf' =
       [i \in 1..LENGTH_SIZE |->
          IF i \in 1..k /\ off + i <= LENGTH_SIZE
            THEN LengthField(sentLen[Entries[srv]])[off + i]
            ELSE cursize_buf[i]]
  /\ skipped' = skipped + k
  /\ Consume(k)
  /\ pc' = IF skipped + k = LENGTH_SIZE THEN "open" ELSE "header"
  /\ UNCHANGED <<diskVars, callVars, listVars, list_it, fileVars, damaged,
                 sentLen, stale, validVars>>

\* GetLength that takes all that is in the packet.
GetLengthPastField(k) ==
  /\ pc = "header" /\ srv <= nfiles
  /\ k <= BytesLeft
  /\ cursize_buf' =
       [i \in 1..LENGTH_SIZE |->
          IF i \in (skipped + 1)..(skipped + k)
            THEN LengthField(sentLen[Entries[srv]])[off + i - skipped]
            ELSE cursize_buf[i]]
  /\ skipped' = skipped + k
  /\ Consume(k)
  /\ pc' = IF skipped + k >= LENGTH_SIZE THEN "open" ELSE "header"
  /\ UNCHANGED <<diskVars, callVars, listVars, list_it, fileVars, damaged,
                 sentLen, stale, validVars>>

\* GetLength: k more bytes of the length field are here.
GetLength(k) ==
  /\ pc = "header" /\ srv <= nfiles
  /\ skipped + k <= LENGTH_SIZE /\ k <= BytesLeft
  /\ cursize_buf' =
       [i \in 1..LENGTH_SIZE |->
          IF i \in (skipped + 1)..(skipped + k)
            THEN LengthField(sentLen[Entries[srv]])[off + i - skipped]
            ELSE cursize_buf[i]]
  /\ skipped' = skipped + k
  /\ Consume(k)
  /\ pc' = IF skipped + k = LENGTH_SIZE THEN "open" ELSE "header"
  /\ UNCHANGED <<diskVars, callVars, listVars, list_it, fileVars, damaged,
                 sentLen, stale, validVars>>

\* OpenNextFile that takes the next file of the list, wanted or not.
OpenNextListed ==
  LET f == Entries[list_it]
      len == ParseInt32(cursize_buf)
      inplace == pool[f] # "absent"
  IN
  /\ pc = "open" /\ list_it <= nfiles
  /\ compsize' = len
  /\ file_name' = f /\ file_pos' = 0 /\ clean' = TRUE
  /\ file_handle' = IF inplace THEN "inplace" ELSE "new"
  /\ pool' = IF inplace /\ len > 0 /\ len # Size[f]
               THEN [pool EXCEPT ![f] = "broken"] ELSE pool
  /\ pc' = IF len = 0 THEN "close" ELSE "body"
  /\ UNCHANGED <<sdp, sdptmp, callVars, listVars, list_it, skipped,
                 cursize_buf, serverVars, validVars>>

\* OpenNextFile: the next file of the list with `download` set, whose length
\* the header announced.  An existing file is opened in place and cut or
\* stretched to that length, any other starts as an empty .tmp.
OpenNextFile ==
  \E j \in list_it..nfiles :
    LET f == Entries[j]
        len == ParseInt32(cursize_buf)
        inplace == pool[f] # "absent"
    IN
    /\ pc = "open"
    /\ IsNextWanted(list_it, j)
    /\ list_it' = j
    /\ compsize' = len
    /\ file_name' = f /\ file_pos' = 0 /\ clean' = TRUE
    /\ file_handle' = IF inplace THEN "inplace" ELSE "new"
    /\ pool' = IF inplace /\ len > 0 /\ len # Size[f]
                 THEN [pool EXCEPT ![f] = "broken"] ELSE pool
    /\ pc' = IF len = 0 THEN "close" ELSE "body"
    /\ UNCHANGED <<sdp, sdptmp, callVars, listVars, skipped, cursize_buf,
                   serverVars, validVars>>

\* The next byte consumed is the one the open file has at file_pos.
RightByte ==
  /\ off >= LENGTH_SIZE /\ off - LENGTH_SIZE = file_pos
  /\ Entries[srv] = file_name /\ file_name \notin damaged

\* WriteData: k bytes go to the open file.  (A write that would run into the
\* server's next item is taken as two.)
WriteData(k) ==
  /\ pc = "body" /\ srv <= nfiles
  /\ file_pos + k <= compsize
  /\ k <= IF off < LENGTH_SIZE THEN LENGTH_SIZE - off ELSE BytesLeft
  /\ file_pos' = file_pos + k
  /\ clean' = (clean /\ RightByte)
  /\ pool' = IF file_handle = "inplace" /\ ~RightByte
               THEN [pool EXCEPT ![file_name] = "broken"] ELSE pool
  /\ Consume(k)
  /\ pc' = IF file_pos + k = compsize THEN "close" ELSE "body"
  /\ UNCHANGED <<sdp, sdptmp, callVars, listVars, parseVars, file_handle,
                 file_name, compsize, damaged, sentLen, stale, validVars>>

\* WriteData, file finished: close it ...
CloseFile ==
  /\ pc = "close"
  /\ SafeCloseFile
  /\ pc' = "verify"
  /\ UNCHANGED <<sdp, sdptmp, callVars, listVars, list_it, cursize_buf,
                 file_name, compsize, clean, serverVars, validVars>>

\* VerifyFile that trusts what it wrote, and one that skips an entry.
VerifyNothing ==
  /\ pc = "verify"
  /\ list_it' = list_it + 1
  /\ cursize_buf' = [i \in 1..LENGTH_SIZE |-> 0]
  /\ pc' = "header"
  /\ UNCHANGED <<pool, sdp, sdptmp, callVars, listVars, fileVars, skipped,
                 serverVars, validVars>>

VerifyFileSkipsOne ==
  /\ pc = "verify"
  /\ IF pool[file_name] = "valid"
       THEN /\ list_it' = list_it + 2
            /\ cursize_buf' = [i \in 1..LENGTH_SIZE |-> 0]
            /\ pc' = "header" /\ UNCHANGED pool
       ELSE /\ pool' = [pool EXCEPT ![file_name] = "absent"]
            /\ pc' = "reject" /\ UNCHANGED <<list_it, cursize_buf>>
  /\ UNCHANGED <<sdp, sdptmp, callVars, listVars, fileVars, skipped, serverVars,
                 validVars>>

\* ... and check what is on disk now: a broken file is removed and makes the
\* callback fail.
VerifyFile ==
  /\ pc = "verify"
  /\ IF pool[file_name] = "valid"
       THEN /\ list_it' = list_it + 1
            /\ cursize_buf' = [i \in 1..LENGTH_SIZE |-> 0]
            /\ pc' = "header" /\ UNCHANGED pool
       ELSE /\ pool' = [pool EXCEPT ![file_name] = "absent"]
            /\ pc' = "reject" /\ UNCHANGED <<list_it, cursize_buf>>
  /\ UNCHANGED <<sdp, sdptmp, callVars, listVars, fileVars, skipped, serverVars,
                 validVars>>

\* curl_easy_perform returns between two callbacks: the answer is complete or
\* was cut (ok), or something failed.  The file still open is closed.
EndStream(ok) ==
  /\ pc \in {"header", "body", "reject"}
  /\ ok => pc # "reject"
  /\ SafeCloseFile
  /\ pc' = IF ok THEN "validate" ELSE "failed"
  /\ vi' = 1 /\ vvalid' = TRUE
  /\ UNCHANGED <<sdp, sdptmp, callVars, listVars, list_it, cursize_buf,
                 file_name, compsize, clean, serverVars>>

\* The download failed: the .sdp goes.
RemoveSdp ==
  /\ pc = "failed"
  /\ sdp' = "absent" /\ Return("false")
  /\ UNCHANGED <<pool, sdptmp, state, downloaded, listVars, fileVars, parseVars,
                 serverVars, validVars>>

--------------------------------------------------------------------------------
(* validateSDP *)

\* Without an .sdp on disk that parses there is nothing to validate.
ValidateNoSdp ==
  /\ pc = "validate" /\ vi = 1 /\ sdp # "good"
  /\ sdp' = "absent" /\ Return("false")
  /\ UNCHANGED <<pool, sdptmp, state, downloaded, listVars, fileVars, parseVars,
                 serverVars, validVars>>

\* validateSDP that does not mind missing files, and one that retries a broken
\* file for ever.
ValidateEntryAbsentIsFine ==
  /\ pc = "validate" /\ sdp = "good" /\ vi <= Len(Entries)
  /\ vvalid' = (vvalid /\ pool[Entries[vi]] # "broken")
  /\ pool' = IF pool[Entries[vi]] = "broken"
               THEN [pool EXCEPT ![Entries[vi]] = "absent"] ELSE pool
  /\ vi' = vi + 1
  /\ UNCHANGED <<sdp, sdptmp, callVars, listVars, fileVars, parseVars,
                 serverVars, pc>>

ValidateEntryRetries ==
  /\ pc = "validate" /\ sdp = "good" /\ vi <= Len(Entries)
  /\ vvalid' = (vvalid /\ pool[Entries[vi]] = "valid")
  /\ pool' = IF pool[Entries[vi]] = "broken"
               THEN [pool EXCEPT ![Entries[vi]] = "absent"] ELSE pool
  /\ vi' = IF pool[Entries[vi]] = "valid" THEN vi + 1 ELSE vi
  /\ UNCHANGED <<sdp, sdptmp, callVars, listVars, fileVars, parseVars,
                 serverVars, pc>>

\* One entry of the .sdp: a broken pool file is removed.
ValidateEntry ==
  /\ pc = "validate" /\ sdp = "good" /\ vi <= Len(Entries)
  /\ vvalid' = (vvalid /\ pool[Entries[vi]] = "valid")
  /\ pool' = IF pool[Entries[vi]] = "broken"
               THEN [pool EXCEPT ![Entries[vi]] = "absent"] ELSE pool
  /\ vi' = vi + 1
  /\ UNCHANGED <<sdp, sdptmp, callVars, listVars, fileVars, parseVars,
                 serverVars, pc>>

ValidateDone ==
  /\ pc = "validate" /\ vi = Len(Entries) + 1
  /\ IF vvalid
       THEN state' = "FINISHED" /\ downloaded' = TRUE /\ Return("true")
       ELSE Return("false") /\ UNCHANGED <<state, downloaded>>
  /\ UNCHANGED <<diskVars, listVars, fileVars, parseVars, serverVars, validVars>>

--------------------------------------------------------------------------------
(* Around a call *)

\* DownloadRapidValidate(true): every broken file of the pool is removed.
ValidatePool ==
  /\ pc = "idle"
  /\ pool' = [f \in PoolFiles |-> IF pool[f] = "broken" THEN "absent" ELSE pool[f]]
  /\ UNCHANGED <<sdp, sdptmp, callVars, listVars, fileVars, parseVars, serverVars,
                 pc, validVars>>

\* DownloadSearch: the next call is made for a new IDownload.
NewSearch ==
  /\ pc = "idle"
  /\ state' = "NONE" /\ ret' = "none"
  /\ UNCHANGED <<diskVars, downloaded, listVars, fileVars, parseVars, serverVars,
                 pc, validVars>>

\* The process dies and is started again.  Only the disk is left.
Crash ==
  /\ state' = "NONE" /\ ret' = "none" /\ downloaded' = FALSE
  /\ nfiles' = 0 /\ want' = {}
  /\ list_it' = 1 /\ skipped' = 0
  /\ cursize_buf' = [i \in 1..LENGTH_SIZE |-> 0]
  /\ file_handle' = "none" /\ file_name' = NoFile /\ file_pos' = 0
  /\ compsize' = 0 /\ clean' = TRUE
  /\ srv' = 1 /\ off' = 0 /\ damaged' = {} /\ sentLen' = Size /\ stale' = 0
  /\ pc' = "idle" /\ vi' = 1 /\ vvalid' = TRUE
  /\ UNCHANGED diskVars

Stream ==
  \/ \E k \in 1..LENGTH_SIZE : GetLength(k)
  \/ OpenNextFile
  \/ \E k \in 1..compsize : WriteData(k)
  \/ CloseFile
  \/ VerifyFile
  \/ \E ok \in BOOLEAN : EndStream(ok)

Download ==
  \/ DownloadSelf \/ RenameSdp \/ ParseDownloaded \/ CheckPool \/ Request
  \/ Stream
  \/ RemoveSdp \/ ValidateNoSdp \/ ValidateEntry \/ ValidateDone

Next == Call \/ Download \/ ValidatePool \/ NewSearch \/ Crash

Spec == Init /\ [][Next]_vars

\* A call, once made, is executed; curl gives up on a stalled connection.
FairSpec == Spec /\ WF_vars(Download)

--------------------------------------------------------------------------------
(* Properties *)

\* While an answer is read that did not start with left-over length bytes, the
\* parser is in step with the server, wherever curl cuts the answer: it counts
\* the same length bytes, reads the length that was sent, writes to the file
\* that is being sent at the offset that is being sent, and goes on with the
\* file that comes next (write_streamed_data and what it calls).
InStep ==
  stale = 0 =>
    /\ pc = "header" => /\ IsNextWanted(list_it, srv)
                        /\ off = skipped
    /\ pc = "open" => /\ IsNextWanted(list_it, srv) /\ srv <= nfiles
                      /\ ParseInt32(cursize_buf) = sentLen[Entries[srv]]
    /\ pc = "body" => /\ list_it = srv /\ file_name = Entries[srv]
                      /\ compsize = sentLen[file_name]
                      /\ off = LENGTH_SIZE + file_pos
    /\ pc = "close" => /\ IsNextWanted(list_it + 1, srv) /\ off = 0
                       /\ file_pos = sentLen[file_name]

\* "File is broken?!" is only ever said of a file the server sent damaged, or
\* of an answer that was read from the wrong byte on (WriteData).
OnlyDamagedRejected ==
  pc = "reject" => stale > 0 \/ file_name \in damaged

\* Every requested file the parser has moved past is valid on disk, also when
\* the same pool file is listed, requested and written twice.
PassedFilesValid ==
  pc \in Streaming =>
    \A i \in want : i < list_it => pool[Entries[i]] = "valid"

\* assert(sdp.list_it != sdp.files.end()): a length field is only read when a
\* requested file is left for it, so OpenNextFile does not run off the list.
ListNotOverrun ==
  pc = "open" => \E j \in list_it..nfiles : IsNextWanted(list_it, j)

PackageComplete ==
  sdp = "good" /\ \A i \in 1..Len(Entries) : pool[Entries[i]] = "valid"

\* A download that went through the streamer and validateSDP is reported
\* finished only when the disk holds the .sdp and every file it lists.
FinishedByStreamComplete ==
  [][pc = "validate" /\ state' = "FINISHED" => PackageComplete']_vars

\* To the other packages the pool behaves like PoolStore: files appear at once,
\* valid files stay as they are, through retries, restarts and damaged answers.
Pool == INSTANCE PoolStore
PoolSpec == Pool!Spec

\* Every call of download() returns.
CallReturns == pc # "idle" ~> pc = "idle"

\* The documentation of STATE_FINISHED, "piece downloaded successfully +
\* verified" (Download.h:56), for the pool files: none is broken.
FinishedFilesVerified ==
  state = "FINISHED" => \A i \in 1..Len(Entries) : pool[Entries[i]] # "broken"
================================================================================
