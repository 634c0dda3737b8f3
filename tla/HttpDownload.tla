------------------------------ MODULE HttpDownload ------------------------------
(***************************************************************************)
(* CHttpDownloader::download (src/src/Downloader/Http/HttpDownloader.cpp): *)
(* a batch of files, each one curl transfer, in parallel.                  *)
(*                                                                         *)
(* A batch is set up file by file, performed by curl_multi until no        *)
(* transfer runs, "verified" and cleaned up.  The IDownload objects        *)
(* outlive the call and are handed in again: DownloadStart downloads       *)
(* engines twice, and a caller may start once more.                        *)
(*                                                                         *)
(* The bytes of a file are cells tagged with the version they come from; a *)
(* digest of a file is its content.  Times are version numbers: a file     *)
(* written while the server offers version v has modification time v.      *)
(* Nothing in the repository fills IDownload::pieces, so this is the       *)
(* single piece path.  Assertions are compiled out (Release build).        *)
(***************************************************************************)
EXTENDS Integers, Sequences, FiniteSets

CONSTANTS
  N,            \* the IDownloads of a search are 1..N
  MirrorCount,  \* MirrorCount[d]: mirrors of d
  BodyLen,      \* BodyLen[v]: length of version v of every file
  Hashed,       \* the downloads whose md5 the search result has
  Sized,        \* ... and whose size it has
  MultiErrors,  \* whether curl_multi_perform may fail
  NoFile, NoHash, Unset

Downloads == 1..N
MaxVer == Len(BodyLen)
Versions == 1..MaxVer
Lengths == UNION {0..BodyLen[v] : v \in Versions}
Content == UNION {[1..n -> 0..MaxVer] : n \in Lengths}

ASSUME HttpAssumption ==
  /\ N \in Nat \ {0}
  /\ MirrorCount \in [Downloads -> Nat]
  /\ BodyLen \in Seq(Nat \ {0}) /\ BodyLen # <<>>
  /\ Hashed \subseteq Downloads /\ Sized \subseteq Downloads
  /\ MultiErrors \in BOOLEAN
  /\ NoHash \notin Content \union {Unset}

VARIABLES
  (* disk *)
  disk,      \* disk[d]: content under d's name, or NoFile
  tmp,       \* tmp[d]: content of <name>.tmp, or NoFile
  mtime,     \* modification time of the one d has
  (* server and user *)
  ver,       \* version on the server
  abort,     \* AbortDownloads()
  (* IDownload *)
  state, hash, size,
  status, maxspeed,   \* of the mirrors, per download
  turn,      \* how many times more than the least used one a mirror was used
  (* CFile of the IDownload *)
  file, fsize, isnew, stamp, curpos,
  (* DownloadData *)
  slot, mirror, ifmodified,
  served,    \* the version of the answer, 0 before it or if not modified
  (* one call *)
  batch, ret, pc,
  it, running, last, aborted

diskVars == <<disk, tmp, mtime>>
envVars == <<ver, abort>>
dlVars == <<state, hash, size>>
mirrorVars == <<status, maxspeed, turn>>
fileVars == <<file, fsize, isnew, stamp, curpos>>
slotVars == <<slot, mirror, ifmodified, served>>
loopVars == <<it, running, last, aborted>>
vars == <<diskVars, envVars, dlVars, mirrorVars, fileVars, slotVars,
          batch, ret, pc, loopVars>>

Body(v) == [i \in 1..BodyLen[v] |-> v]
Mirrors(d) == 1..MirrorCount[d]
Slots(s) == {d \in Downloads : slot[d] \in s}

TypeOK ==
  /\ disk \in [Downloads -> Content \union {NoFile}]
  /\ tmp \in [Downloads -> Content \union {NoFile}]
  /\ mtime \in [Downloads -> 0..MaxVer]
  /\ ver \in Versions /\ abort \in BOOLEAN
  /\ state \in [Downloads -> {"NONE", "FINISHED"}]
  /\ hash \in [Downloads -> Content \union {NoHash, Unset}]
  /\ size \in [Downloads -> Lengths \union {-1}]
  /\ \A d \in Downloads :
       /\ status[d] \in [Mirrors(d) -> {"BROKEN", "OK", "UNKNOWN"}]
       /\ maxspeed[d] \in [Mirrors(d) -> {-1, 0}]
       /\ turn[d] \in [Mirrors(d) -> Nat]
       /\ mirror[d] \in 0..MirrorCount[d]
  /\ file \in [Downloads -> {"null", "open", "closed"}]
  /\ fsize \in [Downloads -> Lengths \union {-1}]
  /\ isnew \in [Downloads -> BOOLEAN]
  /\ stamp \in [Downloads -> 0..MaxVer]
  /\ curpos \in [Downloads -> Lengths]
  /\ slot \in [Downloads ->
               {"none", "active", "ok", "failed", "done", "broken"}]
  /\ ifmodified \in [Downloads -> BOOLEAN]
  /\ served \in [Downloads -> 0..MaxVer]
  /\ batch \in SUBSET Downloads
  /\ ret \in {"none", "true", "false"}
  /\ pc \in {"idle", "setup", "loop", "verify", "cleanup", "dead"}
  /\ it \in 1..(N + 1)
  /\ running \in 0..(N + 1) /\ last \in -1..N /\ aborted \in BOOLEAN

NewDownloads ==
  /\ state' = [d \in Downloads |-> "NONE"]
  /\ hash' = [d \in Downloads |-> IF d \in Hashed THEN Body(ver) ELSE NoHash]
  /\ size' = [d \in Downloads |-> IF d \in Sized THEN BodyLen[ver] ELSE -1]
  /\ status' = [d \in Downloads |-> [m \in Mirrors(d) |-> "UNKNOWN"]]
  /\ maxspeed' = [d \in Downloads |-> [m \in Mirrors(d) |-> -1]]
  /\ turn' = [d \in Downloads |-> [m \in Mirrors(d) |-> 0]]
  /\ file' = [d \in Downloads |-> "null"] /\ fsize' = [d \in Downloads |-> -1]
  /\ isnew' = [d \in Downloads |-> FALSE] /\ stamp' = [d \in Downloads |-> 0]
  /\ curpos' = [d \in Downloads |-> 0]

NoSlots == [d \in Downloads |-> "none"]

\* Nothing of a call is left but the IDownloads.
EndCall ==
  /\ slot' = NoSlots /\ mirror' = [d \in Downloads |-> 0]
  /\ ifmodified' = [d \in Downloads |-> FALSE]
  /\ served' = [d \in Downloads |-> 0]
  /\ batch' = {} /\ pc' = "idle"
  /\ it' = 1 /\ running' = 0 /\ last' = -1 /\ aborted' = FALSE

Init ==
  /\ ver = 1 /\ abort = FALSE
  /\ disk \in [Downloads -> {NoFile, Body(1)}]
  /\ tmp = [d \in Downloads |-> NoFile]
  /\ mtime = [d \in Downloads |-> IF disk[d] = NoFile THEN 0 ELSE 1]
  /\ state = [d \in Downloads |-> "NONE"]
  /\ hash = [d \in Downloads |-> IF d \in Hashed THEN Body(1) ELSE NoHash]
  /\ size = [d \in Downloads |-> IF d \in Sized THEN BodyLen[1] ELSE -1]
  /\ status = [d \in Downloads |-> [m \in Mirrors(d) |-> "UNKNOWN"]]
  /\ maxspeed = [d \in Downloads |-> [m \in Mirrors(d) |-> -1]]
  /\ turn = [d \in Downloads |-> [m \in Mirrors(d) |-> 0]]
  /\ file = [d \in Downloads |-> "null"] /\ fsize = [d \in Downloads |-> -1]
  /\ isnew = [d \in Downloads |-> FALSE] /\ stamp = [d \in Downloads |-> 0]
  /\ curpos = [d \in Downloads |-> 0]
  /\ slot = NoSlots /\ mirror = [d \in Downloads |-> 0]
  /\ ifmodified = [d \in Downloads |-> FALSE]
  /\ served = [d \in Downloads |-> 0]
  /\ batch = {} /\ ret = "none" /\ pc = "idle"
  /\ it = 1 /\ running = 0 /\ last = -1 /\ aborted = FALSE

--------------------------------------------------------------------------------
(* CFile *)

\* The content behind the open handle, else what is on disk.
Cur(d) == IF file[d] = "open" /\ isnew[d] THEN tmp[d] ELSE disk[d]

\* A write that always goes to the end of the file.
AppendCell(c, i, x) == Append(c, x)

\* A cell written at offset i of c; and ftruncate, which pads with zeros.
Overwrite(c, i, x) == IF i < Len(c) THEN [c EXCEPT ![i + 1] = x] ELSE Append(c, x)
Resize(c, n) == [i \in 1..n |-> IF i <= Len(c) THEN c[i] ELSE 0]

\* CFile::Hash: the digest of the first fsize bytes, of all if that is not
\* known, Unset (and Hash returns false) if there are not that many or none.
Digest(d) ==
  LET n == IF fsize[d] < 0 THEN Len(Cur(d)) ELSE fsize[d]
  IN  IF n = 0 \/ n > Len(Cur(d)) THEN Unset ELSE SubSeq(Cur(d), 1, n)

\* CFile::Close of the files of D: a new file gets its name, whatever it holds.
Close(D) ==
  LET renamed == {d \in D : file[d] = "open" /\ isnew[d]} IN
  /\ disk' = [d \in Downloads |-> IF d \in renamed THEN tmp[d] ELSE disk[d]]
  /\ tmp' = [d \in Downloads |-> IF d \in renamed THEN NoFile ELSE tmp[d]]

--------------------------------------------------------------------------------
(* IDownload::getFastestMirror *)

\* The choice without the reset when every mirror has failed.
KeepFirstMirror(d) ==
  LET unknown == {m \in Mirrors(d) : status[d][m] = "UNKNOWN"}
      m == IF unknown = {} THEN 1 ELSE CHOOSE k \in unknown : \A l \in unknown : k <= l
  IN  [mirror |-> m, status |-> [status[d] EXCEPT ![m] = "OK"]]

\* The mirror to use now and the status of all mirrors after the choice: the
\* first one never tried, else the fastest that worked, else all over again.
GetFastestMirror(d) ==
  LET unknown == {m \in Mirrors(d) : status[d][m] = "UNKNOWN"}
      measured == {m \in Mirrors(d) : status[d][m] # "BROKEN" /\ maxspeed[d][m] > -1}
      First(M) == CHOOSE m \in M : \A k \in M : m <= k
  IN
  IF unknown # {}
    THEN [mirror |-> First(unknown),
          status |-> [status[d] EXCEPT ![First(unknown)] = "OK"]]
  ELSE IF measured # {}
    THEN [mirror |-> First({m \in measured :
                       \A k \in measured : maxspeed[d][k] <= maxspeed[d][m]}),
          status |-> status[d]]
  ELSE [mirror |-> 1,
        status |-> [m \in Mirrors(d) |-> IF m = 1 THEN "OK" ELSE "UNKNOWN"]]

\* One more use of mirror m of d; only differences are counted.
Used(d, m) ==
  LET t == [turn[d] EXCEPT ![m] = turn[d][m] + 1]
  IN  IF \A k \in Mirrors(d) : t[k] > 0 THEN [k \in Mirrors(d) |-> t[k] - 1] ELSE t

--------------------------------------------------------------------------------
(* Set up a batch *)

Call(b) ==
  /\ pc = "idle" /\ b # {}
  /\ batch' = b /\ ret' = "none" /\ pc' = "setup"
  /\ it' = 1 /\ running' = 1 /\ last' = -1 /\ aborted' = FALSE
  /\ UNCHANGED <<diskVars, envVars, dlVars, mirrorVars, fileVars, slotVars>>

\* Files that are not in the batch or finished already are skipped.
SetupSkip ==
  /\ pc = "setup" /\ it <= N
  /\ it \notin batch \/ state[it] = "FINISHED"
  /\ it' = it + 1
  /\ UNCHANGED <<diskVars, envVars, dlVars, mirrorVars, fileVars, slotVars,
                 batch, ret, pc, running, last, aborted>>

\* A finished download is set up again.
PendingAlways(d) == pc = "setup" /\ d = it /\ d \in batch

Pending(d) == pc = "setup" /\ d = it /\ d \in batch /\ state[d] # "FINISHED"

\* No mirror, or the file cannot be opened: download() returns at once.  The
\* files that were set up stay open, their transfers are forgotten.
SetupFails(d) ==
  /\ Pending(d)
  /\ MirrorCount[d] = 0 \/ file[d] = "null"
  /\ EndCall /\ ret' = "false"
  /\ UNCHANGED <<diskVars, envVars, dlVars, mirrorVars, fileVars>>

\* Open that starts every download afresh, in a .tmp.
OpenFileAfresh(d) ==
  /\ Pending(d) /\ MirrorCount[d] > 0 /\ file[d] = "null"
  /\ file' = [file EXCEPT ![d] = "open"] /\ isnew' = [isnew EXCEPT ![d] = TRUE]
  /\ fsize' = [fsize EXCEPT ![d] = size[d]]
  /\ stamp' = [stamp EXCEPT ![d] = 0] /\ curpos' = [curpos EXCEPT ![d] = 0]
  /\ tmp' = [tmp EXCEPT ![d] = <<>>] /\ mtime' = [mtime EXCEPT ![d] = ver]
  /\ UNCHANGED <<disk, envVars, dlVars, mirrorVars, slotVars, batch, ret, pc,
                 loopVars>>

\* CFile::Open: a new file starts as an empty .tmp; an existing one is opened in
\* place, and cut or padded to the size that is expected.
OpenFile(d) ==
  LET exists == disk[d] # NoFile
      cut == exists /\ size[d] > 0 /\ size[d] # Len(disk[d])
  IN
  /\ Pending(d) /\ MirrorCount[d] > 0 /\ file[d] = "null"
  /\ file' = [file EXCEPT ![d] = "open"]
  /\ isnew' = [isnew EXCEPT ![d] = ~exists]
  /\ fsize' = [fsize EXCEPT ![d] = size[d]]
  /\ stamp' = [stamp EXCEPT ![d] = IF exists THEN mtime[d] ELSE 0]
  /\ curpos' = [curpos EXCEPT ![d] = 0]
  /\ tmp' = IF exists THEN tmp ELSE [tmp EXCEPT ![d] = <<>>]
  /\ disk' = IF cut THEN [disk EXCEPT ![d] = Resize(disk[d], size[d])] ELSE disk
  /\ mtime' = IF exists /\ ~cut THEN mtime ELSE [mtime EXCEPT ![d] = ver]
  /\ UNCHANGED <<envVars, dlVars, mirrorVars, slotVars, batch, ret, pc, loopVars>>

\* A CFile left over from an earlier call is closed; its handle is null and
\* every use of it ends the process.
Die ==
  /\ pc' = "dead"
  /\ UNCHANGED <<diskVars, envVars, dlVars, mirrorVars, fileVars, slotVars,
                 batch, ret, loopVars>>

\* The file is there, but the download is not marked as finished.
SetupFindsSilently(d) ==
  /\ Pending(d) /\ MirrorCount[d] > 0 /\ file[d] = "open"
  /\ hash[d] \notin {NoHash, Unset} /\ Digest(d) = hash[d]
  /\ it' = it + 1
  /\ UNCHANGED <<diskVars, envVars, dlVars, mirrorVars, fileVars, slotVars,
                 batch, ret, pc, running, last, aborted>>

\* setupDownload.  The file may be there already ...
SetupFinds(d) ==
  /\ Pending(d) /\ MirrorCount[d] > 0 /\ file[d] # "null"
  /\ hash[d] \notin {NoHash, Unset}
  /\ IF file[d] = "closed"
       THEN Die
       ELSE /\ Digest(d) = hash[d]
            /\ state' = [state EXCEPT ![d] = "FINISHED"]
            /\ it' = it + 1
            /\ UNCHANGED <<diskVars, envVars, hash, size, mirrorVars,
                           fileVars, slotVars, batch, ret, pc, running, last,
                           aborted>>

\* ... else a mirror is asked, without a digest only for a newer file.
SetupDownload(d) ==
  LET choice == GetFastestMirror(d) IN
  /\ Pending(d) /\ MirrorCount[d] > 0 /\ file[d] # "null"
  /\ hash[d] \notin {NoHash, Unset} => file[d] = "open" /\ Digest(d) # hash[d]
  /\ size' = [size EXCEPT ![d] = IF fsize[d] >= 0 THEN fsize[d]
                                 ELSE IF file[d] = "open" THEN Len(Cur(d)) ELSE -1]
  /\ status' = [status EXCEPT ![d] = choice.status]
  /\ turn' = [turn EXCEPT ![d] = Used(d, choice.mirror)]
  /\ mirror' = [mirror EXCEPT ![d] = choice.mirror]
  /\ slot' = [slot EXCEPT ![d] = "active"]
  /\ ifmodified' = [ifmodified EXCEPT ![d] = hash[d] = NoHash]
  /\ served' = [served EXCEPT ![d] = 0]
  /\ it' = it + 1
  /\ UNCHANGED <<diskVars, envVars, state, hash, maxspeed, fileVars, batch,
                 ret, pc, running, last, aborted>>

\* Without a transfer there is nothing to do but to close the files.
SetupDone ==
  /\ pc = "setup" /\ it = N + 1
  /\ pc' = IF slot = NoSlots THEN "cleanup" ELSE "loop"
  /\ it' = 1
  /\ UNCHANGED <<diskVars, envVars, dlVars, mirrorVars, fileVars, slotVars, batch,
                 ret, running, last, aborted>>

--------------------------------------------------------------------------------
(* curl_multi_perform and the loop around it *)

\* The answer to the request: the file, or that it was not modified.
Answer(d) ==
  /\ pc = "loop" /\ slot[d] = "active" /\ served[d] = 0
  /\ served' = [served EXCEPT ![d] = ver]
  /\ slot' = IF ifmodified[d] /\ stamp[d] >= ver
               THEN [slot EXCEPT ![d] = "ok"] ELSE slot
  /\ UNCHANGED <<diskVars, envVars, dlVars, mirrorVars, fileVars, mirror,
                 ifmodified, batch, ret, pc, loopVars>>

\* multi_write_data: a piece of the file arrives.
Write(d) ==
  /\ pc = "loop" /\ slot[d] = "active" /\ served[d] # 0 /\ ~abort
  /\ IF file[d] = "closed"
       THEN Die
       ELSE /\ curpos[d] < BodyLen[served[d]]
            /\ LET c == Overwrite(Cur(d), curpos[d], served[d]) IN
               IF isnew[d]
                 THEN tmp' = [tmp EXCEPT ![d] = c] /\ UNCHANGED disk
                 ELSE disk' = [disk EXCEPT ![d] = c] /\ UNCHANGED tmp
            /\ mtime' = [mtime EXCEPT ![d] = ver]
            /\ curpos' = [curpos EXCEPT ![d] = curpos[d] + 1]
            /\ UNCHANGED <<envVars, dlVars, mirrorVars, file, fsize, isnew, stamp,
                           slotVars, batch, ret, pc, loopVars>>

\* The transfer ends: complete, or with any error at any time (an http error,
\* a timeout, a lost connection, a callback that saw the abort request).
Finish(d, res) ==
  /\ pc = "loop" /\ slot[d] = "active"
  /\ res = "ok" => /\ file[d] = "open" /\ served[d] # 0
                   /\ curpos[d] = BodyLen[served[d]]
  /\ slot' = [slot EXCEPT ![d] = res]
  /\ UNCHANGED <<diskVars, envVars, dlVars, mirrorVars, fileVars, mirror,
                 ifmodified, served, batch, ret, pc, loopVars>>

\* processMessages: a complete transfer finishes the download, a failed one
\* marks its mirror as broken; both give up their curl handle.
ProcessMessages ==
  LET ok == Slots({"ok"})
      failed == Slots({"failed"})
  IN
  /\ state' = [d \in Downloads |-> IF d \in ok THEN "FINISHED" ELSE state[d]]
  /\ slot' = [d \in Downloads |-> IF d \in ok THEN "done"
                                  ELSE IF d \in failed THEN "broken" ELSE slot[d]]
  /\ status' = [d \in Downloads |->
       IF d \in failed THEN [status[d] EXCEPT ![mirror[d]] = "BROKEN"]
       ELSE IF d \in ok /\ status[d][mirror[d]] = "UNKNOWN"
       THEN [status[d] EXCEPT ![mirror[d]] = "OK"]
       ELSE status[d]]
  \* The speed is read into a variable of the wrong type and comes out as 0.
  /\ maxspeed' = [d \in Downloads |->
       IF d \in ok THEN [maxspeed[d] EXCEPT ![mirror[d]] = 0] ELSE maxspeed[d]]

\* Messages are looked at when the number of transfers has grown.
PerformOnGrowth ==
  LET r == Cardinality(Slots({"active"})) IN
  /\ pc = "loop"
  /\ IF last < r
       THEN ProcessMessages /\ last' = r /\ running' = r + 1
       ELSE running' = r /\ UNCHANGED <<state, slot, status, maxspeed, last>>
  /\ pc' = IF running' > 0 THEN "loop" ELSE "verify"
  /\ UNCHANGED <<diskVars, envVars, hash, size, turn, fileVars, mirror,
                 ifmodified, served, batch, ret, it, aborted>>

\* The loop always adds one to running.
PerformOnceMore ==
  LET r == Cardinality(Slots({"active"})) IN
  /\ pc = "loop"
  /\ IF last # r
       THEN ProcessMessages /\ last' = r
       ELSE UNCHANGED <<state, slot, status, maxspeed, last>>
  /\ running' = r + 1
  /\ UNCHANGED <<diskVars, envVars, hash, size, turn, fileVars, mirror,
                 ifmodified, served, batch, ret, pc, it, aborted>>

\* curl_multi_perform returns with r transfers running; finished ones are only
\* looked at if r has changed.
Perform ==
  LET r == Cardinality(Slots({"active"})) IN
  /\ pc = "loop"
  /\ IF last # r
       THEN ProcessMessages /\ last' = r /\ running' = r + 1
       ELSE running' = r /\ UNCHANGED <<state, slot, status, maxspeed, last>>
  /\ pc' = IF running' > 0 THEN "loop" ELSE "verify"
  /\ UNCHANGED <<diskVars, envVars, hash, size, turn, fileVars, mirror,
                 ifmodified, served, batch, ret, it, aborted>>

\* curl_multi_perform fails.
PerformFails ==
  /\ pc = "loop" /\ MultiErrors
  /\ aborted' = TRUE /\ pc' = "verify"
  /\ UNCHANGED <<diskVars, envVars, dlVars, mirrorVars, fileVars, slotVars, batch,
                 ret, it, running, last>>

--------------------------------------------------------------------------------
(* The end of a batch *)

\* VerifySinglePieceDownload: hashes the file into the digest it should be
\* compared with, and calls the download finished if there was data to hash.
VerifySkip ==
  /\ pc = "verify" /\ it <= N
  /\ it \notin batch \/ hash[it] = NoHash \/ file[it] = "null"
  /\ it' = it + 1
  /\ UNCHANGED <<diskVars, envVars, dlVars, mirrorVars, fileVars, slotVars, batch,
                 ret, pc, running, last, aborted>>

\* Verify that does not look at the file.
VerifyBlindly(d) ==
  /\ pc = "verify" /\ d = it /\ d \in batch
  /\ hash[d] # NoHash /\ file[d] = "open"
  /\ state' = [state EXCEPT ![d] = "FINISHED"]
  /\ it' = it + 1
  /\ UNCHANGED <<diskVars, envVars, hash, size, mirrorVars, fileVars,
                 slotVars, batch, ret, pc, running, last, aborted>>

Verify(d) ==
  /\ pc = "verify" /\ d = it /\ d \in batch
  /\ hash[d] # NoHash /\ file[d] # "null"
  /\ IF file[d] = "closed"
       THEN Die
       ELSE /\ hash' = [hash EXCEPT ![d] = Digest(d)]
            /\ state' = IF Digest(d) = Unset THEN state
                        ELSE [state EXCEPT ![d] = "FINISHED"]
            /\ it' = it + 1
            /\ UNCHANGED <<diskVars, envVars, size, mirrorVars, fileVars,
                           slotVars, batch, ret, pc, running, last, aborted>>

VerifyDone ==
  /\ pc = "verify" /\ it = N + 1
  /\ pc' = "cleanup"
  /\ UNCHANGED <<diskVars, envVars, dlVars, mirrorVars, fileVars, slotVars, batch,
                 ret, loopVars>>

\* CleanupDownloads.  Only a transfer that still has its curl handle loses its
\* CFile, and only then is the time of the file set, to before what the server
\* says if the download is unfinished.
CleanupDownloads ==
  LET left == Slots({"active", "ok", "failed"})
      dated == {d \in left : ifmodified[d] /\ served[d] # 0}
  IN
  /\ pc = "cleanup"
  /\ Close(batch)
  /\ mtime' = [d \in Downloads |->
                 IF d \notin dated THEN mtime[d]
                 ELSE IF state[d] = "FINISHED" THEN served[d] ELSE served[d] - 1]
  /\ file' = [d \in Downloads |->
                IF d \in left THEN "null"
                ELSE IF d \in batch /\ file[d] = "open" THEN "closed" ELSE file[d]]
  /\ isnew' = [d \in Downloads |-> isnew[d] /\ d \notin batch]
  /\ EndCall /\ ret' = IF aborted THEN "false" ELSE "true"
  /\ UNCHANGED <<envVars, dlVars, mirrorVars, fsize, stamp, curpos>>

--------------------------------------------------------------------------------
(* Around a call *)

\* A new search frees the IDownloads of the last one, which closes their files.
Search ==
  /\ pc = "idle"
  /\ Close(Downloads) /\ NewDownloads /\ ret' = "none"
  /\ UNCHANGED <<mtime, envVars, slotVars, batch, pc, loopVars>>

\* A new version is put on the server.
Publish ==
  /\ ver < MaxVer
  /\ ver' = ver + 1
  /\ UNCHANGED <<diskVars, abort, dlVars, mirrorVars, fileVars, slotVars, batch,
                 ret, pc, loopVars>>

SetAbortDownloads ==
  /\ abort' = ~abort
  /\ UNCHANGED <<diskVars, ver, dlVars, mirrorVars, fileVars, slotVars, batch,
                 ret, pc, loopVars>>

\* The process dies, or has died, and is started again.
Crash ==
  /\ NewDownloads /\ EndCall /\ ret' = "none" /\ abort' = FALSE
  /\ UNCHANGED <<diskVars, ver>>

Transfer(d) == Answer(d) \/ Write(d) \/ \E res \in {"ok", "failed"} : Finish(d, res)

Step ==
  \/ SetupSkip \/ SetupDone
  \/ \E d \in Downloads :
       SetupFails(d) \/ OpenFile(d) \/ SetupFinds(d) \/ SetupDownload(d) \/ Verify(d)
  \/ Perform \/ VerifySkip \/ VerifyDone \/ CleanupDownloads

Next ==
  \/ \E b \in SUBSET Downloads : Call(b)
  \/ Step
  \/ \E d \in Downloads : Transfer(d)
  \/ PerformFails
  \/ Search \/ Publish \/ SetAbortDownloads \/ Crash

Spec == Init /\ [][Next]_vars

\* The call runs, and every transfer gets on or fails: curl drops a connection
\* that is too slow.
FairSpec ==
  /\ Spec
  /\ WF_vars(Step)
  /\ \A d \in 1..N : WF_vars(Transfer(d))

--------------------------------------------------------------------------------
(* Properties *)

\* The loop does not end before every transfer has, and every ending has been
\* seen by processMessages, though messages are only looked at when the number
\* of running transfers differs from last time's.
AllProcessed ==
  pc \in {"verify", "cleanup"} /\ ~aborted => Slots({"active", "ok", "failed"}) = {}

\* A call that returns true has at least tried every file of the batch.
TrueMeansAttempted ==
  pc = "cleanup" /\ ~aborted =>
    \A d \in batch : state[d] = "FINISHED" \/ slot[d] = "broken"

\* A .tmp never stands beside the file it becomes: the rename in Close replaces
\* nothing, also after crashes and calls that returned early.
NoTmpBesideFile == \A d \in Downloads : disk[d] # NoFile => tmp[d] = NoFile

\* A mirror that failed is not asked again before the others had their turn,
\* through any number of retries.
MirrorsTakeTurns == \A d \in Downloads : \A m \in Mirrors(d) : turn[d][m] <= 1

\* The digest left in a finished download is one of the file on disk.
DigestDescribesFile ==
  pc = "idle" => \A d \in Hashed :
    state[d] = "FINISHED" /\ hash[d] # Unset =>
      \E n \in 1..Len(Cur(d)) : hash[d] = SubSeq(Cur(d), 1, n)

\* What has been downloaded is not written again by further calls for it.
FinishedStays ==
  [][\A d \in Downloads :
       state[d] = "FINISHED" /\ state'[d] = "FINISHED" => Cur(d)' = Cur(d)]_vars

\* Every call returns (or the process dies in it).
CallReturns == pc # "idle" ~> pc \in {"idle", "dead"}

\* "decrease local timestamp if download failed to force redownload next time"
\* (HttpDownloader.cpp:1414): what a failed download left is never taken for
\* the file.
FinishedIsComplete ==
  pc = "idle" => \A d \in Downloads :
    state[d] = "FINISHED" => \E v \in Versions : Cur(d) = Body(v)
================================================================================
