----------------------------- MODULE MCSdpDownload -----------------------------
(* Two pool files; the package lists the first one twice, so the second copy  *)
(* in the answer is written over a file that is already there.  A file of one *)
(* byte and one of two: what is read from the wrong byte on, and a damaged    *)
(* copy, can be shorter or longer than the file.                              *)
EXTENDS SdpDownload, TLC
CONSTANTS a, b

MCPoolFiles == {a, b}
MCEntries == <<a, b, a>>
MCSize == (a :> 1) @@ (b :> 2)
MCSentLengths == {1, 2}
================================================================================
