----------------------------- MODULE MCHttpDownload ----------------------------
(* Values for HttpDownload: two downloads to see a batch, one with three      *)
(* mirrors to see retries, one whose versions grow and shrink to see content. *)
EXTENDS HttpDownload

MCOneMirrorEach == <<1, 1>>
MCOneMirror == <<1>>
MCThreeMirrors == <<3>>

MCOneCell == <<1>>
MCTwoCells == <<2>>
MCGrowAndShrink == <<1, 2, 1>>

MCFirst == {1}
MCSecond == {2}
================================================================================
