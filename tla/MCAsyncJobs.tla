------------------------------ MODULE MCAsyncJobs ------------------------------
(* Unitsync's priorities (unitsync.cpp:1117, 1132, 1163) and two jobs of an     *)
(* application that may cancel them.                                            *)
EXTENDS AsyncJobs

CONSTANTS load, mapex, image, urgent, common

MCJobs == {load, mapex, image, urgent, common}
MCPriority ==
  [i \in MCJobs |->
     CASE i = load -> 500 [] i = mapex -> 200 [] i = image -> 100
       [] i = urgent -> 900 [] i = common -> 150]
MCKept == {urgent, common}
MCLoads == {load}
================================================================================
