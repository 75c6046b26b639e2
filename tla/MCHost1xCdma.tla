----------------------------- MODULE MCHost1xCdma -----------------------------
(***************************************************************************)
(* Host1xCdma with three jobs in a ring that holds two of them.  Two of    *)
(* the jobs share a syncpoint, the third has one of its own; one push is   *)
(* wide, and meets the end of the ring.                                    *)
(***************************************************************************)
EXTENDS Host1xCdma, TLC

CONSTANTS j1, j2, j3, s1, s2

MCSyncptOf == [j \in Jobs |-> IF j \in {j1, j3} THEN s1 ELSE s2]
\* The gather with the work, the increment and the wide wait of
\* HOST1X_HW >= 6; older hardware does its work in the last push.
MCProgram == [j \in Jobs |-> IF j = j3 THEN <<1, 1, 2>> ELSE <<1, 1, 1>>]
===============================================================================
