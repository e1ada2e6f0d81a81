------------------------------- MODULE MCPlan -------------------------------
(* Every request over a drive of up to 40 bytes, valid and invalid. *)
EXTENDS Plan

MCRequests ==
    [start : {0, 1, 5, 8}, end : 1 .. 40, sampleSize : 0 .. 4,
     blockSize : 0 .. 2, count : {0, 1, 2, 3, 5}]
=============================================================================
