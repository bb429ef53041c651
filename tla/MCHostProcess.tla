--------------------------- MODULE MCHostProcess ----------------------------
(***************************************************************************)
(* Three calls: "write" is a log file's, whose continuation reads it back, *)
(* and "stat" goes alongside.                                              *)
(***************************************************************************)
EXTENDS HostProcess

MCCall == {"write", "read", "stat"}

MCFollowUp == [c \in MCCall |-> IF c = "write" THEN "read" ELSE "none"]

=============================================================================
