------------------------------ MODULE MCSearch ------------------------------
(* The instance of Search for TLC: two folders, a file that may never be     *)
(* read to its end, and files with none, one and several results.            *)
EXTENDS Search, TLC

CONSTANTS many, one, slow, none, last

QueryFolders == <<{many, none}, {one, slow, last}>>
FileMatches == many :> 2 @@ one :> 1 @@ slow :> 1 @@ none :> 0 @@ last :> 1
SlowFiles == {slow}
=============================================================================
