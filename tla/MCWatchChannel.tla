--------------------------- MODULE MCWatchChannel ---------------------------
(* The instance of WatchChannel for TLC: two sessions with a request each, *)
(* so that one session ends while the other's watch stays.                 *)
EXTENDS WatchChannel, TLC

CONSTANTS s1, s2, r1, r2

RequestOwner == r1 :> s1 @@ r2 :> s2

=============================================================================
