-------------------------- MODULE MCResourceLocks --------------------------
(***************************************************************************)
(* Three callers, so that two can queue behind an owner, and more          *)
(* resources than MinSweep, so that the table is swept, and dead entries   *)
(* replaced, while callers are in every stage of `acquire`.  One mutex     *)
(* more than resources keeps a fresh one in reach of every lookup.         *)
(***************************************************************************)
EXTENDS ResourceLocks

ASSUME Cardinality(Caller) >= 3 /\ Cardinality(Key) > MinSweep
ASSUME Cardinality(Mutex) > Cardinality(Key)
=============================================================================
