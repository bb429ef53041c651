---------------------------- MODULE LockService ----------------------------
(***************************************************************************)
(* What `ResourceLocks::acquire` (tscode-fs/src/locks.rs) promises its     *)
(* callers: one FIFO queue per resource, whose head owns the resource.     *)
(* The module says nothing of how a resource is found; ResourceLocks.tla   *)
(* is the table of weak pointers that implements it, and FileProvider.tla  *)
(* is the client that relies on it.                                        *)
(***************************************************************************)
EXTENDS Naturals, Sequences

CONSTANTS Caller, \* one element per call of `acquire`
          Key     \* the comparison keys of the paths locked

VARIABLE queue    \* queue[k]: the callers of k in arrival order, the owner first

Holds(c, k) == queue[k] # <<>> /\ Head(queue[k]) = c

Queued(c, k) == \E i \in 1 .. Len(queue[k]) : queue[k][i] = c

Init == queue = [k \in Key |-> <<>>]

\* The first poll of `lock_owned`: the caller owns a free resource at once and
\* otherwise waits behind everyone who came before.
Join(c, k) ==
  /\ ~Queued(c, k)
  /\ queue' = [queue EXCEPT ![k] = Append(@, c)]

\* Dropping the `ResourceLock` hands the resource to the next in line.
Leave(c, k) ==
  /\ Holds(c, k)
  /\ queue' = [queue EXCEPT ![k] = Tail(@)]

Next == \E c \in Caller, k \in Key : Join(c, k) \/ Leave(c, k)

Spec == Init /\ [][Next]_queue
=============================================================================
