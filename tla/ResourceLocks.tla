--------------------------- MODULE ResourceLocks ---------------------------
(***************************************************************************)
(* The per-resource write locks of tscode-fs/src/locks.rs.                 *)
(*                                                                         *)
(* A table maps each comparison key to a WEAK pointer to an async mutex.   *)
(* `acquire` looks the key up under the table's own mutex, upgrades the    *)
(* weak pointer or installs a fresh mutex, leaves the critical section and *)
(* only then awaits the mutex it found.  An entry dies when the last       *)
(* caller that upgraded it lets go; dead entries are swept lazily.         *)
(*                                                                         *)
(* A mutex is one allocation of an Arc: a weak pointer in the table keeps  *)
(* its address from being reused, so a fresh mutex is one that neither a   *)
(* caller nor the table still names.                                       *)
(***************************************************************************)
EXTENDS Naturals, Sequences, FiniteSets

CONSTANTS Caller,    \* calls of `acquire`; an `acquire_pair` is two of them
          Key,       \* comparison keys
          Mutex,     \* allocations of Arc<AsyncMutex<()>>
          None,      \* no table entry, no reference, no key
          MinSweep   \* MIN_SWEEP_THRESHOLD (64 in the code)

ASSUME NoneAssumption == None \notin Mutex \cup Key
ASSUME FiniteAssumption == IsFiniteSet(Key)
ASSUME MinSweepAssumption == MinSweep \in Nat

VARIABLES entry,      \* Table::entries, entry[k] = None when k is absent
          threshold,  \* Table::sweep_threshold
          waiters,    \* each mutex's FIFO: the owner first, then who awaits it
          stage,      \* where each caller is in `acquire`
          wanted,     \* the key of its call
          ref         \* the mutex it holds an Arc to

vars == <<entry, threshold, waiters, stage, wanted, ref>>

Stage == {"idle", "found", "queued"}

Init ==
  /\ entry = [k \in Key |-> None]
  /\ threshold = 0
  /\ waiters = [m \in Mutex |-> <<>>]
  /\ stage = [c \in Caller |-> "idle"]
  /\ wanted = [c \in Caller |-> None]
  /\ ref = [c \in Caller |-> None]

\* Mutant of Live: the Arc is not kept between the lookup and the first poll.
LiveOnceQueued(m) == \E c \in Caller : ref[c] = m /\ stage[c] = "queued"

\* weak.strong_count() > 0
Live(m) == \E c \in Caller : ref[c] = m

Present(e) == {k \in Key : e[k] # None}

Larger(a, b) == IF a > b THEN a ELSE b

SweepDue == Cardinality(Present(entry)) > Larger(threshold, MinSweep)

\* entries.retain(|_, weak| weak.strong_count() > 0)
Retained == [k \in Key |-> IF Live(entry[k]) THEN entry[k] ELSE None]

Swept == IF SweepDue THEN Retained ELSE entry

NextThreshold ==
  IF SweepDue THEN 2 * Cardinality(Present(Retained)) ELSE threshold

\* A mutex that nothing names any more (or that was never allocated).
Fresh(m, table) == ~Live(m) /\ \A k \in Key : table[k] # m

Found(c, k, m) ==
  /\ stage' = [stage EXCEPT ![c] = "found"]
  /\ wanted' = [wanted EXCEPT ![c] = k]
  /\ ref' = [ref EXCEPT ![c] = m]
  /\ threshold' = NextThreshold
  /\ UNCHANGED waiters

\* The critical section when the weak pointer upgrades.
LookupExisting(c, k) ==
  /\ stage[c] = "idle"
  /\ Swept[k] # None
  /\ Live(Swept[k])
  /\ entry' = Swept
  /\ Found(c, k, Swept[k])

\* The critical section when the key is absent or its mutex is dead.
LookupFresh(c, k) ==
  /\ stage[c] = "idle"
  /\ ~(Swept[k] # None /\ Live(Swept[k]))
  /\ \E m \in Mutex :
       /\ Fresh(m, Swept)
       /\ entry' = [Swept EXCEPT ![k] = m]
       /\ Found(c, k, m)

\* Mutant of Enqueue: a caller barges ahead of those who already wait.
EnqueueBarging(c) ==
  /\ stage[c] = "found"
  /\ stage' = [stage EXCEPT ![c] = "queued"]
  /\ waiters' = [waiters EXCEPT ![ref[c]] =
                    IF @ = <<>> THEN <<c>> ELSE <<Head(@), c>> \o Tail(@)]
  /\ UNCHANGED <<entry, threshold, wanted, ref>>

\* The first poll of mutex.lock_owned(), outside the critical section.
Enqueue(c) ==
  /\ stage[c] = "found"
  /\ stage' = [stage EXCEPT ![c] = "queued"]
  /\ waiters' = [waiters EXCEPT ![ref[c]] = Append(@, c)]
  /\ UNCHANGED <<entry, threshold, wanted, ref>>

Owns(c) ==
  /\ stage[c] = "queued"
  /\ waiters[ref[c]] # <<>>
  /\ Head(waiters[ref[c]]) = c

\* Mutant of Release: those who wait are forgotten instead of woken.
ReleaseWakesNobody(c) ==
  /\ Owns(c)
  /\ stage' = [stage EXCEPT ![c] = "idle"]
  /\ waiters' = [waiters EXCEPT ![ref[c]] = <<>>]
  /\ ref' = [ref EXCEPT ![c] = None]
  /\ wanted' = [wanted EXCEPT ![c] = None]
  /\ UNCHANGED <<entry, threshold>>

\* Dropping the ResourceLock: the guard unlocks, then its Arc goes.
Release(c) ==
  /\ Owns(c)
  /\ stage' = [stage EXCEPT ![c] = "idle"]
  /\ waiters' = [waiters EXCEPT ![ref[c]] = Tail(@)]
  /\ ref' = [ref EXCEPT ![c] = None]
  /\ wanted' = [wanted EXCEPT ![c] = None]
  /\ UNCHANGED <<entry, threshold>>

Next ==
  \E c \in Caller :
    \/ \E k \in Key : LookupExisting(c, k) \/ LookupFresh(c, k)
    \/ Enqueue(c)
    \/ Release(c)

Spec == Init /\ [][Next]_vars

\* Tasks are polled, and a caller that owns a resource gives it back.
FairSpec ==
  /\ Spec
  /\ \A c \in Caller : WF_vars(Enqueue(c)) /\ WF_vars(Release(c))

-----------------------------------------------------------------------------
(* Properties *)

\* Type invariant.
TypeOK ==
  /\ entry \in [Key -> Mutex \cup {None}]
  /\ threshold \in Nat
  /\ waiters \in [Mutex -> Seq(Caller)]
  /\ stage \in [Caller -> Stage]
  /\ wanted \in [Caller -> Key \cup {None}]
  /\ ref \in [Caller -> Mutex \cup {None}]

\* Two callers that are inside `acquire`, or hold its result, for one key are
\* on one mutex, and it is the one the table names: neither the sweep nor the
\* replacement of a dead entry ever splits the callers of a resource.
OneMutexPerKey ==
  \A c \in Caller : stage[c] # "idle" => entry[wanted[c]] = ref[c]

\* At most one caller owns a resource.
MutualExclusion ==
  \A c, d \in Caller : Owns(c) /\ Owns(d) /\ wanted[c] = wanted[d] => c = d

\* Only a caller between lookup and release references a mutex.
ReferencesMatchStages ==
  \A c \in Caller :
    /\ stage[c] = "idle" <=> ref[c] = None
    /\ stage[c] = "idle" <=> wanted[c] = None

\* No mutex serves two resources.
EntriesDistinct ==
  \A j, k \in Key : entry[j] # None /\ entry[j] = entry[k] => j = k

\* A queue holds callers that reference its mutex, each of them once.
WaitersAreQueued ==
  \A m \in Mutex : \A i \in 1 .. Len(waiters[m]) :
    /\ stage[waiters[m][i]] = "queued"
    /\ ref[waiters[m][i]] = m
    /\ \A j \in 1 .. Len(waiters[m]) : waiters[m][i] = waiters[m][j] => i = j

\* What every step of the table and of its mutexes preserves.
LockInv ==
  /\ ReferencesMatchStages
  /\ OneMutexPerKey
  /\ EntriesDistinct
  /\ WaitersAreQueued

\* The queue of a resource, as the lock's users see it.
resourceQueue ==
  [k \in Key |-> IF entry[k] = None THEN <<>> ELSE waiters[entry[k]]]

Service == INSTANCE LockService WITH queue <- resourceQueue

\* The table implements one FIFO queue per resource.
ImplementsLockService == Service!Spec

\* Whoever starts to acquire a resource owns it in the end.
EventuallyOwns == \A c \in Caller : stage[c] = "found" ~> Owns(c)
=============================================================================
