------------------------ MODULE ResourceLocksProofs ------------------------
(***************************************************************************)
(* Proofs about the lock table: its invariant is inductive, two callers    *)
(* never own one resource, and the table implements LockService.           *)
(***************************************************************************)
EXTENDS ResourceLocks, FiniteSetTheorems, SequenceTheorems, TLAPS

(***************************************************************************)
(* The table the sweep leaves behind has the type of the table, and keeps  *)
(* every entry a caller still references.                                  *)
(***************************************************************************)
LEMMA SweptType ==
  ASSUME TypeOK
  PROVE  /\ Swept \in [Key -> Mutex \cup {None}]
         /\ \A k \in Key : Swept[k] = entry[k] \/ (Swept[k] = None /\ ~Live(entry[k]))
  BY DEF TypeOK, Swept, Retained

LEMMA ThresholdType ==
  ASSUME TypeOK
  PROVE  NextThreshold \in Nat
  <1>1. Present(Retained) \subseteq Key
    BY DEF Present
  <1>2. IsFiniteSet(Present(Retained))
    BY <1>1, FiniteAssumption, FS_Subset
  <1>3. Cardinality(Present(Retained)) \in Nat
    BY <1>2, FS_CardinalityType
  <1>4. QED
    BY <1>3 DEF NextThreshold, TypeOK

(***************************************************************************)
(* Type correctness.                                                       *)
(***************************************************************************)
LEMMA TypeInit == Init => TypeOK
  BY NoneAssumption DEF Init, TypeOK, Stage

LEMMA TypeStep ==
  ASSUME TypeOK, LockInv, [Next]_vars
  PROVE  TypeOK'
  <1>1. ASSUME NEW c \in Caller, NEW k \in Key, LookupExisting(c, k)
        PROVE  TypeOK'
    BY <1>1, SweptType, ThresholdType DEF LookupExisting, Found, TypeOK, Stage
  <1>2. ASSUME NEW c \in Caller, NEW k \in Key, LookupFresh(c, k)
        PROVE  TypeOK'
    BY <1>2, SweptType, ThresholdType DEF LookupFresh, Found, TypeOK, Stage
  <1>3. ASSUME NEW c \in Caller, Enqueue(c)
        PROVE  TypeOK'
    <2>1. ref[c] \in Mutex
      BY <1>3 DEF Enqueue, TypeOK, LockInv, ReferencesMatchStages
    <2>2. Append(waiters[ref[c]], c) \in Seq(Caller)
      BY <2>1 DEF TypeOK
    <2>3. waiters' \in [Mutex -> Seq(Caller)]
      BY <1>3, <2>2 DEF Enqueue, TypeOK
    <2>4. QED
      BY <1>3, <2>3 DEF Enqueue, TypeOK, Stage
  <1>4. ASSUME NEW c \in Caller, Release(c)
        PROVE  TypeOK'
    <2>1. ref[c] \in Mutex
      BY <1>4 DEF Release, Owns, TypeOK, LockInv, ReferencesMatchStages
    <2>2. Tail(waiters[ref[c]]) \in Seq(Caller)
      BY <1>4, <2>1 DEF TypeOK, Release, Owns
    <2>3. waiters' \in [Mutex -> Seq(Caller)]
      BY <1>4, <2>2 DEF Release, TypeOK
    <2>4. QED
      BY <1>4, <2>3 DEF Release, TypeOK, Stage
  <1>5. CASE UNCHANGED vars
    BY <1>5 DEF vars, TypeOK
  <1>6. QED
    BY <1>1, <1>2, <1>3, <1>4, <1>5 DEF Next

(***************************************************************************)
(* The lock invariant.                                                     *)
(***************************************************************************)
LEMMA LockInit == Init => LockInv
  BY NoneAssumption DEF Init, LockInv, ReferencesMatchStages, OneMutexPerKey,
     EntriesDistinct, WaitersAreQueued

LEMMA LookupExistingStep ==
  ASSUME TypeOK, LockInv, NEW c \in Caller, NEW k \in Key, LookupExisting(c, k)
  PROVE  LockInv'
  <1> USE DEF LookupExisting, Found, TypeOK, Stage
  <1>1. Swept[k] \in Mutex /\ Swept[k] = entry[k]
    BY SweptType
  <1>2. ReferencesMatchStages'
    BY <1>1, NoneAssumption DEF LockInv, ReferencesMatchStages
  <1>3. OneMutexPerKey'
    <2> SUFFICES ASSUME NEW d \in Caller, stage'[d] # "idle"
                 PROVE  entry'[wanted'[d]] = ref'[d]
      BY DEF OneMutexPerKey
    <2>1. CASE d = c
      BY <2>1
    <2>2. CASE d # c
      <3>1. wanted[d] \in Key /\ entry[wanted[d]] = ref[d] /\ Live(ref[d])
        BY <2>2 DEF LockInv, ReferencesMatchStages, OneMutexPerKey, Live
      <3>2. Swept[wanted[d]] = entry[wanted[d]]
        BY <3>1, SweptType
      <3>3. QED
        BY <2>2, <3>1, <3>2
    <2>3. QED
      BY <2>1, <2>2
  <1>4. EntriesDistinct'
    BY SweptType DEF LockInv, EntriesDistinct
  <1>5. WaitersAreQueued'
    BY DEF LockInv, WaitersAreQueued
  <1>6. QED
    BY <1>2, <1>3, <1>4, <1>5 DEF LockInv

LEMMA LookupFreshStep ==
  ASSUME TypeOK, LockInv, NEW c \in Caller, NEW k \in Key, LookupFresh(c, k)
  PROVE  LockInv'
  <1> USE DEF TypeOK, Stage
  <1>1. PICK m \in Mutex : /\ Fresh(m, Swept)
                           /\ entry' = [Swept EXCEPT ![k] = m]
                           /\ Found(c, k, m)
    BY DEF LookupFresh
  <1>2. stage[c] = "idle" /\ (Swept[k] = None \/ ~Live(Swept[k]))
    BY DEF LookupFresh
  <1>3. ReferencesMatchStages'
    BY <1>1, <1>2, NoneAssumption DEF LockInv, ReferencesMatchStages, Found
  <1>4. OneMutexPerKey'
    <2> SUFFICES ASSUME NEW d \in Caller, stage'[d] # "idle"
                 PROVE  entry'[wanted'[d]] = ref'[d]
      BY DEF OneMutexPerKey
    <2>1. CASE d = c
      BY <1>1, <2>1, SweptType DEF Found
    <2>2. CASE d # c
      <3>1. /\ wanted[d] \in Key /\ entry[wanted[d]] = ref[d]
            /\ Live(ref[d]) /\ ref[d] # None
        BY <1>1, <2>2 DEF LockInv, ReferencesMatchStages, OneMutexPerKey, Live, Found
      <3>2. Swept[wanted[d]] = entry[wanted[d]]
        BY <3>1, SweptType
      <3>3. wanted[d] # k
        BY <1>2, <3>1, <3>2
      <3>4. QED
        BY <1>1, <2>2, <3>1, <3>2, <3>3, SweptType DEF Found
    <2>3. QED
      BY <2>1, <2>2
  <1>5. EntriesDistinct'
    <2> SUFFICES ASSUME NEW i \in Key, NEW j \in Key,
                        entry'[i] # None, entry'[i] = entry'[j]
                 PROVE  i = j
      BY DEF EntriesDistinct
    <2>1. \A l \in Key : l # k => entry'[l] = Swept[l] /\ entry'[l] # m
      BY <1>1, SweptType DEF Fresh
    <2>2. entry'[k] = m
      BY <1>1, SweptType
    <2>3. CASE i = k \/ j = k
      BY <2>1, <2>2, <2>3
    <2>4. CASE i # k /\ j # k
      BY <2>1, <2>4, SweptType DEF LockInv, EntriesDistinct
    <2>5. QED
      BY <2>3, <2>4
  <1>6. WaitersAreQueued'
    BY <1>1, <1>2 DEF LockInv, WaitersAreQueued, Found
  <1>7. QED
    BY <1>3, <1>4, <1>5, <1>6 DEF LockInv

LEMMA EnqueueStep ==
  ASSUME TypeOK, LockInv, NEW c \in Caller, Enqueue(c)
  PROVE  LockInv'
  <1> USE DEF TypeOK, Stage
  <1> DEFINE m == ref[c]
  <1>1. /\ m \in Mutex /\ stage[c] = "found"
        /\ stage' = [stage EXCEPT ![c] = "queued"]
        /\ waiters' = [waiters EXCEPT ![m] = Append(waiters[m], c)]
        /\ UNCHANGED <<entry, threshold, wanted, ref>>
    BY DEF Enqueue, LockInv, ReferencesMatchStages
  <1>2. ReferencesMatchStages' /\ OneMutexPerKey' /\ EntriesDistinct'
    BY <1>1 DEF LockInv, ReferencesMatchStages, OneMutexPerKey, EntriesDistinct
  <1>3. \A n \in Mutex : \A i \in 1 .. Len(waiters[n]) : waiters[n][i] # c
    BY <1>1 DEF LockInv, WaitersAreQueued
  <1>4. WaitersAreQueued'
    <2> SUFFICES ASSUME NEW n \in Mutex, NEW i \in 1 .. Len(waiters'[n])
                 PROVE  /\ stage'[waiters'[n][i]] = "queued"
                        /\ ref'[waiters'[n][i]] = n
                        /\ \A j \in 1 .. Len(waiters'[n]) :
                             waiters'[n][i] = waiters'[n][j] => i = j
      BY DEF WaitersAreQueued
    <2>1. CASE n # m
      <3>1. waiters'[n] = waiters[n]
        BY <1>1, <2>1
      <3>2. waiters[n][i] \in Caller
        BY <3>1
      <3>3. QED
        BY <1>1, <1>3, <3>1, <3>2 DEF LockInv, WaitersAreQueued
    <2>2. CASE n = m
      <3>1. /\ waiters[m] \in Seq(Caller)
            /\ waiters'[n] = Append(waiters[m], c)
            /\ Len(waiters'[n]) = Len(waiters[m]) + 1
            /\ waiters'[n][Len(waiters[m]) + 1] = c
            /\ \A j \in 1 .. Len(waiters[m]) :
                 waiters'[n][j] = waiters[m][j] /\ waiters[m][j] \in Caller
        BY <1>1, <2>2
      <3>2. CASE i = Len(waiters[m]) + 1
        BY <1>1, <1>3, <2>2, <3>1, <3>2
      <3>3. CASE i # Len(waiters[m]) + 1
        <4>1. i \in 1 .. Len(waiters[m])
          BY <3>1, <3>3
        <4>2. /\ stage[waiters[m][i]] = "queued"
              /\ ref[waiters[m][i]] = m
              /\ \A j \in 1 .. Len(waiters[m]) : waiters[m][i] = waiters[m][j] => i = j
          BY <1>1, <4>1 DEF LockInv, WaitersAreQueued
        <4>3. waiters'[n][i] = waiters[m][i] /\ waiters[m][i] \in Caller /\ waiters[m][i] # c
          BY <1>1, <1>3, <3>1, <4>1
        <4>4. stage'[waiters'[n][i]] = "queued" /\ ref'[waiters'[n][i]] = n
          BY <1>1, <2>2, <4>2, <4>3
        <4>5. ASSUME NEW j \in 1 .. Len(waiters'[n]), waiters'[n][i] = waiters'[n][j]
              PROVE  i = j
          <5>1. j # Len(waiters[m]) + 1
            BY <3>1, <4>3, <4>5
          <5>2. j \in 1 .. Len(waiters[m])
            BY <3>1, <4>5, <5>1
          <5>3. QED
            BY <3>1, <4>2, <4>3, <4>5, <5>2
        <4>6. QED
          BY <4>4, <4>5
      <3>4. QED
        BY <3>2, <3>3
    <2>3. QED
      BY <2>1, <2>2
  <1>5. QED
    BY <1>2, <1>4 DEF LockInv

LEMMA ReleaseStep ==
  ASSUME TypeOK, LockInv, NEW c \in Caller, Release(c)
  PROVE  LockInv'
  <1> USE DEF TypeOK, Stage
  <1> DEFINE m == ref[c]
  <1>1. /\ m \in Mutex /\ stage[c] = "queued"
        /\ waiters[m] \in Seq(Caller) /\ waiters[m] # <<>> /\ Head(waiters[m]) = c
        /\ stage' = [stage EXCEPT ![c] = "idle"]
        /\ waiters' = [waiters EXCEPT ![m] = Tail(waiters[m])]
        /\ ref' = [ref EXCEPT ![c] = None]
        /\ wanted' = [wanted EXCEPT ![c] = None]
        /\ UNCHANGED <<entry, threshold>>
    BY DEF Release, Owns, LockInv, ReferencesMatchStages
  <1>2. ReferencesMatchStages' /\ OneMutexPerKey' /\ EntriesDistinct'
    BY <1>1, NoneAssumption
    DEF LockInv, ReferencesMatchStages, OneMutexPerKey, EntriesDistinct
  <1>3. WaitersAreQueued'
    <2> SUFFICES ASSUME NEW n \in Mutex, NEW i \in 1 .. Len(waiters'[n])
                 PROVE  /\ stage'[waiters'[n][i]] = "queued"
                        /\ ref'[waiters'[n][i]] = n
                        /\ \A j \in 1 .. Len(waiters'[n]) :
                             waiters'[n][i] = waiters'[n][j] => i = j
      BY DEF WaitersAreQueued
    <2>1. CASE n # m
      <3>1. waiters'[n] = waiters[n] /\ waiters[n][i] \in Caller
        BY <1>1, <2>1
      <3>2. /\ stage[waiters[n][i]] = "queued"
            /\ ref[waiters[n][i]] = n
            /\ \A j \in 1 .. Len(waiters[n]) : waiters[n][i] = waiters[n][j] => i = j
        BY <3>1 DEF LockInv, WaitersAreQueued
      <3>3. QED
        BY <1>1, <2>1, <3>1, <3>2
    <2>2. CASE n = m
      <3>1. /\ waiters'[n] = Tail(waiters[m])
            /\ Len(waiters'[n]) = Len(waiters[m]) - 1
            /\ waiters[m][1] = c
            /\ \A j \in 1 .. Len(waiters'[n]) : waiters'[n][j] = waiters[m][j + 1]
        BY <1>1, <2>2
      <3>2. /\ i + 1 \in 1 .. Len(waiters[m])
            /\ 1 \in 1 .. Len(waiters[m])
            /\ waiters[m][i + 1] \in Caller
        BY <1>1, <3>1
      <3>3. /\ stage[waiters[m][i + 1]] = "queued"
            /\ ref[waiters[m][i + 1]] = m
            /\ \A j \in 1 .. Len(waiters[m]) : waiters[m][i + 1] = waiters[m][j] => i + 1 = j
        BY <1>1, <3>2 DEF LockInv, WaitersAreQueued
      <3>4. waiters[m][i + 1] # c
        BY <3>1, <3>2, <3>3
      <3>5. QED
        BY <1>1, <2>2, <3>1, <3>2, <3>3, <3>4
    <2>3. QED
      BY <2>1, <2>2
  <1>4. QED
    BY <1>2, <1>3 DEF LockInv

LEMMA LockStep ==
  ASSUME TypeOK, LockInv, [Next]_vars
  PROVE  LockInv'
  <1>1. CASE UNCHANGED vars
    BY <1>1 DEF vars, LockInv, ReferencesMatchStages, OneMutexPerKey,
                EntriesDistinct, WaitersAreQueued
  <1>2. QED
    BY <1>1, LookupExistingStep, LookupFreshStep, EnqueueStep, ReleaseStep DEF Next

(***************************************************************************)
(* The state of the table always has its type, and the lock invariant      *)
(* holds: the callers of a resource are all on the mutex its entry names.  *)
(***************************************************************************)
THEOREM TypeCorrect == Spec => [](TypeOK /\ LockInv)
  <1>1. Init => TypeOK /\ LockInv
    BY TypeInit, LockInit
  <1>2. TypeOK /\ LockInv /\ [Next]_vars => (TypeOK /\ LockInv)'
    BY TypeStep, LockStep
  <1>3. QED
    BY <1>1, <1>2, PTL DEF Spec

(***************************************************************************)
(* A resource never has two owners, whatever the callers, the resources    *)
(* and the sweep threshold (ResourceLocks::acquire).                       *)
(***************************************************************************)
THEOREM Exclusion == Spec => []MutualExclusion
  <1>1. TypeOK /\ LockInv => MutualExclusion
    BY DEF TypeOK, LockInv, OneMutexPerKey, MutualExclusion, Owns
  <1>2. QED
    BY <1>1, TypeCorrect, PTL

(***************************************************************************)
(* The table of weak pointers implements one FIFO queue per resource.      *)
(***************************************************************************)
LEMMA ServiceInit == Init => Service!Init
  BY NoneAssumption DEF Init, Service!Init, resourceQueue

LEMMA LookupKeepsQueues ==
  ASSUME TypeOK, LockInv, NEW c \in Caller, NEW k \in Key,
         LookupExisting(c, k) \/ LookupFresh(c, k)
  PROVE  resourceQueue' = resourceQueue
  <1>1. waiters' = waiters
    BY DEF LookupExisting, LookupFresh, Found
  <1>2. \A m \in Mutex : ~Live(m) => waiters[m] = <<>>
    <2> SUFFICES ASSUME NEW m \in Mutex, waiters[m] # <<>>
                 PROVE  Live(m)
      OBVIOUS
    <2>1. waiters[m] \in Seq(Caller) /\ 1 \in 1 .. Len(waiters[m]) /\ waiters[m][1] \in Caller
      BY DEF TypeOK
    <2>2. QED
      BY <2>1 DEF LockInv, WaitersAreQueued, Live
  <1>3. ASSUME NEW j \in Key
        PROVE  \/ entry'[j] = entry[j]
               \/ /\ entry[j] = None \/ ~Live(entry[j])
                  /\ entry'[j] = None \/ ~Live(entry'[j])
    <2>1. CASE LookupExisting(c, k)
      BY <2>1, SweptType DEF LookupExisting, TypeOK
    <2>2. CASE LookupFresh(c, k)
      <3>1. PICK m \in Mutex : Fresh(m, Swept) /\ entry' = [Swept EXCEPT ![k] = m]
        BY <2>2 DEF LookupFresh
      <3>2. Swept[k] = None \/ ~Live(Swept[k])
        BY <2>2 DEF LookupFresh
      <3>3. QED
        BY <3>1, <3>2, SweptType DEF TypeOK, Fresh
    <2>3. QED
      BY <2>1, <2>2
  <1>4. entry' \in [Key -> Mutex \cup {None}]
    BY TypeStep DEF TypeOK, Next
  <1>5. \A j \in Key : resourceQueue'[j] = resourceQueue[j]
    BY <1>1, <1>2, <1>3, <1>4, NoneAssumption DEF resourceQueue, TypeOK
  <1>6. QED
    BY <1>5 DEF resourceQueue

LEMMA EnqueueJoins ==
  ASSUME TypeOK, LockInv, NEW c \in Caller, Enqueue(c)
  PROVE  Service!Join(c, wanted[c])
  <1> DEFINE k == wanted[c]
  <1>1. /\ k \in Key /\ ref[c] \in Mutex /\ entry[k] = ref[c] /\ stage[c] = "found"
        /\ waiters' = [waiters EXCEPT ![ref[c]] = Append(waiters[ref[c]], c)]
        /\ entry' = entry
    BY DEF Enqueue, TypeOK, LockInv, OneMutexPerKey, ReferencesMatchStages
  <1>2. ~Service!Queued(c, k)
    <2>1. resourceQueue[k] = waiters[ref[c]]
      BY <1>1, NoneAssumption DEF resourceQueue
    <2>2. \A i \in 1 .. Len(waiters[ref[c]]) : waiters[ref[c]][i] # c
      BY <1>1 DEF LockInv, WaitersAreQueued
    <2>3. QED
      BY <2>1, <2>2 DEF Service!Queued
  <1>3. \A j \in Key : resourceQueue'[j] =
          IF j = k THEN Append(resourceQueue[j], c) ELSE resourceQueue[j]
    BY <1>1, NoneAssumption DEF resourceQueue, TypeOK, LockInv, EntriesDistinct
  <1>4. resourceQueue' = [resourceQueue EXCEPT ![k] = Append(@, c)]
    <2>1. /\ resourceQueue = [j \in Key |-> resourceQueue[j]]
          /\ resourceQueue' = [j \in Key |-> resourceQueue'[j]]
      BY DEF resourceQueue
    <2> QED
      BY <1>1, <1>3, <2>1
  <1>5. QED
    BY <1>2, <1>4 DEF Service!Join

LEMMA ReleaseLeaves ==
  ASSUME TypeOK, LockInv, NEW c \in Caller, Release(c)
  PROVE  Service!Leave(c, wanted[c])
  <1> DEFINE k == wanted[c]
  <1>1. /\ k \in Key /\ ref[c] \in Mutex /\ entry[k] = ref[c]
        /\ waiters[ref[c]] # <<>> /\ Head(waiters[ref[c]]) = c
        /\ waiters' = [waiters EXCEPT ![ref[c]] = Tail(waiters[ref[c]])]
        /\ entry' = entry
    BY DEF Release, Owns, TypeOK, LockInv, OneMutexPerKey, ReferencesMatchStages, Stage
  <1>2. Service!Holds(c, k)
    BY <1>1, NoneAssumption DEF Service!Holds, resourceQueue
  <1>3. \A j \in Key : resourceQueue'[j] =
          IF j = k THEN Tail(resourceQueue[j]) ELSE resourceQueue[j]
    BY <1>1, NoneAssumption DEF resourceQueue, TypeOK, LockInv, EntriesDistinct
  <1>4. resourceQueue' = [resourceQueue EXCEPT ![k] = Tail(@)]
    <2>1. /\ resourceQueue = [j \in Key |-> resourceQueue[j]]
          /\ resourceQueue' = [j \in Key |-> resourceQueue'[j]]
      BY DEF resourceQueue
    <2> QED
      BY <1>1, <1>3, <2>1
  <1>5. QED
    BY <1>2, <1>4 DEF Service!Leave

THEOREM Refinement == Spec => ImplementsLockService
  <1>1. TypeOK /\ LockInv /\ [Next]_vars => [Service!Next]_resourceQueue
    <2> SUFFICES ASSUME TypeOK, LockInv, [Next]_vars
                 PROVE  [Service!Next]_resourceQueue
      OBVIOUS
    <2>1. ASSUME NEW c \in Caller, Enqueue(c)
          PROVE  Service!Next
      <3>1. wanted[c] \in Key
        BY <2>1 DEF Enqueue, TypeOK, LockInv, ReferencesMatchStages
      <3>2. QED
        BY <2>1, <3>1, EnqueueJoins DEF Service!Next
    <2>2. ASSUME NEW c \in Caller, Release(c)
          PROVE  Service!Next
      <3>1. wanted[c] \in Key
        BY <2>2 DEF Release, Owns, TypeOK, LockInv, ReferencesMatchStages
      <3>2. QED
        BY <2>2, <3>1, ReleaseLeaves DEF Service!Next
    <2>3. CASE UNCHANGED vars
      BY <2>3 DEF vars, resourceQueue
    <2>4. QED
      BY <2>1, <2>2, <2>3, LookupKeepsQueues DEF Next
  <1>2. QED
    BY <1>1, ServiceInit, TypeCorrect, PTL DEF Spec, ImplementsLockService, Service!Spec
=============================================================================
