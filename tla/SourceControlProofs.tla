------------------------ MODULE SourceControlProofs ------------------------
(***************************************************************************)
(* Proofs about SourceControl: its types; that an answer which is not      *)
(* flagged stale shows every mutation that has ended; and that the view at *)
(* rest shows the disk, once every overlap of discoveries has been         *)
(* followed by one that ran alone.  For any number of repositories,        *)
(* mutations and discoveries.                                              *)
(***************************************************************************)
EXTENDS SourceControl, TLAPS

(***************************************************************************)
(* Type correctness, one group of variables at a time.                     *)
(***************************************************************************)
LEMMA TypeInit == Init => TypeOK
  <1> SUFFICES ASSUME Init PROVE TypeOK
    OBVIOUS
  <1>1. RepoType /\ RegistryType
    <2>1. /\ disk \in [Roots -> Nat] /\ landed = disk
          /\ event = {} /\ armed = {} /\ missed = {}
          /\ folders \in SUBSET Roots /\ entries = {} /\ epoch = 0
      BY DEF Init
    <2> QED
      BY <2>1 DEF RepoType, RegistryType
  <1>2. ViewType /\ PollType
    <2>1. /\ shown = {} /\ painted = [r \in Roots |-> None] /\ window = 0 /\ again = FALSE
      BY DEF Init
    <2>2. /\ pollAt = "idle" /\ dated = 0 /\ todo = {} /\ walking = {} /\ stale = FALSE
          /\ snap = [r \in Roots |-> None]
      BY DEF Init
    <2>3. None \in Snapshot
      BY DEF Snapshot
    <2>4. [r \in Roots |-> None] \in [Roots -> Snapshot]
      BY <2>3
    <2>5. ViewType
      <3>1. window \in 0..2
        BY <2>1
      <3>2. shown \subseteq Roots /\ painted \in [Roots -> Snapshot] /\ again \in BOOLEAN
        BY <2>1, <2>4, Zenon
      <3> QED
        BY <3>1, <3>2 DEF ViewType
    <2>6. PollType
      BY <2>2, <2>4 DEF PollType
    <2> QED
      BY <2>5, <2>6
  <1>3. MutationType
    BY DEF Init, MutationType
  <1>4. DiscoveryType
    <2>1. /\ discAt \in [Discoveries -> {"idle", "asking"}]
          /\ asking \in [Discoveries -> SUBSET Roots]
      BY DEF Init
    <2>2. /\ found \in [Discoveries -> SUBSET Roots] /\ gone = found
          /\ closing \in [Discoveries -> Roots \cup {None}] /\ unread = {} /\ crossed = {}
      BY DEF Init
    <2> QED
      BY <2>1, <2>2 DEF DiscoveryType
  <1> QED
    BY <1>1, <1>2, <1>3, <1>4 DEF TypeOK

LEMMA RepoStep == TypeOK /\ [Next]_vars => RepoType'
  <1> SUFFICES ASSUME TypeOK, [Next]_vars PROVE RepoType'
    OBVIOUS
  <1> USE DEF TypeOK, RepoType, repoVars
  <1>1. CASE Poll
    BY <1>1 DEF Poll, Date, List, Answer, Apply, ReadHead, Walk
  <1>2. CASE WindowPasses \/ UserRefreshes
    BY <1>2 DEF WindowPasses, UserRefreshes
  <1>3. CASE Events
    BY <1>3 DEF Events, OtherProgramWrites, OtherProgramTouches, ArmWatch, FilesChange, Write
  <1>4. ASSUME NEW m \in Mutations, Mutation(m) \/ \E r \in Roots : Mutate(m, r)
        PROVE  RepoType'
    <2>1. CASE GitWrites(m)
      BY <1>4, <2>1 DEF GitWrites, Write, MutationType
    <2>2. CASE GitEnds(m)
      BY <1>4, <2>2 DEF GitEnds, MutationType
    <2> QED
      BY <1>4, <2>1, <2>2 DEF Mutation, Open, MutationRefreshes, RefreshIsLost, Mutate
  <1>5. ASSUME NEW d \in Discoveries, Discovery(d) \/ \E fs \in SUBSET Roots : FoldersChange(d, fs)
        PROVE  RepoType'
    BY <1>5 DEF Discovery, Reconcile, Remove, Bump, Create, Discover, Dispose, FoldersChange
  <1>6. CASE UNCHANGED vars
    BY <1>6 DEF vars
  <1> QED
    BY <1>1, <1>2, <1>3, <1>4, <1>5, <1>6 DEF Next

LEMMA RegistryStep == TypeOK /\ [Next]_vars => RegistryType'
  <1> SUFFICES ASSUME TypeOK, [Next]_vars PROVE RegistryType'
    OBVIOUS
  <1> USE DEF TypeOK, RegistryType
  <1>1. CASE Poll
    BY <1>1 DEF Poll, Date, List, Answer, Apply, ReadHead, Walk
  <1>2. CASE WindowPasses \/ UserRefreshes \/ Events
    BY <1>2 DEF WindowPasses, UserRefreshes, Events, OtherProgramWrites, OtherProgramTouches,
                ArmWatch, FilesChange
  <1>3. ASSUME NEW m \in Mutations, Mutation(m) \/ \E r \in Roots : Mutate(m, r)
        PROVE  RegistryType'
    <2>1. CASE Open(m)
      BY <1>3, <2>1 DEF Open, MutationType
    <2> QED
      BY <1>3, <2>1 DEF Mutation, GitWrites, GitEnds, MutationRefreshes, RefreshIsLost, Mutate
  <1>4. ASSUME NEW d \in Discoveries, Discovery(d) \/ \E fs \in SUBSET Roots : FoldersChange(d, fs)
        PROVE  RegistryType'
    BY <1>4 DEF Discovery, Reconcile, Remove, Bump, Create, Discover, Dispose, FoldersChange
  <1>5. CASE UNCHANGED vars
    BY <1>5 DEF vars
  <1> QED
    BY <1>1, <1>2, <1>3, <1>4, <1>5 DEF Next

LEMMA ViewStep == TypeOK /\ [Next]_vars => ViewType'
  <1> SUFFICES ASSUME TypeOK, [Next]_vars PROVE ViewType'
    OBVIOUS
  <1> USE DEF TypeOK, ViewType, viewVars
  <1>1. CASE Poll
    <2>1. CASE Apply
      BY <2>1 DEF Apply, Paint, StartPass, PollType
    <2> QED
      BY <1>1, <2>1 DEF Poll, Date, List, Answer, ReadHead, Walk
  <1>2. CASE WindowPasses \/ UserRefreshes
    <2>1. Refresh => again' \in BOOLEAN
      BY DEF Refresh, StartPass
    <2>2. CASE WindowPasses
      <3>1. shown' = shown /\ painted' = painted /\ window' \in 0..2
        BY <2>2 DEF WindowPasses
      <3>2. again' \in BOOLEAN
        BY <2>1, <2>2 DEF WindowPasses
      <3> QED
        BY <3>1, <3>2
    <2>3. CASE UserRefreshes
      BY <2>1, <2>3 DEF UserRefreshes
    <2> QED
      BY <1>2, <2>2, <2>3
  <1>3. CASE Events
    BY <1>3 DEF Events, OtherProgramWrites, OtherProgramTouches, ArmWatch, FilesChange, Schedule
  <1>4. ASSUME NEW m \in Mutations, Mutation(m) \/ \E r \in Roots : Mutate(m, r)
        PROVE  ViewType'
    <2>1. CASE MutationRefreshes(m)
      BY <2>1 DEF MutationRefreshes, Refresh, StartPass
    <2>2. CASE RefreshIsLost(m)
      BY <2>2 DEF RefreshIsLost, Paint, PollType
    <2> QED
      BY <1>4, <2>1, <2>2 DEF Mutation, Open, GitWrites, GitEnds, Mutate
  <1>5. ASSUME NEW d \in Discoveries, Discovery(d) \/ \E fs \in SUBSET Roots : FoldersChange(d, fs)
        PROVE  ViewType'
    <2>1. CASE Create(d)
      BY <2>1 DEF Create, Refresh, StartPass, DiscoveryType
    <2>2. ASSUME NEW r \in Roots, Dispose(d, r) PROVE ViewType'
      BY <2>2 DEF Dispose, Snapshot
    <2> QED
      BY <1>5, <2>1, <2>2 DEF Discovery, Reconcile, Remove, Bump, Discover, FoldersChange
  <1>6. CASE UNCHANGED vars
    BY <1>6 DEF vars
  <1> QED
    BY <1>1, <1>2, <1>3, <1>4, <1>5, <1>6 DEF Next

LEMMA PollStep == TypeOK /\ [Next]_vars => PollType'
  <1> SUFFICES ASSUME TypeOK, [Next]_vars PROVE PollType'
    OBVIOUS
  <1> USE DEF TypeOK, PollType, pollVars, backVars
  <1>1. CASE Poll
    <2>1. CASE Date \/ Answer
      BY <2>1 DEF Date, Answer, RegistryType
    <2>2. CASE List
      BY <2>2 DEF List, RegistryType, Snapshot
    <2>3. ASSUME NEW r \in Roots, ReadHead(r) PROVE PollType'
      BY <2>3 DEF ReadHead, RepoType, Snapshot
    <2>4. ASSUME NEW r \in Roots, Walk(r) PROVE PollType'
      BY <2>4 DEF Walk, Snapshot
    <2>5. CASE Apply
      BY <2>5 DEF Apply, Forget, StartPass, EndPass, Snapshot
    <2> QED
      BY <1>1, <2>1, <2>2, <2>3, <2>4, <2>5 DEF Poll
  <1>2. CASE WindowPasses \/ UserRefreshes
    BY <1>2 DEF WindowPasses, UserRefreshes, Refresh, StartPass
  <1>3. CASE Events
    BY <1>3 DEF Events, OtherProgramWrites, OtherProgramTouches, ArmWatch, FilesChange
  <1>4. ASSUME NEW m \in Mutations, Mutation(m) \/ \E r \in Roots : Mutate(m, r)
        PROVE  PollType'
    <2>1. CASE MutationRefreshes(m)
      BY <2>1 DEF MutationRefreshes, Refresh, StartPass
    <2>2. CASE RefreshIsLost(m)
      BY <2>2 DEF RefreshIsLost, Forget, Snapshot
    <2> QED
      BY <1>4, <2>1, <2>2 DEF Mutation, Open, GitWrites, GitEnds, Mutate
  <1>5. ASSUME NEW d \in Discoveries, Discovery(d) \/ \E fs \in SUBSET Roots : FoldersChange(d, fs)
        PROVE  PollType'
    BY <1>5 DEF Discovery, Reconcile, Remove, Bump, Create, Refresh, StartPass, Discover, Dispose,
                FoldersChange
  <1>6. CASE UNCHANGED vars
    BY <1>6 DEF vars
  <1> QED
    BY <1>1, <1>2, <1>3, <1>4, <1>5, <1>6 DEF Next

LEMMA MutationStep == TypeOK /\ [Next]_vars => MutationType'
  <1> SUFFICES ASSUME TypeOK, [Next]_vars PROVE MutationType'
    OBVIOUS
  <1> USE DEF TypeOK, MutationType, mutVars
  <1>1. CASE Poll
    <2>1. CASE Apply
      BY <2>1 DEF Apply, EndPass
    <2> QED
      BY <1>1, <2>1 DEF Poll, Date, List, Answer, ReadHead, Walk
  <1>2. CASE WindowPasses \/ UserRefreshes \/ Events
    BY <1>2 DEF WindowPasses, UserRefreshes, Events, OtherProgramWrites, OtherProgramTouches,
                ArmWatch, FilesChange
  <1>3. ASSUME NEW m \in Mutations, Mutation(m) \/ \E r \in Roots : Mutate(m, r)
        PROVE  MutationType'
    <2>1. CASE RefreshIsLost(m)
      BY <2>1 DEF RefreshIsLost
    <2>2. ASSUME NEW r \in Roots, Mutate(m, r) PROVE MutationType'
      BY <2>2 DEF Mutate
    <2>3. CASE Open(m) \/ GitWrites(m)
      BY <2>3 DEF Open, GitWrites
    <2>4. CASE GitEnds(m) \/ MutationRefreshes(m)
      BY <2>4 DEF GitEnds, MutationRefreshes
    <2> QED
      BY <1>3, <2>1, <2>2, <2>3, <2>4 DEF Mutation
  <1>4. ASSUME NEW d \in Discoveries, Discovery(d) \/ \E fs \in SUBSET Roots : FoldersChange(d, fs)
        PROVE  MutationType'
    BY <1>4 DEF Discovery, Reconcile, Remove, Bump, Create, Discover, Dispose, FoldersChange
  <1>5. CASE UNCHANGED vars
    BY <1>5 DEF vars
  <1> QED
    BY <1>1, <1>2, <1>3, <1>4, <1>5 DEF Next

LEMMA DiscoveryStep == TypeOK /\ [Next]_vars => DiscoveryType'
  <1> SUFFICES ASSUME TypeOK, [Next]_vars PROVE DiscoveryType'
    OBVIOUS
  <1> USE DEF TypeOK, DiscoveryType, discVars
  <1>1. CASE Poll
    <2>1. CASE Apply
      BY <2>1 DEF Apply, EndPass
    <2> QED
      BY <1>1, <2>1 DEF Poll, Date, List, Answer, ReadHead, Walk
  <1>2. CASE WindowPasses \/ UserRefreshes \/ Events
    BY <1>2 DEF WindowPasses, UserRefreshes, Events, OtherProgramWrites, OtherProgramTouches,
                ArmWatch, FilesChange
  <1>3. ASSUME NEW m \in Mutations, Mutation(m) \/ \E r \in Roots : Mutate(m, r)
        PROVE  DiscoveryType'
    <2>1. CASE RefreshIsLost(m)
      BY <2>1 DEF RefreshIsLost
    <2> QED
      BY <1>3, <2>1 DEF Mutation, Open, GitWrites, GitEnds, MutationRefreshes, Mutate
  <1>4. ASSUME NEW d \in Discoveries, Discovery(d) \/ \E fs \in SUBSET Roots : FoldersChange(d, fs)
        PROVE  DiscoveryType'
    <2>1. ASSUME NEW fs \in SUBSET Roots, FoldersChange(d, fs) PROVE DiscoveryType'
      BY <2>1 DEF FoldersChange, Running
    <2>2. ASSUME NEW r \in Roots, Discover(d, r) PROVE DiscoveryType'
      BY <2>2 DEF Discover
    <2>3. ASSUME NEW r \in Roots, Dispose(d, r) PROVE DiscoveryType'
      BY <2>3 DEF Dispose
    <2>4. CASE Reconcile(d)
      BY <2>4 DEF Reconcile, ViewType
    <2>5. CASE Remove(d) \/ Bump(d) \/ Create(d)
      BY <2>5 DEF Remove, Bump, Create
    <2> QED
      BY <1>4, <2>1, <2>2, <2>3, <2>4, <2>5 DEF Discovery
  <1>5. CASE UNCHANGED vars
    BY <1>5 DEF vars
  <1> QED
    BY <1>1, <1>2, <1>3, <1>4, <1>5 DEF Next

LEMMA TypeStep == TypeOK /\ [Next]_vars => TypeOK'
  BY RepoStep, RegistryStep, ViewStep, PollStep, MutationStep, DiscoveryStep DEF TypeOK

(***************************************************************************)
(* An epoch never moves back, and a write never goes unseen: while the     *)
(* epoch stands where a pass dated itself, no mutation has ended since, so *)
(* what the pass has read is at least what mutations had left behind.      *)
(***************************************************************************)
Dated ==
  /\ dated <= epoch
  /\ \A r \in Roots : landed[r] <= disk[r]
  /\ pollAt = "computing" /\ dated = epoch =>
       \A r \in Roots : Read(snap[r]) => snap[r] >= landed[r]

LEMMA DatedInit == Init => Dated
  BY DEF Init, Dated

LEMMA DatedPoll == TypeOK /\ Dated /\ Poll => Dated'
  <1> SUFFICES ASSUME TypeOK, Dated, Poll PROVE Dated'
    OBVIOUS
  <1> USE DEF TypeOK, RepoType, RegistryType, PollType, repoVars
  <1>1. CASE Date
    BY <1>1 DEF Date, Dated
  <1>2. CASE List
    BY <1>2 DEF List, Dated, Read
  <1>3. ASSUME NEW q \in Roots, ReadHead(q) PROVE Dated'
    BY <1>3 DEF ReadHead, Dated, Read
  <1>4. ASSUME NEW q \in Roots, Walk(q) PROVE Dated'
    BY <1>4 DEF Walk, Dated, Read
  <1>5. CASE Answer
    BY <1>5 DEF Answer, Dated
  <1>6. CASE Apply
    BY <1>6 DEF Apply, Forget, StartPass, EndPass, Dated
  <1> QED
    BY <1>1, <1>2, <1>3, <1>4, <1>5, <1>6 DEF Poll

\* A pass begins at "asked", which Dated says nothing of.
LEMMA DatedRefresh ==
  ASSUME Dated, Refresh, UNCHANGED <<disk, landed, epoch, dated, snap>>
  PROVE  Dated'
  BY DEF Dated, Refresh, StartPass

LEMMA DatedMutation ==
  ASSUME TypeOK, Dated, NEW m \in Mutations, Mutation(m) \/ \E r \in Roots : Mutate(m, r)
  PROVE  Dated'
  <1>1. CASE GitWrites(m)
    <2>1. target[m] \in Roots
      BY <1>1 DEF GitWrites, TypeOK, MutationType
    <2> QED
      BY <1>1, <2>1 DEF GitWrites, Write, Dated, TypeOK, RepoType, pollVars
  <1>2. CASE GitEnds(m)
    <2>1. target[m] \in Roots
      BY <1>2 DEF GitEnds, TypeOK, MutationType
    <2>2. dated' # epoch' /\ dated' <= epoch'
      BY <1>2 DEF GitEnds, Dated, TypeOK, RegistryType, PollType, pollVars
    <2> QED
      BY <1>2, <2>1, <2>2 DEF GitEnds, Dated, TypeOK, RepoType
  <1>3. CASE MutationRefreshes(m)
    BY <1>3, DatedRefresh DEF MutationRefreshes, repoVars, backVars
  <1>4. CASE RefreshIsLost(m)
    BY <1>4 DEF RefreshIsLost, Forget, Dated, TypeOK, RegistryType, repoVars
  <1>5. CASE Open(m) \/ \E r \in Roots : Mutate(m, r)
    BY <1>5 DEF Open, Mutate, Dated, repoVars, pollVars
  <1> QED
    BY <1>1, <1>2, <1>3, <1>4, <1>5 DEF Mutation

LEMMA DatedDiscovery ==
  ASSUME TypeOK, Dated, NEW d \in Discoveries,
         Discovery(d) \/ \E fs \in SUBSET Roots : FoldersChange(d, fs)
  PROVE  Dated'
  <1>1. CASE Create(d)
    BY <1>1, DatedRefresh DEF Create, repoVars, backVars
  <1>2. CASE Bump(d)
    BY <1>2 DEF Bump, Dated, TypeOK, RegistryType, PollType, repoVars, pollVars
  <1> QED
    BY <1>1, <1>2 DEF Discovery, Reconcile, Remove, Discover, Dispose, FoldersChange, Dated,
                      repoVars, pollVars

LEMMA DatedStep == TypeOK /\ Dated /\ [Next]_vars => Dated'
  <1> SUFFICES ASSUME TypeOK, Dated, [Next]_vars PROVE Dated'
    OBVIOUS
  <1>1. CASE Poll
    BY <1>1, DatedPoll
  <1>2. CASE WindowPasses
    <2>1. CASE Refresh
      BY <1>2, <2>1, DatedRefresh DEF WindowPasses, repoVars, backVars
    <2> QED
      BY <1>2, <2>1 DEF WindowPasses, Dated, repoVars, backVars
  <1>3. CASE UserRefreshes
    BY <1>3, DatedRefresh DEF UserRefreshes, repoVars, backVars
  <1>4. CASE Events
    <2>1. ASSUME NEW r \in Roots, OtherProgramWrites(r) PROVE Dated'
      BY <2>1 DEF OtherProgramWrites, Write, Dated, TypeOK, RepoType, pollVars
    <2> QED
      BY <1>4, <2>1 DEF Events, OtherProgramTouches, ArmWatch, FilesChange, Dated, pollVars
  <1>5. ASSUME NEW m \in Mutations, Mutation(m) \/ \E r \in Roots : Mutate(m, r) PROVE Dated'
    BY <1>5, DatedMutation
  <1>6. ASSUME NEW d \in Discoveries, Discovery(d) \/ \E fs \in SUBSET Roots : FoldersChange(d, fs)
        PROVE  Dated'
    BY <1>6, DatedDiscovery
  <1>7. CASE UNCHANGED vars
    BY <1>7 DEF vars, repoVars, pollVars, Dated
  <1> QED
    BY <1>1, <1>2, <1>3, <1>4, <1>5, <1>6, <1>7 DEF Next

(***************************************************************************)
(* What is shown is the workspace, and what is open.  A discovery that has *)
(* the workspace for itself has found what it has asked for, and a root it *)
(* closes is neither shown nor found again: when it is through, that holds *)
(* of the view, whatever discoveries that overlapped had left in it.       *)
(***************************************************************************)
Busy(d) == d \in Running

\* No other discovery has run beside this one.
Lone(d) == Busy(d) /\ d \notin crossed

Exact(d) ==
  /\ \A e \in Discoveries : Busy(e) => e = d
  /\ discAt[d] = "asking" => /\ asking[d] \subseteq folders \ unread
                             /\ found[d] = folders \ (asking[d] \cup unread)
  /\ discAt[d] # "asking" => /\ found[d] = folders \ unread
                             /\ gone[d] = shown \ found[d]
  /\ found[d] \subseteq entries
  /\ discAt[d] = "removing" => closing[d] \notin shown \cup found[d]

Gathers(d) ==
  /\ ~Busy(d) => asking[d] = {} /\ found[d] = {} /\ gone[d] = {}
  /\ discAt[d] = "asking" => gone[d] = {}
  /\ Busy(d) /\ discAt[d] # "asking" => asking[d] = {}

\* Nothing is left of an overlap.
Settled ==
  crossed = {} => /\ shown \subseteq entries
                  /\ (\A d \in Discoveries : ~Busy(d)) => ShowsWorkspace

Reconciled ==
  (\A d \in Discoveries : Gathers(d) /\ (Lone(d) => Exact(d))) /\ Settled

LEMMA BusyAt ==
  ASSUME NEW d \in Discoveries
  PROVE  /\ Busy(d) <=> discAt[d] \in {"asking", "closing", "removing", "bumping"}
         /\ Busy(d)' <=> discAt'[d] \in {"asking", "closing", "removing", "bumping"}
  BY DEF Busy, Running

LEMMA ReconciledInit == Init => Reconciled
  <1> SUFFICES ASSUME Init PROVE Reconciled
    OBVIOUS
  <1> DEFINE first == Min(Discoveries)
  <1>1. first \in Discoveries
    BY DiscoveriesAssumption DEF Min
  <1>2. /\ discAt = [d \in Discoveries |-> IF d = first THEN "asking" ELSE "idle"]
        /\ asking = [d \in Discoveries |-> IF d = first THEN folders ELSE {}]
        /\ found = [d \in Discoveries |-> {}] /\ gone = found
        /\ unread = {} /\ shown = {} /\ entries = {} /\ crossed = {}
    BY DEF Init
  <1> HIDE DEF first
  <1>3. \A d \in Discoveries : Busy(d) <=> d = first
    BY <1>2, BusyAt
  <1>4. Settled
    BY <1>1, <1>2, <1>3 DEF Settled
  <1>5. ASSUME NEW d \in Discoveries PROVE Gathers(d)
    BY <1>2, <1>3 DEF Gathers
  <1>6. ASSUME NEW d \in Discoveries, Lone(d) PROVE Exact(d)
    <2>1. d = first
      BY <1>3, <1>6 DEF Lone
    <2> QED
      BY <1>2, <1>3, <2>1 DEF Exact
  <1> QED
    BY <1>4, <1>5, <1>6 DEF Reconciled

\* A step that opens repositories at most.
LEMMA ReconciledBeside ==
  ASSUME Reconciled, entries \subseteq entries',
         UNCHANGED <<folders, shown, discAt, asking, found, gone, closing, unread, crossed>>
  PROVE  Reconciled'
  <1>1. \A d \in Discoveries : /\ Busy(d)' <=> Busy(d)
                               /\ Lone(d)' <=> Lone(d)
    BY DEF Busy, Running, Lone
  <1>2. Settled'
    BY <1>1 DEF Reconciled, Settled, ShowsWorkspace
  <1>3. ASSUME NEW d \in Discoveries PROVE Gathers(d)'
    BY <1>1 DEF Reconciled, Gathers
  <1>4. ASSUME NEW d \in Discoveries, Lone(d)' PROVE Exact(d)'
    BY <1>1, <1>4 DEF Reconciled, Exact
  <1> QED
    BY <1>2, <1>3, <1>4 DEF Reconciled

LEMMA ReconciledFolders ==
  ASSUME TypeOK, Reconciled, NEW d \in Discoveries, NEW fs \in SUBSET Roots,
         FoldersChange(d, fs)
  PROVE  Reconciled'
  <1>1. /\ folders' = fs /\ unread' = {} /\ UNCHANGED <<entries, shown, found, gone, closing>>
        /\ discAt[d] = "idle" /\ discAt' = [discAt EXCEPT ![d] = "asking"]
        /\ asking' = [asking EXCEPT ![d] = fs]
        /\ crossed' = IF Running = {} THEN crossed ELSE crossed \cup Running \cup {d}
    BY DEF FoldersChange, viewVars
  <1>2. \A e \in Discoveries : Busy(e)' <=> Busy(e) \/ e = d
    BY <1>1, BusyAt DEF TypeOK, DiscoveryType
  <1>3. Settled'
    <2>1. crossed' = {} => crossed = {}
      BY <1>1
    <2> QED
      BY <1>1, <1>2, <2>1 DEF Reconciled, Settled
  <1>4. asking[d] = {} /\ found[d] = {} /\ gone[d] = {}
    BY <1>1, BusyAt DEF Reconciled, Gathers
  <1>5. ASSUME NEW e \in Discoveries PROVE Gathers(e)'
    <2>1. CASE e = d
      BY <1>1, <1>2, <1>4, <2>1 DEF Gathers, TypeOK, DiscoveryType
    <2>2. CASE e # d
      BY <1>1, <1>2, <2>2 DEF Reconciled, Gathers, TypeOK, DiscoveryType
    <2> QED
      BY <2>1, <2>2
  <1>6. ASSUME NEW e \in Discoveries, Lone(e)' PROVE Exact(e)'
    <2>1. CASE Running = {}
      <3>1. e = d /\ \A f \in Discoveries : Busy(f)' => f = d
        BY <1>2, <1>6, <2>1 DEF Lone, Busy
      <3>2. discAt'[d] = "asking" /\ asking'[d] = fs /\ found'[d] = {}
        BY <1>1, <1>4 DEF TypeOK, DiscoveryType
      <3> QED
        BY <1>1, <3>1, <3>2 DEF Exact
    <2>2. CASE Running # {}
      BY <1>1, <1>2, <1>6, <2>2 DEF Lone, Busy
    <2> QED
      BY <2>1, <2>2
  <1> QED
    BY <1>3, <1>5, <1>6 DEF Reconciled

\* A discovery's own steps, but its last, leave the others where they are.  What
\* one does beside another says nothing, for what they leave is put right later.
LEMMA ReconciledOwn ==
  ASSUME Reconciled, NEW d \in Discoveries, Busy(d), Busy(d)',
         \A e \in Discoveries \ {d} :
            UNCHANGED <<discAt[e], asking[e], found[e], gone[e], closing[e]>>,
         UNCHANGED <<folders, crossed>>, Gathers(d)',
         Exact(d) => /\ discAt'[d] = "asking" =>
                          /\ asking'[d] \subseteq folders \ unread'
                          /\ found'[d] = folders \ (asking'[d] \cup unread')
                     /\ discAt'[d] # "asking" =>
                          found'[d] = folders \ unread' /\ gone'[d] = shown' \ found'[d]
                     /\ found'[d] \subseteq entries'
                     /\ discAt'[d] = "removing" => closing'[d] \notin shown' \cup found'[d]
                     /\ shown \subseteq entries => shown' \subseteq entries'
  PROVE  Reconciled'
  <1>1. \A e \in Discoveries : Busy(e)' <=> Busy(e)
    BY BusyAt
  <1>2. ASSUME NEW e \in Discoveries \ {d} PROVE Gathers(e)'
    BY <1>1 DEF Reconciled, Gathers
  <1>3. ASSUME NEW e \in Discoveries, Lone(e)' PROVE Exact(e)'
    <2>1. Lone(e)
      BY <1>1, <1>3 DEF Lone
    <2>2. Exact(e)
      BY <2>1 DEF Reconciled
    <2>3. e = d
      BY <2>2 DEF Exact
    <2> QED
      BY <1>1, <2>2, <2>3 DEF Exact
  <1>4. Settled'
    <2> SUFFICES ASSUME crossed = {} PROVE shown' \subseteq entries'
      BY <1>1 DEF Settled
    <2>1. Exact(d)
      BY DEF Reconciled, Lone
    <2> QED
      BY <2>1 DEF Reconciled, Settled
  <1> QED
    BY <1>2, <1>3, <1>4 DEF Reconciled

LEMMA ReconciledDiscovery ==
  ASSUME TypeOK, Reconciled, NEW d \in Discoveries, Discovery(d)
  PROVE  Reconciled'
  <1> USE DEF TypeOK, DiscoveryType
  <1>1. Gathers(d)
    BY DEF Reconciled
  <1>2. ASSUME NEW r \in Roots, Discover(d, r) PROVE Reconciled'
    <2>1. /\ discAt[d] = "asking" /\ r \in asking[d] /\ discAt' = discAt
          /\ asking' = [asking EXCEPT ![d] = @ \ {r}]
          /\ UNCHANGED <<folders, gone, closing, shown, crossed>>
      BY <1>2 DEF Discover, viewVars
    <2>2. \/ /\ found' = [found EXCEPT ![d] = @ \cup {r}]
             /\ entries' = entries \cup {r} /\ unread' = unread
          \/ unread' = unread \cup {r} /\ found' = found /\ entries' = entries
      BY <1>2 DEF Discover
    <2>3. asking'[d] = asking[d] \ {r} /\ discAt'[d] = "asking"
      BY <2>1
    <2>4. Busy(d) /\ Busy(d)'
      BY <2>1, BusyAt
    <2>5. Gathers(d)'
      BY <1>1, <2>1, <2>4 DEF Gathers
    <2>6. \A e \in Discoveries \ {d} :
            UNCHANGED <<discAt[e], asking[e], found[e], gone[e], closing[e]>>
      BY <2>1, <2>2
    <2>7. ASSUME Exact(d)
          PROVE  /\ asking'[d] \subseteq folders \ unread'
                 /\ found'[d] = folders \ (asking'[d] \cup unread')
                 /\ found'[d] \subseteq entries'
      <3>1. /\ asking[d] \subseteq folders \ unread
            /\ found[d] = folders \ (asking[d] \cup unread) /\ found[d] \subseteq entries
        BY <2>1, <2>7 DEF Exact
      <3>2. CASE found' = [found EXCEPT ![d] = @ \cup {r}] /\ entries' = entries \cup {r}
                 /\ unread' = unread
        BY <2>1, <2>3, <3>1, <3>2
      <3>3. CASE unread' = unread \cup {r} /\ found' = found /\ entries' = entries
        BY <2>1, <2>3, <3>1, <3>3
      <3> QED
        BY <2>2, <3>2, <3>3
    <2>8. shown \subseteq entries => shown' \subseteq entries'
      BY <2>1, <2>2
    <2> QED
      BY <2>1, <2>3, <2>4, <2>5, <2>6, <2>7, <2>8, ReconciledOwn
  <1>3. CASE Reconcile(d)
    <2>1. /\ discAt[d] = "asking" /\ asking[d] = {}
          /\ discAt' = [discAt EXCEPT ![d] = "closing"]
          /\ gone' = [gone EXCEPT ![d] = shown \ found[d]]
          /\ UNCHANGED <<folders, entries, shown, asking, found, closing, unread, crossed>>
      BY <1>3 DEF Reconcile, viewVars
    <2>2. Busy(d) /\ Busy(d)' /\ discAt'[d] = "closing" /\ gone'[d] = shown' \ found'[d]
      BY <2>1, BusyAt
    <2>3. Gathers(d)'
      BY <2>1, <2>2 DEF Gathers
    <2>4. \A e \in Discoveries \ {d} :
            UNCHANGED <<discAt[e], asking[e], found[e], gone[e], closing[e]>>
      BY <2>1
    <2>5. Exact(d) => found'[d] = folders \ unread' /\ found'[d] \subseteq entries'
      BY <2>1 DEF Exact
    <2> QED
      BY <2>1, <2>2, <2>3, <2>4, <2>5, ReconciledOwn
  <1>4. ASSUME NEW r \in Roots, Dispose(d, r) PROVE Reconciled'
    <2>1. /\ discAt[d] = "closing" /\ r \in gone[d]
          /\ discAt' = [discAt EXCEPT ![d] = "removing"]
          /\ gone' = [gone EXCEPT ![d] = @ \ {r}] /\ closing' = [closing EXCEPT ![d] = r]
          /\ shown' = shown \ {r}
          /\ UNCHANGED <<folders, entries, asking, found, unread, crossed>>
      BY <1>4 DEF Dispose
    <2>2. Busy(d) /\ Busy(d)' /\ discAt'[d] = "removing" /\ closing'[d] = r
          /\ gone'[d] = gone[d] \ {r}
      BY <2>1, BusyAt
    <2>3. Gathers(d)'
      BY <1>1, <2>1, <2>2 DEF Gathers
    <2>4. \A e \in Discoveries \ {d} :
            UNCHANGED <<discAt[e], asking[e], found[e], gone[e], closing[e]>>
      BY <2>1
    <2>5. Exact(d) => /\ found'[d] = folders \ unread' /\ gone'[d] = shown' \ found'[d]
                      /\ found'[d] \subseteq entries' /\ r \notin shown' \cup found'[d]
      BY <2>1, <2>2 DEF Exact
    <2> QED
      BY <2>1, <2>2, <2>3, <2>4, <2>5, ReconciledOwn
  <1>5. CASE Remove(d)
    <2>1. /\ discAt[d] = "removing" /\ discAt' = [discAt EXCEPT ![d] = "bumping"]
          /\ entries' = entries \ {closing[d]}
          /\ UNCHANGED <<folders, shown, asking, found, gone, closing, unread, crossed>>
      BY <1>5 DEF Remove, viewVars
    <2>2. Busy(d) /\ Busy(d)' /\ discAt'[d] = "bumping"
      BY <2>1, BusyAt
    <2>3. Gathers(d)'
      BY <1>1, <2>1, <2>2 DEF Gathers
    <2>4. \A e \in Discoveries \ {d} :
            UNCHANGED <<discAt[e], asking[e], found[e], gone[e], closing[e]>>
      BY <2>1
    <2>5. Exact(d) => /\ found'[d] = folders \ unread' /\ gone'[d] = shown' \ found'[d]
                      /\ found'[d] \subseteq entries'
                      /\ shown \subseteq entries => shown' \subseteq entries'
      BY <2>1 DEF Exact
    <2> QED
      BY <2>1, <2>2, <2>3, <2>4, <2>5, ReconciledOwn
  <1>6. CASE Bump(d)
    <2>1. /\ discAt[d] = "bumping" /\ discAt' = [discAt EXCEPT ![d] = "closing"]
          /\ closing' = [closing EXCEPT ![d] = None]
          /\ UNCHANGED <<folders, entries, shown, asking, found, gone, unread, crossed>>
      BY <1>6 DEF Bump, viewVars
    <2>2. Busy(d) /\ Busy(d)' /\ discAt'[d] = "closing"
      BY <2>1, BusyAt
    <2>3. Gathers(d)'
      BY <1>1, <2>1, <2>2 DEF Gathers
    <2>4. \A e \in Discoveries \ {d} :
            UNCHANGED <<discAt[e], asking[e], found[e], gone[e], closing[e]>>
      BY <2>1
    <2>5. Exact(d) => /\ found'[d] = folders \ unread' /\ gone'[d] = shown' \ found'[d]
                      /\ found'[d] \subseteq entries'
      BY <2>1 DEF Exact
    <2> QED
      BY <2>1, <2>2, <2>3, <2>4, <2>5, ReconciledOwn
  <1>7. CASE Create(d)
    <2>1. /\ discAt[d] = "closing" /\ gone[d] = {}
          /\ discAt' = [discAt EXCEPT ![d] = "done"]
          /\ shown' = shown \cup found[d] /\ found' = [found EXCEPT ![d] = {}]
          /\ crossed' = IF d \in crossed THEN crossed ELSE {}
          /\ UNCHANGED <<folders, entries, asking, gone, closing, unread>>
      BY <1>7 DEF Create
    <2>2. Busy(d) /\ \A e \in Discoveries : Busy(e)' <=> Busy(e) /\ e # d
      BY <2>1, BusyAt
    <2>3. ASSUME NEW e \in Discoveries PROVE Gathers(e)'
      <3>1. CASE e = d
        BY <1>1, <2>1, <2>2, <3>1 DEF Gathers
      <3>2. CASE e # d
        BY <2>1, <2>2, <3>2 DEF Reconciled, Gathers
      <3> QED
        BY <3>1, <3>2
    <2>4. CASE d \in crossed
      <3>1. crossed' = crossed /\ crossed # {}
        BY <2>1, <2>4
      <3>2. ASSUME NEW e \in Discoveries PROVE ~Lone(e)'
        <4>1. Lone(e)' => Lone(e)
          BY <2>2, <3>1 DEF Lone
        <4>2. Lone(e) => e = d
          BY <2>2 DEF Reconciled, Exact
        <4> QED
          BY <2>2, <4>1, <4>2 DEF Lone
      <3> QED
        BY <2>3, <3>1, <3>2 DEF Reconciled, Settled
    <2>5. CASE d \notin crossed
      <3>1. Exact(d) /\ crossed' = {}
        BY <2>1, <2>2, <2>5 DEF Reconciled, Lone
      <3>2. shown' = folders \ unread /\ shown' \subseteq entries
        BY <2>1, <3>1 DEF Exact
      <3>3. Settled'
        BY <2>1, <3>2 DEF Settled, ShowsWorkspace
      <3>4. \A e \in Discoveries : ~Lone(e)'
        BY <2>2, <3>1 DEF Lone, Exact
      <3> QED
        BY <2>3, <3>3, <3>4 DEF Reconciled
    <2> QED
      BY <2>4, <2>5
  <1> QED
    BY <1>2, <1>3, <1>4, <1>5, <1>6, <1>7 DEF Discovery

LEMMA ReconciledStep == TypeOK /\ Reconciled /\ [Next]_vars => Reconciled'
  <1> SUFFICES ASSUME TypeOK, Reconciled, [Next]_vars PROVE Reconciled'
    OBVIOUS
  <1> DEFINE Beside ==
        /\ entries \subseteq entries'
        /\ UNCHANGED <<folders, shown, discAt, asking, found, gone, closing, unread, crossed>>
  <1> USE DEF viewVars, discVars
  <1>1. CASE Poll
    <2>1. Beside
      BY <1>1 DEF Poll, Date, List, Answer, Apply, ReadHead, Walk
    <2> QED
      BY <2>1, ReconciledBeside
  <1>2. CASE WindowPasses \/ UserRefreshes \/ Events
    <2>1. Beside
      BY <1>2 DEF WindowPasses, UserRefreshes, Events, OtherProgramWrites, OtherProgramTouches,
                  ArmWatch, FilesChange
    <2> QED
      BY <2>1, ReconciledBeside
  <1>3. ASSUME NEW m \in Mutations, Mutation(m) \/ \E r \in Roots : Mutate(m, r)
        PROVE  Reconciled'
    <2>1. Beside
      BY <1>3 DEF Mutation, Open, GitWrites, GitEnds, MutationRefreshes, RefreshIsLost, Mutate
    <2> QED
      BY <2>1, ReconciledBeside
  <1>4. ASSUME NEW d \in Discoveries, Discovery(d) PROVE Reconciled'
    BY <1>4, ReconciledDiscovery
  <1>5. ASSUME NEW d \in Discoveries, NEW fs \in SUBSET Roots, FoldersChange(d, fs)
        PROVE  Reconciled'
    BY <1>5, ReconciledFolders
  <1>6. CASE UNCHANGED vars
    <2>1. Beside
      BY <1>6 DEF vars
    <2> QED
      BY <2>1, ReconciledBeside
  <1> QED
    BY <1>1, <1>2, <1>3, <1>4, <1>5, <1>6 DEF Next

(***************************************************************************)
(* What is painted is current: a repository that is shown is painted, or   *)
(* is about to be painted, as it is on disk, unless something is on its    *)
(* way that makes a pass read it again.                                    *)
(***************************************************************************)
WillShow(r) ==
  IF pollAt \in {"computing", "answered"} /\ snap[r] # None THEN snap[r] ELSE painted[r]

\* A pass that has not yet read the repository follows.
Comes(r) ==
  \/ r \in event \/ window > 0
  \/ pollAt # "idle" /\ again
  \/ pollAt \in {"asked", "dated"}
  \/ pollAt = "computing" /\ r \in todo

FreshRoot(r) == WillShow(r) \in {Failed, disk[r]} \/ r \in missed \/ Comes(r)

Fresh == \A r \in shown : FreshRoot(r)

LEMMA FreshInit == Init => Fresh
  BY DEF Init, Fresh

\* Whoever refreshes has a pass of his own to wait for, the next if one runs.
LEMMA RefreshComes == ASSUME Refresh PROVE \A r \in Roots : Comes(r)'
  BY DEF Refresh, StartPass, Comes

\* A step that takes none of the reasons away, and changes neither what is
\* shown of a repository nor the repository.
LEMMA FreshKept ==
  ASSUME Fresh, shown' \subseteq shown, event \subseteq event', missed \subseteq missed',
         UNCHANGED <<disk, painted, snap, window, again, pollAt, todo>>
  PROVE  Fresh'
  BY DEF Fresh, FreshRoot, WillShow, Comes

LEMMA FreshWrite ==
  ASSUME TypeOK, Fresh, NEW q \in Roots, Write(q),
         UNCHANGED <<shown, painted, snap, window, again, pollAt, todo>>
  PROVE  Fresh'
  <1> SUFFICES ASSUME NEW r \in shown PROVE FreshRoot(r)'
    BY DEF Fresh
  <1>1. FreshRoot(r) /\ r \in Roots
    BY DEF Fresh, TypeOK, ViewType
  <1>2. event \subseteq event' /\ missed \subseteq missed'
    BY DEF Write
  <1>3. CASE r = q
    <2>1. r \in event' \/ r \in missed'
      BY <1>3 DEF Write
    <2> QED
      BY <2>1 DEF FreshRoot, Comes
  <1>4. CASE r # q
    <2>1. disk'[r] = disk[r]
      BY <1>1, <1>4 DEF Write, TypeOK, RepoType
    <2> QED
      BY <1>1, <1>2, <2>1 DEF FreshRoot, WillShow, Comes
  <1> QED
    BY <1>3, <1>4

\* The answer is painted as WillShow has it.
LEMMA PaintShows ==
  ASSUME TypeOK, pollAt = "answered", Paint, NEW r \in shown
  PROVE  painted'[r] = WillShow(r)
  BY DEF Paint, WillShow, TypeOK, ViewType

\* A pass that ends while nothing asks for another.
LEMMA FreshEnds ==
  ASSUME TypeOK, Fresh, pollAt = "answered", Paint, ~again, pollAt' = "idle",
         UNCHANGED <<disk, event, missed, shown, window>>
  PROVE  Fresh'
  <1> SUFFICES ASSUME NEW r \in shown PROVE FreshRoot(r)'
    BY DEF Fresh
  <1>1. FreshRoot(r) /\ painted'[r] = WillShow(r)
    BY PaintShows DEF Fresh
  <1>2. WillShow(r)' = painted'[r]
    BY DEF WillShow
  <1>3. Comes(r) => Comes(r)'
    BY DEF Comes
  <1> QED
    BY <1>1, <1>2, <1>3 DEF FreshRoot

LEMMA FreshPoll == TypeOK /\ shown \subseteq entries /\ Fresh /\ Poll => Fresh'
  <1> SUFFICES ASSUME TypeOK, shown \subseteq entries, Fresh, Poll PROVE Fresh'
    OBVIOUS
  <1> USE DEF repoVars, viewVars
  <1>1. CASE Date
    BY <1>1 DEF Date, Fresh, FreshRoot, Comes
  <1>2. CASE List
    BY <1>2 DEF List, Fresh, FreshRoot, Comes
  <1>3. ASSUME NEW q \in Roots, ReadHead(q) PROVE Fresh'
    <2> SUFFICES ASSUME NEW r \in shown PROVE FreshRoot(r)'
      BY <1>3 DEF ReadHead, Fresh
    <2>1. FreshRoot(r) /\ r \in Roots
      BY DEF Fresh, TypeOK, ViewType
    <2>2. /\ pollAt = "computing" /\ todo' = todo \ {q} /\ missed' = missed \ {q}
          /\ snap' = [snap EXCEPT ![q] = disk[q]]
          /\ UNCHANGED <<disk, event, painted, window, again, pollAt>>
      BY <1>3 DEF ReadHead
    <2>3. snap \in [Roots -> Snapshot] /\ disk[r] # None
      BY <2>1, NoneAssumption DEF TypeOK, PollType, RepoType
    <2>4. CASE r = q
      <3>1. WillShow(r)' = disk'[r]
        BY <2>1, <2>2, <2>3, <2>4 DEF WillShow
      <3> QED
        BY <3>1 DEF FreshRoot
    <2>5. CASE r # q
      <3>1. WillShow(r)' = WillShow(r)
        BY <2>1, <2>2, <2>3, <2>5 DEF WillShow
      <3>2. Comes(r) => Comes(r)'
        BY <2>2, <2>5 DEF Comes
      <3> QED
        BY <2>1, <2>2, <2>5, <3>1, <3>2 DEF FreshRoot
    <2> QED
      BY <2>4, <2>5
  <1>4. ASSUME NEW q \in Roots, Walk(q) PROVE Fresh'
    <2> SUFFICES ASSUME NEW r \in shown PROVE FreshRoot(r)'
      BY <1>4 DEF Walk, Fresh
    <2>1. FreshRoot(r) /\ r \in Roots /\ snap \in [Roots -> Snapshot]
      BY DEF Fresh, TypeOK, ViewType, PollType
    <2>2. /\ snap' = snap \/ snap' = [snap EXCEPT ![q] = Failed]
          /\ UNCHANGED <<disk, event, missed, painted, window, again, pollAt, todo>>
      BY <1>4 DEF Walk
    <2>3. WillShow(r)' \in {WillShow(r), Failed}
      BY <2>1, <2>2, NoneAssumption DEF WillShow
    <2>4. Comes(r) => Comes(r)'
      BY <2>2 DEF Comes
    <2> QED
      BY <2>1, <2>2, <2>3, <2>4 DEF FreshRoot
  <1>5. CASE Answer
    BY <1>5 DEF Answer, Fresh, FreshRoot, WillShow, Comes
  <1>6. CASE Apply
    <2>1. CASE Repeat
      BY <1>6, <2>1 DEF Apply, StartPass, Fresh, FreshRoot, Comes
    <2>2. CASE ~Repeat
      <3>1. /\ pollAt = "answered" /\ Paint /\ ~again /\ pollAt' = "idle"
            /\ UNCHANGED <<disk, event, missed, shown, window>>
        BY <1>6, <2>2 DEF Apply, EndPass, Repeat
      <3> QED
        BY <3>1, FreshEnds
    <2> QED
      BY <2>1, <2>2
  <1> QED
    BY <1>1, <1>2, <1>3, <1>4, <1>5, <1>6 DEF Poll

LEMMA FreshStep == TypeOK /\ shown \subseteq entries /\ Fresh /\ [Next]_vars => Fresh'
  <1> SUFFICES ASSUME TypeOK, shown \subseteq entries, Fresh, [Next]_vars PROVE Fresh'
    OBVIOUS
  <1>0. shown' \subseteq Roots
    BY TypeStep DEF TypeOK, ViewType
  <1>1. CASE Poll
    BY <1>1, FreshPoll
  <1>2. ASSUME Refresh PROVE Fresh'
    BY <1>0, <1>2, RefreshComes DEF Fresh, FreshRoot
  <1> USE DEF repoVars, viewVars, pollVars, backVars
  <1>3. CASE WindowPasses
    <2>1. CASE window = 1
      BY <1>2, <1>3, <2>1 DEF WindowPasses
    <2>2. CASE window # 1
      <3>1. window' > 0 /\ shown' = shown
        BY <1>3, <2>2 DEF WindowPasses, TypeOK, ViewType
      <3> QED
        BY <3>1 DEF Fresh, FreshRoot, Comes
    <2> QED
      BY <2>1, <2>2
  <1>4. CASE UserRefreshes
    BY <1>2, <1>4 DEF UserRefreshes
  <1>5. ASSUME NEW q \in Roots, OtherProgramWrites(q) PROVE Fresh'
    BY <1>5, FreshWrite DEF OtherProgramWrites
  <1>6. ASSUME NEW q \in Roots, OtherProgramTouches(q) \/ ArmWatch(q) PROVE Fresh'
    BY <1>6, FreshKept DEF OtherProgramTouches, ArmWatch
  <1>7. ASSUME NEW q \in Roots, FilesChange(q) PROVE Fresh'
    <2>1. CASE q \in shown
      <3>1. window' > 0 /\ shown' = shown
        BY <1>7, <2>1 DEF FilesChange, Schedule, TypeOK, ViewType
      <3> QED
        BY <3>1 DEF Fresh, FreshRoot, Comes
    <2>2. CASE q \notin shown
      <3>1. /\ event' = event \ {q}
            /\ UNCHANGED <<disk, missed, shown, painted, snap, window, again, pollAt, todo>>
        BY <1>7, <2>2 DEF FilesChange
      <3> QED
        BY <2>2, <3>1 DEF Fresh, FreshRoot, WillShow, Comes
    <2> QED
      BY <2>1, <2>2
  <1>8. ASSUME NEW m \in Mutations, Mutation(m) \/ \E r \in Roots : Mutate(m, r)
        PROVE  Fresh'
    <2>1. CASE GitWrites(m)
      <3>1. target[m] \in Roots
        BY <1>8, <2>1 DEF GitWrites, TypeOK, MutationType
      <3> QED
        BY <2>1, <3>1, FreshWrite DEF GitWrites
    <2>2. CASE MutationRefreshes(m)
      BY <1>2, <2>2 DEF MutationRefreshes
    <2>3. CASE RefreshIsLost(m)
      <3>1. /\ pollAt = "answered" /\ Paint /\ ~again /\ pollAt' = "idle"
            /\ UNCHANGED <<disk, event, missed, shown, window>>
        BY <2>3 DEF RefreshIsLost, Repeat
      <3> QED
        BY <3>1, FreshEnds
    <2>4. CASE Open(m) \/ GitEnds(m) \/ \E r \in Roots : Mutate(m, r)
      BY <2>4, FreshKept DEF Open, GitEnds, Mutate
    <2> QED
      BY <1>8, <2>1, <2>2, <2>3, <2>4 DEF Mutation
  <1>9. ASSUME NEW d \in Discoveries, Discovery(d) \/ \E fs \in SUBSET Roots : FoldersChange(d, fs)
        PROVE  Fresh'
    <2>1. CASE Create(d)
      BY <1>2, <2>1 DEF Create
    <2>2. ASSUME NEW q \in Roots, Dispose(d, q) PROVE Fresh'
      <3>1. /\ shown' = shown \ {q} /\ missed' = missed \ {q}
            /\ painted' = [painted EXCEPT ![q] = None]
            /\ UNCHANGED <<disk, event, snap, window, again, pollAt, todo>>
        BY <2>2 DEF Dispose
      <3> SUFFICES ASSUME NEW r \in shown, r # q PROVE FreshRoot(r)'
        BY <3>1 DEF Fresh
      <3>2. FreshRoot(r) /\ r \in Roots /\ painted'[r] = painted[r]
        BY <3>1 DEF Fresh, TypeOK, ViewType
      <3>3. WillShow(r)' = WillShow(r) /\ (Comes(r) => Comes(r)')
        BY <3>1, <3>2 DEF WillShow, Comes
      <3> QED
        BY <3>1, <3>2, <3>3 DEF FreshRoot
    <2>3. CASE \/ Reconcile(d) \/ Remove(d) \/ Bump(d) \/ \E r \in Roots : Discover(d, r)
               \/ \E fs \in SUBSET Roots : FoldersChange(d, fs)
      BY <2>3, FreshKept DEF Reconcile, Remove, Bump, Discover, FoldersChange
    <2> QED
      BY <1>9, <2>1, <2>2, <2>3 DEF Discovery
  <1>10. CASE UNCHANGED vars
    BY <1>10, FreshKept DEF vars
  <1> QED
    BY <1>1, <1>3, <1>4, <1>5, <1>6, <1>7, <1>8, <1>9, <1>10 DEF Next, Events

\* A discovery that ran alone asks for a pass, and so what an overlap has left
\* unpainted is read again.
LEMMA FreshOnceSettled ==
  ASSUME TypeOK, Settled, crossed = {} => Fresh, [Next]_vars, crossed' = {}
  PROVE  Fresh'
  <1>1. CASE crossed = {}
    BY <1>1, FreshStep DEF Settled
  <1>2. CASE crossed # {}
    <2>1. PICK d \in Discoveries : Create(d)
      <3> USE <1>2 DEF discVars
      <3>1. ~Poll
        BY DEF Poll, Date, List, Answer, Apply, ReadHead, Walk
      <3>2. ~WindowPasses /\ ~UserRefreshes /\ ~Events
        BY DEF WindowPasses, UserRefreshes, Events, OtherProgramWrites, OtherProgramTouches,
               ArmWatch, FilesChange
      <3>3. \A m \in Mutations : ~Mutation(m) /\ \A r \in Roots : ~Mutate(m, r)
        BY DEF Mutation, Open, GitWrites, GitEnds, MutationRefreshes, RefreshIsLost, Mutate
      <3>4. \A d \in Discoveries : Discovery(d) => Create(d)
        BY DEF Discovery, Reconcile, Remove, Bump, Discover, Dispose
      <3>5. \A d \in Discoveries : \A fs \in SUBSET Roots : ~FoldersChange(d, fs)
        BY DEF FoldersChange
      <3>6. ~UNCHANGED vars
        BY DEF vars
      <3> QED
        BY <3>1, <3>2, <3>3, <3>4, <3>5, <3>6 DEF Next
    <2>2. shown' \subseteq Roots
      BY TypeStep DEF TypeOK, ViewType
    <2>3. \A r \in Roots : Comes(r)'
      BY <2>1, RefreshComes DEF Create
    <2> QED
      BY <2>2, <2>3 DEF Fresh, FreshRoot
  <1> QED
    BY <1>1, <1>2

\* Only Answer ends a pass.
LEMMA OnlyAnswer ==
  ASSUME [Next]_vars, pollAt # "answered", pollAt' = "answered"
  PROVE  Answer
  <1> USE DEF pollVars, backVars
  <1>1. Refresh => pollAt' # "answered"
    BY DEF Refresh, StartPass
  <1>2. ~Date /\ ~List /\ ~Apply /\ \A r \in Roots : ~ReadHead(r) /\ ~Walk(r)
    BY DEF Date, List, Apply, ReadHead, Walk
  <1>3. ~WindowPasses /\ ~UserRefreshes
    BY <1>1 DEF WindowPasses, UserRefreshes
  <1>4. ~Events
    BY DEF Events, OtherProgramWrites, OtherProgramTouches, ArmWatch, FilesChange
  <1>5. \A m \in Mutations : ~Mutation(m) /\ \A r \in Roots : ~Mutate(m, r)
    BY <1>1 DEF Mutation, Open, GitWrites, GitEnds, MutationRefreshes, RefreshIsLost, Mutate
  <1>6. \A d \in Discoveries : ~Discovery(d) /\ \A fs \in SUBSET Roots : ~FoldersChange(d, fs)
    BY <1>1 DEF Discovery, Reconcile, Remove, Bump, Create, Discover, Dispose, FoldersChange
  <1>7. ~UNCHANGED vars
    BY DEF vars
  <1> QED
    BY <1>2, <1>3, <1>4, <1>5, <1>6, <1>7 DEF Next, Poll

\* Every variable keeps its type and every mutation under way has a repository,
\* for any repositories, mutations and discoveries.
THEOREM TypeCorrect == Spec => []TypeOK
  BY TypeInit, TypeStep, PTL DEF Spec

\* An answer that is not flagged stale shows, for every repository it read,
\* every mutation that had ended, however many calls, passes and discoveries
\* run beside it (status_all, scm.rs:271, and mutating, lib.rs:308).
THEOREM StaleIsNeverWrong == Spec => StaleIsAMiss
  <1>1. TypeOK /\ Dated /\ [Next]_vars =>
          (pollAt # "answered" /\ pollAt' = "answered" /\ ~stale' =>
             \A r \in Roots : Read(snap[r]) => snap[r] >= landed[r])
    <2> SUFFICES ASSUME TypeOK, Dated, [Next]_vars, pollAt # "answered", pollAt' = "answered",
                        ~stale'
                 PROVE  \A r \in Roots : Read(snap[r]) => snap[r] >= landed[r]
      OBVIOUS
    <2>1. Answer
      BY OnlyAnswer
    <2>2. pollAt = "computing" /\ dated = epoch
      BY <2>1 DEF Answer
    <2> QED
      BY <2>2 DEF Dated
  <1>2. TypeOK /\ Dated /\ [Next]_vars => (TypeOK /\ Dated)'
    BY TypeStep, DatedStep
  <1>3. Init => TypeOK /\ Dated
    BY TypeInit, DatedInit
  <1>4. TypeOK /\ Dated /\ [Next]_vars =>
          [pollAt # "answered" /\ pollAt' = "answered" /\ ~stale' =>
             \A r \in Roots : Read(snap[r]) => snap[r] >= landed[r]]_vars
    BY <1>1
  <1> QED
    BY <1>2, <1>3, <1>4, PTL DEF Spec, StaleIsAMiss

\* Once nothing is under way, and every overlap of discoveries has been followed
\* by one that ran alone: the view shows the workspace's repositories, each open
\* and each painted as it is on disk, as failed, or as it was before its watch
\* ran (git.contribution.ts discover, mutate and apply, coalescingRefresh.ts).
\* The folders may change at any time, and what overlapping discoveries have
\* shown, closed or left unread does not outlast the next one.
THEOREM RestsCurrent == Spec => []RestIsCurrent
  <1> DEFINE Inv == TypeOK /\ Reconciled /\ (crossed = {} => Fresh)
  <1>1. Init => Inv
    BY TypeInit, ReconciledInit, FreshInit
  <1>2. Inv /\ [Next]_vars => Inv'
    BY TypeStep, ReconciledStep, FreshOnceSettled DEF Reconciled
  <1>3. Inv => RestIsCurrent
    <2> SUFFICES ASSUME Inv, AtRest, crossed = {} PROVE
                   /\ ShowsWorkspace
                   /\ \A r \in shown : /\ r \in entries
                                       /\ painted[r] \in {Failed, disk[r]} \/ r \in missed
      BY DEF RestIsCurrent
    <2>1. \A d \in Discoveries : ~Busy(d)
      BY BusyAt DEF AtRest
    <2>2. ShowsWorkspace /\ shown \subseteq entries
      BY <2>1 DEF Reconciled, Settled
    <2>3. ASSUME NEW r \in shown PROVE painted[r] \in {Failed, disk[r]} \/ r \in missed
      <3>1. ~Comes(r) /\ WillShow(r) = painted[r]
        BY DEF AtRest, Comes, WillShow
      <3> QED
        BY <3>1 DEF Fresh, FreshRoot
    <2> QED
      BY <2>2, <2>3
  <1> HIDE DEF Inv
  <1> QED
    BY <1>1, <1>2, <1>3, PTL DEF Spec
=============================================================================
