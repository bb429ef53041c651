--------------------------- MODULE SourceControl ---------------------------
(***************************************************************************)
(* The source control view of one window: the contribution and its         *)
(* CoalescingRefresh (src/vs/workbench/contrib/scm/tauri), the `scm`       *)
(* channel, and behind it GitService with its registry of repositories.    *)
(*                                                                         *)
(* Discoveries, polls and mutations are concurrent calls; the channel      *)
(* gives each a task of its own, so they interleave freely.  A repository  *)
(* is a counter that every write to it advances; a painted repository is   *)
(* the counter at which its snapshot began to be read: when that is the    *)
(* counter still, nothing in the snapshot is out of date or torn.  Each    *)
(* workspace folder is one repository, and each of a call's steps is one   *)
(* await or one lock.                                                      *)
(***************************************************************************)
EXTENDS Naturals, FiniteSets, FiniteSetsExt

CONSTANTS Roots,       \* repositories, and the folders that hold them
          Mutations,   \* commands that write: stage, unstage, discard, commit
          Discoveries, \* calls of `discover`; the least is the constructor's
          MaxWrites,   \* bound on the writes to a repository
          None, Failed \* nothing painted; "could not be read"

ASSUME FiniteAssumption == IsFiniteSet(Roots)
ASSUME DiscoveriesAssumption == \E d \in Discoveries : \A e \in Discoveries : d <= e
ASSUME NoneAssumption == None \notin Nat /\ Failed \notin Nat /\ None # Failed

VARIABLES
  disk,     \* the state each repository is in
  landed,   \* history: the state it was in when its last mutation ended
  event,    \* file events on their way to the window
  armed,    \* repositories whose file watch runs
  missed,   \* history: written while shown and not yet watched, and not read since
  folders,  \* the workspace's folders
  entries,  \* RootRegistry::entries
  epoch,    \* RootRegistry::epoch
  shown,    \* the contribution's `repositories`
  painted,  \* what updateStatus or reportFailure last showed
  window,   \* CoalescingRefresh.window: halves of the batching delay left, 0 closed
  again,    \* CoalescingRefresh.again
  pollAt,   \* where the running pass is; "idle" when `running` is undefined
  dated,    \* the epoch status_all read first
  todo,     \* repositories it has still to compute
  walking,  \* repositories whose HEAD it has read and whose tree it has not
  snap,     \* what it computed: the state each was in when its reading began
  stale,    \* the answer's flag
  mutAt, target,               \* each mutation's place and repository
  discAt, asking, found, gone, closing, \* each discovery: folders left, roots found,
                                        \* roots to close, the one being closed
  unread,   \* history: folders the last discovery could not read
  crossed   \* history: discoveries that overlapped, until one has run alone

repoVars == <<disk, landed, event, armed, missed>>
viewVars == <<shown, painted, window, again>>
pollVars == <<pollAt, dated, todo, walking, snap, stale>>
backVars == <<dated, todo, walking, snap, stale>>
mutVars == <<mutAt, target>>
discVars == <<discAt, asking, found, gone, closing, unread, crossed>>
vars == <<repoVars, folders, entries, epoch, viewVars, pollVars, mutVars, discVars>>

Init ==
  /\ disk = [r \in Roots |-> 0] /\ landed = disk
  /\ event = {} /\ armed = {} /\ missed = {}
  /\ folders \in SUBSET Roots
  /\ entries = {} /\ epoch = 0
  /\ shown = {} /\ painted = [r \in Roots |-> None]
  /\ window = 0 /\ again = FALSE
  /\ pollAt = "idle" /\ dated = 0 /\ todo = {} /\ walking = {} /\ stale = FALSE
  /\ snap = [r \in Roots |-> None]
  /\ mutAt = [m \in Mutations |-> "idle"] /\ target = [m \in Mutations |-> None]
  /\ discAt = [d \in Discoveries |-> IF d = Min(Discoveries) THEN "asking" ELSE "idle"]
  /\ asking = [d \in Discoveries |-> IF d = Min(Discoveries) THEN folders ELSE {}]
  /\ found = [d \in Discoveries |-> {}] /\ gone = found
  /\ closing = [d \in Discoveries |-> None] /\ unread = {} /\ crossed = {}

(* ------------------------- CoalescingRefresh --------------------------- *)

\* The top of loop(): again = false, and the body issues its statusAll call.
StartPass == pollAt' = "asked" /\ again' = FALSE

Refresh == IF pollAt = "idle" THEN StartPass ELSE again' = TRUE /\ UNCHANGED pollAt

\* Mutant of Schedule: a RunOnceScheduler, which starts its delay anew each time.
ScheduleRestarts == window' = 2

\* Mutant of Schedule: a trigger inside the window adds a window of its own.
ScheduleStacks == window' = window + 2

Schedule == window' = IF window = 0 THEN 2 ELSE window

\* Half of the batching delay passes; at its end the callback refreshes.
WindowPasses ==
  /\ window > 0
  /\ window' = window - 1
  /\ IF window = 1 THEN Refresh ELSE UNCHANGED <<again, pollAt>>
  /\ UNCHANGED <<repoVars, folders, entries, epoch, shown, painted, backVars, mutVars, discVars>>

\* git.refresh
UserRefreshes ==
  /\ Refresh
  /\ UNCHANGED <<repoVars, folders, entries, epoch, shown, painted, window, backVars,
                 mutVars, discVars>>

(* ----------------------- working trees and events ----------------------- *)

\* Something writes to a repository: its watch reports that, if it runs yet.
Write(r) ==
  /\ disk[r] < MaxWrites
  /\ disk' = [disk EXCEPT ![r] = @ + 1]
  /\ event' = IF r \in armed THEN event \cup {r} ELSE event
  /\ missed' = IF r \in shown \ armed THEN missed \cup {r} ELSE missed
  /\ UNCHANGED armed

OtherProgramWrites(r) ==
  /\ Write(r)
  /\ UNCHANGED <<landed, folders, entries, epoch, viewVars, pollVars, mutVars, discVars>>

\* A write that no status depends on; it may go on for ever.
OtherProgramTouches(r) ==
  /\ r \in armed
  /\ event' = event \cup {r}
  /\ UNCHANGED <<disk, landed, armed, missed, folders, entries, epoch, viewVars, pollVars,
                 mutVars, discVars>>

\* The `watch` call that createRepository issued reaches the disk.
ArmWatch(r) ==
  /\ r \in shown \ armed
  /\ armed' = armed \cup {r}
  /\ UNCHANGED <<disk, landed, event, missed, folders, entries, epoch, viewVars, pollVars,
                 mutVars, discVars>>

\* onDidFilesChange: only a repository that is shown asks for a poll.
FilesChange(r) ==
  /\ r \in event
  /\ event' = event \ {r}
  /\ IF r \in shown THEN Schedule ELSE UNCHANGED window
  /\ UNCHANGED <<disk, landed, armed, missed, folders, entries, epoch, shown, painted, again,
                 pollVars, mutVars, discVars>>

(* ------------------------------- one poll ------------------------------- *)

\* GitService::status_all reads the epoch first ...
Date ==
  /\ pollAt = "asked" /\ pollAt' = "dated"
  /\ dated' = epoch
  /\ UNCHANGED <<repoVars, folders, entries, epoch, viewVars, todo, walking, snap, stale,
                 mutVars, discVars>>

\* ... then the registry's entries, giving each a blocking task ...
List ==
  /\ pollAt = "dated" /\ pollAt' = "computing"
  /\ todo' = entries /\ walking' = {}
  /\ snap' = [r \in Roots |-> None]
  /\ UNCHANGED <<repoVars, folders, entries, epoch, viewVars, dated, stale, mutVars, discVars>>

\* ... in which status::compute reads HEAD ...
ReadHead(r) ==
  /\ pollAt = "computing" /\ r \in todo
  /\ todo' = todo \ {r} /\ walking' = walking \cup {r}
  /\ snap' = [snap EXCEPT ![r] = disk[r]]
  /\ missed' = missed \ {r}
  /\ UNCHANGED <<disk, landed, event, armed, folders, entries, epoch, viewVars, pollAt, dated,
                 stale, mutVars, discVars>>

\* ... and walks the index and the tree, or fails.
Walk(r) ==
  /\ r \in walking
  /\ walking' = walking \ {r}
  /\ \/ UNCHANGED snap
     \/ snap' = [snap EXCEPT ![r] = Failed]
  /\ UNCHANGED <<repoVars, folders, entries, epoch, viewVars, pollAt, dated, todo, stale,
                 mutVars, discVars>>

\* ScmChannel::status_all compares the date with the epoch once all have joined.
Answer ==
  /\ pollAt = "computing" /\ todo = {} /\ walking = {}
  /\ pollAt' = "answered"
  /\ stale' = (dated # epoch)
  /\ UNCHANGED <<repoVars, folders, entries, epoch, viewVars, dated, todo, walking, snap,
                 mutVars, discVars>>

\* apply() over the answer: a root that is not shown is skipped ...
Paint == painted' = [r \in Roots |-> IF r \in shown /\ snap[r] # None THEN snap[r]
                                     ELSE painted[r]]

\* ... and so is its flag; a failed repository has none.
AnyStale == stale /\ \E r \in shown : snap[r] \notin {None, Failed}

\* The answer has been used.
Forget == /\ dated' = 0 /\ todo' = {} /\ walking' = {} /\ stale' = FALSE
          /\ snap' = [r \in Roots |-> None]

\* The loop ends and `running` is cleared.  Who was handed it goes on, with
\* nothing left to do: mutations and discoveries await their refresh last.
EndPass == pollAt' = "idle"

\* Mutant of Repeat: the flag that was set meanwhile is not tested.
RepeatIfStale == AnyStale

\* `while (stale || again)`
Repeat == AnyStale \/ again

Apply ==
  /\ pollAt = "answered"
  /\ Paint /\ Forget
  /\ IF Repeat THEN StartPass ELSE EndPass /\ UNCHANGED again
  /\ UNCHANGED <<repoVars, folders, entries, epoch, shown, window, mutVars, discVars>>

(* ------------------------------- mutations ------------------------------ *)

\* mutate(): the command's call goes out.
Mutate(m, r) ==
  /\ mutAt[m] = "idle" /\ r \in shown
  /\ mutAt' = [mutAt EXCEPT ![m] = "called"]
  /\ target' = [target EXCEPT ![m] = r]
  /\ UNCHANGED <<repoVars, folders, entries, epoch, viewVars, pollVars, discVars>>

\* GitService::repository: the path is validated and the repository opened,
\* again if it was closed meanwhile; then relative() checks the paths.  Each may
\* fail, and git is not started.
Open(m) ==
  /\ mutAt[m] = "called"
  /\ \/ /\ entries' = entries \cup {target[m]}
        /\ mutAt' = [mutAt EXCEPT ![m] = "running"]
     \/ /\ entries' \in {entries, entries \cup {target[m]}}
        /\ mutAt' = [mutAt EXCEPT ![m] = "replied"]
  /\ UNCHANGED <<repoVars, folders, epoch, viewVars, pollVars, target, discVars>>

\* git writes; an operation may write several times.
GitWrites(m) ==
  /\ mutAt[m] = "running"
  /\ Write(target[m])
  /\ UNCHANGED <<landed, folders, entries, epoch, viewVars, pollVars, mutVars, discVars>>

\* Mutant of GitEnds: a mutation that failed does not move the epoch.
GitEndsOk(m) ==
  /\ mutAt[m] = "running"
  /\ mutAt' = [mutAt EXCEPT ![m] = "replied"]
  /\ epoch' \in {epoch, epoch + 1}
  /\ landed' = [landed EXCEPT ![target[m]] = disk[target[m]]]
  /\ UNCHANGED <<disk, event, armed, missed, folders, entries, viewVars, pollVars, target,
                 discVars>>

\* mutating(): git ends, having succeeded or failed, and the epoch moves.
GitEnds(m) ==
  /\ mutAt[m] = "running"
  /\ mutAt' = [mutAt EXCEPT ![m] = "replied"]
  /\ epoch' = epoch + 1
  /\ landed' = [landed EXCEPT ![target[m]] = disk[target[m]]]
  /\ UNCHANGED <<disk, event, armed, missed, folders, entries, viewVars, pollVars, target,
                 discVars>>

\* The `finally` of mutate(), which awaits the refresh.
MutationRefreshes(m) ==
  /\ mutAt[m] = "replied"
  /\ mutAt' = [mutAt EXCEPT ![m] = "done"]
  /\ Refresh
  /\ UNCHANGED <<repoVars, folders, entries, epoch, shown, painted, window, backVars, target,
                 discVars>>

\* Both replies arrive in one chunk, the poll's first.  Each is two awaits away
\* from its end, so the mutation's refresh() runs right after the loop's last
\* test and before the `finally` that clears `running`: it is handed a pass that
\* does not look at `again` any more.
RefreshIsLost(m) ==
  /\ mutAt[m] = "replied" /\ pollAt = "answered" /\ ~Repeat
  /\ Paint /\ Forget
  /\ pollAt' = "idle" /\ again' = TRUE
  /\ mutAt' = [mutAt EXCEPT ![m] = "done"]
  /\ UNCHANGED <<repoVars, folders, entries, epoch, shown, window, target, discVars>>

(* ------------------------------ discovery ------------------------------- *)

Running == {d \in Discoveries : discAt[d] \in {"asking", "closing", "removing", "bumping"}}

\* onDidChangeWorkspaceFolders: discover() takes the folders as they are now,
\* whether or not another one still runs.
FoldersChange(d, fs) ==
  /\ discAt[d] = "idle" /\ fs # folders
  /\ \A e \in Discoveries : e < d => discAt[e] # "idle"
  /\ folders' = fs /\ unread' = {}
  /\ discAt' = [discAt EXCEPT ![d] = "asking"]
  /\ asking' = [asking EXCEPT ![d] = fs]
  /\ crossed' = IF Running = {} THEN crossed ELSE crossed \cup Running \cup {d}
  /\ UNCHANGED <<repoVars, entries, epoch, viewVars, pollVars, mutVars, found, gone, closing>>

\* RepositoryRegistry::discover under one folder: get_or_open inserts the entry.
\* A folder that cannot be read is logged and finds nothing.
Discover(d, r) ==
  /\ discAt[d] = "asking" /\ r \in asking[d]
  /\ asking' = [asking EXCEPT ![d] = @ \ {r}]
  /\ \/ /\ found' = [found EXCEPT ![d] = @ \cup {r}]
        /\ entries' = entries \cup {r}
        /\ UNCHANGED unread
     \/ /\ unread' = unread \cup {r}
        /\ UNCHANGED <<found, entries>>
  /\ UNCHANGED <<repoVars, folders, epoch, viewVars, pollVars, mutVars, discAt, gone, closing,
                 crossed>>

\* Every folder has answered: which repositories to close is settled.
Reconcile(d) ==
  /\ discAt[d] = "asking" /\ asking[d] = {}
  /\ discAt' = [discAt EXCEPT ![d] = "closing"]
  /\ gone' = [gone EXCEPT ![d] = shown \ found[d]]
  /\ UNCHANGED <<repoVars, folders, entries, epoch, viewVars, pollVars, mutVars, asking, found,
                 closing, unread, crossed>>

\* One of them leaves the view, its watch with it, and `close` is called ...
Dispose(d, r) ==
  /\ discAt[d] = "closing" /\ r \in gone[d]
  /\ discAt' = [discAt EXCEPT ![d] = "removing"]
  /\ gone' = [gone EXCEPT ![d] = @ \ {r}] /\ closing' = [closing EXCEPT ![d] = r]
  /\ shown' = shown \ {r} /\ painted' = [painted EXCEPT ![r] = None]
  /\ armed' = armed \ {r} /\ missed' = missed \ {r}
  /\ UNCHANGED <<disk, landed, event, folders, entries, epoch, window, again, pollVars, mutVars,
                 asking, found, unread, crossed>>

\* ... RootRegistry::close removes the entry ...
Remove(d) ==
  /\ discAt[d] = "removing"
  /\ discAt' = [discAt EXCEPT ![d] = "bumping"]
  /\ entries' = entries \ {closing[d]}
  /\ UNCHANGED <<repoVars, folders, epoch, viewVars, pollVars, mutVars, asking, found, gone,
                 closing, unread, crossed>>

\* ... then moves the epoch, and the loop goes on.
Bump(d) ==
  /\ discAt[d] = "bumping"
  /\ discAt' = [discAt EXCEPT ![d] = "closing"]
  /\ closing' = [closing EXCEPT ![d] = None]
  /\ epoch' = epoch + 1
  /\ UNCHANGED <<repoVars, folders, entries, viewVars, pollVars, mutVars, asking, found, gone,
                 unread, crossed>>

\* What was found and is not shown yet is created, its watch asked for, and a
\* refresh awaited.  One that ran alone has put right what overlaps left behind.
Create(d) ==
  /\ discAt[d] = "closing" /\ gone[d] = {}
  /\ discAt' = [discAt EXCEPT ![d] = "done"]
  /\ shown' = shown \cup found[d]
  /\ found' = [found EXCEPT ![d] = {}]
  /\ crossed' = IF d \in crossed THEN crossed ELSE {}
  /\ Refresh
  /\ UNCHANGED <<repoVars, folders, entries, epoch, painted, window, backVars, mutVars, asking,
                 gone, closing, unread>>

Poll == Date \/ List \/ Answer \/ Apply \/ \E r \in Roots : ReadHead(r) \/ Walk(r)

Mutation(m) == Open(m) \/ GitWrites(m) \/ GitEnds(m) \/ MutationRefreshes(m) \/ RefreshIsLost(m)

Discovery(d) == Reconcile(d) \/ Remove(d) \/ Bump(d) \/ Create(d)
                \/ \E r \in Roots : Discover(d, r) \/ Dispose(d, r)

Events == \E r \in Roots : OtherProgramWrites(r) \/ OtherProgramTouches(r) \/ ArmWatch(r)
                            \/ FilesChange(r)

Next ==
  \/ Poll \/ WindowPasses \/ UserRefreshes \/ Events
  \/ \E m \in Mutations : Mutation(m) \/ \E r \in Roots : Mutate(m, r)
  \/ \E d \in Discoveries : Discovery(d) \/ \E fs \in SUBSET Roots : FoldersChange(d, fs)

\* Calls are answered, the timer runs out, file events arrive, git processes
\* end.  Nobody has to write, to touch, to change folders or to give a command.
Fairness ==
  /\ WF_vars(Poll) /\ WF_vars(WindowPasses)
  /\ \A r \in Roots : WF_vars(ArmWatch(r)) /\ WF_vars(FilesChange(r))
  /\ \A m \in Mutations : WF_vars(Open(m)) /\ WF_vars(GitEnds(m)) /\ WF_vars(MutationRefreshes(m))
  /\ \A d \in Discoveries : WF_vars(Discovery(d))

Spec == Init /\ [][Next]_vars /\ Fairness

(* ------------------------------ properties ------------------------------ *)

Snapshot == Nat \cup {None, Failed}

RepoType ==
  /\ disk \in [Roots -> Nat] /\ landed \in [Roots -> Nat]
  /\ event \subseteq Roots /\ armed \subseteq Roots /\ missed \subseteq Roots

RegistryType == folders \subseteq Roots /\ entries \subseteq Roots /\ epoch \in Nat

ViewType ==
  /\ shown \subseteq Roots /\ painted \in [Roots -> Snapshot]
  /\ window \in 0..2 /\ again \in BOOLEAN

PollType ==
  /\ pollAt \in {"idle", "asked", "dated", "computing", "answered"}
  /\ dated \in Nat /\ todo \subseteq Roots /\ walking \subseteq Roots
  /\ snap \in [Roots -> Snapshot] /\ stale \in BOOLEAN

MutationType ==
  /\ mutAt \in [Mutations -> {"idle", "called", "running", "replied", "done"}]
  /\ target \in [Mutations -> Roots \cup {None}]
  /\ \A m \in Mutations : mutAt[m] # "idle" => target[m] \in Roots

DiscoveryType ==
  /\ discAt \in [Discoveries -> {"idle", "asking", "closing", "removing", "bumping",
                                 "done"}]
  /\ asking \in [Discoveries -> SUBSET Roots] /\ found \in [Discoveries -> SUBSET Roots]
  /\ gone \in [Discoveries -> SUBSET Roots] /\ closing \in [Discoveries -> Roots \cup {None}]
  /\ unread \subseteq Roots /\ crossed \subseteq Discoveries

\* Every variable has its type; a mutation under way has a repository.
TypeOK ==
  RepoType /\ RegistryType /\ ViewType /\ PollType /\ MutationType /\ DiscoveryType

Read(s) == s \notin {None, Failed}

\* An answer that is not flagged stale shows every mutation that has ended, in
\* HEAD as in the tree, even one that failed half way: the epoch read before
\* the registry and again after the last task catches what ended in between
\* (tscode-git lib.rs status_all and mutating, channels/scm.rs).
StaleIsAMiss ==
  [][pollAt # "answered" /\ pollAt' = "answered" /\ ~stale' =>
       \A r \in Roots : Read(snap[r]) => snap[r] >= landed[r]]_vars

AtRest ==
  /\ pollAt = "idle" /\ window = 0 /\ event = {}
  /\ \A m \in Mutations : mutAt[m] \in {"idle", "done"}
  /\ \A d \in Discoveries : discAt[d] \in {"idle", "done"}

\* The view shows one repository for each folder that could be read.
ShowsWorkspace == shown = folders \ unread

\* Once nothing is under way, the view shows the workspace's repositories, the
\* backend has them open, and each is painted as it is on disk or as one that
\* could not be read, a write before its watch ran apart.  That includes the
\* refresh lost when two replies share a chunk: the mutation's own write is
\* reported by the watch.  Of two discoveries that overlap the older may end
\* last, with the folders of before: then the view is put right by the next
\* discovery that runs alone, whatever the overlap left in the view and in the
\* registry (git.contribution.ts discover, mutate and apply,
\* coalescingRefresh.ts).
RestIsCurrent ==
  (AtRest /\ crossed = {}) =>
    /\ ShowsWorkspace
    /\ \A r \in shown : /\ r \in entries
                        /\ (painted[r] \in {Failed, disk[r]} \/ r \in missed)

\* However often the files are touched, the window closes, the passes go on,
\* and a write the watch reported is painted sooner or later
\* (coalescingRefresh.ts schedule, whose window is never restarted, and loop),
\* unless discoveries overlap, which may close at the backend what they show.
ViewCatchesUp ==
  \A r \in Roots, v \in 1..MaxWrites :
    (r \in shown \cap armed /\ r \notin missed /\ disk[r] = v)
      ~> (\/ r \notin shown \/ painted[r] = Failed \/ (Read(painted[r]) /\ painted[r] >= v)
          \/ crossed # {})

\* "Reconcile the open repositories with what the workspace folders contain"
\* (git.contribution.ts:160), for discoveries that overlap, too.  The code does
\* not keep this, and no run asks for it: see RestIsCurrent.
DiscoveriesAgree == AtRest => ShowsWorkspace
=============================================================================
