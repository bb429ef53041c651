---------------------------- MODULE FileWatcher ----------------------------
(***************************************************************************)
(* One watch of tscode-fs/src/watcher.rs: what the OS reports becomes      *)
(* changes, the debounce loop batches them, and the coalescer turns each   *)
(* batch into its net effect, by comparison key: on a filesystem that      *)
(* folds case two spellings share one.  The loop keeps the changes and     *)
(* coalesces them when the batch ends; the model coalesces each as it      *)
(* arrives, which is the same fold.  The client keeps the set of paths it  *)
(* believes to exist, and re-reads a file it is told about.  An OS that    *)
(* pairs renames or reports their halves is modelled; normalize_fsevent,   *)
(* which looks at the disk instead, is not.  Of a folder that is renamed    *)
(* only the folder is reported, and the client is not told what it took    *)
(* along.                                                                  *)
(***************************************************************************)
EXTENDS Naturals, SequencesExt

CONSTANTS Paths,
          Cancelled,   \* stands where two entries cancelled out
          Key,         \* comparison_key of each path
          Above,       \* the folders each path is in, below the watched one
          Into(_, _, _), \* the name of x once its folder p has the name q
          Debounce,    \* DEFAULT_DEBOUNCE and DEFAULT_MAX_DEBOUNCE, in ticks
          MaxDebounce,
          MaxChanges,  \* bound on creations, removals and renames
          MaxRaw       \* bound on changes in the channel

\* Folders lie in one another, every path has a topmost folder, and two
\* spellings of a path are in the same folders.  What a folder takes along is in
\* it, or goes by a name that is not among Paths.
TreeOfPaths ==
  /\ Key \in [Paths -> Range(Key)] /\ Above \in [Paths -> SUBSET Paths]
  /\ \A p \in Paths : \A q \in Above[p] : Above[q] \subseteq Above[p]
  /\ \A S \in SUBSET Paths : S # {} => \E p \in S : Above[p] \cap S = {}
  /\ \A p, q \in Paths : Key[p] = Key[q] => \A x \in Above[p] : \E y \in Above[q] : Key[y] = Key[x]
  /\ \A p, q, x \in Paths : p \in Above[x] /\ Into(p, q, x) \in Paths => q \in Above[Into(p, q, x)]

Type == {"added", "updated", "deleted"}
ChangeRecord == [type : Type, path : Paths]

ASSUME TreeAssumption == TreeOfPaths
ASSUME CancelledAssumption == Cancelled \notin ChangeRecord
ASSUME BoundsAssumption == {Debounce, MaxDebounce, MaxChanges, MaxRaw} \subseteq Nat

VARIABLES exists,    \* the paths on disk
          changes,   \* how often the tree has changed
          raw,       \* the channel from the OS callback to the debounce loop
          pending,   \* the loop's batch, as its coalescer holds it
          quiet,     \* ticks to quiet_until
          deadline,  \* ticks to batch_deadline
          view,      \* the paths the client believes to exist
          unread,    \* history: files whose content the client has not read
          lost       \* history: keys of what went or came with its folder

diskVars == <<exists, changes, lost>>
loopVars == <<raw, pending, quiet, deadline>>
watcherVars == <<diskVars, loopVars, view, unread>>

Change(t, p) == [type |-> t, path |-> p]

\* EventCoalescer: its entries, and the entry each key stands at.
NoEntries == [list |-> <<>>, at |-> [k \in Range(Key) |-> 0]]

WatcherInit ==
  /\ exists \in SUBSET Paths
  /\ \A p, q \in exists : Key[p] = Key[q] => p = q
  /\ \A p \in exists : Above[p] \subseteq exists
  /\ view = exists /\ unread = {} /\ lost = {} /\ changes = 0
  /\ raw = <<>> /\ pending = NoEntries /\ quiet = 0 /\ deadline = 0

Children(p) == {q \in exists : p \in Above[q]}

\* A path finds a file of any spelling.
Found(p, tree) == \E q \in tree : Key[q] = Key[p]

\* The tree becomes `tree`, and the OS callback sends what to_file_changes
\* makes of the event.
Report(tree, events) ==
  /\ Len(raw) + Len(events) <= MaxRaw
  /\ exists' = tree
  /\ raw' = raw \o events
  /\ unread' = {e.path : e \in {x \in Range(events) : x.type # "deleted"}} \cup (unread \cap tree)

Create(p) ==
  /\ changes < MaxChanges /\ changes' = changes + 1
  /\ ~Found(p, exists) /\ Above[p] \subseteq exists
  /\ Report(exists \cup {p}, <<Change("added", p)>>)
  /\ UNCHANGED <<lost, pending, quiet, deadline, view>>

WriteFile(p) ==
  /\ p \in exists
  /\ Report(exists, <<Change("updated", p)>>)
  /\ UNCHANGED <<changes, lost, pending, quiet, deadline, view>>

\* A folder goes after what is in it.
Delete(p) ==
  /\ changes < MaxChanges /\ changes' = changes + 1
  /\ p \in exists /\ Children(p) = {}
  /\ Report(exists \ {p}, <<Change("deleted", p)>>)
  /\ UNCHANGED <<lost, pending, quiet, deadline, view>>

\* RenameMode::Both, or ::From and ::To: a delete and an add, of the folder alone
\* where a folder takes along what is in it.
Rename(p, q) ==
  /\ changes < MaxChanges /\ changes' = changes + 1
  /\ p \in exists /\ q # p /\ ~Found(q, exists \ {p})
  /\ Above[q] \subseteq exists \ {p}
  /\ LET gone == Children(p)
         come == {Into(p, q, x) : x \in gone} \cap Paths
     IN /\ Report((exists \ (gone \cup {p})) \cup come \cup {q}, <<Change("deleted", p), Change("added", q)>>)
        /\ lost' = lost \cup {Key[x] : x \in gone \cup come}
  /\ UNCHANGED <<pending, quiet, deadline, view>>

(* --------------------------- the coalescer ------------------------------ *)

Kept(co, e) == [list |-> Append(co.list, e), at |-> [co.at EXCEPT ![Key[e.path]] = Len(co.list) + 1]]

\* Mutant of Net: the later type always wins.
NetLatest(old, new) == new

\* The type two changes of one path amount to.
Net(old, new) ==
  IF old = "deleted" /\ new = "added" THEN "updated"
  ELSE IF old = "added" /\ new = "updated" THEN "added"
  ELSE new

\* Mutant of Process: entries that cancel out keep their key.
ProcessKeepsKey(co, e) ==
  LET i == co.at[Key[e.path]]
  IN IF i = 0 \/ (co.list[i].path # e.path /\ e.type # "updated") THEN Kept(co, e)
     ELSE IF co.list[i].type = "added" /\ e.type = "deleted"
     THEN [co EXCEPT !.list[i] = Cancelled]
     ELSE [co EXCEPT !.list[i].type = Net(@, e.type)]

\* Mutant of Process: the other spelling is taken for the same path.
ProcessByKey(co, e) ==
  LET i == co.at[Key[e.path]]
  IN IF i = 0 THEN Kept(co, e)
     ELSE IF co.list[i].type = "added" /\ e.type = "deleted"
     THEN [list |-> [co.list EXCEPT ![i] = Cancelled], at |-> [co.at EXCEPT ![Key[e.path]] = 0]]
     ELSE [co EXCEPT !.list[i].type = Net(@, e.type)]

\* EventCoalescer::process.  Another spelling's creation or deletion is kept
\* beside the entry that is there: it is half of a rename that changes case.
Process(co, e) ==
  LET i == co.at[Key[e.path]]
  IN IF i = 0 \/ (co.list[i].path # e.path /\ e.type # "updated") THEN Kept(co, e)
     ELSE IF co.list[i].type = "added" /\ e.type = "deleted"
     THEN [list |-> [co.list EXCEPT ![i] = Cancelled], at |-> [co.at EXCEPT ![Key[e.path]] = 0]]
     ELSE [co EXCEPT !.list[i].type = Net(@, e.type)]

\* is_parent, which compares spellings as the filesystem does.
Within(p, q) == \E x \in Above[p] : Key[x] = Key[q]

\* The entries that did not cancel out, without the deletions inside a deleted
\* folder.
Coalesced(co) ==
  LET kept == Range(co.list) \ {Cancelled}
  IN {e \in kept : e.type = "deleted" =>
                      \A x \in kept : x.type = "deleted" => ~Within(e.path, x.path)}

(* -------------------------- the debounce loop --------------------------- *)

Holding == pending.list # <<>>

\* Mutant of Receive: the ceiling moves with every change.
ReceiveDefers ==
  /\ raw # <<>>
  /\ raw' = Tail(raw) /\ pending' = Process(pending, Head(raw))
  /\ quiet' = Debounce /\ deadline' = MaxDebounce
  /\ UNCHANGED <<diskVars, view, unread>>

\* A change restarts the quiet period, and the first one sets the ceiling.
Receive ==
  /\ raw # <<>>
  /\ raw' = Tail(raw) /\ pending' = Process(pending, Head(raw))
  /\ quiet' = Debounce
  /\ deadline' = IF Holding THEN deadline ELSE MaxDebounce
  /\ UNCHANGED <<diskVars, view, unread>>

Before(t) == IF t = 0 THEN 0 ELSE t - 1

Tick ==
  /\ Holding
  /\ quiet' = Before(quiet) /\ deadline' = Before(deadline)
  /\ UNCHANGED <<diskVars, raw, pending, view, unread>>

Named(types) == {e.path : e \in {x \in Coalesced(pending) : x.type \in types}}

\* The sleep ends: the batch is handed on, deletions first, and the client
\* applies it, a deleted folder with all that is in it.
Flush ==
  /\ Holding /\ (quiet = 0 \/ deadline = 0)
  /\ LET gone == Named({"deleted"})
     IN view' = {p \in view : p \notin gone /\ ~\E q \in gone : Within(p, q)} \cup Named({"added"})
  /\ unread' = unread \ Named({"added", "updated"})
  /\ pending' = NoEntries /\ quiet' = 0 /\ deadline' = 0
  /\ UNCHANGED <<diskVars, raw>>

WatcherNext ==
  \/ Receive \/ Tick \/ Flush
  \/ \E p \in Paths : Create(p) \/ WriteFile(p) \/ Delete(p) \/ \E q \in Paths : Rename(p, q)

WatcherSpec == WatcherInit /\ [][WatcherNext]_watcherVars /\ WF_watcherVars(Receive) /\ WF_watcherVars(Tick) /\ WF_watcherVars(Flush)

(* ------------------------------ properties ------------------------------ *)

\* Every variable has its type: the coalescer's keys stand at entries that are
\* there (process expects it, :254), each at one of its own key.
WatcherTypeOK ==
  /\ exists \subseteq Paths /\ view \subseteq Paths /\ unread \subseteq Paths
  /\ changes \in 0..MaxChanges /\ lost \subseteq Range(Key)
  /\ raw \in Seq(ChangeRecord) /\ Len(raw) <= MaxRaw
  /\ pending.list \in Seq(ChangeRecord \cup {Cancelled})
  /\ \A k \in Range(Key) : \/ pending.at[k] = 0
                           \/ /\ pending.at[k] \in DOMAIN pending.list
                              /\ pending.list[pending.at[k]] # Cancelled
                              /\ Key[pending.list[pending.at[k]].path] = k
  /\ quiet \in 0..Debounce /\ deadline \in 0..MaxDebounce

\* The paths the OS has reported every change of: neither they nor a folder of
\* theirs went or came with the folder it is in.
Known == {p \in Paths : \A x \in Above[p] \cup {p} : Key[x] \notin lost}

\* Once every change has been handed on, the client has the tree that is on
\* disk and has re-read every file that was written, however the changes fell
\* into batches and whatever cancelled out in each (EventCoalescer, :241): all
\* but what only a rename of its folder could have told it.
NothingUntold ==
  raw = <<>> /\ ~Holding => view \cap Known = exists \cap Known /\ unread \cap exists \cap Known = {}

\* A batch is the exact difference to what the client was told before: it adds
\* only paths the client does not have, and deletes or updates only ones it
\* has.  A file that came and went between two batches is not in either.
BatchesAreExact ==
  [][Holding /\ pending' = NoEntries =>
       LET gone == Named({"deleted"})
       IN /\ gone \cap Known \subseteq view
          /\ Named({"added"}) \cap Known \cap (view \ gone) = {}
          /\ Named({"updated"}) \cap Known \subseteq view \ gone]_watcherVars

\* A write reaches the client though others follow it without a pause: the
\* ceiling on a batch is set by its first change (debounce_loop, :207).
WritesAreRead == \A p \in Paths : p \in unread ~> p \notin unread
=============================================================================
