------------------------------- MODULE Search -------------------------------
(***************************************************************************)
(* One search of tscode-search, from the channel to the client: walkers    *)
(* visit the files of one folder after the other and share one count of    *)
(* results, a collector batches what they send, and the client that stops  *)
(* listening cancels.  Matching, globs and ignore files are abstracted to  *)
(* the number of results each file has.                                    *)
(***************************************************************************)
EXTENDS Naturals, FiniteSets, SequencesExt

CONSTANTS Walkers,
          Folders,          \* the files of each folder, in the query's order
          Matches,          \* how many results each file has
          Slow,             \* files a read of which may take for ever
          Limits,           \* the values of the query's maxResults
          StartBatchAfter,  \* START_BATCH_AFTER_COUNT
          MaxBatch,         \* MAX_BATCH_SIZE
          None

Files == UNION Range(Folders)

\* `ignore` walks on one thread at least; a file that is below two of the
\* folders is walked twice, and is two files here.
ASSUME WalkersAssumption == IsFiniteSet(Walkers) /\ Walkers # {}
ASSUME FilesAssumption ==
  /\ IsFiniteSet(Files) /\ Folders \in Seq(SUBSET Files)
  /\ \A i, j \in DOMAIN Folders : i # j => Folders[i] \cap Folders[j] = {}
  /\ Matches \in [Files -> Nat]
ASSUME LimitsAssumption == Limits \subseteq Nat

Kinds == {"text", "file", "exists"}

VARIABLES kind,       \* which query it is; "exists" only asks for any file
          max,        \* its maxResults
          stage,      \* of the search: validating, walking, closed, ended
          todo, rest, \* files of this folder and the folders after it
          walker,     \* what each walker is at
          results, limitHit,  \* Counters
          queue,      \* items sent and not drained
          batch, sent, timer, \* BatchedCollector: items, total completed, deadline set
          cancelled,  \* the token
          active,     \* the subscription's sink
          client,     \* listening, or how its promise settled
          found,      \* results the client was given, by file
          failed      \* history: the files whose read failed, and the results counted in each

walkVars == <<todo, rest, walker, results, limitHit, failed>>
drainVars == <<batch, sent, timer>>
query == <<kind, max>>
vars == <<query, stage, walkVars, queue, drainVars, cancelled, active, client, found>>

Idle == [at |-> "idle", file |-> None, left |-> 0, got |-> 0]
Gone == [Idle EXCEPT !.at = "quit"]

Init ==
  /\ kind \in Kinds /\ max \in Limits
  /\ stage = "validating" /\ todo = {} /\ rest = Folders
  /\ walker = [w \in Walkers |-> Gone]
  /\ results = 0 /\ limitHit = FALSE /\ failed = {}
  /\ queue = <<>> /\ batch = <<>> /\ sent = 0 /\ timer = FALSE
  /\ cancelled = FALSE /\ active = TRUE
  /\ client = "listening" /\ found = [f \in Files |-> 0]

(* ------------------------------ the client ------------------------------ *)

\* The client's token is cancelled: it lets go of the event.
Cancel ==
  /\ client = "listening" /\ client' = "cancelled"
  /\ UNCHANGED <<query, stage, walkVars, queue, drainVars, cancelled, active, found>>

\* channel_unlisten reaches the host, after a cancel or a completion.
Unlisten ==
  /\ client # "listening" /\ active
  /\ active' = FALSE /\ cancelled' = TRUE
  /\ UNCHANGED <<query, stage, walkVars, queue, drainVars, client, found>>

\* Mutant of Settle: only a search that went well is completed.
SettleOk(outcome) ==
  client' = IF client = "listening" /\ active /\ outcome # "error" THEN outcome ELSE client

\* The completion reaches a client that is still listening.
Settle(outcome) ==
  client' = IF client = "listening" /\ active THEN outcome ELSE client

(* ------------------------------ the walkers ----------------------------- *)

Stop == cancelled \/ limitHit

\* A root that is not the workspace's, or a bad pattern, ends the search.
Refuse ==
  /\ stage = "validating" /\ stage' = "ended" /\ Settle("error")
  /\ UNCHANGED <<query, walkVars, queue, drainVars, cancelled, active, found>>

Resting == \A w \in Walkers : walker[w].at \in {"idle", "quit"}
FolderDone == Resting /\ (todo = {} \/ \A w \in Walkers : walker[w].at = "quit")

\* The next folder is walked, unless the search has been stopped.
NextFolder ==
  /\ stage \in {"validating", "walking"} /\ FolderDone
  /\ rest # <<>> /\ ~Stop
  /\ stage' = "walking" /\ todo' = Head(rest) /\ rest' = Tail(rest)
  /\ walker' = [w \in Walkers |-> Idle]
  /\ UNCHANGED <<query, results, limitHit, failed, queue, drainVars, cancelled, active, client, found>>

\* The walk is over, or a folder cannot be walked at all.
WalkEnds ==
  /\ stage \in {"validating", "walking"} /\ FolderDone
  /\ \/ (rest = <<>> \/ Stop) /\ stage' = "closed"
     \/ rest # <<>> /\ ~Stop /\ stage' = "failed"
  /\ walker' = [w \in Walkers |-> Gone] /\ todo' = {} /\ rest' = <<>>
  /\ UNCHANGED <<query, results, limitHit, failed, queue, drainVars, cancelled, active, client, found>>

Becomes(w, state) == walker' = [walker EXCEPT ![w] = state]

WalkerLeaves ==
  UNCHANGED <<query, stage, rest, drainVars, cancelled, active, client, found>>

\* A walker takes its next entry, or quits.
Visit(w) ==
  /\ walker[w].at = "idle"
  /\ \/ Stop /\ Becomes(w, Gone) /\ UNCHANGED todo
     \/ ~Stop /\ \E f \in todo :
          /\ todo' = todo \ {f}
          /\ Becomes(w, IF Matches[f] = 0 THEN Idle
                        ELSE IF kind = "text"
                        THEN [at |-> "read", file |-> f, left |-> Matches[f], got |-> 0]
                        ELSE [at |-> "count", file |-> f, left |-> 0, got |-> 1])
  /\ UNCHANGED <<results, limitHit, failed, queue>> /\ WalkerLeaves

\* The file is read to the next match; what was found is sent at its end.
Read(w) ==
  /\ walker[w].at = "read"
  /\ IF Stop \/ walker[w].left = 0
     THEN /\ Becomes(w, Idle)
          /\ queue' = IF walker[w].got = 0 THEN queue
                      ELSE Append(queue, [file |-> walker[w].file, size |-> walker[w].got])
     ELSE Becomes(w, [walker[w] EXCEPT !.at = "count", !.left = @ - 1]) /\ UNCHANGED queue
  /\ UNCHANGED <<todo, results, limitHit, failed>> /\ WalkerLeaves

\* The read fails: the file is skipped, with what was found in it.
ReadFails(w) ==
  /\ walker[w].at = "read" /\ Becomes(w, Idle)
  /\ failed' = failed \cup {[file |-> walker[w].file, size |-> walker[w].got]}
  /\ UNCHANGED <<todo, results, limitHit, queue>> /\ WalkerLeaves

\* Mutant of AtLimit: the file search stops at the limit as the text search does.
AtLimitAlike(n) == kind = "exists" \/ n >= max

\* A text search finishes the result that reaches the limit; a file search
\* stops at the one past it, and one that only asks whether a file exists at once.
AtLimit(n) == CASE kind = "text" -> n >= max
                [] kind = "file" -> n > max
                [] OTHER -> TRUE

\* fetch_add: the walker sees the limit, or passes the result on.
Count(w) ==
  /\ walker[w].at = "count" /\ results' = results + 1
  /\ IF kind = "text"
     THEN /\ Becomes(w, [walker[w] EXCEPT !.at = IF AtLimit(results + 1) THEN "mark" ELSE "read",
                                          !.got = @ + 1])
          /\ UNCHANGED queue
     ELSE IF AtLimit(results + 1)
     THEN Becomes(w, [walker[w] EXCEPT !.at = "mark"]) /\ UNCHANGED queue
     ELSE Becomes(w, Idle) /\ queue' = Append(queue, [file |-> walker[w].file, size |-> 1])
  /\ UNCHANGED <<todo, limitHit, failed>> /\ WalkerLeaves

\* Mutant of Mark: the limit is not stored, each walker stops for itself.
MarkNothing(w) ==
  /\ walker[w].at = "mark"
  /\ Becomes(w, IF kind = "text" THEN [walker[w] EXCEPT !.at = "read"] ELSE Gone)
  /\ UNCHANGED <<todo, results, limitHit, failed, queue>> /\ WalkerLeaves

\* The limit is stored, for the other walkers to see.
Mark(w) ==
  /\ walker[w].at = "mark" /\ limitHit' = TRUE
  /\ Becomes(w, IF kind = "text" THEN [walker[w] EXCEPT !.at = "read"] ELSE Gone)
  /\ UNCHANGED <<todo, results, failed, queue>> /\ WalkerLeaves

(* ----------------------------- the collector ---------------------------- *)

\* The sum of a function's values: as many as it has pairs of an argument and
\* a number up to its value.
Units(sizes) == UNION {{x} \X (1..sizes[x]) : x \in DOMAIN sizes}
Total(sizes) == Cardinality(Units(sizes))

SizeOf(items) == Total([i \in DOMAIN items |-> items[i].size])
SizeIn(items, f) == Total([i \in {j \in DOMAIN items : items[j].file = f} |-> items[i].size])

\* Mutant of Flushed: the deadline of the batch is not cleared.
FlushedTimed(items) ==
  /\ sent' = sent + SizeOf(items) /\ batch' = <<>> /\ UNCHANGED timer
  /\ found' = IF cancelled \/ ~active \/ client # "listening" THEN found
              ELSE [f \in Files |-> found[f] + SizeIn(items, f)]

\* flush: the batch goes to the client, unless the search is cancelled.
Flushed(items) ==
  /\ sent' = sent + SizeOf(items) /\ batch' = <<>> /\ timer' = FALSE
  /\ found' = IF cancelled \/ ~active \/ client # "listening" THEN found
              ELSE [f \in Files |-> found[f] + SizeIn(items, f)]

\* Mutant of Added: a short batch waits for the next item.
AddedUntimed(items) ==
  IF sent < StartBatchAfter \/ SizeOf(items) >= MaxBatch THEN Flushed(items)
  ELSE batch' = items /\ UNCHANGED <<sent, timer, found>>

\* on_update: the first results go at once, later ones by the batch or the timer.
Added(items) ==
  IF sent < StartBatchAfter \/ SizeOf(items) >= MaxBatch THEN Flushed(items)
  ELSE batch' = items /\ timer' = TRUE /\ UNCHANGED <<sent, found>>

CollectorLeaves == UNCHANGED <<query, walkVars, cancelled, active>>

Drain ==
  /\ queue # <<>> /\ queue' = Tail(queue)
  /\ Added(Append(batch, Head(queue)))
  /\ UNCHANGED <<stage, client>> /\ CollectorLeaves

Timeout ==
  /\ timer /\ Flushed(batch)
  /\ UNCHANGED <<stage, queue, client>> /\ CollectorLeaves

Result == CASE stage = "failed" -> "error"
            [] cancelled -> "error"
            [] OTHER -> IF limitHit THEN "limited" ELSE "success"

\* Mutant of Complete: it does not wait for what the collector holds.
CompleteFirst ==
  /\ stage \in {"closed", "failed"} /\ queue = <<>>
  /\ stage' = "ended" /\ Settle(Result)
  /\ batch' = <<>> /\ timer' = FALSE
  /\ UNCHANGED <<queue, sent, found>> /\ CollectorLeaves

\* The senders are gone: the last batch, then the completion.
Complete ==
  /\ stage \in {"closed", "failed"} /\ queue = <<>>
  /\ stage' = "ended" /\ Flushed(batch) /\ Settle(Result)
  /\ UNCHANGED queue /\ CollectorLeaves

Step(w) == Visit(w) \/ Read(w) \/ ReadFails(w) \/ Count(w) \/ Mark(w)

Next ==
  \/ Cancel \/ Unlisten \/ Refuse \/ NextFolder \/ WalkEnds
  \/ Drain \/ Timeout \/ Complete
  \/ \E w \in Walkers : Step(w)

\* Threads are scheduled and timers fire; a slow file may never be read on.
Fairness ==
  /\ WF_vars(Unlisten) /\ WF_vars(Refuse \/ NextFolder \/ WalkEnds)
  /\ WF_vars(Drain) /\ WF_vars(Timeout) /\ WF_vars(Complete)
  /\ \A w \in Walkers : WF_vars(walker[w].file \notin Slow /\ Step(w))

Spec == Init /\ [][Next]_vars /\ Fairness

(* ------------------------------ properties ------------------------------ *)

Item == [file : Files, size : Nat]
Walker == [at : {"idle", "quit", "read", "count", "mark"}, file : Files \cup {None},
           left : Nat, got : Nat]

\* Every variable has its type, and nothing waits in a batch without a timer.
TypeOK ==
  /\ kind \in Kinds /\ max \in Limits
  /\ stage \in {"validating", "walking", "closed", "failed", "ended"}
  /\ todo \subseteq Files /\ rest \in Seq(SUBSET Files)
  /\ walker \in [Walkers -> Walker]
  /\ results \in Nat /\ sent \in Nat /\ failed \subseteq Item
  /\ limitHit \in BOOLEAN /\ cancelled \in BOOLEAN /\ active \in BOOLEAN
  /\ queue \in Seq(Item) /\ batch \in Seq(Item)
  /\ timer \in BOOLEAN /\ (timer <=> batch # <<>>)
  /\ client \in {"listening", "cancelled", "error", "success", "limited"}
  /\ found \in [Files -> Nat]

Given == Total(found)
Failed == Total([e \in failed |-> e.size])
Expected(f) == IF kind = "text" \/ Matches[f] = 0 THEN Matches[f] ELSE 1
Unread(f) == \E e \in failed : e.file = f

\* A search that ends well has given the client all it counted, however the
\* walkers, the batches and the end of the walk interleave: without the limit
\* every result of every file that could be read, with it at least a text
\* search's maxResults, less what was counted in a file that then could not be
\* read, and exactly a file search's (Counters, engine.rs:21).
SuccessIsWhole ==
  /\ client = "success" =>
       /\ Given + Failed = results
       /\ \A f \in Files : found[f] = IF Unread(f) THEN 0 ELSE Expected(f)
  /\ client = "limited" =>
       CASE kind = "text" -> Given + Failed = results /\ results >= max
         [] kind = "file" -> Given = max
         [] OTHER -> Given = 0

\* The walkers check the limit and count in two steps, yet each passes it by
\* one result at most (build_ranges, text_search.rs:215).
Allowed == CASE kind = "text" -> IF max = 0 THEN 0 ELSE max - 1
             [] kind = "file" -> max
             [] OTHER -> 0
OverrunBounded == results <= Allowed + Cardinality(Walkers)

\* What a walker has sent reaches the client, though the walk goes on for ever
\* on a file that cannot be read to its end (timeout_deadline, batch.rs:67).
Waiting(f) == \E e \in Range(queue \o batch) : e.file = f
FoundArrives == \A f \in Files : Waiting(f) ~> found[f] > 0 \/ client # "listening"

\* Every search that no slow file holds settles, and one its client has left
\* ends on the host.
SearchEnds ==
  (\A w \in Walkers : walker[w].file \notin Slow)
    ~> (client # "listening" /\ stage = "ended") \/ \E w \in Walkers : walker[w].file \in Slow
=============================================================================
