----------------------------- MODULE ChannelIpc -----------------------------
(***************************************************************************)
(* One `listen` event of a channel, end to end: the emitter of TauriChannel*)
(* (ipc.tauri.ts), which opens a backend subscription with its first       *)
(* listener and disposes it with its last; the handlers of HostProcess     *)
(* (ipc.host.ts); the dispatcher, which answers subscription changes in    *)
(* arrival order (rpc.rs); the registry of subscriptions and the sinks     *)
(* their producers emit through (channel.rs).                              *)
(*                                                                         *)
(* A cycle is one subscription id: a uuid drawn when the first listener    *)
(* comes.  The source of events is a counter, and a producer reports every *)
(* value it takes after the producer started.                              *)
(*                                                                         *)
(* The frontend is one thread: the lines of a chunk of stdout are read in  *)
(* one task, and only then do the microtasks run that their answers have   *)
(* queued, in the order they were queued in.                               *)
(***************************************************************************)
EXTENDS Naturals, Sequences

CONSTANTS
    MaxCycle,       \* subscription ids ever drawn
    MaxListener,    \* listeners the emitter has at a time
    MaxEvent,       \* events of the source
    Refusing        \* whether the channel's `listen` may fail

ASSUME BoundAssumption == {MaxCycle, MaxListener, MaxEvent} \subseteq Nat \ {0}
ASSUME RefusingAssumption == Refusing \in BOOLEAN

Cycle == 1 .. MaxCycle
None == 0

VARIABLES
    listeners,      \* how many listeners the emitter has
    subscription,   \* the cycle `listen` holds, or None
    cycle,          \* how each subscription id was answered, and whether it was let go
    attached,       \* HostProcess::listeners, the cycles that have a handler
    jobs,           \* the microtasks that are due
    draining,       \* whether they are being run
    fired,          \* the payloads the emitter has fired, with their cycle
    stray,          \* those a cycle has fired that was answered and let go
    stdin,          \* requests the backend has not read
    stdout,         \* replies and events the frontend has not read
    subscriptions,  \* ChannelRegistry::subscriptions, whose sinks are active
    answering,      \* registrations `channel_listen` has not answered yet
    producer,       \* the task that emits through each cycle's sink
    reported,       \* the last event each producer is done with
    source          \* how many events there have been

emitter == <<listeners, subscription, cycle>>
turn == <<attached, jobs, draining>>
client == <<emitter, turn, fired, stray>>
backend == <<subscriptions, answering, producer, reported>>
vars == <<client, stdin, stdout, backend, source>>

\* "listen": the handler is attached.  "listening", "refused", "taken": the
\* answer has been read.  "dispose": the cycle is open and has been let go of.
Job == [kind: {"listen", "listening", "refused", "taken", "dispose"}, id: Cycle]
Request == [kind: {"listen", "unlisten"}, id: Cycle]
Line == [kind: {"listening", "refused", "taken"}, id: Cycle]
            \cup [kind: {"event"}, id: Cycle, payload: 1 .. MaxEvent]
Payload == [id: Cycle, payload: 1 .. MaxEvent]

TypeOK ==
    /\ listeners \in 0 .. MaxListener
    /\ subscription \in Cycle \cup {None}
    /\ cycle \in [Cycle -> {"unused", "opening", "open", "refused", "taken", "disposed"}]
    /\ attached \in SUBSET Cycle
    /\ jobs \in Seq(Job)
    /\ draining \in BOOLEAN
    /\ fired \in Seq(Payload)
    /\ stray \in Seq(Payload)
    /\ stdin \in Seq(Request)
    /\ stdout \in Seq(Line)
    /\ subscriptions \in SUBSET Cycle
    /\ answering \in SUBSET Cycle
    /\ producer \in [Cycle -> {"none", "running", "emitting", "stopped"}]
    /\ reported \in [Cycle -> 0 .. MaxEvent]
    /\ source \in 0 .. MaxEvent
    \* What is open is what the emitter holds for the listeners it has.
    /\ subscription = None <=> listeners = 0
    /\ \A c \in Cycle : cycle[c] = "open" => c = subscription
    /\ draining => jobs # << >>

Init ==
    /\ listeners = 0
    /\ subscription = None
    /\ cycle = [c \in Cycle |-> "unused"]
    /\ attached = {}
    /\ jobs = << >>
    /\ draining = FALSE
    /\ fired = << >>
    /\ stray = << >>
    /\ stdin = << >>
    /\ stdout = << >>
    /\ subscriptions = {}
    /\ answering = {}
    /\ producer = [c \in Cycle |-> "none"]
    /\ reported = [c \in Cycle |-> 0]
    /\ source = 0

-----------------------------------------------------------------------------
(* The frontend. *)

\* Mutant of FreshId: one subscription id for every cycle of the emitter.
OneId == {1}

FreshId == {c \in Cycle : cycle[c] = "unused" /\ \A b \in 1 .. c - 1 : cycle[b] # "unused"}

InTransit(channel, kind, c) == \E i \in DOMAIN channel : channel[i].kind = kind /\ channel[i].id = c

Due(kind, c) == [kind |-> kind, id |-> c]

Write(kind, c) == stdin' = Append(stdin, [kind |-> kind, id |-> c])

\* The handler is attached at once, and its request written a microtask later.
AddListener ==
    /\ listeners < MaxListener
    /\ listeners' = listeners + 1
    /\ \/ /\ listeners = 0
          /\ \E c \in FreshId :
                /\ subscription' = c
                /\ cycle' = [cycle EXCEPT ![c] = "opening"]
                /\ attached' = attached \cup {c}
                /\ jobs' = Append(jobs, Due("listen", c))
       \/ /\ listeners > 0
          /\ UNCHANGED <<subscription, cycle, attached, jobs>>
    /\ UNCHANGED <<draining, fired, stray, stdin, stdout, backend, source>>

\* Mutant of DisposeWhenOpen: the last listener leaves the subscription open.
DisposeNever(held) == UNCHANGED <<cycle, jobs>>

\* The promise of the cycle is disposed once it is open: a microtask from now,
\* unless its own continuation is due first, which then sees to it.  A cycle
\* that is opening stays attached until its answer; a refused one is detached.
DisposeWhenOpen(held) ==
    \/ /\ cycle[held] = "open"
       /\ cycle' = [cycle EXCEPT ![held] = "disposed"]
       /\ jobs' = IF InTransit(jobs, "listening", held) THEN jobs ELSE Append(jobs, Due("dispose", held))
    \/ /\ cycle[held] # "open"
       /\ UNCHANGED <<cycle, jobs>>

RemoveListener ==
    /\ listeners > 0
    /\ listeners' = listeners - 1
    /\ \/ /\ listeners = 1
          /\ subscription' = None
          /\ DisposeWhenOpen(subscription)
       \/ /\ listeners > 1
          /\ UNCHANGED <<subscription, cycle, jobs>>
    /\ UNCHANGED <<attached, draining, fired, stray, stdin, stdout, backend, source>>

\* Mutant of HasHandler: the handler is attached after the subscription opened.
HandlerWhenOpen(c) == cycle[c] = "open"

\* A line whose cycle has no handler any more is dropped.
HasHandler(c) == c \in attached

\* A cycle that was answered and let go keeps its handler until its disposal
\* has run: the lines behind its answer in the same chunk still fire.
Timely(c) == cycle[c] \in {"opening", "open"}

Fire(line) ==
    LET event == [id |-> line.id, payload |-> line.payload] IN
    \/ /\ HasHandler(line.id) /\ Timely(line.id)
       /\ fired' = Append(fired, event)
       /\ UNCHANGED stray
    \/ /\ HasHandler(line.id) /\ ~Timely(line.id)
       /\ stray' = Append(stray, event)
       /\ UNCHANGED fired
    \/ /\ ~HasHandler(line.id)
       /\ UNCHANGED <<fired, stray>>

\* The answer settles the promise of the cycle, whose continuation is due: one
\* that has no listeners left is to be disposed.
Resolved(c, answer) ==
    /\ cycle' = [cycle EXCEPT ![c] = IF answer # "listening" THEN answer
                                     ELSE IF subscription = c THEN "open" ELSE "disposed"]
    /\ jobs' = Append(jobs, Due(answer, c))

\* A line of the chunk that is being read.
Receive ==
    /\ ~draining
    /\ stdout # << >>
    /\ stdout' = Tail(stdout)
    /\ LET line == Head(stdout) IN
        \/ /\ line.kind = "event"
           /\ Fire(line)
           /\ UNCHANGED <<cycle, jobs>>
        \/ /\ line.kind # "event"
           /\ Resolved(line.id, line.kind)
           /\ UNCHANGED <<fired, stray>>
    /\ UNCHANGED <<listeners, subscription, attached, draining, stdin, backend, source>>

\* Mutant of Opened: nothing is disposed after its answer.
OpenedAndKept(c) == jobs' = Tail(jobs)

\* The promise of a subscription resolves with what disposes it, which is due
\* then if its listeners have gone.
Opened(c) ==
    jobs' = IF cycle[c] = "disposed" THEN Append(Tail(jobs), Due("dispose", c)) ELSE Tail(jobs)

\* The microtask that is due first; no line is read until none is left.
Run ==
    /\ jobs # << >>
    /\ LET job == Head(jobs) IN
        \/ /\ job.kind = "listen"
           /\ Write("listen", job.id)
           /\ jobs' = Tail(jobs)
           /\ UNCHANGED attached
        \/ /\ job.kind = "listening"
           /\ Opened(job.id)
           /\ UNCHANGED <<attached, stdin>>
        \/ /\ job.kind \in {"refused", "taken"}
           /\ attached' = attached \ {job.id}
           /\ jobs' = Tail(jobs)
           /\ UNCHANGED stdin
        \/ /\ job.kind = "dispose"
           /\ attached' = attached \ {job.id}
           /\ Write("unlisten", job.id)
           /\ jobs' = Tail(jobs)
    /\ draining' = (jobs' # << >>)
    /\ UNCHANGED <<emitter, fired, stray, stdout, backend, source>>

-----------------------------------------------------------------------------
(* The backend. *)

Reply(kind, c) == stdout' = Append(stdout, [kind |-> kind, id |-> c])

\* Mutant of DispatcherFree: subscription changes are spawned, as calls are.
Spawned == TRUE

\* Subscription changes are served inline, each answered before the next.
DispatcherFree == answering = {}

\* add_subscription: the producer runs before the request is answered.  An id
\* that is taken is an error, and so is whatever the channel refuses.
Listen(c) ==
    \/ /\ c \notin subscriptions
       /\ subscriptions' = subscriptions \cup {c}
       /\ answering' = answering \cup {c}
       /\ producer' = [producer EXCEPT ![c] = "running"]
       /\ reported' = [reported EXCEPT ![c] = source]
       /\ UNCHANGED stdout
    \/ /\ \/ c \in subscriptions /\ Reply("taken", c)
          \/ c \notin subscriptions /\ Refusing /\ Reply("refused", c)
       /\ UNCHANGED backend

\* remove_subscription clears the `active` flag of the sink.
Unlisten(c) ==
    /\ subscriptions' = subscriptions \ {c}
    /\ UNCHANGED <<answering, producer, reported, stdout>>

Dispatch ==
    /\ DispatcherFree
    /\ stdin # << >>
    /\ stdin' = Tail(stdin)
    /\ \/ Head(stdin).kind = "listen" /\ Listen(Head(stdin).id)
       \/ Head(stdin).kind = "unlisten" /\ Unlisten(Head(stdin).id)
    /\ UNCHANGED <<client, source>>

AnswerListen(c) ==
    /\ c \in answering
    /\ answering' = answering \ {c}
    /\ Reply("listening", c)
    /\ UNCHANGED <<client, stdin, subscriptions, producer, reported, source>>

\* Something happens that every producer running now is to report.
Occur ==
    /\ source < MaxEvent
    /\ source' = source + 1
    /\ UNCHANGED <<client, stdin, stdout, backend>>

\* Mutant of StillActive: the sink does not look at its flag.
Always(c) == TRUE

\* EventSink::is_active.
StillActive(c) == c \in subscriptions

\* EventSink::emit looks at the flag first; a producer that finds it cleared
\* stops, as one does whose task or token its teardown has cancelled.
CheckActive(c) ==
    /\ producer[c] = "running"
    /\ \/ /\ StillActive(c)
          /\ reported[c] < source
          /\ producer' = [producer EXCEPT ![c] = "emitting"]
       \/ /\ ~StillActive(c)
          /\ producer' = [producer EXCEPT ![c] = "stopped"]
    /\ UNCHANGED <<client, stdin, stdout, subscriptions, answering, reported, source>>

\* The payload goes to the writer whatever has become of the flag since.
Emit(c) ==
    /\ producer[c] = "emitting"
    /\ producer' = [producer EXCEPT ![c] = "running"]
    /\ reported' = [reported EXCEPT ![c] = reported[c] + 1]
    /\ stdout' = Append(stdout, [kind |-> "event", id |-> c, payload |-> reported[c] + 1])
    /\ UNCHANGED <<client, stdin, subscriptions, answering, source>>

Next ==
    \/ AddListener
    \/ RemoveListener
    \/ Receive
    \/ Run
    \/ Dispatch
    \/ Occur
    \/ \E c \in Cycle : AnswerListen(c) \/ CheckActive(c) \/ Emit(c)

Spec == Init /\ [][Next]_vars

\* The dispatcher, the producers and the frontend's event loop keep running;
\* listeners and the source do as they please.
FairSpec ==
    /\ Spec
    /\ WF_vars(Receive)
    /\ WF_vars(Run)
    /\ WF_vars(Dispatch)
    /\ \A c \in Cycle : WF_vars(AnswerListen(c)) /\ WF_vars(CheckActive(c)) /\ WF_vars(Emit(c))

-----------------------------------------------------------------------------
(* Properties. *)

\* However often listeners leave and come back, no event of the source is
\* fired twice and none is fired after a later one, but for what a cycle fires
\* that was answered and let go and whose disposal is still due in the same
\* chunk (stray): a cycle abandoned while it is opening is answered ahead of
\* anything the next cycle's producer can report (ipc.tauri.ts:172-190,
\* rpc.rs:150-163).  Nor is one missing between two of one cycle: the frontend
\* may join a stream late and leave it early, but never sees a hole in it.
FiredInOrder ==
    \A i, j \in DOMAIN fired :
        i < j => /\ fired[i].payload < fired[j].payload
                 /\ fired[i].id = fired[j].id => fired[j].payload - fired[i].payload = j - i

Owed(c) == \E kind \in {"listening", "dispose"} : InTransit(jobs, kind, c)

\* Every subscription the backend keeps is one the client will still dispose:
\* it is opening, so its answer decides, or held by the emitter, or its
\* disposal is due or its unlisten on its way (ipc.tauri.ts:147-151).  And a
\* handler outlives its cycle only while the microtask that detaches it is due.
NoOrphan ==
    /\ \A c \in subscriptions : Timely(c) \/ Owed(c) \/ InTransit(stdin, "unlisten", c)
    /\ \A c \in attached : Timely(c) \/ Owed(c) \/ InTransit(jobs, "refused", c)

\* Producers end with their subscription: once nobody listens and nobody comes
\* back, no producer is left running (channel.rs:286-291, 209-212).
ProducersEnd ==
    (listeners = 0) ~> (listeners > 0 \/ \A c \in Cycle : producer[c] \in {"none", "stopped"})

Answered == listeners > 0 => cycle[subscription] \in {"open", "refused"}

\* Listeners that come back while the cycle before theirs is still being torn
\* down are subscribed, unless the channel itself refuses them: a fresh id is
\* never taken for the old one's (ipc.tauri.ts:169-170).
Resubscribed == []<>Answered

HasFired(c, n) == \E i \in DOMAIN fired : fired[i] = [id |-> c, payload |-> n]

\* Every event after the producer of the emitter's own cycle has started
\* reaches the emitter, unless its listeners leave.
EventsArrive ==
    \A c \in Cycle, n \in 1 .. MaxEvent :
        (subscription = c /\ c \in subscriptions /\ reported[c] < n /\ n <= source)
            ~> (subscription # c \/ HasFired(c, n))

\* Listeners that come back are served and what they left behind ends: every
\* cycle is answered, its events arrive, and its producer stops with it.
CyclesServed == ProducersEnd /\ Resubscribed /\ EventsArrive

=============================================================================
