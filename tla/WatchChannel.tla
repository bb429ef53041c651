---------------------------- MODULE WatchChannel ----------------------------
(***************************************************************************)
(* File watching over one window's connection: the sinks and the watchers  *)
(* of `WatchState` (channels/watch.rs), the dispatcher that runs           *)
(* subscription changes in arrival order and spawns everything else        *)
(* (rpc.rs), and the client that listens once per session and then watches *)
(* and unwatches without waiting for an answer                             *)
(* (diskFileSystemProviderClient.ts).                                      *)
(*                                                                         *)
(* A session's subscription id and its session id are one value: the       *)
(* client listens once per session.  Two steps of Rust code are two        *)
(* actions wherever a lock is let go of or a future awaited between them.  *)
(***************************************************************************)
EXTENDS Naturals, Sequences, FiniteSets

CONSTANTS
    Session,    \* clients of the window, one `fileChange` session each
    Request,    \* watch requests, each under a uuid of its own
    Owner,      \* the session a request belongs to
    None

ASSUME OwnerAssumption == Owner \in [Request -> Session]
ASSUME NoneAssumption == None \notin Session

VARIABLES
    subscription,   \* the client's side of the session's `fileChange` event
    request,        \* what the client has asked of each watch request
    frames,         \* requests written to the backend's stdin and not read yet
    answered,       \* sessions whose `channel_listen` has been answered
    registered,     \* ChannelRegistry::subscriptions
    ending,         \* subscriptions taken out of the registry, to be cancelled
    retaining,      \* the session end_session is between its two locks for
    sessions,       \* WatchState::sessions
    watchers,       \* WatchState::watchers, which own the OS watches
    watchTask,      \* how far the spawned `watch` call has come
    unwatchTask,    \* how far the spawned `unwatch` call has come
    conn            \* the connection

client == <<subscription, request>>
registry == <<answered, registered, ending, retaining>>
state == <<sessions, watchers>>
tasks == <<watchTask, unwatchTask>>
vars == <<client, frames, registry, state, tasks, conn>>

Frame == [kind: {"listen", "unlisten"}, session: Session]
            \cup [kind: {"watch", "unwatch"}, req: Request]

TypeOK ==
    /\ subscription \in [Session -> {"new", "asked", "open", "unwanted", "gone"}]
    /\ request \in [Request -> {"idle", "watched", "unwatched"}]
    /\ frames \in Seq(Frame)
    /\ answered \in SUBSET Session
    /\ registered \in SUBSET Session
    /\ ending \in SUBSET Session
    /\ retaining \in Session \cup {None}
    /\ sessions \in SUBSET Session
    /\ watchers \in SUBSET Request
    /\ watchTask \in [Request -> {"none", "spawned", "validating", "arming",
                        "inserting", "checking", "removing", "refused", "done"}]
    /\ unwatchTask \in [Request -> {"none", "spawned", "done"}]
    /\ conn \in {"open", "closing", "closed"}
    \* A sink is listed exactly as long as its subscription is: registered, or
    \* taken out and not torn down yet.
    /\ sessions = registered \cup ending

Init ==
    /\ subscription = [s \in Session |-> "new"]
    /\ request = [r \in Request |-> "idle"]
    /\ frames = << >>
    /\ answered = {}
    /\ registered = {}
    /\ ending = {}
    /\ retaining = None
    /\ sessions = {}
    /\ watchers = {}
    /\ watchTask = [r \in Request |-> "none"]
    /\ unwatchTask = [r \in Request |-> "none"]
    /\ conn = "open"

\* Mutant of Write: a request overtakes the ones written before it.
WriteFirst(frame) == frames' = <<frame>> \o frames

Write(frame) == frames' = Append(frames, frame)

-----------------------------------------------------------------------------
(* The client. *)

\* The constructor listens; the frame is written a microtask later, before the
\* file service, which awaits its provider first, can ask for a watch.
Listen(s) ==
    /\ conn = "open"
    /\ subscription[s] = "new"
    /\ subscription' = [subscription EXCEPT ![s] = "asked"]
    /\ Write([kind |-> "listen", session |-> s])
    /\ UNCHANGED <<request, registry, state, tasks, conn>>

\* The last listener goes.  An emitter still opening disposes its subscription
\* when the answer arrives.
Dispose(s) ==
    /\ conn = "open"
    /\ \/ /\ subscription[s] = "asked"
          /\ subscription' = [subscription EXCEPT ![s] = "unwanted"]
          /\ UNCHANGED frames
       \/ /\ subscription[s] = "open"
          /\ subscription' = [subscription EXCEPT ![s] = "gone"]
          /\ Write([kind |-> "unlisten", session |-> s])
    /\ UNCHANGED <<request, registry, state, tasks, conn>>

ListenAnswered(s) ==
    /\ conn = "open"
    /\ s \in answered
    /\ answered' = answered \ {s}
    /\ \/ /\ subscription[s] = "asked"
          /\ subscription' = [subscription EXCEPT ![s] = "open"]
          /\ UNCHANGED frames
       \/ /\ subscription[s] = "unwanted"
          /\ subscription' = [subscription EXCEPT ![s] = "gone"]
          /\ Write([kind |-> "unlisten", session |-> s])
    /\ UNCHANGED <<request, registered, ending, retaining, state, tasks, conn>>

Watch(r) ==
    /\ conn = "open"
    /\ subscription[Owner[r]] \in {"asked", "open"}
    /\ request[r] = "idle"
    /\ request' = [request EXCEPT ![r] = "watched"]
    /\ Write([kind |-> "watch", req |-> r])
    /\ UNCHANGED <<subscription, registry, state, tasks, conn>>

\* Nothing makes the disposable wait for the answer to its own watch.
Unwatch(r) ==
    /\ conn = "open"
    /\ request[r] = "watched"
    /\ request' = [request EXCEPT ![r] = "unwatched"]
    /\ Write([kind |-> "unwatch", req |-> r])
    /\ UNCHANGED <<subscription, registry, state, tasks, conn>>

-----------------------------------------------------------------------------
(* The dispatcher: one frame at a time, and not while it is inside a       *)
(* subscription's teardown.                                                *)

DispatcherFree == ending = {} /\ retaining = None

Next_(kind) ==
    /\ DispatcherFree
    /\ frames # << >>
    /\ Head(frames).kind = kind
    /\ frames' = Tail(frames)

DispatchListen ==
    /\ Next_("listen")
    /\ LET s == Head(frames).session IN
         /\ sessions' = sessions \cup {s}
         /\ registered' = registered \cup {s}
         /\ answered' = answered \cup {s}
    /\ UNCHANGED <<client, ending, retaining, watchers, tasks, conn>>

\* The entry remove_subscription takes out, if there is one.
Entry(s) == registered \cap {s}

DispatchUnlisten ==
    /\ Next_("unlisten")
    /\ LET s == Head(frames).session IN
         /\ registered' = registered \ {s}
         /\ ending' = Entry(s)
    /\ UNCHANGED <<client, answered, retaining, state, tasks, conn>>

\* end_session, first lock: the sink stops being addressable.
EndSession(s) ==
    /\ s \in ending
    /\ retaining = None
    /\ ending' = ending \ {s}
    /\ retaining' = s
    /\ sessions' = sessions \ {s}
    /\ UNCHANGED <<client, frames, answered, registered, watchers, tasks, conn>>

\* Mutant of Retained: the comparison of `retain` the wrong way round.
RetainedInstead(s) == {r \in watchers : Owner[r] = s}

Retained(s) == {r \in watchers : Owner[r] # s}

\* end_session, second lock: every watch of the session is dropped.
RetainWatchers ==
    /\ retaining # None
    /\ watchers' = Retained(retaining)
    /\ retaining' = None
    /\ UNCHANGED <<client, frames, answered, registered, ending, sessions,
                   tasks, conn>>

DispatchWatch ==
    /\ Next_("watch")
    /\ watchTask' = [watchTask EXCEPT ![Head(frames).req] = "spawned"]
    /\ UNCHANGED <<client, registry, state, unwatchTask, conn>>

DispatchUnwatch ==
    /\ Next_("unwatch")
    /\ unwatchTask' = [unwatchTask EXCEPT ![Head(frames).req] = "spawned"]
    /\ UNCHANGED <<client, registry, state, watchTask, conn>>

-----------------------------------------------------------------------------
(* The spawned calls. *)

Advance(r, from, to) ==
    /\ watchTask[r] = from
    /\ watchTask' = [watchTask EXCEPT ![r] = to]

Others == <<client, frames, registry, sessions, unwatchTask, conn>>

HasSink(r) == Owner[r] \in sessions

\* A request for a session with no listener is dropped.
LookUpSink(r) ==
    /\ Advance(r, "spawned", IF HasSink(r) THEN "validating" ELSE "done")
    /\ UNCHANGED <<Others, watchers>>

Validate(r) ==
    /\ \/ Advance(r, "validating", "arming")
       \/ Advance(r, "validating", "refused")
    /\ UNCHANGED <<Others, watchers>>

Arm(r) ==
    /\ \/ Advance(r, "arming", "inserting")
       \/ Advance(r, "arming", "refused")
    /\ UNCHANGED <<Others, watchers>>

InsertWatcher(r) ==
    /\ Advance(r, "inserting", "checking")
    /\ watchers' = watchers \cup {r}
    /\ UNCHANGED Others

\* Mutant of AfterInsert: the session is not checked again.
NoRecheck(r) == "done"

AfterInsert(r) == IF HasSink(r) THEN "done" ELSE "removing"

CheckSession(r) ==
    /\ Advance(r, "checking", AfterInsert(r))
    /\ UNCHANGED <<Others, watchers>>

RemoveWatcher(r) ==
    /\ Advance(r, "removing", "done")
    /\ watchers' = watchers \ {r}
    /\ UNCHANGED Others

RunUnwatch(r) ==
    /\ unwatchTask[r] = "spawned"
    /\ unwatchTask' = [unwatchTask EXCEPT ![r] = "done"]
    /\ watchers' = watchers \ {r}
    /\ UNCHANGED <<client, frames, registry, sessions, watchTask, conn>>

-----------------------------------------------------------------------------
(* The connection closes once every frame has been read: cancel_all takes  *)
(* every subscription, then the calls are drained.                         *)

\* Mutant of CancelAll: the subscriptions are dropped without their teardown.
CancelNone == {}

CancelAll == registered

Close ==
    /\ conn = "open"
    /\ frames = << >>
    /\ DispatcherFree
    /\ conn' = "closing"
    /\ ending' = CancelAll
    /\ registered' = {}
    /\ UNCHANGED <<client, frames, answered, retaining, state, tasks>>

InFlight(r) == \/ watchTask[r] \notin {"none", "refused", "done"}
               \/ unwatchTask[r] = "spawned"

CallsJoined == \A r \in Request : ~InFlight(r)

Closed ==
    /\ conn = "closing"
    /\ DispatcherFree
    /\ CallsJoined
    /\ conn' = "closed"
    /\ UNCHANGED <<client, frames, registry, state, tasks>>

Dispatch == \/ DispatchListen \/ DispatchUnlisten \/ DispatchWatch \/ DispatchUnwatch
            \/ (\E s \in Session : EndSession(s)) \/ RetainWatchers

WatchCall(r) == \/ LookUpSink(r) \/ Validate(r) \/ Arm(r) \/ InsertWatcher(r)
                \/ CheckSession(r) \/ RemoveWatcher(r)

Client == \/ \E s \in Session : Listen(s) \/ Dispose(s) \/ ListenAnswered(s)
          \/ \E r \in Request : Watch(r) \/ Unwatch(r)

Next == Client \/ Dispatch \/ (\E r \in Request : WatchCall(r) \/ RunUnwatch(r))
            \/ Close \/ Closed

\* The runtime schedules the reader and every spawned call; the client is free.
Fairness ==
    /\ WF_vars(Dispatch)
    /\ \A r \in Request : WF_vars(WatchCall(r)) /\ WF_vars(RunUnwatch(r))
    /\ WF_vars(Closed)

Spec == Init /\ [][Next]_vars /\ Fairness

-----------------------------------------------------------------------------
(* Properties. *)

\* Every stored watcher can still be reached by something that will drop it:
\* its session is listed, or the call that stored it is about to check the
\* session again, or the session's teardown is about to sweep the table.
WatchersReachable ==
    \A r \in watchers :
       \/ Owner[r] \in sessions
       \/ watchTask[r] \in {"checking", "removing"}
       \/ retaining = Owner[r]

\* A closed connection has no sink and no OS watch left, whatever was in
\* flight when it closed.
ClosedDropsWatchers == conn = "closed" => sessions = {} /\ watchers = {}

\* No OS watch outlives the last party that could drop it: a stored watcher is
\* reachable while the connection is open, and none is left once it is closed,
\* wherever in its awaits a `watch` call was (insert_watcher, watch.rs:133).
NoWatcherLeaks == WatchersReachable /\ ClosedDropsWatchers

Asked(kind, r) ==
    \E i \in 1 .. Len(frames) : frames[i].kind = kind /\ frames[i].req = r

\* A request's frames and calls follow what the client did, once each.
RequestsOnce ==
    /\ \A r \in Request :
          /\ Asked("watch", r) => request[r] # "idle" /\ watchTask[r] = "none"
          /\ watchTask[r] # "none" => request[r] # "idle"
          /\ Asked("unwatch", r) \/ unwatchTask[r] # "none" => request[r] = "unwatched"
    /\ \A i, j \in 1 .. Len(frames) :
          /\ frames[i].kind = "watch" /\ frames[j].kind = "watch"
          /\ frames[i].req = frames[j].req
          => i = j

\* While the connection is open a session is torn down only for a client that
\* let go of it, and a call past its look-up finds the session or such a client.
TeardownWanted ==
    conn = "open" =>
       /\ \A i \in 1 .. Len(frames) :
             frames[i].kind = "unlisten" => subscription[frames[i].session] = "gone"
       /\ \A s \in Session :
             s \in ending \/ s = retaining => subscription[s] = "gone"
       /\ \A r \in Request :
             /\ watchTask[r] \in {"validating", "arming", "inserting", "checking"} =>
                   Owner[r] \in sessions \/ subscription[Owner[r]] = "gone"
             /\ watchTask[r] = "removing" => subscription[Owner[r]] = "gone"

\* What a closing connection has already given up.
ClosingStages ==
    /\ registered \cap ending = {}
    /\ conn # "open" => frames = << >> /\ registered = {}
    /\ conn = "closed" => DispatcherFree /\ \A r \in Request : ~InFlight(r)

\* The inductive strengthening the safety properties follow from: who may
\* still reach a stored watcher, where each request stands between client and
\* backend, and how far the close has come.
WatchInv == WatchersReachable /\ RequestsOnce /\ TeardownWanted /\ ClosingStages

\* A watch the client still wants is dropped by nobody: not by the end of
\* another session, not by another request's check.
KeepsWantedWatchers ==
    [][\A r \in watchers \ watchers' :
          \/ request[r] = "unwatched"
          \/ subscription[Owner[r]] = "gone"
          \/ conn # "open"]_vars

\* A watch asked for by a client that goes on listening is armed, or refused
\* with an error; it is never dropped for want of a listener.
WatchesAreArmed ==
    \A r \in Request :
       request[r] = "watched" ~>
          \/ r \in watchers
          \/ watchTask[r] = "refused"
          \/ request[r] = "unwatched"
          \/ subscription[Owner[r]] \in {"unwanted", "gone"}
          \/ conn # "open"

\* Once a watch and its unwatch have both been answered, the watcher is gone.
\* The code does not keep this, and no run asks for it: an unwatch that runs
\* while its watch awaits the disk finds nothing to remove (watch.rs:196), and
\* the watcher stored afterwards stays until its session ends.
UnwatchedIsDropped ==
    \A r \in Request :
       watchTask[r] = "done" /\ unwatchTask[r] = "done" => r \notin watchers
=============================================================================
