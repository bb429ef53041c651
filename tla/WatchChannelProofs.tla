------------------------- MODULE WatchChannelProofs -------------------------
(***************************************************************************)
(* Proofs about the watch channel: its invariant is inductive, so every    *)
(* stored watcher stays reachable, a closed connection keeps none, and a   *)
(* watch its client still wants is dropped by nobody.  The last part is    *)
(* about what a watcher tells its client: its batches are exact, and when  *)
(* all are told the client has the tree on disk.                           *)
(***************************************************************************)
EXTENDS WatchChannel, FileWatcher, TLAPS

(***************************************************************************)
(* Reading a frame shifts the rest by one; writing one leaves the others.  *)
(***************************************************************************)
LEMMA ReadFrame ==
  ASSUME frames \in Seq(Frame), frames # << >>
  PROVE  /\ Head(frames) = frames[1] /\ frames[1] \in Frame
         /\ Tail(frames) \in Seq(Frame)
         /\ Len(Tail(frames)) = Len(frames) - 1
         /\ Len(frames) \in Nat /\ Len(frames) >= 1
         /\ \A i \in 1 .. Len(Tail(frames)) :
               i + 1 \in 1 .. Len(frames) /\ Tail(frames)[i] = frames[i + 1]
  OBVIOUS

LEMMA WriteFrame ==
  ASSUME frames \in Seq(Frame), NEW f \in Frame
  PROVE  /\ Append(frames, f) \in Seq(Frame)
         /\ Len(frames) \in Nat
         /\ Len(Append(frames, f)) = Len(frames) + 1
         /\ Append(frames, f)[Len(frames) + 1] = f
         /\ \A i \in 1 .. Len(frames) : Append(frames, f)[i] = frames[i]
  OBVIOUS

LEMMA FrameFields ==
  ASSUME NEW f \in Frame
  PROVE  /\ f.kind \in {"listen", "unlisten"} => f.session \in Session
         /\ f.kind \in {"watch", "unwatch"} => f.req \in Request
  BY DEF Frame

(***************************************************************************)
(* Type correctness.                                                       *)
(***************************************************************************)
LEMMA TypeInit == Init => TypeOK
  BY DEF Init, TypeOK

LEMMA TypeClient ==
  ASSUME TypeOK, Client
  PROVE  TypeOK'
  <1>1. ASSUME NEW s \in Session, Listen(s) \/ Dispose(s) \/ ListenAnswered(s)
        PROVE  TypeOK'
    <2>1. /\ [kind |-> "listen", session |-> s] \in Frame
          /\ [kind |-> "unlisten", session |-> s] \in Frame
      BY DEF Frame
    <2>2. frames' = frames \/ \E f \in Frame : Write(f)
      BY <1>1, <2>1 DEF Listen, Dispose, ListenAnswered
    <2>3. frames' \in Seq(Frame)
      BY <2>2, WriteFrame DEF TypeOK, Write
    <2>4. QED
      BY <1>1, <2>3 DEF TypeOK, Listen, Dispose, ListenAnswered, registry, state, tasks
  <1>2. ASSUME NEW r \in Request, Watch(r) \/ Unwatch(r)
        PROVE  TypeOK'
    <2>1. /\ [kind |-> "watch", req |-> r] \in Frame
          /\ [kind |-> "unwatch", req |-> r] \in Frame
      BY DEF Frame
    <2>2. \E f \in Frame : Write(f)
      BY <1>2, <2>1 DEF Watch, Unwatch
    <2>3. frames' \in Seq(Frame)
      BY <2>2, WriteFrame DEF TypeOK, Write
    <2>4. QED
      BY <1>2, <2>3 DEF TypeOK, Watch, Unwatch, registry, state, tasks
  <1>3. QED
    BY <1>1, <1>2 DEF Client

LEMMA TypeDispatch ==
  ASSUME TypeOK, ClosingStages, Dispatch
  PROVE  TypeOK'
  <1>1. CASE DispatchListen \/ DispatchUnlisten \/ DispatchWatch \/ DispatchUnwatch
    <2>1. frames' \in Seq(Frame) /\ Head(frames) \in Frame
      BY <1>1, ReadFrame DEF TypeOK, DispatchListen, DispatchUnlisten, DispatchWatch,
         DispatchUnwatch, Next_
    <2>2. CASE DispatchListen \/ DispatchUnlisten
      <3>1. Head(frames).session \in Session
        BY <2>1, <2>2, FrameFields DEF DispatchListen, DispatchUnlisten, Next_
      <3>2. QED
        BY <2>1, <2>2, <3>1 DEF TypeOK, DispatchListen, DispatchUnlisten, Next_,
           DispatcherFree, Entry, client, state, tasks
    <2>3. CASE DispatchWatch \/ DispatchUnwatch
      BY <2>1, <2>3 DEF TypeOK, DispatchWatch, DispatchUnwatch, Next_, client,
         registry, state
    <2>4. QED
      BY <1>1, <2>2, <2>3
  <1>2. ASSUME NEW s \in Session, EndSession(s)
        PROVE  TypeOK'
    BY <1>2 DEF TypeOK, ClosingStages, EndSession, client, tasks
  <1>3. CASE RetainWatchers
    BY <1>3 DEF TypeOK, RetainWatchers, Retained, client, tasks
  <1>4. QED
    BY <1>1, <1>2, <1>3 DEF Dispatch

LEMMA TypeCalls ==
  ASSUME TypeOK, NEW r \in Request, WatchCall(r) \/ RunUnwatch(r)
  PROVE  TypeOK'
  <1> USE DEF TypeOK, Advance, Others, client, registry
  <1>1. CASE LookUpSink(r) \/ Validate(r) \/ Arm(r)
    BY <1>1 DEF LookUpSink, Validate, Arm
  <1>2. CASE InsertWatcher(r) \/ CheckSession(r) \/ RemoveWatcher(r)
    BY <1>2 DEF InsertWatcher, CheckSession, RemoveWatcher, AfterInsert
  <1>3. CASE RunUnwatch(r)
    BY <1>3 DEF RunUnwatch
  <1>4. QED
    BY <1>1, <1>2, <1>3 DEF WatchCall

LEMMA TypeStep ==
  ASSUME TypeOK, ClosingStages, [Next]_vars
  PROVE  TypeOK'
  <1>1. CASE Close \/ Closed
    BY <1>1 DEF TypeOK, Close, Closed, CancelAll, DispatcherFree, client, registry,
       state, tasks
  <1>2. CASE UNCHANGED vars
    BY <1>2 DEF TypeOK, vars, client, registry, state, tasks
  <1>3. QED
    BY <1>1, <1>2, TypeClient, TypeDispatch, TypeCalls DEF Next

(***************************************************************************)
(* Frames: what a write adds, and what a read cannot add.                  *)
(***************************************************************************)
OnceEach ==
    \A i, j \in 1 .. Len(frames) :
       /\ frames[i].kind = "watch" /\ frames[j].kind = "watch"
       /\ frames[i].req = frames[j].req
       => i = j

Unlistened ==
    \A i \in 1 .. Len(frames) :
       frames[i].kind = "unlisten" => subscription[frames[i].session] = "gone"

LEMMA AskedWrite ==
  ASSUME TypeOK, NEW f \in Frame, Write(f), NEW k, NEW r, Asked(k, r)'
  PROVE  Asked(k, r) \/ (f.kind = k /\ f.req = r)
  BY WriteFrame DEF Asked, Write, TypeOK

LEMMA AskedRead ==
  ASSUME TypeOK, NEW q, Next_(q), NEW k, NEW r, Asked(k, r)'
  PROVE  Asked(k, r)
  BY ReadFrame DEF Asked, Next_, TypeOK

LEMMA OnceWrite ==
  ASSUME TypeOK, OnceEach, NEW f \in Frame, Write(f),
         f.kind = "watch" => ~Asked("watch", f.req)
  PROVE  OnceEach'
  BY WriteFrame DEF OnceEach, Asked, Write, TypeOK

LEMMA OnceRead ==
  ASSUME TypeOK, OnceEach, NEW q, Next_(q)
  PROVE  OnceEach'
  BY ReadFrame DEF OnceEach, Next_, TypeOK

LEMMA ReadTheOnlyOne ==
  ASSUME TypeOK, OnceEach, Next_("watch"), NEW r, Head(frames).req = r
  PROVE  ~Asked("watch", r)'
  <1> SUFFICES ASSUME Asked("watch", r)'  PROVE FALSE
    OBVIOUS
  <1>1. PICK i \in 1 .. Len(Tail(frames)) :
           Tail(frames)[i].kind = "watch" /\ Tail(frames)[i].req = r
    BY DEF Asked, Next_
  <1>2. i + 1 \in 1 .. Len(frames) /\ frames[i + 1].kind = "watch"
           /\ frames[i + 1].req = r /\ frames[1].kind = "watch" /\ frames[1].req = r
    BY <1>1, ReadFrame DEF Next_, TypeOK
  <1>3. i + 1 = 1
    BY <1>2, ReadFrame DEF OnceEach, Next_, TypeOK
  <1>4. QED
    BY <1>1, <1>3, ReadFrame DEF Next_, TypeOK

(***************************************************************************)
(* The invariant.                                                          *)
(***************************************************************************)
LEMMA InvInit == Init => WatchInv
  BY NoneAssumption DEF Init, WatchInv, WatchersReachable, RequestsOnce, Asked,
     TeardownWanted, ClosingStages

LEMMA InvClientSession ==
  ASSUME TypeOK, WatchInv, NEW s \in Session, Listen(s) \/ Dispose(s) \/ ListenAnswered(s)
  PROVE  WatchInv'
  <1> USE DEF Listen, Dispose, ListenAnswered, registry, state, tasks
  <1>1. WatchersReachable'
    BY DEF WatchInv, WatchersReachable
  <1>2. PICK f \in Frame :
           \/ frames' = frames
           \/ Write(f) /\ f = [kind |-> "listen", session |-> s]
           \/ /\ Write(f) /\ f = [kind |-> "unlisten", session |-> s]
              /\ subscription'[s] = "gone"
    BY DEF Frame, TypeOK
  <1>3. RequestsOnce'
    <2>1. ASSUME NEW k \in {"watch", "unwatch"}, NEW r, Asked(k, r)'
          PROVE  Asked(k, r)
      <3>1. CASE frames' = frames
        BY <2>1, <3>1 DEF Asked
      <3>2. CASE Write(f) /\ f.kind \notin {"watch", "unwatch"}
        BY <2>1, <3>2, AskedWrite
      <3>3. QED
        BY <1>2, <3>1, <3>2
    <2>2. OnceEach'
      BY <1>2, OnceWrite DEF OnceEach, WatchInv, RequestsOnce
    <2>3. QED
      BY <2>1, <2>2 DEF OnceEach, WatchInv, RequestsOnce
  <1>4. TeardownWanted'
    <2>1. \A t \in Session : subscription[t] = "gone" => subscription'[t] = "gone"
      BY DEF TypeOK
    <2>2. Unlistened'
      <3>1. Unlistened /\ \A i \in 1 .. Len(frames) : frames[i] \in Frame
        BY DEF WatchInv, TeardownWanted, Unlistened, TypeOK
      <3>2. \A i \in 1 .. Len(frames) :
               frames[i].kind = "unlisten" => subscription'[frames[i].session] = "gone"
        BY <2>1, <3>1, FrameFields DEF Unlistened
      <3>3. CASE frames' = frames
        BY <3>2, <3>3 DEF Unlistened
      <3>4. CASE Write(f) /\ (f.kind = "unlisten" => subscription'[f.session] = "gone")
        <4>1. frames \in Seq(Frame)
          BY DEF TypeOK
        <4>2. QED
          BY <3>2, <3>4, <4>1, WriteFrame DEF Unlistened, Write
      <3>5. QED
        BY <1>2, <3>3, <3>4
    <2>3. QED
      BY <2>1, <2>2, OwnerAssumption DEF WatchInv, TeardownWanted, Unlistened, TypeOK
  <1>5. ClosingStages'
    BY DEF WatchInv, ClosingStages, InFlight
  <1>6. QED
    BY <1>1, <1>3, <1>4, <1>5 DEF WatchInv

LEMMA InvClientRequest ==
  ASSUME TypeOK, WatchInv, NEW r \in Request, Watch(r) \/ Unwatch(r)
  PROVE  WatchInv'
  <1> USE DEF Watch, Unwatch, registry, state, tasks
  <1>1. WatchersReachable'
    BY DEF WatchInv, WatchersReachable
  <1>2. PICK f \in Frame :
           /\ Write(f)
           /\ \/ /\ f = [kind |-> "watch", req |-> r]
                 /\ request[r] = "idle" /\ request'[r] = "watched"
              \/ /\ f = [kind |-> "unwatch", req |-> r]
                 /\ request[r] = "watched" /\ request'[r] = "unwatched"
    BY DEF Frame, TypeOK
  <1>3. RequestsOnce'
    <2>1. ~Asked("watch", r) \/ request[r] # "idle"
      BY DEF WatchInv, RequestsOnce
    <2>2. OnceEach'
      BY <1>2, <2>1, OnceWrite DEF OnceEach, WatchInv, RequestsOnce
    <2>3. \A k, q : Asked(k, q)' => Asked(k, q) \/ (f.kind = k /\ f.req = q)
      BY <1>2, AskedWrite
    <2>4. ASSUME NEW q \in Request
          PROVE  /\ Asked("watch", q)' => request'[q] # "idle" /\ watchTask'[q] = "none"
                 /\ watchTask'[q] # "none" => request'[q] # "idle"
                 /\ Asked("unwatch", q)' \/ unwatchTask'[q] # "none"
                       => request'[q] = "unwatched"
      <3>1. q # r => request'[q] = request[q]
        BY DEF TypeOK
      <3>2. /\ Asked("watch", q) => request[q] # "idle" /\ watchTask[q] = "none"
            /\ watchTask[q] # "none" => request[q] # "idle"
            /\ Asked("unwatch", q) \/ unwatchTask[q] # "none" => request[q] = "unwatched"
        BY DEF WatchInv, RequestsOnce
      <3>3. watchTask' = watchTask /\ unwatchTask' = unwatchTask
        OBVIOUS
      <3>4. CASE q = r
        BY <1>2, <2>3, <3>2, <3>3, <3>4
      <3>5. CASE q # r
        <4>1. request'[q] = request[q]
          BY <3>1, <3>5
        <4>2. f.req # q
          BY <1>2, <3>5
        <4>3. QED
          BY <2>3, <3>2, <3>3, <4>1, <4>2
      <3>6. QED
        BY <3>4, <3>5
    <2>5. QED
      BY <2>2, <2>4 DEF OnceEach, RequestsOnce
  <1>4. TeardownWanted'
    <2>1. Unlistened'
      <3>1. conn = "open" /\ subscription' = subscription /\ f.kind # "unlisten"
        BY <1>2
      <3>2. Unlistened
        BY <3>1 DEF WatchInv, TeardownWanted, Unlistened
      <3>3. Write(f) /\ frames \in Seq(Frame)
        BY <1>2 DEF TypeOK
      <3>4. QED
        BY <3>1, <3>2, <3>3, WriteFrame DEF Unlistened, Write
    <2>2. QED
      BY <2>1 DEF WatchInv, TeardownWanted, Unlistened
  <1>5. ClosingStages'
    BY DEF WatchInv, ClosingStages, InFlight
  <1>6. QED
    BY <1>1, <1>3, <1>4, <1>5 DEF WatchInv

\* What every frame read leaves in place.
LEMMA AfterRead ==
  ASSUME TypeOK, WatchInv, NEW q, Next_(q), subscription' = subscription
  PROVE  /\ conn = "open" /\ ending = {} /\ retaining = None
         /\ OnceEach' /\ Unlistened'
         /\ Head(frames) \in Frame /\ Head(frames).kind = q
         /\ \A k, r : Asked(k, r)' => Asked(k, r)
         /\ q \in {"watch", "unwatch"} => Asked(q, Head(frames).req)
         /\ q = "unlisten" => subscription[Head(frames).session] = "gone"
  <1>1. conn = "open" /\ ending = {} /\ retaining = None
    BY DEF WatchInv, ClosingStages, Next_, DispatcherFree, TypeOK
  <1>2. OnceEach /\ Unlistened
    BY <1>1 DEF WatchInv, RequestsOnce, TeardownWanted, OnceEach, Unlistened
  <1>3. OnceEach'
    BY <1>2, OnceRead
  <1>4. Unlistened'
    BY <1>2, ReadFrame DEF Unlistened, Next_, TypeOK
  <1>5. Head(frames) = frames[1] /\ 1 \in 1 .. Len(frames) /\ Head(frames) \in Frame
    BY ReadFrame DEF Next_, TypeOK
  <1>6. Head(frames).kind = q
    BY DEF Next_
  <1>7. q \in {"watch", "unwatch"} => Asked(q, Head(frames).req)
    BY <1>5, <1>6 DEF Asked
  <1>8. q = "unlisten" => subscription[Head(frames).session] = "gone"
    BY <1>2, <1>5, <1>6 DEF Unlistened
  <1>9. \A k, r : Asked(k, r)' => Asked(k, r)
    BY AskedRead
  <1>10. QED
    BY <1>1, <1>3, <1>4, <1>5, <1>6, <1>7, <1>8, <1>9

LEMMA InvDispatchSession ==
  ASSUME TypeOK, WatchInv, DispatchListen \/ DispatchUnlisten
  PROVE  WatchInv'
  <1> USE DEF DispatchListen, DispatchUnlisten, client, tasks, state
  <1> DEFINE s == Head(frames).session
  <1>1. PICK q \in {"listen", "unlisten"} : Next_(q) /\ subscription' = subscription
           /\ (q = "listen" => DispatchListen) /\ (q = "unlisten" => DispatchUnlisten)
    OBVIOUS
  <1>2. s \in Session
    BY <1>1, AfterRead, FrameFields
  <1>3. WatchersReachable'
    BY DEF WatchInv, WatchersReachable
  <1>4. RequestsOnce'
    BY <1>1, AfterRead DEF WatchInv, RequestsOnce, OnceEach
  <1>5. TeardownWanted'
    <2>1. Unlistened' /\ conn = "open" /\ (q = "unlisten" => subscription[s] = "gone")
      BY <1>1, AfterRead
    <2>2. \A t \in Session : t \in ending' \/ t = retaining' => subscription'[t] = "gone"
      BY <1>1, <2>1 DEF Entry, WatchInv, TeardownWanted
    <2>3. QED
      BY <2>1, <2>2 DEF WatchInv, TeardownWanted, Unlistened
  <1>6. ClosingStages'
    BY <1>1, AfterRead DEF WatchInv, ClosingStages, Entry
  <1>7. QED
    BY <1>3, <1>4, <1>5, <1>6 DEF WatchInv

LEMMA InvDispatchCall ==
  ASSUME TypeOK, WatchInv, DispatchWatch \/ DispatchUnwatch
  PROVE  WatchInv'
  <1> USE DEF DispatchWatch, DispatchUnwatch, client, registry, state
  <1>1. PICK q \in {"watch", "unwatch"} : Next_(q) /\ subscription' = subscription
           /\ (q = "watch" => DispatchWatch) /\ (q = "unwatch" => DispatchUnwatch)
    OBVIOUS
  <1>2. PICK r \in Request : r = Head(frames).req
    BY <1>1, AfterRead, FrameFields
  <1>3. /\ q = "watch" => request[r] # "idle" /\ watchTask[r] = "none"
        /\ q = "unwatch" => request[r] = "unwatched"
    BY <1>1, <1>2, AfterRead DEF WatchInv, RequestsOnce
  <1>4. WatchersReachable'
    BY <1>1, <1>2, <1>3 DEF WatchInv, WatchersReachable, TypeOK
  <1>5. RequestsOnce'
    <2>1. q = "watch" => ~Asked("watch", r)'
      BY <1>1, <1>2, ReadTheOnlyOne DEF WatchInv, RequestsOnce, OnceEach
    <2>2. OnceEach' /\ \A k, p : Asked(k, p)' => Asked(k, p)
      BY <1>1, AfterRead
    <2>3. ASSUME NEW p \in Request
          PROVE  /\ Asked("watch", p)' => request'[p] # "idle" /\ watchTask'[p] = "none"
                 /\ watchTask'[p] # "none" => request'[p] # "idle"
                 /\ Asked("unwatch", p)' \/ unwatchTask'[p] # "none"
                       => request'[p] = "unwatched"
      <3>1. /\ Asked("watch", p) => request[p] # "idle" /\ watchTask[p] = "none"
            /\ watchTask[p] # "none" => request[p] # "idle"
            /\ Asked("unwatch", p) \/ unwatchTask[p] # "none" => request[p] = "unwatched"
        BY DEF WatchInv, RequestsOnce
      <3>2. /\ p # r => watchTask'[p] = watchTask[p] /\ unwatchTask'[p] = unwatchTask[p]
            /\ q = "unwatch" => watchTask' = watchTask
            /\ q = "watch" => unwatchTask' = unwatchTask
            /\ request' = request
        BY <1>1, <1>2 DEF TypeOK
      <3>3. CASE p = r
        BY <1>1, <1>3, <2>1, <2>2, <3>1, <3>2, <3>3
      <3>4. CASE p # r
        BY <2>2, <3>1, <3>2, <3>4
      <3>5. QED
        BY <3>3, <3>4
    <2>4. QED
      BY <2>2, <2>3 DEF RequestsOnce, OnceEach
  <1>6. TeardownWanted'
    <2>1. Unlistened' /\ conn = "open"
      BY <1>1, AfterRead
    <2>2. \A p \in Request : watchTask'[p] = watchTask[p] \/ watchTask'[p] = "spawned"
      BY <1>1, <1>2 DEF TypeOK
    <2>3. QED
      BY <2>1, <2>2 DEF WatchInv, TeardownWanted, Unlistened
  <1>7. ClosingStages'
    BY <1>1, AfterRead DEF WatchInv, ClosingStages
  <1>8. QED
    BY <1>4, <1>5, <1>6, <1>7 DEF WatchInv

LEMMA InvTeardown ==
  ASSUME TypeOK, WatchInv, (\E s \in Session : EndSession(s)) \/ RetainWatchers
  PROVE  WatchInv'
  <1> USE DEF EndSession, RetainWatchers, Retained, client, tasks
  <1>1. WatchersReachable'
    <2>1. \A r \in watchers : Owner[r] # None
      BY OwnerAssumption, NoneAssumption DEF TypeOK
    <2>2. ASSUME NEW s \in Session, EndSession(s)
          PROVE  WatchersReachable'
      BY <2>1, <2>2 DEF WatchInv, WatchersReachable
    <2>3. CASE RetainWatchers
      BY <2>3 DEF WatchInv, WatchersReachable
    <2>4. QED
      BY <2>2, <2>3
  <1>2. RequestsOnce'
    BY DEF WatchInv, RequestsOnce, Asked
  <1>3. TeardownWanted'
    BY NoneAssumption DEF WatchInv, TeardownWanted
  <1>4. ClosingStages'
    BY DEF WatchInv, ClosingStages, DispatcherFree, InFlight
  <1>5. QED
    BY <1>1, <1>2, <1>3, <1>4 DEF WatchInv

LEMMA InvCalls ==
  ASSUME TypeOK, WatchInv, NEW r \in Request, WatchCall(r) \/ RunUnwatch(r)
  PROVE  WatchInv'
  <1> USE DEF Advance, Others, client, registry, HasSink, AfterInsert
  <1> USE DEF WatchCall, LookUpSink, Validate, Arm, InsertWatcher, CheckSession,
          RemoveWatcher, RunUnwatch
  <1>1. /\ \A p \in Request : p # r => watchTask'[p] = watchTask[p]
        /\ \A p \in Request : p # r => unwatchTask'[p] = unwatchTask[p]
        /\ InFlight(r)
        /\ watchTask'[r] # "none" => watchTask[r] # "none"
        /\ unwatchTask'[r] # "none" => unwatchTask[r] # "none"
        /\ watchTask[r] = "none" => watchTask'[r] = "none"
    BY DEF TypeOK, InFlight
  <1>2. WatchersReachable'
    <2>1. sessions' = sessions /\ retaining' = retaining
      OBVIOUS
    <2>2. ASSUME NEW p \in watchers', p # r
          PROVE  \/ Owner[p] \in sessions
                 \/ watchTask'[p] \in {"checking", "removing"}
                 \/ retaining = Owner[p]
      BY <1>1, <2>2 DEF WatchInv, WatchersReachable, TypeOK
    <2>3. ASSUME r \in watchers'
          PROVE  \/ Owner[r] \in sessions
                 \/ watchTask'[r] \in {"checking", "removing"}
                 \/ retaining = Owner[r]
      BY <2>3 DEF WatchInv, WatchersReachable, TypeOK
    <2>4. QED
      BY <2>1, <2>2, <2>3 DEF WatchersReachable
  <1>3. RequestsOnce'
    <2>1. frames' = frames /\ request' = request
      OBVIOUS
    <2>2. \A k, p : Asked(k, p)' <=> Asked(k, p)
      BY <2>1 DEF Asked
    <2>3. QED
      BY <1>1, <2>1, <2>2 DEF WatchInv, RequestsOnce
  <1>4. TeardownWanted'
    BY OwnerAssumption DEF WatchInv, TeardownWanted, TypeOK
  <1>5. ClosingStages'
    BY <1>1 DEF WatchInv, ClosingStages
  <1>6. QED
    BY <1>2, <1>3, <1>4, <1>5 DEF WatchInv

LEMMA InvClose ==
  ASSUME TypeOK, WatchInv, Close \/ Closed
  PROVE  WatchInv'
  <1> USE DEF Close, Closed, CancelAll, client, registry, state, tasks
  <1>1. WatchersReachable'
    BY DEF WatchInv, WatchersReachable
  <1>2. RequestsOnce'
    BY DEF WatchInv, RequestsOnce, Asked
  <1>3. TeardownWanted'
    BY DEF TeardownWanted
  <1>4. ClosingStages'
    BY DEF WatchInv, ClosingStages, DispatcherFree, CallsJoined, InFlight
  <1>5. QED
    BY <1>1, <1>2, <1>3, <1>4 DEF WatchInv

LEMMA InvStep ==
  ASSUME TypeOK, WatchInv, [Next]_vars
  PROVE  WatchInv'
  <1>1. CASE UNCHANGED vars
    BY <1>1 DEF vars, client, registry, state, tasks, WatchInv, WatchersReachable,
       RequestsOnce, Asked, TeardownWanted, ClosingStages, DispatcherFree, InFlight
  <1>2. CASE Client
    BY <1>2, InvClientSession, InvClientRequest DEF Client
  <1>3. CASE Dispatch
    BY <1>3, InvDispatchSession, InvDispatchCall, InvTeardown DEF Dispatch
  <1>4. QED
    BY <1>1, <1>2, <1>3, InvCalls, InvClose DEF Next

(***************************************************************************)
(* The type invariant and the strengthening hold in every reachable state  *)
(* of the channel (watch.rs, rpc.rs), for every set of sessions, requests  *)
(* and every assignment of requests to sessions.                           *)
(***************************************************************************)
THEOREM Invariant == Spec => [](TypeOK /\ WatchInv)
  <1>1. Init => TypeOK /\ WatchInv
    BY TypeInit, InvInit
  <1>2. TypeOK /\ WatchInv /\ [Next]_vars => (TypeOK /\ WatchInv)'
    BY TypeStep, InvStep DEF WatchInv
  <1>3. QED
    BY <1>1, <1>2, PTL DEF Spec

(***************************************************************************)
(* No interleaving of a watch with the end of its session, or with the     *)
(* close of the window, strands a watcher (insert_watcher, end_session).   *)
(***************************************************************************)
THEOREM NoWatcherStranded == Spec => []WatchersReachable
  BY Invariant, PTL DEF WatchInv

(***************************************************************************)
(* When Connection::close has returned, no sink and no OS watch is left.   *)
(***************************************************************************)
THEOREM NothingWatchedAfterClose == Spec => []ClosedDropsWatchers
  <1>1. TypeOK /\ WatchInv => ClosedDropsWatchers
    <2> SUFFICES ASSUME TypeOK, WatchInv, conn = "closed"
                 PROVE  sessions = {} /\ watchers = {}
      BY DEF ClosedDropsWatchers
    <2>1. registered = {} /\ ending = {} /\ retaining = None
      BY DEF WatchInv, ClosingStages, DispatcherFree
    <2>2. sessions = {}
      BY <2>1 DEF TypeOK
    <2>3. \A r \in Request : watchTask[r] \notin {"checking", "removing"}
      BY DEF WatchInv, ClosingStages, InFlight
    <2>4. \A r \in Request : Owner[r] # None
      BY OwnerAssumption, NoneAssumption
    <2>5. QED
      BY <2>1, <2>2, <2>3, <2>4 DEF WatchInv, WatchersReachable, TypeOK
  <1>2. QED
    BY <1>1, Invariant, PTL

\* Both at once: no OS watch outlives the last party that could drop it.
THEOREM NothingLeaks == Spec => []NoWatcherLeaks
  BY NoWatcherStranded, NothingWatchedAfterClose, PTL DEF NoWatcherLeaks

(***************************************************************************)
(* A watch is dropped only by its own unwatch, by its own client letting   *)
(* go of the session, or by the close of the window (retain, the re-check).*)
(***************************************************************************)
THEOREM WantedWatchersKept == Spec => KeepsWantedWatchers
  <1>1. ASSUME TypeOK, WatchInv, [Next]_vars, NEW r \in watchers \ watchers',
               request[r] # "unwatched", conn = "open"
        PROVE  subscription[Owner[r]] = "gone"
    <2>1. r \in Request
      BY <1>1 DEF TypeOK
    <2>2. CASE RetainWatchers
      BY <1>1, <2>1, <2>2, OwnerAssumption DEF RetainWatchers, Retained, WatchInv,
         TeardownWanted
    <2>3. ASSUME NEW q \in Request, RemoveWatcher(q)
          PROVE  subscription[Owner[r]] = "gone"
      BY <1>1, <2>3 DEF RemoveWatcher, Advance, WatchInv, TeardownWanted
    <2>4. ASSUME NEW q \in Request, RunUnwatch(q)
          PROVE  FALSE
      BY <1>1, <2>4 DEF RunUnwatch, WatchInv, RequestsOnce
    <2>5. CASE watchers \subseteq watchers'
      BY <1>1, <2>5
    <2>6. \/ RetainWatchers \/ (\E q \in Request : RemoveWatcher(q) \/ RunUnwatch(q))
          \/ watchers \subseteq watchers'
      BY <1>1 DEF vars, client, registry, state, tasks, Next, Client, Dispatch, WatchCall,
         Listen, Dispose, ListenAnswered, Watch, Unwatch, DispatchListen,
         DispatchUnlisten, DispatchWatch, DispatchUnwatch, EndSession, LookUpSink,
         Validate, Arm, InsertWatcher, CheckSession, Close, Closed, Others
    <2>7. QED
      BY <2>2, <2>3, <2>4, <2>5, <2>6
  <1>2. TypeOK /\ WatchInv /\ [Next]_vars =>
           [\A r \in watchers \ watchers' :
               \/ request[r] = "unwatched"
               \/ subscription[Owner[r]] = "gone"
               \/ conn # "open"]_vars
    BY <1>1
  <1>3. QED
    BY <1>2, Invariant, PTL DEF Spec, KeepsWantedWatchers

-----------------------------------------------------------------------------
(* What a watcher tells its client (FileWatcher), of any tree.              *)

\* No folder has another spelling.
FoldersSpeltOneWay ==
    \A p, q \in Paths : \A x \in Above[p] : Key[q] = Key[x] => q = x

Keys == Range(Key)
Coalescer == [list : Seq(ChangeRecord \cup {Cancelled}), at : [Keys -> Nat]]

\* A tree as a filesystem that folds case can have it.
IsTree(tree) ==
    /\ tree \subseteq Paths
    /\ \A p, q \in tree : Key[p] = Key[q] => p = q
    /\ \A p \in tree : Above[p] \subseteq tree

\* What a change makes of one tree.
Happens(before, e, after) ==
    \/ e.type = "added" /\ ~Found(e.path, before) /\ after = before \cup {e.path}
    \/ e.type = "deleted" /\ e.path \in before /\ after = before \ {e.path}
    \/ e.type = "updated" /\ e.path \in before /\ after = before

Live(co, i) == i \in DOMAIN co.list /\ co.list[i] # Cancelled

Says(co, type) ==
    {p \in Paths : \E i \in DOMAIN co.list : co.list[i] = Change(type, p)}

\* The keys stand at entries of their own.
Rooted(co) ==
    \A k \in Keys : co.at[k] # 0 => Live(co, co.at[k]) /\ Key[co.list[co.at[k]].path] = k

\* Each addition and each update has its key, too, no path is deleted twice, and
\* a deletion loses its key only to another spelling.
Indexed(co) ==
    /\ Rooted(co)
    /\ \A i \in DOMAIN co.list :
           Live(co, i) /\ co.list[i].type # "deleted" => co.at[Key[co.list[i].path]] = i
    /\ \A i, j \in DOMAIN co.list :
           /\ Live(co, i) /\ co.list[i].type = "deleted"
           /\ Live(co, j) /\ co.list[j].type = "deleted"
           /\ Key[co.list[i].path] = Key[co.list[j].path]
           => i = j
    /\ \A i \in DOMAIN co.list :
           /\ Live(co, i) /\ co.list[i].type = "deleted"
           /\ co.at[Key[co.list[i].path]] # i
           => \E q \in Paths : q # co.list[i].path /\ Key[q] = Key[co.list[i].path]

\* What a client has to read once it has the batch.
Tells(co) == Says(co, "added") \cup Says(co, "updated")

\* A batch is what parts two trees.
Parts(co, old, new) ==
    /\ Says(co, "deleted") \subseteq old
    /\ Says(co, "updated") \subseteq old \cap new
    /\ Says(co, "added") \subseteq new
    /\ \A p \in old \ Says(co, "deleted") : p \in new /\ p \notin Says(co, "added")
    /\ \A p \in new \ Says(co, "added") : p \in old /\ p \notin Says(co, "deleted")

-----------------------------------------------------------------------------
LEMMA WatchBounds ==
    /\ TreeOfPaths /\ Cancelled \notin ChangeRecord
    /\ Debounce \in Nat /\ MaxDebounce \in Nat /\ MaxChanges \in Nat /\ MaxRaw \in Nat
  BY TreeAssumption, CancelledAssumption, BoundsAssumption

LEMMA KeysOfPaths ==
    ASSUME NEW p \in Paths
    PROVE  Key[p] \in Keys
  <1> QED BY WatchBounds DEF TreeOfPaths, Keys

LEMMA ProcessCases ==
    ASSUME NEW co \in Coalescer, NEW e \in ChangeRecord,
           Rooted(co), NEW i, i = co.at[Key[e.path]]
    PROVE  /\ i \in Nat /\ Key[e.path] \in Keys
           /\ i # 0 => Live(co, i) /\ Key[co.list[i].path] = Key[e.path]
           /\ i = 0 \/ (co.list[i].path # e.path /\ e.type # "updated")
                 => Process(co, e) = Kept(co, e)
           /\ ~(i = 0 \/ (co.list[i].path # e.path /\ e.type # "updated")) =>
                IF co.list[i].type = "added" /\ e.type = "deleted"
                THEN Process(co, e) =
                       [list |-> [co.list EXCEPT ![i] = Cancelled],
                        at |-> [co.at EXCEPT ![Key[e.path]] = 0]]
                ELSE Process(co, e) =
                       [list |-> [co.list EXCEPT ![i] = Change(
                                   Net(co.list[i].type, e.type), co.list[i].path)],
                        at |-> co.at]
  <1>1. e.path \in Paths
    BY DEF ChangeRecord
  <1>2. Key[e.path] \in Keys
    BY <1>1, KeysOfPaths
  <1>3. i \in Nat
    BY <1>2 DEF Coalescer
  <1>4. i # 0 => Live(co, i) /\ Key[co.list[i].path] = Key[e.path]
    BY <1>2 DEF Rooted
  <1>5. ASSUME i # 0 PROVE co.list[i] \in [type : Type, path : Paths] /\ i \in DOMAIN co.list
    BY <1>4, <1>5 DEF Live, Coalescer, ChangeRecord
  <1>6. i = 0 \/ (co.list[i].path # e.path /\ e.type # "updated")
                 => Process(co, e) = Kept(co, e)
    BY DEF Process
  <1>7. ASSUME ~(i = 0 \/ (co.list[i].path # e.path /\ e.type # "updated")),
               co.list[i].type = "added" /\ e.type = "deleted"
        PROVE  Process(co, e) =
                        [list |-> [co.list EXCEPT ![i] = Cancelled],
                         at |-> [co.at EXCEPT ![Key[e.path]] = 0]]
    BY <1>7 DEF Process
  <1>8. ASSUME ~(i = 0 \/ (co.list[i].path # e.path /\ e.type # "updated")),
               ~(co.list[i].type = "added" /\ e.type = "deleted")
        PROVE  Process(co, e) =
                        [list |-> [co.list EXCEPT ![i] =
                                      Change(Net(co.list[i].type, e.type), co.list[i].path)],
                         at |-> co.at]
    <2>1. ASSUME NEW n
          PROVE  [co EXCEPT !.list[i].type = n] =
                   [list |-> [co.list EXCEPT ![i] = Change(n, co.list[i].path)], at |-> co.at]
      <3>1. [co EXCEPT !.list[i].type = n] =
              [co EXCEPT !.list = [co.list EXCEPT ![i] = [co.list[i] EXCEPT !.type = n]]]
        OBVIOUS
      <3>2. ASSUME NEW list PROVE [co EXCEPT !.list = list] = [list |-> list, at |-> co.at]
        BY DEF Coalescer
      <3>3. [co.list[i] EXCEPT !.type = n] = Change(n, co.list[i].path)
        <4>1. ASSUME NEW r \in [type : Type, path : Paths]
              PROVE  [r EXCEPT !.type = n] = [type |-> n, path |-> r.path]
          OBVIOUS
        <4> QED
          BY <4>1, <1>5, <1>8 DEF Change
      <3> QED
        BY <3>1, <3>2, <3>3
    <2>2. Process(co, e) =
            [co EXCEPT !.list[i].type = Net(co.list[i].type, e.type)]
      BY <1>8 DEF Process
    <2> QED
      BY <2>1, <2>2, <1>8
  <1> QED
    BY <1>2, <1>3, <1>4, <1>6, <1>7, <1>8

\* A change kept beside the others.
LEMMA KeptBeside ==
    ASSUME NEW co \in Coalescer, NEW e \in ChangeRecord
    PROVE  LET c == Kept(co, e)
           IN  /\ c \in Coalescer
               /\ DOMAIN c.list = DOMAIN co.list \cup {Len(co.list) + 1}
               /\ Len(co.list) + 1 \notin DOMAIN co.list /\ Len(co.list) + 1 \in Nat \ {0}
               /\ c.list[Len(co.list) + 1] = e
               /\ \A i \in DOMAIN co.list : c.list[i] = co.list[i]
               /\ c.at = [co.at EXCEPT ![Key[e.path]] = Len(co.list) + 1]
               /\ Live(c, Len(co.list) + 1)
               /\ \A i \in DOMAIN co.list : Live(c, i) <=> Live(co, i)
  <1> DEFINE c == Kept(co, e)
  <1>1. co.list \in Seq(ChangeRecord \cup {Cancelled}) /\ co.at \in [Keys -> Nat]
    BY DEF Coalescer
  <1>2. c.list = Append(co.list, e) /\ c.at = [co.at EXCEPT ![Key[e.path]] = Len(co.list) + 1]
    BY DEF Kept
  <1>3. c = [list |-> Append(co.list, e), at |-> [co.at EXCEPT ![Key[e.path]] = Len(co.list) + 1]]
    BY DEF Kept
  <1>4. /\ Append(co.list, e) \in Seq(ChangeRecord \cup {Cancelled})
        /\ DOMAIN Append(co.list, e) = DOMAIN co.list \cup {Len(co.list) + 1}
        /\ Len(co.list) + 1 \notin DOMAIN co.list /\ Len(co.list) + 1 \in Nat \ {0}
        /\ Append(co.list, e)[Len(co.list) + 1] = e
        /\ \A i \in DOMAIN co.list : Append(co.list, e)[i] = co.list[i]
    BY <1>1
  <1>5. [co.at EXCEPT ![Key[e.path]] = Len(co.list) + 1] \in [Keys -> Nat]
    BY <1>1, <1>4
  <1>6. c \in Coalescer
    BY <1>3, <1>4, <1>5 DEF Coalescer
  <1>7. e # Cancelled
    BY WatchBounds
  <1> QED
    BY <1>2, <1>4, <1>6, <1>7 DEF Live

LEMMA KeptSays ==
    ASSUME NEW co \in Coalescer, NEW e \in ChangeRecord
    PROVE  \A type \in Type :
             Says(Kept(co, e), type) =
               Says(co, type) \cup (IF e.type = type THEN {e.path} ELSE {})
  <1> DEFINE c == Kept(co, e)
  <1>1. e = Change(e.type, e.path) /\ e.path \in Paths /\ e.type \in Type
    BY DEF ChangeRecord, Change
  <1>2. ASSUME NEW type, NEW p PROVE e = Change(type, p) <=> e.type = type /\ e.path = p
    BY <1>1 DEF Change
  <1>3. /\ DOMAIN c.list = DOMAIN co.list \cup {Len(co.list) + 1}
        /\ c.list[Len(co.list) + 1] = e
        /\ \A i \in DOMAIN co.list : c.list[i] = co.list[i]
    BY KeptBeside
  <1>4. ASSUME NEW type, NEW p \in Paths
        PROVE  p \in Says(c, type) <=> p \in Says(co, type) \/ (e.type = type /\ e.path = p)
    BY <1>2, <1>3 DEF Says
  <1>5. ASSUME NEW type
        PROVE  Says(c, type) \subseteq Paths /\ Says(co, type) \subseteq Paths
    BY DEF Says
  <1> HIDE DEF c
  <1>6. ASSUME NEW type \in Type
        PROVE  Says(c, type) = Says(co, type) \cup (IF e.type = type THEN {e.path} ELSE {})
    BY <1>1, <1>4, <1>5
  <1> QED
    BY <1>6 DEF c

\* An entry replaced where it stands.
LEMMA Replaced ==
    ASSUME NEW co \in Coalescer, NEW i \in DOMAIN co.list,
           NEW x \in ChangeRecord \cup {Cancelled}, NEW at \in [Keys -> Nat], NEW c,
           c = [list |-> [co.list EXCEPT ![i] = x], at |-> at]
    PROVE  /\ c \in Coalescer /\ c.at = at
           /\ DOMAIN c.list = DOMAIN co.list
           /\ c.list[i] = x
           /\ \A j \in DOMAIN co.list : j # i => c.list[j] = co.list[j]
           /\ \A j \in DOMAIN co.list : j # i => (Live(c, j) <=> Live(co, j))
  <1>1. co.list \in Seq(ChangeRecord \cup {Cancelled})
    BY DEF Coalescer
  <1>2. [co.list EXCEPT ![i] = x] \in Seq(ChangeRecord \cup {Cancelled})
    BY <1>1
  <1>3. c \in Coalescer
    BY <1>2 DEF Coalescer
  <1>4. c.list = [co.list EXCEPT ![i] = x] /\ c.at = at
    OBVIOUS
  <1> QED
    BY <1>3, <1>4 DEF Live

\* An entry is what it says, and the key of an addition or an update stands at it.
LEMMA EntryNames ==
    ASSUME NEW co \in Coalescer, NEW i, Live(co, i)
    PROVE  /\ i \in Nat \ {0} /\ i \in DOMAIN co.list
           /\ co.list[i].path \in Paths /\ co.list[i].type \in Type
           /\ co.list[i] = Change(co.list[i].type, co.list[i].path)
           /\ co.list[i].path \in Says(co, co.list[i].type)
  <1>1. co.list \in Seq(ChangeRecord \cup {Cancelled}) /\ i \in DOMAIN co.list
    BY DEF Coalescer, Live
  <1>2. i \in Nat \ {0} /\ co.list[i] \in ChangeRecord
    BY <1>1 DEF Live
  <1>3. /\ co.list[i].path \in Paths /\ co.list[i].type \in Type
        /\ co.list[i] = Change(co.list[i].type, co.list[i].path)
    BY <1>2 DEF ChangeRecord, Change
  <1> QED
    BY <1>1, <1>2, <1>3 DEF Says

LEMMA Said ==
    ASSUME NEW co \in Coalescer, Indexed(co), NEW p \in Paths,
           NEW type \in Type, p \in Says(co, type)
    PROVE  \E i \in DOMAIN co.list :
              /\ co.list[i] = Change(type, p)
              /\ co.list[i].type = type /\ co.list[i].path = p
              /\ i \in Nat \ {0} /\ Live(co, i)
              /\ type # "deleted" => co.at[Key[p]] = i
  <1>1. PICK i \in DOMAIN co.list : co.list[i] = Change(type, p)
    BY DEF Says
  <1>2. Change(type, p) \in ChangeRecord
    BY DEF Change, ChangeRecord
  <1>3. Live(co, i)
    BY WatchBounds, <1>1, <1>2 DEF Live
  <1>4. co.list[i].type = type /\ co.list[i].path = p
    BY <1>1 DEF Change
  <1>5. type # "deleted" => co.at[Key[p]] = i
    BY <1>3, <1>4 DEF Indexed, Rooted
  <1> QED
    BY <1>1, <1>3, <1>4, <1>5, EntryNames

LEMMA EntrySays ==
    ASSUME NEW co \in Coalescer, Indexed(co), NEW i, Live(co, i),
           NEW x \in ChangeRecord \cup {Cancelled}, NEW at \in [Keys -> Nat],
           NEW p \in Paths, NEW type \in Type
    PROVE  p \in Says([list |-> [co.list EXCEPT ![i] = x], at |-> at], type) <=>
              \/ p \in Says(co, type) /\ co.list[i] # Change(type, p)
              \/ x = Change(type, p)
  <1> DEFINE c == [list |-> [co.list EXCEPT ![i] = x], at |-> at]
  <1>1. i \in DOMAIN co.list
    BY DEF Live
  <1>2. /\ DOMAIN c.list = DOMAIN co.list /\ c.list[i] = x
        /\ \A j \in DOMAIN co.list : j # i => c.list[j] = co.list[j]
    BY <1>1, Replaced
  <1> HIDE DEF c
  <1>3. p \in Says(c, type) <=>
           \/ \E j \in DOMAIN co.list : j # i /\ co.list[j] = Change(type, p)
           \/ x = Change(type, p)
    BY <1>1, <1>2 DEF Says
  <1>4. ASSUME NEW j \in DOMAIN co.list, co.list[j] = Change(type, p),
               co.list[i] = Change(type, p)
        PROVE  j = i
    <2>1. Change(type, p) \in ChangeRecord
      BY DEF Change, ChangeRecord
    <2>2. Live(co, j)
      BY WatchBounds, <1>4, <2>1 DEF Live
    <2>3. co.list[i].type = type /\ co.list[j].type = type
          /\ co.list[i].path = p /\ co.list[j].path = p
      BY <1>4 DEF Change
    <2> QED
      BY <1>1, <2>2, <2>3 DEF Indexed, Rooted
  <1>5. p \in Says(co, type) <=> \E j \in DOMAIN co.list : co.list[j] = Change(type, p)
    BY DEF Says
  <1> QED
    BY <1>1, <1>3, <1>4, <1>5 DEF c

\* What keeps a coalescer's keys in order.
LEMMA KeptIndexed ==
    ASSUME NEW co \in Coalescer, Indexed(co), NEW e \in ChangeRecord,
           \A i \in DOMAIN co.list :
              Live(co, i) /\ Key[co.list[i].path] = Key[e.path] =>
                 co.list[i].type = "deleted" /\ e.type # "deleted",
           co.at[Key[e.path]] # 0 => co.list[co.at[Key[e.path]]].path # e.path
    PROVE  Indexed(Kept(co, e))
  <1> DEFINE c == Kept(co, e)
             n == Len(co.list) + 1
  <1>1. /\ c \in Coalescer
        /\ DOMAIN c.list = DOMAIN co.list \cup {n}
        /\ n \notin DOMAIN co.list /\ n \in Nat \ {0} /\ c.list[n] = e /\ Live(c, n)
        /\ \A i \in DOMAIN co.list : c.list[i] = co.list[i] /\ (Live(c, i) <=> Live(co, i))
        /\ c.at = [co.at EXCEPT ![Key[e.path]] = n]
    BY KeptBeside
  <1>2. e.path \in Paths /\ Key[e.path] \in Keys /\ co.at \in [Keys -> Nat]
    BY KeysOfPaths DEF ChangeRecord, Coalescer
  <1> HIDE DEF c, n
  <1>3. ASSUME NEW k \in Keys, c.at[k] # 0
        PROVE  Live(c, c.at[k]) /\ Key[c.list[c.at[k]].path] = k
    <2>1. CASE k = Key[e.path]
      BY <1>1, <1>2, <2>1
    <2>2. CASE k # Key[e.path]
      <3>1. c.at[k] = co.at[k]
        BY <1>1, <1>2, <2>2
      <3>2. Live(co, co.at[k]) /\ Key[co.list[co.at[k]].path] = k
        BY <1>3, <3>1 DEF Indexed, Rooted
      <3>3. co.at[k] \in DOMAIN co.list
        BY <3>2 DEF Live
      <3> QED
        BY <1>1, <3>1, <3>2, <3>3
    <2> QED
      BY <2>1, <2>2
  <1>4. ASSUME NEW i \in DOMAIN c.list, Live(c, i), c.list[i].type # "deleted"
        PROVE  c.at[Key[c.list[i].path]] = i
    <2>1. CASE i = n
      BY <1>1, <1>2, <2>1
    <2>2. CASE i # n
      <3>1. i \in DOMAIN co.list /\ Live(co, i) /\ c.list[i] = co.list[i]
        BY <1>1, <1>4, <2>2
      <3>2. Key[co.list[i].path] # Key[e.path] /\ Key[co.list[i].path] \in Keys
        BY <1>4, <3>1, EntryNames, KeysOfPaths
      <3>3. co.at[Key[co.list[i].path]] = i
        BY <1>4, <3>1 DEF Indexed, Rooted
      <3> QED
        BY <1>1, <1>2, <3>1, <3>2, <3>3
    <2> QED
      BY <2>1, <2>2
  <1>5. ASSUME NEW i \in DOMAIN c.list, NEW j \in DOMAIN c.list,
               Live(c, i), c.list[i].type = "deleted", Live(c, j), c.list[j].type = "deleted",
               Key[c.list[i].path] = Key[c.list[j].path]
        PROVE  i = j
    <2>1. CASE i = n \/ j = n
      BY <1>1, <1>5, <2>1
    <2>2. CASE i # n /\ j # n
      <3>1. /\ i \in DOMAIN co.list /\ Live(co, i) /\ c.list[i] = co.list[i]
            /\ j \in DOMAIN co.list /\ Live(co, j) /\ c.list[j] = co.list[j]
        BY <1>1, <1>5, <2>2
      <3> QED
        BY <1>5, <3>1 DEF Indexed, Rooted
    <2> QED
      BY <2>1, <2>2
  <1>6. ASSUME NEW i \in DOMAIN c.list, Live(c, i), c.list[i].type = "deleted",
               c.at[Key[c.list[i].path]] # i
        PROVE  \E q \in Paths : q # c.list[i].path /\ Key[q] = Key[c.list[i].path]
    <2>1. i # n
      BY <1>1, <1>2, <1>6
    <2>2. i \in DOMAIN co.list /\ Live(co, i) /\ c.list[i] = co.list[i]
      BY <1>1, <1>6, <2>1
    <2>3. co.list[i].path \in Paths /\ Key[co.list[i].path] \in Keys
      BY <2>2, EntryNames, KeysOfPaths
    <2>4. CASE co.at[Key[co.list[i].path]] # i
      <3>1. co.list[i].type = "deleted"
        BY <1>6, <2>2
      <3>2. \E q \in Paths : q # co.list[i].path /\ Key[q] = Key[co.list[i].path]
        BY <2>2, <2>4, <3>1 DEF Indexed, Rooted
      <3> QED
        BY <2>2, <3>2
    <2>5. CASE co.at[Key[co.list[i].path]] = i
      <3>1. Key[co.list[i].path] = Key[e.path]
        BY <1>1, <1>2, <1>6, <2>2, <2>3, <2>5
      <3>2. i # 0
        BY <2>2, EntryNames
      <3> QED
        BY <1>2, <2>2, <2>5, <3>1, <3>2
    <2> QED
      BY <2>4, <2>5
  <1> QED
    BY <1>3, <1>4, <1>5, <1>6 DEF Indexed, Rooted, c

LEMMA ReplacedIndexed ==
    ASSUME NEW co \in Coalescer, Indexed(co), NEW k \in Keys,
           co.at[k] # 0, NEW x \in ChangeRecord \cup {Cancelled}, NEW c,
           c = [list |-> [co.list EXCEPT ![co.at[k]] = x],
                at |-> IF x = Cancelled THEN [co.at EXCEPT ![k] = 0] ELSE co.at],
           x # Cancelled => Key[x.path] = k,
           x # Cancelled /\ x.type = "deleted" =>
              \A i \in DOMAIN co.list :
                 i # co.at[k] /\ Live(co, i) /\ co.list[i].type = "deleted" => Key[co.list[i].path] # k
    PROVE  c \in Coalescer /\ Indexed(c)
  <1> DEFINE n == co.at[k]
  <1>1. co.at \in [Keys -> Nat] /\ c.at \in [Keys -> Nat]
    BY DEF Coalescer
  <1>2. Live(co, n) /\ n \in DOMAIN co.list /\ Key[co.list[n].path] = k
    BY DEF Indexed, Rooted, Live
  <1>3. /\ c \in Coalescer /\ DOMAIN c.list = DOMAIN co.list /\ c.list[n] = x
        /\ \A j \in DOMAIN co.list : j # n => c.list[j] = co.list[j] /\ (Live(c, j) <=> Live(co, j))
    <2> DEFINE at == c.at
               d == [list |-> [co.list EXCEPT ![n] = x], at |-> at]
    <2>1. c = d
      OBVIOUS
    <2>2. n \in DOMAIN co.list /\ at \in [Keys -> Nat]
      BY <1>1, <1>2
    <2> HIDE DEF n, at
    <2>3. /\ d \in Coalescer /\ DOMAIN d.list = DOMAIN co.list /\ d.list[n] = x
          /\ \A j \in DOMAIN co.list : j # n => d.list[j] = co.list[j] /\ (Live(d, j) <=> Live(co, j))
      BY <2>2, Replaced
    <2> HIDE DEF d
    <2> QED
      BY <2>1, <2>3
  <1>4. Live(c, n) <=> x # Cancelled
    BY <1>2, <1>3 DEF Live
  <1>5. c.at = IF x = Cancelled THEN [co.at EXCEPT ![k] = 0] ELSE co.at
    OBVIOUS
  <1>6. ASSUME NEW q \in Keys, q # k PROVE co.at[q] # n \/ co.at[q] = 0
    BY <1>2, <1>6 DEF Indexed, Rooted
  <1>7. ASSUME NEW q \in Keys, c.at[q] # 0
        PROVE  Live(c, c.at[q]) /\ Key[c.list[c.at[q]].path] = q
    <2>1. CASE q = k
      BY <1>1, <1>3, <1>4, <1>5, <1>7, <2>1
    <2>2. CASE q # k
      <3>1. c.at[q] = co.at[q] /\ co.at[q] # n
        BY <1>1, <1>5, <1>6, <1>7, <2>2
      <3>2. Live(co, co.at[q]) /\ Key[co.list[co.at[q]].path] = q
        BY <1>7, <3>1 DEF Indexed, Rooted
      <3>3. co.at[q] \in DOMAIN co.list
        BY <3>2 DEF Live
      <3> QED
        BY <1>3, <3>1, <3>2, <3>3
    <2> QED
      BY <2>1, <2>2
  <1>8. ASSUME NEW i \in DOMAIN c.list, Live(c, i), c.list[i].type # "deleted"
        PROVE  c.at[Key[c.list[i].path]] = i
    <2>1. CASE i = n
      BY <1>3, <1>4, <1>5, <1>8, <2>1
    <2>2. CASE i # n
      <3>1. Live(co, i) /\ c.list[i] = co.list[i] /\ co.at[Key[co.list[i].path]] = i
        BY <1>3, <1>8, <2>2 DEF Indexed, Rooted
      <3>2. Key[co.list[i].path] # k /\ Key[co.list[i].path] \in Keys
        BY <2>2, <3>1, EntryNames, KeysOfPaths
      <3> QED
        BY <1>1, <1>5, <3>1, <3>2
    <2> QED
      BY <2>1, <2>2
  <1>9. ASSUME NEW i \in DOMAIN c.list, NEW j \in DOMAIN c.list,
               Live(c, i), c.list[i].type = "deleted", Live(c, j), c.list[j].type = "deleted",
               Key[c.list[i].path] = Key[c.list[j].path]
        PROVE  i = j
    <2>1. CASE i # n /\ j # n
      BY <1>3, <1>9, <2>1 DEF Indexed, Rooted
    <2>2. CASE i = n \/ j = n
      BY <1>3, <1>4, <1>9, <2>2
    <2> QED
      BY <2>1, <2>2
  <1>10. ASSUME NEW i \in DOMAIN c.list, Live(c, i), c.list[i].type = "deleted",
                c.at[Key[c.list[i].path]] # i
         PROVE  \E q \in Paths : q # c.list[i].path /\ Key[q] = Key[c.list[i].path]
    <2>1. i # n
      BY <1>3, <1>4, <1>5, <1>10
    <2>2. i \in DOMAIN co.list /\ Live(co, i) /\ c.list[i] = co.list[i]
      BY <1>3, <1>10, <2>1
    <2>3. Key[co.list[i].path] \in Keys
      BY <2>2, EntryNames, KeysOfPaths
    <2>4. co.at[Key[co.list[i].path]] # i
      BY <1>1, <1>5, <1>10, <2>1, <2>2, <2>3
    <2>5. \E q \in Paths : q # co.list[i].path /\ Key[q] = Key[co.list[i].path]
      <3>1. co.list[i].type = "deleted"
        BY <1>10, <2>2
      <3> QED
        BY <2>2, <2>4, <3>1 DEF Indexed, Rooted
    <2> QED
      BY <2>2, <2>5
  <1>11. \A q \in Keys : c.at[q] # 0 => Live(c, c.at[q]) /\ Key[c.list[c.at[q]].path] = q
    BY <1>7
  <1>12. \A i \in DOMAIN c.list :
            Live(c, i) /\ c.list[i].type # "deleted" => c.at[Key[c.list[i].path]] = i
    BY <1>8
  <1> HIDE DEF n
  <1>13. \A i, j \in DOMAIN c.list :
            /\ Live(c, i) /\ c.list[i].type = "deleted"
            /\ Live(c, j) /\ c.list[j].type = "deleted"
            /\ Key[c.list[i].path] = Key[c.list[j].path]
            => i = j
    BY <1>9
  <1>14. \A i \in DOMAIN c.list :
            /\ Live(c, i) /\ c.list[i].type = "deleted"
            /\ c.at[Key[c.list[i].path]] # i
            => \E q \in Paths : q # c.list[i].path /\ Key[q] = Key[c.list[i].path]
    BY <1>10
  <1>15. Indexed(c)
    BY ONLY <1>11, <1>12, <1>13, <1>14 DEF Indexed, Rooted
  <1> QED
    BY <1>3, <1>15

-----------------------------------------------------------------------------
(* One change, processed: the batch parts the old tree from the next one.   *)

Advances(co, e, c, old, new) ==
    /\ c \in Coalescer /\ Indexed(c) /\ Parts(c, old, new)
    /\ (Tells(co) \cup {e.path}) \ (IF e.type = "deleted" THEN {e.path} ELSE {}) \subseteq Tells(c)

Merged(co, e) ==
    LET i == co.at[Key[e.path]]
    IN  [list |-> [co.list EXCEPT ![i] =
                     Change(Net(co.list[i].type, e.type), co.list[i].path)],
         at |-> co.at]

\* What the batch has for the spellings of one path.
LEMMA OfOneKey ==
    ASSUME NEW co \in Coalescer, Indexed(co), NEW p \in Paths,
           NEW old, NEW new, IsTree(old), IsTree(new), Parts(co, old, new),
           NEW j, Live(co, j), Key[co.list[j].path] = Key[p]
    PROVE  /\ co.list[j].type = "deleted" => co.list[j].path \in Says(co, "deleted") \cap old
           /\ co.list[j].type # "deleted" =>
                 co.list[j].path \in new /\ co.at[Key[p]] = j /\ j # 0
           /\ co.list[j].type = "updated" => co.list[j].path \in Says(co, "updated")
           /\ co.list[j].type = "added" => co.list[j].path \in Says(co, "added")
  <1>1. /\ j \in Nat \ {0} /\ j \in DOMAIN co.list /\ co.list[j].type \in Type
        /\ co.list[j].path \in Says(co, co.list[j].type)
    BY EntryNames
  <1> QED
    BY <1>1 DEF Indexed, Rooted, Parts, Type

LEMMA ProcessKept ==
    ASSUME NEW co \in Coalescer, Indexed(co), NEW e \in ChangeRecord,
           NEW old, NEW a, NEW b, IsTree(old), IsTree(a), IsTree(b),
           Parts(co, old, a), Happens(a, e, b), NEW i, i = co.at[Key[e.path]],
           i = 0 \/ (co.list[i].path # e.path /\ e.type # "updated")
    PROVE  Advances(co, e, Kept(co, e), old, b)
  <1> DEFINE p == e.path
             c == Kept(co, e)
             D == Says(co, "deleted")
             U == Says(co, "updated")
             N == Says(co, "added")
  <1>1. p \in Paths /\ e.type \in {"added", "updated", "deleted"}
    BY DEF ChangeRecord, Type
  <1>2. "added" \in Type /\ "updated" \in Type /\ "deleted" \in Type
    BY DEF Type
  <1>3. /\ D \subseteq old /\ U \subseteq old \cap a /\ N \subseteq a
        /\ \A q \in old \ D : q \in a /\ q \notin N
        /\ \A q \in a \ N : q \in old /\ q \notin D
    BY DEF Parts
  <1>4. ASSUME NEW j, Live(co, j), Key[co.list[j].path] = Key[p]
        PROVE  co.list[j].type = "deleted" /\ co.list[j].path \in D \cap old
    <2>1. ASSUME co.list[j].type # "deleted" PROVE FALSE
      <3>1. co.list[j].path \in a /\ co.at[Key[p]] = j /\ j # 0
        <4> HIDE DEF p, c, D, U, N
        <4> QED
          BY <1>1, <1>4, <2>1, OfOneKey
      <3>2. e.type # "updated" /\ co.list[j].path # p
        BY <3>1
      <3>3. CASE e.type = "added"
        BY <1>4, <3>1, <3>3 DEF Happens, Found
      <3>4. CASE e.type = "deleted"
        BY <1>4, <3>1, <3>2, <3>4 DEF Happens, IsTree
      <3> QED
        BY <1>1, <3>2, <3>3, <3>4
    <2> QED
      BY <1>1, <1>4, <2>1, OfOneKey
  <1>5. ASSUME NEW q \in Paths, Key[q] = Key[p] PROVE q \notin N /\ q \notin U
    BY <1>1, <1>2, <1>4, <1>5, Said
  <1>6. ASSUME NEW j, Live(co, j), Key[co.list[j].path] = Key[p]
        PROVE  e.type # "deleted"
    <2>1. SUFFICES ASSUME e.type = "deleted" PROVE FALSE
      OBVIOUS
    <2>2. p \in a /\ p \notin N
      BY <1>1, <1>5, <2>1 DEF Happens
    <2>3. p \in old /\ p \notin D
      BY <1>3, <2>2
    <2> QED
      BY <1>4, <1>6, <2>3 DEF IsTree
  <1>7. c \in Coalescer /\ Indexed(c)
    <2>1. i # 0 => co.list[i].path # e.path
      OBVIOUS
    <2>2. c \in Coalescer
      BY KeptBeside
    <2>3. \A j \in DOMAIN co.list :
             Live(co, j) /\ Key[co.list[j].path] = Key[e.path] =>
                co.list[j].type = "deleted" /\ e.type # "deleted"
      BY <1>4, <1>6
    <2> QED
      BY <2>1, <2>2, <2>3, KeptIndexed
  <1>8. /\ Says(c, "deleted") = D \cup (IF e.type = "deleted" THEN {p} ELSE {})
        /\ Says(c, "updated") = U \cup (IF e.type = "updated" THEN {p} ELSE {})
        /\ Says(c, "added") = N \cup (IF e.type = "added" THEN {p} ELSE {})
    BY <1>2, KeptSays
  <1>9. p \notin N /\ p \notin U
    BY <1>1, <1>5
  <1>10. a \subseteq Paths /\ old \subseteq Paths
    BY DEF IsTree
  <1>11. Parts(c, old, b)
    <2>1. CASE e.type = "added"
      <3>1. p \notin a /\ b = a \cup {p}
        BY <1>1, <2>1 DEF Happens, Found
      <3>2. Says(c, "deleted") = D /\ Says(c, "updated") = U /\ Says(c, "added") = N \cup {p}
        BY <1>8, <2>1
      <3> HIDE DEF c, D, U, N, p
      <3> QED
        BY <1>3, <3>1, <3>2 DEF Parts
    <2>2. CASE e.type = "deleted"
      <3>1. p \in a /\ b = a \ {p}
        BY <1>1, <2>2 DEF Happens
      <3>2. Says(c, "deleted") = D \cup {p} /\ Says(c, "updated") = U /\ Says(c, "added") = N
        BY <1>8, <2>2
      <3> HIDE DEF c, D, U, N, p
      <3> QED
        BY <1>3, <1>9, <3>1, <3>2 DEF Parts
    <2>3. CASE e.type = "updated"
      <3>1. p \in a /\ b = a
        BY <1>1, <2>3 DEF Happens
      <3>2. Says(c, "deleted") = D /\ Says(c, "updated") = U \cup {p} /\ Says(c, "added") = N
        BY <1>8, <2>3
      <3> HIDE DEF c, D, U, N, p
      <3> QED
        BY <1>3, <1>9, <3>1, <3>2 DEF Parts
    <2> QED
      BY <1>1, <2>1, <2>2, <2>3
  <1>12. (Tells(co) \cup {e.path}) \ (IF e.type = "deleted" THEN {e.path} ELSE {}) \subseteq Tells(c)
    BY <1>1, <1>8 DEF Tells
  <1> QED
    BY <1>7, <1>11, <1>12 DEF Advances

LEMMA ProcessCancels ==
    ASSUME NEW co \in Coalescer, Indexed(co), NEW e \in ChangeRecord,
           NEW old, NEW a, NEW b, IsTree(old), IsTree(a), IsTree(b),
           Parts(co, old, a), Happens(a, e, b), NEW i, i = co.at[Key[e.path]],
           i # 0, co.list[i].path = e.path, co.list[i].type = "added", e.type = "deleted",
           NEW c, c = [list |-> [co.list EXCEPT ![i] = Cancelled],
                       at |-> [co.at EXCEPT ![Key[e.path]] = 0]]
    PROVE  Advances(co, e, c, old, b)
  <1> DEFINE p == e.path
             D == Says(co, "deleted")
             U == Says(co, "updated")
             N == Says(co, "added")
  <1>1. p \in Paths /\ Key[p] \in Keys
    BY KeysOfPaths DEF ChangeRecord
  <1>2. /\ "added" \in Type /\ "updated" \in Type /\ "deleted" \in Type
        /\ [co.at EXCEPT ![Key[p]] = 0] \in [Keys -> Nat]
    BY DEF Type, Coalescer
  <1>3. /\ D \subseteq old /\ U \subseteq old \cap a /\ N \subseteq a
        /\ \A q \in old \ D : q \in a /\ q \notin N
        /\ \A q \in a \ N : q \in old /\ q \notin D
    BY DEF Parts
  <1>4. Live(co, i) /\ co.list[i] = Change("added", p) /\ p \in N
    <2>1. Live(co, i)
      BY <1>1 DEF Indexed, Rooted
    <2> QED
      BY <2>1, EntryNames
  <1>5. c \in Coalescer /\ Indexed(c)
    BY <1>1, ReplacedIndexed
  <1>6. ASSUME NEW type \in Type, NEW q \in Paths
        PROVE  q \in Says(c, type) <=> q \in Says(co, type) /\ ~(type = "added" /\ q = p)
    <2>1. Cancelled # Change(type, q)
      BY WatchBounds, <1>6 DEF Change, ChangeRecord
    <2>2. co.list[i] = Change(type, q) <=> type = "added" /\ q = p
      BY <1>4 DEF Change
    <2> QED
      BY <1>2, <1>4, <1>6, <2>1, <2>2, EntrySays
  <1>7. \A type : Says(c, type) \subseteq Paths /\ Says(co, type) \subseteq Paths
    BY DEF Says
  <1>8. Says(c, "deleted") = D /\ Says(c, "updated") = U /\ Says(c, "added") = N \ {p}
    <2>1. ASSUME NEW q \in Paths PROVE q \in Says(c, "deleted") <=> q \in D
      BY <1>2, <1>6
    <2>2. ASSUME NEW q \in Paths PROVE q \in Says(c, "updated") <=> q \in U
      BY <1>2, <1>6
    <2>3. ASSUME NEW q \in Paths PROVE q \in Says(c, "added") <=> q \in N \ {p}
      BY <1>2, <1>6
    <2>4. /\ Says(c, "deleted") \subseteq Paths /\ Says(c, "updated") \subseteq Paths
          /\ Says(c, "added") \subseteq Paths
          /\ D \subseteq Paths /\ U \subseteq Paths /\ N \subseteq Paths
      BY <1>7
    <2> HIDE DEF D, U, N, p
    <2>5. Says(c, "deleted") = D
      BY <2>1, <2>4
    <2>6. Says(c, "updated") = U
      BY <2>2, <2>4
    <2>7. Says(c, "added") = N \ {p}
      BY <2>3, <2>4
    <2> QED
      BY <2>5, <2>6, <2>7
  <1>9. p \notin U
    <2>1. SUFFICES ASSUME p \in U PROVE FALSE
      OBVIOUS
    <2>2. p \in Says(co, "updated") /\ p \in Paths /\ "updated" \in Type
      BY <1>1, <1>2, <2>1
    <2>3. i = co.at[Key[p]]
      BY <1>1
    <2> HIDE DEF p, D, U, N
    <2>4. PICK j \in DOMAIN co.list : co.list[j].type = "updated" /\ co.at[Key[p]] = j
      BY <2>2, Said
    <2> QED
      BY <2>3, <2>4
  <1>10. p \in a /\ b = a \ {p}
    BY DEF Happens
  <1> HIDE DEF D, U, N, p
  <1>11. Parts(c, old, b)
    BY <1>3, <1>4, <1>8, <1>9, <1>10 DEF Parts
  <1>12. (Tells(co) \cup {e.path}) \ (IF e.type = "deleted" THEN {e.path} ELSE {}) \subseteq Tells(c)
    BY <1>8 DEF Tells, D, U, N, p
  <1> QED
    BY <1>5, <1>11, <1>12 DEF Advances

\* An entry that becomes one of another type, of the same path.
LEMMA Retyped ==
    ASSUME NEW co \in Coalescer, Indexed(co), NEW p \in Paths,
           NEW t \in Type, NEW n \in Type,
           NEW i, i = co.at[Key[p]], i # 0, co.list[i] = Change(t, p),
           n = "deleted" =>
              \A j \in DOMAIN co.list :
                 j # i /\ Live(co, j) /\ co.list[j].type = "deleted" => Key[co.list[j].path] # Key[p],
           NEW c, c = [list |-> [co.list EXCEPT ![i] = Change(n, p)], at |-> co.at]
    PROVE  /\ c \in Coalescer /\ Indexed(c)
           /\ \A type \in Type :
                 Says(c, type) = (Says(co, type) \ (IF type = t THEN {p} ELSE {}))
                                 \cup (IF type = n THEN {p} ELSE {})
  <1> DEFINE x == Change(n, p)
  <1>1. x \in ChangeRecord /\ x.path = p /\ x.type = n
    BY DEF Change, ChangeRecord
  <1>2. x # Cancelled /\ Key[p] \in Keys /\ co.at \in [Keys -> Nat]
    BY WatchBounds, <1>1, KeysOfPaths DEF Coalescer
  <1>3. ASSUME NEW type \in Type, NEW q \in Paths
        PROVE  /\ x = Change(type, q) <=> type = n /\ q = p
               /\ co.list[i] = Change(type, q) <=> type = t /\ q = p
    BY DEF Change
  <1>4. c = [list |-> [co.list EXCEPT ![co.at[Key[p]]] = x],
             at |-> IF x = Cancelled THEN [co.at EXCEPT ![Key[p]] = 0] ELSE co.at]
    BY <1>2
  <1>5. c = [list |-> [co.list EXCEPT ![i] = x], at |-> co.at] /\ Live(co, i)
    BY <1>2 DEF Indexed, Rooted
  <1> HIDE DEF x
  <1>6. c \in Coalescer /\ Indexed(c)
    <2>1. x.type = "deleted" =>
             \A j \in DOMAIN co.list :
                j # co.at[Key[p]] /\ Live(co, j) /\ co.list[j].type = "deleted"
                   => Key[co.list[j].path] # Key[p]
      BY <1>1
    <2> QED
      BY <1>1, <1>2, <1>4, <2>1, ReplacedIndexed
  <1>7. ASSUME NEW type \in Type, NEW q \in Paths
        PROVE  q \in Says(c, type) <=>
                  \/ q \in Says(co, type) /\ ~(type = t /\ q = p)
                  \/ type = n /\ q = p
    BY <1>1, <1>2, <1>3, <1>5, EntrySays
  <1>8. ASSUME NEW type PROVE Says(c, type) \subseteq Paths /\ Says(co, type) \subseteq Paths
    BY DEF Says
  <1>9. ASSUME NEW type \in Type
        PROVE  Says(c, type) = (Says(co, type) \ (IF type = t THEN {p} ELSE {}))
                               \cup (IF type = n THEN {p} ELSE {})
    BY <1>7, <1>8
  <1> QED
    BY <1>6, <1>9

LEMMA ProcessMerges ==
    ASSUME NEW co \in Coalescer, Indexed(co), NEW e \in ChangeRecord,
           NEW old, NEW a, NEW b, IsTree(old), IsTree(a), IsTree(b),
           Parts(co, old, a), Happens(a, e, b), NEW i, i = co.at[Key[e.path]],
           i # 0, co.list[i].path = e.path \/ e.type = "updated",
           ~(co.list[i].type = "added" /\ e.type = "deleted")
    PROVE  Advances(co, e, Merged(co, e), old, b)
  <1> DEFINE c == Merged(co, e)
             p == e.path
             t == co.list[i].type
             n == Net(t, e.type)
             D == Says(co, "deleted")
             U == Says(co, "updated")
             N == Says(co, "added")
  <1>1. p \in Paths /\ Key[p] \in Keys /\ e.type \in {"added", "updated", "deleted"}
    BY KeysOfPaths DEF ChangeRecord, Type
  <1>2. /\ "added" \in Type /\ "updated" \in Type /\ "deleted" \in Type
        /\ co.at \in [Keys -> Nat]
    BY DEF Type, Coalescer
  <1>3. /\ D \subseteq old /\ U \subseteq old \cap a /\ N \subseteq a
        /\ \A q \in old \ D : q \in a /\ q \notin N
        /\ \A q \in a \ N : q \in old /\ q \notin D
    BY DEF Parts
  <1>4. /\ Live(co, i) /\ Key[co.list[i].path] = Key[p] /\ i \in DOMAIN co.list
        /\ co.list[i].path \in Paths /\ t \in {"added", "updated", "deleted"}
        /\ co.list[i] = Change(t, co.list[i].path) /\ co.list[i].path \in Says(co, t)
    <2>1. Live(co, i) /\ Key[co.list[i].path] = Key[p]
      BY <1>1 DEF Indexed, Rooted
    <2> QED
      BY <2>1, EntryNames DEF Type
  <1>5. ASSUME NEW q \in Paths, Key[q] = Key[p]
        PROVE  (q \in N => t = "added") /\ (q \in U => t = "updated")
    <2>1. ASSUME q \in N PROVE t = "added"
      BY <1>2, <1>5, <2>1, Said
    <2>2. ASSUME q \in U PROVE t = "updated"
      BY <1>2, <1>5, <2>2, Said
    <2> QED
      BY <2>1, <2>2
  \* The entry is of the same path: the disk has only one spelling.
  <1>6. co.list[i].path = p
    <2>1. SUFFICES ASSUME e.type = "updated", co.list[i].path # p PROVE FALSE
      OBVIOUS
    <2>2. p \in a
      BY <2>1 DEF Happens
    <2>3. co.list[i].type # "deleted" => co.list[i].path \in a
      BY <1>1, <1>4, OfOneKey
    <2>4. co.list[i].type = "deleted"
      BY <1>4, <2>1, <2>2, <2>3 DEF IsTree
    <2>5. p \notin N
      BY <1>1, <1>5, <2>4
    <2>6. p \in old /\ co.list[i].path \in old
      BY <1>3, <1>4, <2>2, <2>4, <2>5
    <2> QED
      BY <1>4, <2>1, <2>6 DEF IsTree
  \* Which pairs there are.
  <1>7. \/ e.type = "updated" /\ n = t /\ t # "deleted" /\ b = a
        \/ e.type = "added" /\ n = "updated" /\ t = "deleted" /\ b = a \cup {p} /\ p \notin a
        \/ e.type = "deleted" /\ n = "deleted" /\ t = "updated" /\ b = a \ {p}
    <2>1. t = "deleted" => p \notin a
      BY <1>1, <1>3, <1>4, <1>5, <1>6
    <2>2. t # "deleted" => p \in a
      BY <1>3, <1>4, <1>6
    <2>3. CASE e.type = "updated"
      BY <1>4, <2>1, <2>3 DEF Happens, Net
    <2>4. CASE e.type = "added"
      <3>1. p \notin a /\ b = a \cup {p}
        BY <1>1, <2>4 DEF Happens, Found
      <3> QED
        BY <2>2, <2>4, <3>1 DEF Net
    <2>5. CASE e.type = "deleted"
      BY <1>4, <2>1, <2>5 DEF Happens, Net
    <2> QED
      BY <1>1, <2>3, <2>4, <2>5
  <1>8. n \in Type /\ t \in Type
    <2>1. t \in Type
      BY <1>4 DEF Type
    <2> HIDE DEF n, t
    <2> QED
      BY <1>2, <1>7, <2>1
  <1>9. p \in Says(co, t) /\ (p \in N => t = "added") /\ (p \in U => t = "updated")
    BY <1>1, <1>4, <1>5, <1>6
  <1>10. c = [list |-> [co.list EXCEPT ![i] = Change(n, p)], at |-> co.at]
    BY <1>6 DEF Merged
  <1>11. ASSUME n = "deleted",
                NEW j \in DOMAIN co.list, j # i, Live(co, j), co.list[j].type = "deleted"
         PROVE  Key[co.list[j].path] # Key[p]
    <2>1. SUFFICES ASSUME Key[co.list[j].path] = Key[p] PROVE FALSE
      OBVIOUS
    <2>2. co.list[j].path \in D \cap old
      BY <1>1, <1>11, <2>1, OfOneKey
    <2>3. t = "updated" /\ p \in U
      BY <1>4, <1>6, <1>7, <1>11
    <2>4. p \in old /\ p \in a /\ p \notin N
      BY <1>1, <1>3, <1>5, <2>3
    <2>5. p \notin D
      BY <1>3, <2>4
    <2> QED
      BY <2>1, <2>2, <2>4, <2>5 DEF IsTree
  <1>12. co.list[i] = Change(t, p)
    BY <1>4, <1>6
  <1> HIDE DEF n, t, c
  <1>13. /\ c \in Coalescer /\ Indexed(c)
         /\ \A type \in Type :
               Says(c, type) = (Says(co, type) \ (IF type = t THEN {p} ELSE {}))
                               \cup (IF type = n THEN {p} ELSE {})
    <2>1. n = "deleted" =>
             \A j \in DOMAIN co.list :
                j # i /\ Live(co, j) /\ co.list[j].type = "deleted" => Key[co.list[j].path] # Key[p]
      BY <1>11
    <2>2. i = co.at[Key[p]] /\ i # 0
      OBVIOUS
    <2> HIDE DEF p
    <2> QED
      BY <1>1, <1>8, <1>10, <1>12, <2>1, <2>2, Retyped
  <1>14. /\ Says(c, "deleted") = (D \ (IF t = "deleted" THEN {p} ELSE {})) \cup (IF n = "deleted" THEN {p} ELSE {})
         /\ Says(c, "updated") = (U \ (IF t = "updated" THEN {p} ELSE {})) \cup (IF n = "updated" THEN {p} ELSE {})
         /\ Says(c, "added") = (N \ (IF t = "added" THEN {p} ELSE {})) \cup (IF n = "added" THEN {p} ELSE {})
    BY <1>2, <1>13
  <1>15. Parts(c, old, b)
    <2>1. CASE n = t /\ t # "deleted" /\ b = a
      <3>1. Says(c, "deleted") = D /\ Says(c, "updated") = U /\ Says(c, "added") = N
        <4>1. CASE t = "added"
          <5>1. p \in N
            BY <1>9, <4>1
          <5> HIDE DEF D, U, N, p
          <5>2. (N \ {p}) \cup {p} = N
            BY <5>1
          <5>3. \A S : (S \ {}) \cup {} = S
            OBVIOUS
          <5> QED
            BY <1>14, <2>1, <4>1, <5>2, <5>3
        <4>2. CASE t = "updated"
          <5>1. p \in U
            BY <1>9, <4>2
          <5> HIDE DEF D, U, N, p
          <5>2. (U \ {p}) \cup {p} = U
            BY <5>1
          <5>3. \A S : (S \ {}) \cup {} = S
            OBVIOUS
          <5> QED
            BY <1>14, <2>1, <4>2, <5>2, <5>3
        <4> QED
          BY <1>8, <2>1, <4>1, <4>2 DEF Type
      <3> QED
        BY <2>1, <3>1 DEF Parts
    <2>2. CASE n = "updated" /\ t = "deleted" /\ b = a \cup {p} /\ p \notin a
      <3>1. Says(c, "deleted") = D \ {p} /\ Says(c, "updated") = U \cup {p} /\ Says(c, "added") = N
        BY <1>14, <2>2
      <3>2. p \in D
        BY <1>9, <2>2
      <3> HIDE DEF D, U, N, p
      <3>3. D \ {p} \subseteq old /\ U \cup {p} \subseteq old \cap b /\ N \subseteq b
        BY <1>3, <2>2, <3>2
      <3>4. \A q \in old \ (D \ {p}) : q \in b /\ q \notin N
        BY <1>3, <2>2, <3>2
      <3>5. \A q \in b \ N : q \in old /\ q \notin D \ {p}
        BY <1>3, <2>2, <3>2
      <3> QED
        BY <3>1, <3>3, <3>4, <3>5 DEF Parts
    <2>3. CASE n = "deleted" /\ t = "updated" /\ b = a \ {p}
      <3>1. Says(c, "deleted") = D \cup {p} /\ Says(c, "updated") = U \ {p} /\ Says(c, "added") = N
        BY <1>14, <2>3
      <3>2. p \in U /\ p \notin N
        BY <1>9, <2>3
      <3> HIDE DEF D, U, N, p
      <3> QED
        BY <1>3, <2>3, <3>1, <3>2 DEF Parts
    <2> QED
      BY <1>7, <2>1, <2>2, <2>3
  <1>16. (Tells(co) \cup {e.path}) \ (IF e.type = "deleted" THEN {e.path} ELSE {}) \subseteq Tells(c)
    <2>1. \/ e.type = "updated" /\ n = t /\ t # "deleted"
          \/ e.type = "added" /\ n = "updated" /\ t = "deleted"
          \/ e.type = "deleted" /\ n = "deleted" /\ t = "updated"
      BY <1>7
    <2>2. t \in {"added", "updated", "deleted"}
      BY <1>8 DEF Type
    <2> HIDE DEF D, U, N
    <2>3. Tells(co) = N \cup U /\ Tells(c) = Says(c, "added") \cup Says(c, "updated")
      BY DEF Tells, N, U
    <2> QED
      BY <1>14, <2>1, <2>2, <2>3
  <1> QED
    BY <1>13, <1>15, <1>16 DEF Advances, c

LEMMA ProcessParts ==
    ASSUME NEW co \in Coalescer, Indexed(co), NEW e \in ChangeRecord,
           NEW old, NEW a, NEW b, IsTree(old), IsTree(a), IsTree(b),
           Parts(co, old, a), Happens(a, e, b)
    PROVE  Advances(co, e, Process(co, e), old, b)
  <1> DEFINE i == co.at[Key[e.path]]
  <1>0. Rooted(co)
    BY DEF Indexed
  <1>1. CASE i = 0 \/ (co.list[i].path # e.path /\ e.type # "updated")
    BY <1>1, <1>0, ProcessCases, ProcessKept
  <1>2. CASE ~(i = 0 \/ (co.list[i].path # e.path /\ e.type # "updated"))
    <2>1. CASE co.list[i].type = "added" /\ e.type = "deleted"
      <3> DEFINE c == [list |-> [co.list EXCEPT ![i] = Cancelled],
                       at |-> [co.at EXCEPT ![Key[e.path]] = 0]]
      <3>1. i # 0 /\ co.list[i].path = e.path
        BY <1>2, <2>1
      <3>2. Process(co, e) = c
        BY <1>0, <1>2, <2>1, ProcessCases
      <3>3. Advances(co, e, c, old, b)
        BY <2>1, <3>1, ProcessCancels
      <3> HIDE DEF c
      <3> QED
        BY <3>2, <3>3
    <2>2. CASE ~(co.list[i].type = "added" /\ e.type = "deleted")
      <3>1. i # 0 /\ (co.list[i].path = e.path \/ e.type = "updated")
        BY <1>2
      <3>2. Process(co, e) = Merged(co, e)
        BY <1>0, <1>2, <2>2, ProcessCases DEF Merged
      <3> QED
        BY <2>2, <3>1, <3>2, ProcessMerges
    <2> QED
      BY <2>1, <2>2
  <1> QED
    BY <1>1, <1>2

-----------------------------------------------------------------------------
(* The batch, handed on: with a folder goes what is in it, and nothing else. *)

Dropped(co) ==
    {p \in Says(co, "deleted") : \A x \in Says(co, "deleted") : ~Within(p, x)}

\* A path that a batch deletes and adds has another spelling.
LEMMA DeletedAndAdded ==
    ASSUME NEW co \in Coalescer, Indexed(co), NEW p \in Paths,
           p \in Says(co, "deleted"), p \in Says(co, "added")
    PROVE  \E q \in Paths : q # p /\ Key[q] = Key[p]
  <1>1. "deleted" \in Type /\ "added" \in Type
    BY DEF Type
  <1>2. PICK i \in DOMAIN co.list :
           co.list[i].type = "deleted" /\ co.list[i].path = p /\ Live(co, i)
    BY <1>1, Said
  <1>3. PICK j \in DOMAIN co.list :
           co.list[j].type = "added" /\ co.at[Key[p]] = j
    BY <1>1, Said
  <1>4. co.at[Key[p]] # i
    BY <1>2, <1>3
  <1> QED
    BY <1>2, <1>4 DEF Indexed, Rooted

LEMMA BatchApplied ==
    ASSUME FoldersSpeltOneWay, NEW co \in Coalescer, Indexed(co),
           NEW old, NEW new, IsTree(old), IsTree(new), Parts(co, old, new)
    PROVE  /\ {p \in old : p \notin Dropped(co) /\ ~\E q \in Dropped(co) : Within(p, q)}
                 \cup Says(co, "added") = new
           /\ Dropped(co) \subseteq old
           /\ Says(co, "added") \cap (old \ Dropped(co)) = {}
           /\ Says(co, "updated") \subseteq old \ Dropped(co)
  <1> DEFINE D == Says(co, "deleted")
             U == Says(co, "updated")
             N == Says(co, "added")
             gone == Dropped(co)
  <1>1. /\ D \subseteq old /\ U \subseteq old \cap new /\ N \subseteq new
        /\ \A q \in old \ D : q \in new /\ q \notin N
        /\ \A q \in new \ N : q \in old /\ q \notin D
    BY DEF Parts
  <1>2. /\ old \subseteq Paths /\ new \subseteq Paths /\ D \subseteq Paths
        /\ \A p \in old : Above[p] \subseteq old
        /\ \A p \in new : Above[p] \subseteq new
    BY DEF IsTree, Says
  <1>3. ASSUME NEW p \in Paths, NEW q \in Paths
        PROVE  Within(p, q) <=> q \in Above[p]
    BY DEF FoldersSpeltOneWay, Within
  <1>4. gone = {p \in D : \A x \in D : x \notin Above[p]}
    BY <1>2, <1>3 DEF Dropped
  \* A folder that is deleted and added would have two spellings.
  <1>5. ASSUME NEW p \in Paths, NEW x \in Above[p] \cap D PROVE x \notin new
    <2>1. SUFFICES ASSUME x \in new PROVE FALSE
      OBVIOUS
    <2>2. x \in Paths /\ x \in N
      BY <1>1, <1>2, <2>1
    <2>3. PICK q \in Paths : q # x /\ Key[q] = Key[x]
      BY <2>2, DeletedAndAdded
    <2> QED
      BY <2>3 DEF FoldersSpeltOneWay
  <1>6. ASSUME NEW p \in new PROVE p \notin gone \/ p \in N
    BY <1>1, <1>4
  <1>7. ASSUME NEW p \in new, NEW q \in gone PROVE ~Within(p, q)
    BY <1>2, <1>3, <1>4, <1>5
  <1>8. ASSUME NEW p \in D, p \notin gone
        PROVE  \E q \in gone : q \in Above[p]
    <2> DEFINE S == Above[p] \cap D
    <2>1. p \in Paths /\ S \in SUBSET Paths /\ S # {}
      BY WatchBounds, <1>2, <1>4, <1>8 DEF TreeOfPaths
    <2>2. PICK q \in S : Above[q] \cap S = {}
      BY WatchBounds, <2>1 DEF TreeOfPaths
    <2>3. q \in Paths /\ Above[q] \subseteq Above[p]
      BY WatchBounds, <1>2, <2>1 DEF TreeOfPaths
    <2>4. q \in gone
      BY <1>4, <2>2, <2>3
    <2> QED
      BY <2>4
  <1>9. ASSUME NEW p \in D, p \notin gone PROVE p \notin new
    BY <1>2, <1>3, <1>7, <1>8, <1>9, <1>4
  <1>10. ASSUME NEW p \in old, p \notin gone, ~\E q \in gone : Within(p, q)
         PROVE  p \in new
    <2>1. p \notin D
      BY <1>2, <1>3, <1>4, <1>8, <1>10
    <2> QED
      BY <1>1, <2>1
  <1>11. ASSUME NEW p \in new, p \notin N
         PROVE  p \in old /\ p \notin gone /\ ~\E q \in gone : Within(p, q)
    BY <1>1, <1>6, <1>7, <1>11
  <1>12. gone \subseteq old
    BY <1>1, <1>4
  <1>13. N \cap (old \ gone) = {}
    BY <1>1, <1>9
  <1>14. U \subseteq old \ gone
    <2>1. SUFFICES ASSUME NEW p \in U, p \in gone PROVE FALSE
      BY <1>1
    <2>2. p \in new /\ p \in N /\ p \in Paths
      BY <1>1, <1>2, <1>6, <2>1
    <2>3. "updated" \in Type /\ "added" \in Type
      BY DEF Type
    <2>4. co.list[co.at[Key[p]]].type = "updated"
      BY <2>1, <2>2, <2>3, Said
    <2>5. co.list[co.at[Key[p]]].type = "added"
      BY <2>2, <2>3, Said
    <2> QED
      BY <2>4, <2>5
  <1> HIDE DEF D, U, N, gone
  <1>15. {p \in old : p \notin gone /\ ~\E q \in gone : Within(p, q)} \cup N = new
    BY <1>1, <1>10, <1>11
  <1> QED
    BY <1>12, <1>13, <1>14, <1>15 DEF D, U, N, gone

-----------------------------------------------------------------------------
(* What goes or comes with its folder is not told.  Of the other paths a    *)
(* coalescer holds as much as it would without the untold ones.             *)

\* Some paths with every spelling of theirs and every folder they are in.
Whole(U) ==
    /\ U \subseteq Paths
    /\ \A p \in U : Above[p] \subseteq U
    /\ \A p \in U, q \in Paths : Key[q] = Key[p] => q \in U

KeysOf(U) == {Key[p] : p \in U}

Holds(co, i, U) == Live(co, i) /\ co.list[i].path \in U

Masked(co, U) ==
    [list |-> [i \in DOMAIN co.list |-> IF Holds(co, i, U) THEN co.list[i] ELSE Cancelled],
     at |-> [k \in Keys |-> IF k \in KeysOf(U) THEN co.at[k] ELSE 0]]

LEMMA LostWhole ==
    ASSUME NEW L, NEW U, U = {p \in Paths : \A x \in Above[p] \cup {p} : Key[x] \notin L}
    PROVE  Whole(U)
  <1>1. ASSUME NEW p \in U, NEW q \in Above[p] PROVE q \in U
    BY WatchBounds, <1>1 DEF TreeOfPaths
  <1>2. ASSUME NEW p \in U, NEW q \in Paths, Key[q] = Key[p] PROVE q \in U
    <2>1. ASSUME NEW x \in Above[q] \cup {q} PROVE Key[x] \notin L
      <3>1. CASE x = q
        BY <1>2, <3>1
      <3>2. CASE x \in Above[q]
        <4>1. PICK y \in Above[p] : Key[y] = Key[x]
          BY WatchBounds, <1>2, <3>2 DEF TreeOfPaths
        <4> QED
          BY <4>1
      <3> QED
        BY <3>1, <3>2
    <2> QED
      BY <2>1
  <1> QED
    BY <1>1, <1>2 DEF Whole

LEMMA KnownWhole == Whole(Known)
  BY LostWhole DEF Known

LEMMA KeyIn ==
    ASSUME NEW U, Whole(U), NEW p \in Paths
    PROVE  Key[p] \in KeysOf(U) <=> p \in U
  <1> QED
    BY DEF Whole, KeysOf

LEMMA MaskedFields ==
    ASSUME NEW co \in Coalescer, NEW U
    PROVE  LET m == Masked(co, U)
           IN  /\ m \in Coalescer /\ DOMAIN m.list = DOMAIN co.list
               /\ \A i \in DOMAIN co.list :
                     m.list[i] = IF Holds(co, i, U) THEN co.list[i] ELSE Cancelled
               /\ \A i : Live(m, i) <=> Holds(co, i, U)
               /\ \A k \in Keys : m.at[k] = IF k \in KeysOf(U) THEN co.at[k] ELSE 0
  <1> DEFINE m == Masked(co, U)
             n == Len(co.list)
  <1>1. /\ co.list \in Seq(ChangeRecord \cup {Cancelled}) /\ co.at \in [Keys -> Nat]
        /\ n \in Nat /\ DOMAIN co.list = 1..n
    BY DEF Coalescer
  <1>2. /\ DOMAIN m.list = 1..n
        /\ \A i \in 1..n : m.list[i] = IF Holds(co, i, U) THEN co.list[i] ELSE Cancelled
        /\ m.at = [k \in Keys |-> IF k \in KeysOf(U) THEN co.at[k] ELSE 0]
    BY <1>1 DEF Masked
  <1>3. m.list \in Seq(ChangeRecord \cup {Cancelled})
    <2>1. m.list \in [1..n -> ChangeRecord \cup {Cancelled}]
      BY <1>1 DEF Masked
    <2> HIDE DEF m
    <2> QED
      BY <1>1, <2>1
  <1>4. m.at \in [Keys -> Nat] /\ m = [list |-> m.list, at |-> m.at]
    BY <1>1, <1>2 DEF Masked
  <1>5. m \in Coalescer
    <2> HIDE DEF m
    <2> QED
      BY <1>3, <1>4 DEF Coalescer
  <1> HIDE DEF m
  <1>6. ASSUME NEW i PROVE Live(m, i) <=> Holds(co, i, U)
    BY <1>1, <1>2 DEF Live, Holds
  <1> QED
    BY <1>1, <1>2, <1>5, <1>6 DEF m

LEMMA SaysMasked ==
    ASSUME NEW co \in Coalescer, NEW U, NEW type \in Type
    PROVE  Says(Masked(co, U), type) = Says(co, type) \cap U
  <1> DEFINE m == Masked(co, U)
  <1>1. /\ DOMAIN m.list = DOMAIN co.list
        /\ \A i \in DOMAIN co.list : m.list[i] = IF Holds(co, i, U) THEN co.list[i] ELSE Cancelled
    BY MaskedFields
  <1> HIDE DEF m
  <1>2. ASSUME NEW p \in Paths, NEW i \in DOMAIN co.list
        PROVE  m.list[i] = Change(type, p) <=> co.list[i] = Change(type, p) /\ p \in U
    <2>1. Change(type, p) # Cancelled /\ Change(type, p).path = p
      BY WatchBounds DEF Change, ChangeRecord
    <2> QED
      BY <1>1, <2>1 DEF Holds, Live
  <1> QED
    BY <1>1, <1>2 DEF Says, m

LEMMA TellsMasked ==
    ASSUME NEW co \in Coalescer, NEW U
    PROVE  Tells(Masked(co, U)) = Tells(co) \cap U
  <1>1. "added" \in Type /\ "updated" \in Type
    BY DEF Type
  <1> QED
    BY <1>1, SaysMasked DEF Tells

LEMMA MaskedRooted ==
    ASSUME NEW co \in Coalescer, Rooted(co), NEW U, Whole(U)
    PROVE  Rooted(Masked(co, U))
  <1> DEFINE m == Masked(co, U)
  <1> SUFFICES ASSUME NEW k \in Keys, m.at[k] # 0
               PROVE  Live(m, m.at[k]) /\ Key[m.list[m.at[k]].path] = k
    BY DEF Rooted
  <1>1. k \in KeysOf(U) /\ m.at[k] = co.at[k]
    BY MaskedFields
  <1>2. Live(co, co.at[k]) /\ Key[co.list[co.at[k]].path] = k
    BY <1>1 DEF Rooted
  <1>3. co.list[co.at[k]].path \in U
    BY <1>1, <1>2, EntryNames, KeyIn
  <1> QED
    BY <1>1, <1>2, <1>3, MaskedFields DEF Holds, Live

\* Fewer paths, and what holds of their entries still does.
LEMMA MaskedIndexed ==
    ASSUME NEW co \in Coalescer, NEW U, Whole(U), NEW W, Whole(W), W \subseteq U,
           Indexed(Masked(co, U))
    PROVE  Indexed(Masked(co, W))
  <1> DEFINE m == Masked(co, U)
             w == Masked(co, W)
  <1>1. /\ m \in Coalescer /\ w \in Coalescer
        /\ DOMAIN m.list = DOMAIN co.list /\ DOMAIN w.list = DOMAIN co.list
        /\ \A i : Live(w, i) => Live(m, i) /\ w.list[i] = m.list[i] /\ w.list[i].path \in W
        /\ \A i : Live(m, i) /\ m.list[i].path \in W => Live(w, i) /\ w.list[i] = m.list[i]
        /\ \A k \in KeysOf(W) : k \in Keys => w.at[k] = m.at[k]
        /\ \A k \in Keys \ KeysOf(W) : w.at[k] = 0
    <2>1. KeysOf(W) \subseteq KeysOf(U)
      BY DEF KeysOf
    <2>2. \A i : Live(w, i) => i \in DOMAIN co.list
      BY MaskedFields DEF Holds, Live
    <2> QED
      BY <2>1, <2>2, MaskedFields DEF Holds, Live
  <1> HIDE DEF m, w
  <1>2. ASSUME NEW i, Live(w, i)
        PROVE  w.list[i].path \in Paths /\ Key[w.list[i].path] \in Keys \cap KeysOf(W)
    BY <1>1, <1>2, EntryNames, KeyIn, KeysOfPaths
  <1>3. Rooted(w)
    <2> SUFFICES ASSUME NEW k \in Keys, w.at[k] # 0
                 PROVE  Live(w, w.at[k]) /\ Key[w.list[w.at[k]].path] = k
      BY DEF Rooted
    <2>1. k \in KeysOf(W) /\ w.at[k] = m.at[k]
      BY <1>1
    <2>2. Live(m, m.at[k]) /\ Key[m.list[m.at[k]].path] = k
      BY <2>1 DEF Indexed, Rooted, m
    <2>3. m.list[m.at[k]].path \in W
      BY <1>1, <2>1, <2>2, EntryNames, KeyIn
    <2> QED
      BY <1>1, <2>1, <2>2, <2>3
  <1>4. ASSUME NEW i \in DOMAIN w.list, Live(w, i), w.list[i].type # "deleted"
        PROVE  w.at[Key[w.list[i].path]] = i
    BY <1>1, <1>2, <1>4 DEF Indexed, m
  <1>5. ASSUME NEW i \in DOMAIN w.list, NEW j \in DOMAIN w.list,
               Live(w, i), w.list[i].type = "deleted", Live(w, j), w.list[j].type = "deleted",
               Key[w.list[i].path] = Key[w.list[j].path]
        PROVE  i = j
    BY <1>1, <1>5 DEF Indexed, m
  <1>6. ASSUME NEW i \in DOMAIN w.list, Live(w, i), w.list[i].type = "deleted",
               w.at[Key[w.list[i].path]] # i
        PROVE  \E q \in Paths : q # w.list[i].path /\ Key[q] = Key[w.list[i].path]
    <2>1. m.at[Key[m.list[i].path]] # i /\ Live(m, i) /\ m.list[i].type = "deleted" /\ i \in DOMAIN m.list
      BY <1>1, <1>2, <1>6
    <2> QED
      BY <1>1, <1>6, <2>1 DEF Indexed, m
  <1> QED
    BY <1>3, <1>4, <1>5, <1>6 DEF Indexed, w

LEMMA ProcessRooted ==
    ASSUME NEW co \in Coalescer, Rooted(co), NEW e \in ChangeRecord
    PROVE  Process(co, e) \in Coalescer /\ Rooted(Process(co, e))
  <1> DEFINE i == co.at[Key[e.path]]
             c == Process(co, e)
  <1>1. e.path \in Paths /\ Key[e.path] \in Keys /\ co.at \in [Keys -> Nat]
    BY KeysOfPaths DEF ChangeRecord, Coalescer
  <1>2. CASE i = 0 \/ (co.list[i].path # e.path /\ e.type # "updated")
    <2> DEFINE n == Len(co.list) + 1
    <2>1. c = Kept(co, e)
      BY <1>2, ProcessCases
    <2>2. /\ c \in Coalescer /\ Live(c, n) /\ c.list[n] = e
          /\ \A j \in DOMAIN co.list : c.list[j] = co.list[j] /\ (Live(c, j) <=> Live(co, j))
          /\ c.at = [co.at EXCEPT ![Key[e.path]] = n]
      BY <2>1, KeptBeside
    <2> HIDE DEF c, n
    <2>3. ASSUME NEW k \in Keys, c.at[k] # 0
          PROVE  Live(c, c.at[k]) /\ Key[c.list[c.at[k]].path] = k
      <3>1. CASE k = Key[e.path]
        BY <1>1, <2>2, <3>1
      <3>2. CASE k # Key[e.path]
        <4>1. c.at[k] = co.at[k] /\ Live(co, co.at[k]) /\ Key[co.list[co.at[k]].path] = k
          BY <1>1, <2>2, <2>3, <3>2 DEF Rooted
        <4> QED
          BY <2>2, <4>1 DEF Live
      <3> QED
        BY <3>1, <3>2
    <2> QED
      BY <2>2, <2>3 DEF Rooted, c
  <1>3. CASE ~(i = 0 \/ (co.list[i].path # e.path /\ e.type # "updated"))
    <2> DEFINE x == IF co.list[i].type = "added" /\ e.type = "deleted" THEN Cancelled
                    ELSE Change(Net(co.list[i].type, e.type), co.list[i].path)
               at == IF co.list[i].type = "added" /\ e.type = "deleted"
                     THEN [co.at EXCEPT ![Key[e.path]] = 0] ELSE co.at
    <2>1. /\ c = [list |-> [co.list EXCEPT ![i] = x], at |-> at]
          /\ i # 0 /\ Live(co, i) /\ Key[co.list[i].path] = Key[e.path]
      BY <1>3, ProcessCases
    <2>2. x \in ChangeRecord \cup {Cancelled} /\ at \in [Keys -> Nat]
      <3>1. co.list[i].type \in Type /\ co.list[i].path \in Paths /\ e.type \in Type
        BY <2>1, EntryNames DEF ChangeRecord
      <3> QED
        BY <1>1, <3>1 DEF Change, ChangeRecord, Net, Type
    <2>3. x # Cancelled => x.path = co.list[i].path /\ at = co.at
      BY DEF Change
    <2>4. x = Cancelled => at = [co.at EXCEPT ![Key[e.path]] = 0]
      <3>1. co.list[i].type \in Type /\ co.list[i].path \in Paths /\ e.type \in Type
        BY <2>1, EntryNames DEF ChangeRecord
      <3>2. Net(co.list[i].type, e.type) \in Type
        BY <3>1 DEF Net, Type
      <3>3. Change(Net(co.list[i].type, e.type), co.list[i].path) \in ChangeRecord
        BY <3>1, <3>2 DEF Change, ChangeRecord
      <3>4. Change(Net(co.list[i].type, e.type), co.list[i].path) # Cancelled
        BY WatchBounds, <3>3
      <3> QED
        BY <3>4
    <2> HIDE DEF x, at, c
    <2>5. /\ c \in Coalescer /\ c.at = at /\ c.list[i] = x
          /\ \A j \in DOMAIN co.list : j # i => c.list[j] = co.list[j] /\ (Live(c, j) <=> Live(co, j))
          /\ i \in DOMAIN co.list /\ DOMAIN c.list = DOMAIN co.list
      <3>1. i \in DOMAIN co.list
        BY <2>1 DEF Live
      <3> HIDE DEF i
      <3>2. /\ c \in Coalescer /\ c.at = at /\ c.list[i] = x /\ DOMAIN c.list = DOMAIN co.list
            /\ \A j \in DOMAIN co.list : j # i => c.list[j] = co.list[j]
            /\ \A j \in DOMAIN co.list : j # i => (Live(c, j) <=> Live(co, j))
        BY <2>1, <2>2, <3>1, Replaced
      <3> QED
        BY <3>1, <3>2
    <2>6. ASSUME NEW k \in Keys, c.at[k] # 0
          PROVE  Live(c, c.at[k]) /\ Key[c.list[c.at[k]].path] = k
      <3>1. c.at[k] = co.at[k] /\ (x = Cancelled => k # Key[e.path])
        BY <1>1, <2>3, <2>4, <2>5, <2>6
      <3>2. Live(co, co.at[k]) /\ Key[co.list[co.at[k]].path] = k /\ co.at[k] \in DOMAIN co.list
        BY <2>6, <3>1 DEF Rooted, Live
      <3>3. CASE co.at[k] # i
        BY <2>5, <3>1, <3>2, <3>3
      <3>4. CASE co.at[k] = i
        <4>1. k = Key[e.path]
          BY <2>1, <3>2, <3>4
        <4> QED
          BY <2>1, <2>3, <2>5, <3>1, <3>4, <4>1 DEF Live
      <3> QED
        BY <3>3, <3>4
    <2> QED
      BY <2>5, <2>6 DEF Rooted, c
  <1> QED
    BY <1>2, <1>3

LEMMA SameCoalescer ==
    ASSUME NEW a \in Coalescer, NEW b \in Coalescer, DOMAIN a.list = DOMAIN b.list,
           \A i \in DOMAIN a.list : a.list[i] = b.list[i], \A k \in Keys : a.at[k] = b.at[k]
    PROVE  a = b
  <1>1. /\ a.list \in Seq(ChangeRecord \cup {Cancelled}) /\ a.at \in [Keys -> Nat]
        /\ b.list \in Seq(ChangeRecord \cup {Cancelled}) /\ b.at \in [Keys -> Nat]
        /\ a = [list |-> a.list, at |-> a.at] /\ b = [list |-> b.list, at |-> b.at]
    BY DEF Coalescer
  <1>2. a.at = b.at
    BY <1>1
  <1>3. a.list = b.list
    BY <1>1
  <1> QED
    BY <1>1, <1>2, <1>3

\* A change of theirs does what it would do without the others.
LEMMA ProcessMasked ==
    ASSUME NEW co \in Coalescer, Rooted(co), NEW U, Whole(U),
           NEW e \in ChangeRecord, e.path \in U
    PROVE  Masked(Process(co, e), U) = Process(Masked(co, U), e)
  <1> DEFINE m == Masked(co, U)
             i == co.at[Key[e.path]]
             c == Process(co, e)
             d == Process(m, e)
             w == Masked(c, U)
  <1>1. /\ m \in Coalescer /\ DOMAIN m.list = DOMAIN co.list
        /\ \A j \in DOMAIN co.list : m.list[j] = IF Holds(co, j, U) THEN co.list[j] ELSE Cancelled
        /\ \A k \in Keys : m.at[k] = IF k \in KeysOf(U) THEN co.at[k] ELSE 0
        /\ Rooted(m)
    BY MaskedFields, MaskedRooted
  <1>2. /\ c \in Coalescer /\ d \in Coalescer
        /\ w \in Coalescer /\ DOMAIN w.list = DOMAIN c.list
        /\ \A j \in DOMAIN c.list : w.list[j] = IF Holds(c, j, U) THEN c.list[j] ELSE Cancelled
        /\ \A k \in Keys : w.at[k] = IF k \in KeysOf(U) THEN c.at[k] ELSE 0
    BY <1>1, ProcessRooted, MaskedFields
  <1>3. /\ e.path \in Paths /\ Key[e.path] \in Keys \cap KeysOf(U) /\ e # Cancelled
        /\ co.at \in [Keys -> Nat] /\ m.at \in [Keys -> Nat]
    BY WatchBounds, <1>1, KeysOfPaths, KeyIn DEF ChangeRecord, Coalescer
  <1>4. m.at[Key[e.path]] = i
    BY <1>1, <1>3
  <1>5. i # 0 => /\ Live(co, i) /\ i \in DOMAIN co.list /\ co.list[i].path \in U
                 /\ m.list[i] = co.list[i]
    <2>1. i # 0 => Live(co, i) /\ Key[co.list[i].path] = Key[e.path]
      BY <1>3 DEF Rooted
    <2>2. i # 0 => co.list[i].path \in U /\ i \in DOMAIN co.list
      BY <1>3, <2>1, EntryNames, KeyIn
    <2> QED
      BY <1>1, <2>1, <2>2 DEF Holds
  <1>6. CASE i = 0 \/ (co.list[i].path # e.path /\ e.type # "updated")
    <2>1. c = Kept(co, e) /\ d = Kept(m, e)
      <3>1. c = Kept(co, e)
        BY <1>6, ProcessCases
      <3>2. i = 0 \/ (m.list[i].path # e.path /\ e.type # "updated")
        BY <1>5, <1>6
      <3> HIDE DEF m, i
      <3>3. d = Kept(m, e)
        BY <1>1, <1>4, <3>2, ProcessCases
      <3> QED
        BY <3>1, <3>3
    <2>2. Len(m.list) = Len(co.list)
      BY <1>1 DEF Coalescer
    <2> DEFINE n == Len(co.list) + 1
    <2>3. /\ DOMAIN c.list = DOMAIN co.list \cup {n} /\ n \notin DOMAIN co.list
          /\ c.list[n] = e /\ Live(c, n)
          /\ \A j \in DOMAIN co.list : c.list[j] = co.list[j] /\ (Live(c, j) <=> Live(co, j))
          /\ c.at = [co.at EXCEPT ![Key[e.path]] = n]
      BY <2>1, KeptBeside
    <2>4. /\ DOMAIN d.list = DOMAIN m.list \cup {n} /\ d.list[n] = e
          /\ \A j \in DOMAIN m.list : d.list[j] = m.list[j]
          /\ d.at = [m.at EXCEPT ![Key[e.path]] = n]
      BY <1>1, <2>1, <2>2, KeptBeside
    <2> HIDE DEF n, m, c, d, w
    <2>5. ASSUME NEW j \in DOMAIN w.list PROVE w.list[j] = d.list[j]
      BY <1>1, <1>2, <2>3, <2>4 DEF Holds
    <2>6. ASSUME NEW k \in Keys PROVE w.at[k] = d.at[k]
      BY <1>1, <1>2, <1>3, <2>3, <2>4
    <2>7. DOMAIN w.list = DOMAIN d.list
      BY <1>1, <1>2, <2>3, <2>4
    <2>8. w = d
      BY <1>2, <2>5, <2>6, <2>7, SameCoalescer
    <2> QED
      BY <2>8 DEF m, c, d, w
  <1>7. CASE ~(i = 0 \/ (co.list[i].path # e.path /\ e.type # "updated"))
    <2> DEFINE x == IF co.list[i].type = "added" /\ e.type = "deleted" THEN Cancelled
                    ELSE Change(Net(co.list[i].type, e.type), co.list[i].path)
               at(of) == IF co.list[i].type = "added" /\ e.type = "deleted"
                         THEN [of.at EXCEPT ![Key[e.path]] = 0] ELSE of.at
    <2>1. /\ c = [list |-> [co.list EXCEPT ![i] = x], at |-> at(co)]
          /\ d = [list |-> [m.list EXCEPT ![i] = x], at |-> at(m)]
      <3>1. c = [list |-> [co.list EXCEPT ![i] = x], at |-> at(co)]
        BY <1>7, ProcessCases
      <3>2. m.list[i] = co.list[i] /\ m.at[Key[e.path]] = i /\ i # 0
        BY <1>4, <1>5, <1>7
      <3> HIDE DEF m, i
      <3>3. d = [list |-> [m.list EXCEPT ![i] = x], at |-> at(m)]
        BY <1>1, <1>7, <3>2, ProcessCases
      <3> QED
        BY <3>1, <3>3
    <2>2. x = Cancelled \/ (x # Cancelled /\ x.path \in U)
      BY <1>5, <1>7 DEF Change
    <2>3. /\ \A k \in Keys : k # Key[e.path] => at(co)[k] = co.at[k] /\ at(m)[k] = m.at[k]
          /\ at(co)[Key[e.path]] = at(m)[Key[e.path]]
      BY <1>3, <1>4
    <2> HIDE DEF x, at, m, c, d, w
    <2>4. /\ c.list = [co.list EXCEPT ![i] = x] /\ c.at = at(co)
          /\ d.list = [m.list EXCEPT ![i] = x] /\ d.at = at(m)
      BY <2>1
    <2>5. ASSUME NEW j \in DOMAIN co.list PROVE w.list[j] = d.list[j]
      <3>1. j \in DOMAIN c.list /\ w.list[j] = IF Holds(c, j, U) THEN c.list[j] ELSE Cancelled
        BY <1>2, <2>4
      <3>2. CASE j = i
        <4>1. c.list[j] = x /\ d.list[j] = x
          BY <1>1, <2>4, <3>2
        <4> QED
          BY <2>2, <3>1, <4>1 DEF Holds, Live
      <3>3. CASE j # i
        <4>1. c.list[j] = co.list[j] /\ d.list[j] = m.list[j]
          BY <1>1, <2>4, <3>3
        <4> QED
          BY <1>1, <3>1, <4>1 DEF Holds, Live
      <3> QED
        BY <3>2, <3>3
    <2>6. ASSUME NEW k \in Keys PROVE w.at[k] = d.at[k]
      BY <1>1, <1>2, <1>3, <2>3, <2>4
    <2>7. DOMAIN w.list = DOMAIN d.list /\ DOMAIN w.list = DOMAIN co.list
      BY <1>1, <1>2, <2>4
    <2>8. w = d
      <3>1. /\ w \in Coalescer /\ d \in Coalescer /\ DOMAIN w.list = DOMAIN d.list
            /\ \A j \in DOMAIN w.list : w.list[j] = d.list[j]
            /\ \A k \in Keys : w.at[k] = d.at[k]
        BY <1>2, <2>5, <2>6, <2>7
      <3> QED
        BY <3>1, SameCoalescer
    <2> QED
      BY <2>8 DEF m, c, d, w
  <1> QED
    BY <1>6, <1>7

\* One coalescer is another with more entries that cancelled out.
Pads(a, b) ==
    /\ DOMAIN a.list \subseteq DOMAIN b.list
    /\ \A i \in DOMAIN a.list : b.list[i] = a.list[i]
    /\ \A i \in DOMAIN b.list \ DOMAIN a.list : b.list[i] = Cancelled
    /\ \A k \in Keys : b.at[k] = a.at[k]

LEMMA Padded ==
    ASSUME NEW a \in Coalescer, NEW b \in Coalescer, Pads(a, b), Indexed(a)
    PROVE  Indexed(b) /\ \A type \in Type : Says(b, type) = Says(a, type)
  <1>1. ASSUME NEW i PROVE Live(b, i) <=> Live(a, i)
    BY DEF Pads, Live
  <1>2. ASSUME NEW i, Live(a, i)
        PROVE  /\ b.list[i] = a.list[i] /\ i \in DOMAIN a.list
               /\ Key[a.list[i].path] \in Keys
               /\ b.at[Key[a.list[i].path]] = a.at[Key[a.list[i].path]]
    BY <1>2, EntryNames, KeysOfPaths DEF Pads, Live
  <1>3. Rooted(b)
    BY <1>1, <1>2 DEF Indexed, Rooted, Pads
  <1>4. ASSUME NEW i \in DOMAIN b.list, Live(b, i), b.list[i].type # "deleted"
        PROVE  b.at[Key[b.list[i].path]] = i
    BY <1>1, <1>2, <1>4 DEF Indexed
  <1>5. ASSUME NEW i \in DOMAIN b.list, NEW j \in DOMAIN b.list,
               Live(b, i), b.list[i].type = "deleted", Live(b, j), b.list[j].type = "deleted",
               Key[b.list[i].path] = Key[b.list[j].path]
        PROVE  i = j
    BY <1>1, <1>2, <1>5 DEF Indexed
  <1>6. ASSUME NEW i \in DOMAIN b.list, Live(b, i), b.list[i].type = "deleted",
               b.at[Key[b.list[i].path]] # i
        PROVE  \E q \in Paths : q # b.list[i].path /\ Key[q] = Key[b.list[i].path]
    BY <1>1, <1>2, <1>6 DEF Indexed
  <1>7. ASSUME NEW type \in Type PROVE Says(b, type) = Says(a, type)
    <2>1. \A p \in Paths : Change(type, p) # Cancelled
      BY WatchBounds DEF Change, ChangeRecord
    <2> QED
      BY <2>1 DEF Says, Pads
  <1> QED
    BY <1>3, <1>4, <1>5, <1>6, <1>7 DEF Indexed

\* A change of another path leaves them alone.
LEMMA ProcessBeside ==
    ASSUME NEW co \in Coalescer, Rooted(co), NEW U, Whole(U),
           NEW e \in ChangeRecord, e.path \notin U
    PROVE  Pads(Masked(co, U), Masked(Process(co, e), U))
  <1> DEFINE m == Masked(co, U)
             i == co.at[Key[e.path]]
             c == Process(co, e)
             w == Masked(c, U)
  <1>1. /\ DOMAIN m.list = DOMAIN co.list
        /\ \A j \in DOMAIN co.list : m.list[j] = IF Holds(co, j, U) THEN co.list[j] ELSE Cancelled
        /\ \A k \in Keys : m.at[k] = IF k \in KeysOf(U) THEN co.at[k] ELSE 0
    BY MaskedFields
  <1>2. /\ DOMAIN w.list = DOMAIN c.list
        /\ \A j \in DOMAIN c.list : w.list[j] = IF Holds(c, j, U) THEN c.list[j] ELSE Cancelled
        /\ \A k \in Keys : w.at[k] = IF k \in KeysOf(U) THEN c.at[k] ELSE 0
    BY ProcessRooted, MaskedFields
  <1>3. e.path \in Paths /\ Key[e.path] \in Keys \ KeysOf(U) /\ co.at \in [Keys -> Nat]
    BY KeysOfPaths, KeyIn DEF ChangeRecord, Coalescer
  <1>4. CASE i = 0 \/ (co.list[i].path # e.path /\ e.type # "updated")
    <2> DEFINE n == Len(co.list) + 1
    <2>1. /\ DOMAIN c.list = DOMAIN co.list \cup {n} /\ n \notin DOMAIN co.list
          /\ c.list[n] = e
          /\ \A j \in DOMAIN co.list : c.list[j] = co.list[j] /\ (Live(c, j) <=> Live(co, j))
          /\ c.at = [co.at EXCEPT ![Key[e.path]] = n]
      <3>1. c = Kept(co, e)
        BY <1>4, ProcessCases
      <3> HIDE DEF c
      <3> QED
        BY <3>1, KeptBeside
    <2> HIDE DEF n, m, c, w
    <2> QED
      BY <1>1, <1>2, <1>3, <2>1 DEF Pads, Holds, m, c, w
  <1>5. CASE ~(i = 0 \/ (co.list[i].path # e.path /\ e.type # "updated"))
    <2> DEFINE x == IF co.list[i].type = "added" /\ e.type = "deleted" THEN Cancelled
                    ELSE Change(Net(co.list[i].type, e.type), co.list[i].path)
               at == IF co.list[i].type = "added" /\ e.type = "deleted"
                     THEN [co.at EXCEPT ![Key[e.path]] = 0] ELSE co.at
    <2>1. /\ c = [list |-> [co.list EXCEPT ![i] = x], at |-> at]
          /\ Live(co, i) /\ Key[co.list[i].path] = Key[e.path]
      BY <1>5, ProcessCases
    <2>2. co.list[i].path \in Paths /\ co.list[i].path \notin U
      BY <1>3, <2>1, EntryNames, KeyIn
    <2>3. x = Cancelled \/ x.path \notin U
      BY <2>2 DEF Change
    <2>4. \A k \in KeysOf(U) : k \in Keys => at[k] = co.at[k]
      BY <1>3
    <2> HIDE DEF x, at, m, c, w
    <2>5. c.list = [co.list EXCEPT ![i] = x] /\ c.at = at
      BY <2>1
    <2>6. DOMAIN c.list = DOMAIN co.list
      BY <2>5
    <2>7. ASSUME NEW j \in DOMAIN co.list PROVE w.list[j] = m.list[j]
      BY <1>1, <1>2, <2>2, <2>3, <2>5 DEF Holds, Live
    <2>8. ASSUME NEW k \in Keys PROVE w.at[k] = m.at[k]
      BY <1>1, <1>2, <2>4, <2>5
    <2> QED
      BY <1>1, <1>2, <2>6, <2>7, <2>8 DEF Pads, m, c, w
  <1> QED
    BY <1>4, <1>5

\* With a folder goes what is in it, theirs with theirs.
LEMMA DroppedMasked ==
    ASSUME NEW co \in Coalescer, NEW U, Whole(U), NEW old
    PROVE  LET m == Masked(co, U)
               next(from, c) == {p \in from : p \notin Dropped(c) /\ ~\E q \in Dropped(c) : Within(p, q)}
                                   \cup Says(c, "added")
           IN  /\ Dropped(m) = Dropped(co) \cap U
               /\ next(old, co) \cap U = next(old \cap U, m)
  <1> DEFINE m == Masked(co, U)
  <1>1. "deleted" \in Type /\ "added" \in Type
    BY DEF Type
  <1>2. Says(m, "deleted") = Says(co, "deleted") \cap U /\ Says(m, "added") = Says(co, "added") \cap U
    BY <1>1, SaysMasked
  <1> HIDE DEF m
  <1>3. ASSUME NEW p \in U, NEW x \in Says(co, "deleted"), Within(p, x) PROVE x \in U
    <2>1. PICK y \in Above[p] : Key[y] = Key[x]
      BY <1>3 DEF Within
    <2> QED
      BY <2>1 DEF Whole, Says
  <1>4. Dropped(m) = Dropped(co) \cap U
    BY <1>2, <1>3 DEF Dropped
  <1>5. ASSUME NEW p \in U
        PROVE  (\E q \in Dropped(co) : Within(p, q)) <=> \E q \in Dropped(m) : Within(p, q)
    BY <1>3, <1>4 DEF Dropped
  <1> QED
    BY <1>2, <1>4, <1>5 DEF m
-----------------------------------------------------------------------------
(* The changes in the channel lead from one tree to the next.               *)

\* What a change makes of the paths of U.
Moves(U, before, e, after) ==
    IF e.path \in U THEN Happens(before, e, after) ELSE after = before

Trail(U, t, changed, tree) ==
    /\ t \in [1..Len(changed) + 1 -> SUBSET Paths] /\ t[Len(changed) + 1] = tree
    /\ \A i \in 1..Len(changed) + 1 : IsTree(t[i])
    /\ \A i \in 1..Len(changed) : Moves(U, t[i], changed[i], t[i + 1])

\* The batch, and then the changes in the channel, part what the client was told
\* from what is on disk.
Told(U, co, old, changed, tree) ==
    \E t : Trail(U, t, changed, tree) /\ Parts(co, old, t[1])

Changed == Seq(ChangeRecord)

LEMMA TrailAppended ==
    ASSUME NEW U, NEW changed \in Changed, NEW t, NEW tree, Trail(U, t, changed, tree),
           NEW e, NEW next, IsTree(next), Moves(U, tree, e, next)
    PROVE  \E u : Trail(U, u, Append(changed, e), next) /\ u[1] = t[1]
  <1> DEFINE n == Len(changed)
             u == [i \in 1..n + 2 |-> IF i <= n + 1 THEN t[i] ELSE next]
  <1>1. /\ n \in Nat /\ Len(Append(changed, e)) = n + 1
        /\ \A i \in 1..n : Append(changed, e)[i] = changed[i]
        /\ Append(changed, e)[n + 1] = e
    BY DEF Changed
  <1>2. /\ t \in [1..n + 1 -> SUBSET Paths] /\ t[n + 1] = tree
        /\ \A i \in 1..n + 1 : IsTree(t[i])
        /\ \A i \in 1..n : Moves(U, t[i], changed[i], t[i + 1])
    BY DEF Trail
  <1>3. next \in SUBSET Paths
    BY DEF IsTree
  <1> HIDE DEF n
  <1>4. /\ u \in [1..n + 2 -> SUBSET Paths] /\ u[n + 2] = next /\ u[1] = t[1]
        /\ \A i \in 1..n + 1 : u[i] = t[i]
    BY <1>1, <1>2, <1>3
  <1>5. ASSUME NEW i \in 1..n + 2 PROVE IsTree(u[i])
    <2>1. CASE i = n + 2
      BY <1>4, <2>1
    <2>2. CASE i \in 1..n + 1
      BY <1>2, <1>4, <2>2
    <2> QED
      BY <1>1, <2>1, <2>2
  <1>6. ASSUME NEW i \in 1..n + 1 PROVE Moves(U, u[i], Append(changed, e)[i], u[i + 1])
    <2>1. CASE i = n + 1
      <3>1. u[i] = tree /\ u[i + 1] = next /\ Append(changed, e)[i] = e
        BY <1>1, <1>2, <1>4, <2>1
      <3> QED
        BY <3>1
    <2>2. CASE i \in 1..n
      <3>1. u[i] = t[i] /\ u[i + 1] = t[i + 1] /\ Append(changed, e)[i] = changed[i]
        BY <1>1, <1>4, <2>2
      <3> QED
        BY <1>2, <2>2, <3>1
    <2> QED
      BY <1>1, <2>1, <2>2
  <1>7. n + 1 + 1 = n + 2
    BY <1>1
  <1> HIDE DEF u
  <1>8. Trail(U, u, Append(changed, e), next)
    BY <1>1, <1>4, <1>5, <1>6, <1>7 DEF Trail
  <1> QED
    BY <1>4, <1>8

LEMMA TrailTaken ==
    ASSUME NEW U, NEW changed \in Changed, changed # <<>>, NEW t, NEW tree, Trail(U, t, changed, tree)
    PROVE  /\ IsTree(t[1]) /\ IsTree(t[2]) /\ Moves(U, t[1], Head(changed), t[2])
           /\ Head(changed) \in ChangeRecord
           /\ \E u : Trail(U, u, Tail(changed), tree) /\ u[1] = t[2]
  <1> DEFINE n == Len(changed)
             u == [i \in 1..n |-> t[i + 1]]
  <1>1. /\ n \in Nat \ {0} /\ Len(Tail(changed)) = n - 1 /\ Head(changed) = changed[1]
        /\ Head(changed) \in ChangeRecord
        /\ \A i \in 1..n - 1 : Tail(changed)[i] = changed[i + 1]
    BY DEF Changed
  <1>2. /\ t \in [1..n + 1 -> SUBSET Paths] /\ t[n + 1] = tree
        /\ \A i \in 1..n + 1 : IsTree(t[i])
        /\ \A i \in 1..n : Moves(U, t[i], changed[i], t[i + 1])
    BY DEF Trail
  <1> HIDE DEF n
  <1>3. IsTree(t[1]) /\ IsTree(t[2]) /\ Moves(U, t[1], Head(changed), t[2])
    BY <1>1, <1>2
  <1>4. u \in [1..n -> SUBSET Paths] /\ u[n] = tree /\ u[1] = t[2]
    BY <1>1, <1>2
  <1>5. ASSUME NEW i \in 1..n PROVE IsTree(u[i])
    BY <1>1, <1>2
  <1>6. ASSUME NEW i \in 1..n - 1 PROVE Moves(U, u[i], Tail(changed)[i], u[i + 1])
    <2>1. u[i] = t[i + 1] /\ u[i + 1] = t[i + 1 + 1] /\ Tail(changed)[i] = changed[i + 1] /\ i + 1 \in 1..n
      BY <1>1
    <2> QED
      BY <1>2, <2>1
  <1>7. n - 1 + 1 = n
    BY <1>1
  <1> HIDE DEF u
  <1>8. Trail(U, u, Tail(changed), tree)
    BY <1>1, <1>4, <1>5, <1>6, <1>7 DEF Trail
  <1> QED
    BY <1>1, <1>3, <1>4, <1>8

-----------------------------------------------------------------------------
(* What a client has to read again is on its way to it.                     *)

Owed(p, co, changed) ==
    \/ \E i \in 1..Len(changed) :
          /\ changed[i].path = p /\ changed[i].type # "deleted"
          /\ \A j \in i + 1..Len(changed) : changed[j] # Change("deleted", p)
    \/ /\ p \in Tells(co)
       /\ \A j \in 1..Len(changed) : changed[j] # Change("deleted", p)

LEMMA OwedAppended ==
    ASSUME NEW changed \in Changed, NEW e, NEW co, NEW p,
           \/ Owed(p, co, changed) /\ e # Change("deleted", p)
           \/ e.path = p /\ e.type # "deleted"
    PROVE  Owed(p, co, Append(changed, e))
  <1> DEFINE n == Len(changed)
             s == Append(changed, e)
  <1>1. /\ n \in Nat /\ Len(s) = n + 1 /\ s[n + 1] = e
        /\ \A i \in 1..n : s[i] = changed[i]
    BY DEF Changed
  <1> HIDE DEF n, s
  <1>2. CASE e.path = p /\ e.type # "deleted"
    <2>1. n + 1 \in 1..n + 1 /\ \A j \in n + 1 + 1..n + 1 : FALSE
      BY <1>1
    <2> QED
      BY <1>1, <1>2, <2>1 DEF Owed, s
  <1>3. CASE Owed(p, co, changed) /\ e # Change("deleted", p)
    <2>1. ASSUME NEW i \in 1..n, changed[i].path = p, changed[i].type # "deleted",
                 \A j \in i + 1..n : changed[j] # Change("deleted", p)
          PROVE  Owed(p, co, s)
      <3>1. \A j \in i + 1..n + 1 : s[j] # Change("deleted", p)
        BY <1>1, <1>3, <2>1
      <3>2. i \in 1..n + 1 /\ s[i] = changed[i]
        BY <1>1
      <3> QED
        BY <1>1, <2>1, <3>1, <3>2 DEF Owed
    <2>2. ASSUME p \in Tells(co), \A j \in 1..n : changed[j] # Change("deleted", p)
          PROVE  Owed(p, co, s)
      <3>1. \A j \in 1..n + 1 : s[j] # Change("deleted", p)
        BY <1>1, <1>3, <2>2
      <3> QED
        BY <1>1, <2>2, <3>1 DEF Owed
    <2> QED
      BY <1>3, <2>1, <2>2 DEF Owed, n, s
  <1> QED
    BY <1>2, <1>3

LEMMA OwedTaken ==
    ASSUME NEW changed \in Changed, changed # <<>>, NEW co, NEW c,
           NEW p, Owed(p, co, changed),
           /\ p \in Tells(co) \/ p = Head(changed).path
           /\ Head(changed) # Change("deleted", p)
           => p \in Tells(c)
    PROVE  Owed(p, c, Tail(changed))
  <1> DEFINE n == Len(changed)
             s == Tail(changed)
             e == Head(changed)
  <1>1. /\ n \in Nat \ {0} /\ Len(s) = n - 1 /\ e = changed[1]
        /\ \A i \in 1..n - 1 : s[i] = changed[i + 1]
        /\ e \in ChangeRecord
    BY DEF Changed
  <1> HIDE DEF e
  <1> USE DEF e
  <1>2. (p \in Tells(co) \/ p = e.path) /\ e # Change("deleted", p) => p \in Tells(c)
    OBVIOUS
  <1> HIDE DEF n, s, e
  <1>3. ASSUME NEW i \in 1..n, i # 1, changed[i].path = p, changed[i].type # "deleted",
               \A j \in i + 1..n : changed[j] # Change("deleted", p)
        PROVE  Owed(p, c, s)
    <2>1. i - 1 \in 1..n - 1 /\ s[i - 1] = changed[i]
      BY <1>1, <1>3
    <2>2. \A j \in i - 1 + 1..n - 1 : s[j] # Change("deleted", p)
      <3>1. ASSUME NEW j \in i - 1 + 1..n - 1
            PROVE  s[j] = changed[j + 1] /\ j + 1 \in i + 1..n
        BY <1>1, <1>3
      <3> QED
        BY <1>3, <3>1
    <2> QED
      BY <1>1, <1>3, <2>1, <2>2 DEF Owed
  <1>4. ASSUME \A j \in 2..n : changed[j] # Change("deleted", p), p \in Tells(c)
        PROVE  Owed(p, c, s)
    <2>1. ASSUME NEW j \in 1..n - 1 PROVE s[j] = changed[j + 1] /\ j + 1 \in 2..n
      BY <1>1
    <2> QED
      BY <1>1, <1>4, <2>1 DEF Owed
  <1>5. ASSUME changed[1].path = p, changed[1].type # "deleted",
               \A j \in 1 + 1..n : changed[j] # Change("deleted", p)
        PROVE  Owed(p, c, s)
    <2>1. e # Change("deleted", p)
      BY <1>1, <1>5 DEF Change
    <2> QED
      BY <1>1, <1>2, <1>4, <1>5, <2>1
  <1>6. ASSUME p \in Tells(co), \A j \in 1..n : changed[j] # Change("deleted", p)
        PROVE  Owed(p, c, s)
    <2>1. 1 \in 1..n /\ 2..n \subseteq 1..n
      BY <1>1
    <2>2. e # Change("deleted", p)
      BY <1>1, <1>6, <2>1
    <2>3. p \in Tells(c)
      BY <1>2, <1>6, <2>2
    <2> QED
      BY <1>4, <1>6, <2>1, <2>3
  <1> QED
    BY <1>3, <1>5, <1>6 DEF Owed, n, s

-----------------------------------------------------------------------------
(* All that is under way between the disk and the client.                   *)

Ahead(U, co, old, changed, tree, missed) ==
    /\ IsTree(tree) /\ tree \subseteq U /\ Told(U, co, old, changed, tree)
    /\ \A p \in missed \cap tree : Owed(p, co, changed)

LEMMA AheadAppended ==
    ASSUME NEW U, NEW changed \in Changed, NEW co, NEW old, NEW tree, NEW missed,
           Ahead(U, co, old, changed, tree, missed),
           NEW e \in ChangeRecord, NEW next, IsTree(next), Moves(U, tree, e, next),
           NEW unseen,
           unseen \cap next \subseteq (missed \cap tree) \cup (IF e.type = "deleted" THEN {} ELSE {e.path})
    PROVE  Ahead(U, co, old, Append(changed, e), next, unseen)
  <1>1. Told(U, co, old, Append(changed, e), next)
    BY TrailAppended DEF Ahead, Told
  <1>2. ASSUME NEW p \in unseen \cap next PROVE Owed(p, co, Append(changed, e))
    <2>1. CASE e.type # "deleted" /\ e.path = p
      BY <2>1, OwedAppended
    <2>2. CASE ~(e.type # "deleted" /\ e.path = p)
      <3>1. p \in missed \cap tree /\ p \in U
        BY <1>2, <2>2 DEF Ahead
      <3>2. e # Change("deleted", p)
        BY <1>2, <3>1 DEF Moves, Happens, Change
      <3> QED
        BY <3>1, <3>2, OwedAppended DEF Ahead
    <2> QED
      BY <2>1, <2>2
  <1>3. next \subseteq U
    BY DEF Ahead, Moves, Happens
  <1> QED
    BY <1>1, <1>2, <1>3 DEF Ahead

LEMMA AheadTaken ==
    ASSUME NEW U, Whole(U), NEW changed \in Changed, changed # <<>>,
           NEW co \in Coalescer, Rooted(co), Indexed(Masked(co, U)),
           NEW old, IsTree(old), NEW tree, NEW missed,
           Ahead(U, Masked(co, U), old, changed, tree, missed)
    PROVE  LET c == Process(co, Head(changed))
           IN  /\ Indexed(Masked(c, U))
               /\ Ahead(U, Masked(c, U), old, Tail(changed), tree, missed)
  <1> DEFINE m == Masked(co, U)
             e == Head(changed)
             c == Masked(Process(co, e), U)
  <1>1. m \in Coalescer
    BY MaskedFields
  <1>2. PICK t : Trail(U, t, changed, tree) /\ Parts(m, old, t[1])
    BY DEF Ahead, Told
  <1>3. /\ IsTree(t[1]) /\ IsTree(t[2]) /\ Moves(U, t[1], e, t[2])
        /\ e \in ChangeRecord
        /\ \E u : Trail(U, u, Tail(changed), tree) /\ u[1] = t[2]
    BY <1>2, TrailTaken
  <1>4. c \in Coalescer
    BY <1>3, ProcessRooted, MaskedFields
  <1>5. /\ Indexed(c) /\ Parts(c, old, t[2])
        /\ \A p \in U : (p \in Tells(m) \/ p = e.path) /\ e # Change("deleted", p) => p \in Tells(c)
    <2> HIDE DEF m, e, c
    <2>1. CASE e.path \in U
      <3>1. c = Process(m, e)
        BY <1>3, <2>1, ProcessMasked DEF m, c
      <3>2. Advances(m, e, c, old, t[2])
        BY <1>1, <1>2, <1>3, <2>1, <3>1, ProcessParts DEF Moves, m
      <3>3. e = Change(e.type, e.path)
        BY <1>3 DEF ChangeRecord, Change
      <3> QED
        BY <3>2, <3>3 DEF Advances
    <2>2. CASE e.path \notin U
      <3>1. Pads(m, c)
        BY <1>3, <2>2, ProcessBeside DEF m, c
      <3>2. Indexed(c) /\ \A type \in Type : Says(c, type) = Says(m, type)
        BY <1>1, <1>4, <3>1, Padded DEF m
      <3>3. /\ Says(c, "deleted") = Says(m, "deleted") /\ Says(c, "added") = Says(m, "added")
            /\ Says(c, "updated") = Says(m, "updated")
        BY <3>2 DEF Type
      <3>4. t[2] = t[1]
        BY <1>3, <2>2 DEF Moves
      <3> QED
        BY <1>2, <2>2, <3>2, <3>3, <3>4 DEF Parts, Tells
    <2> QED
      BY <2>1, <2>2
  <1> HIDE DEF m, e, c
  <1>6. Told(U, c, old, Tail(changed), tree)
    BY <1>3, <1>5 DEF Told
  <1>7. ASSUME NEW p \in missed \cap tree PROVE Owed(p, c, Tail(changed))
    <2>1. p \in U /\ Owed(p, m, changed)
      BY <1>7 DEF Ahead, m
    <2> QED
      BY <1>5, <2>1, OwedTaken DEF e
  <1> QED
    BY <1>5, <1>6, <1>7 DEF Ahead, c, e

\* Fewer paths, and all of it holds of them.
LEMMA AheadNarrowed ==
    ASSUME NEW U, Whole(U), NEW W, Whole(W), W \subseteq U,
           NEW changed \in Changed, NEW co \in Coalescer, NEW old, NEW tree, NEW missed,
           Ahead(U, Masked(co, U), old, changed, tree, missed)
    PROVE  Ahead(W, Masked(co, W), old \cap W, changed, tree \cap W, missed \cap W)
  <1> DEFINE m == Masked(co, U)
             w == Masked(co, W)
             n == Len(changed)
  <1>1. PICK t : Trail(U, t, changed, tree) /\ Parts(m, old, t[1])
    BY DEF Ahead, Told
  <1>2. /\ n \in Nat /\ t \in [1..n + 1 -> SUBSET Paths] /\ t[n + 1] = tree
        /\ \A i \in 1..n + 1 : IsTree(t[i])
        /\ \A i \in 1..n : Moves(U, t[i], changed[i], t[i + 1]) /\ changed[i] \in ChangeRecord
    BY <1>1 DEF Trail, Changed
  <1>3. \A type \in {"added", "deleted", "updated"} : Says(w, type) = Says(m, type) \cap W
    BY SaysMasked DEF Type
  <1>4. Parts(w, old \cap W, t[1] \cap W)
    BY <1>1, <1>3 DEF Parts
  <1>5. ASSUME NEW a, IsTree(a) PROVE IsTree(a \cap W)
    BY <1>5 DEF IsTree, Whole
  <1>6. ASSUME NEW a, NEW b, NEW e \in ChangeRecord, Moves(U, a, e, b)
        PROVE  Moves(W, a \cap W, e, b \cap W)
    BY <1>6 DEF Moves, Happens, Found
  <1> DEFINE u == [i \in 1..n + 1 |-> t[i] \cap W]
  <1>7. Trail(W, u, changed, tree \cap W) /\ u[1] = t[1] \cap W
    <2>1. /\ u \in [1..n + 1 -> SUBSET Paths] /\ \A i \in 1..n + 1 : u[i] = t[i] \cap W
          /\ 1 \in 1..n + 1 /\ n + 1 \in 1..n + 1 /\ \A i \in 1..n : i \in 1..n + 1 /\ i + 1 \in 1..n + 1
      BY <1>2
    <2> HIDE DEF u
    <2>2. /\ \A i \in 1..n + 1 : IsTree(u[i])
          /\ \A i \in 1..n : Moves(W, u[i], changed[i], u[i + 1])
      <3>1. ASSUME NEW i \in 1..n + 1 PROVE IsTree(u[i])
        BY <1>2, <1>5, <2>1
      <3>2. ASSUME NEW i \in 1..n PROVE Moves(W, u[i], changed[i], u[i + 1])
        <4>1. Moves(W, t[i] \cap W, changed[i], t[i + 1] \cap W)
          BY <1>2, <1>6
        <4> QED
          BY <2>1, <4>1
      <3> QED
        BY <3>1, <3>2
    <2> QED
      BY <1>2, <2>1, <2>2 DEF Trail
  <1> HIDE DEF u
  <1>8. Told(W, w, old \cap W, changed, tree \cap W)
    BY <1>4, <1>7 DEF Told
  <1>9. ASSUME NEW p \in (missed \cap W) \cap (tree \cap W) PROVE Owed(p, w, changed)
    <2>1. Owed(p, m, changed)
      BY <1>9 DEF Ahead
    <2>2. p \in Tells(m) => p \in Tells(w)
      BY <1>3, <1>9 DEF Tells
    <2> HIDE DEF m, w
    <2> QED
      BY <2>1, <2>2 DEF Owed
  <1>10. IsTree(tree \cap W)
    BY <1>5 DEF Ahead
  <1> QED
    BY <1>8, <1>9, <1>10 DEF Ahead

\* The paths a batch names.
NamedIn(co, types) == {e.path : e \in {x \in Coalesced(co) : x.type \in types}}

LEMMA NamedSays ==
    ASSUME NEW co \in Coalescer
    PROVE  /\ NamedIn(co, {"deleted"}) = Dropped(co)
           /\ NamedIn(co, {"added"}) = Says(co, "added")
           /\ NamedIn(co, {"updated"}) = Says(co, "updated")
           /\ NamedIn(co, {"added", "updated"}) = Tells(co)
  <1> DEFINE kept == Range(co.list) \ {Cancelled}
  <1>1. kept = {co.list[i] : i \in DOMAIN co.list} \ {Cancelled}
    BY DEF Range
  <1>2. \A i \in DOMAIN co.list : co.list[i] \in ChangeRecord \cup {Cancelled}
    BY DEF Coalescer
  <1>3. ASSUME NEW e \in kept
        PROVE  e.path \in Paths /\ e.type \in Type /\ e = Change(e.type, e.path)
    BY <1>1, <1>2 DEF ChangeRecord, Change
  <1>4. ASSUME NEW type \in Type, NEW p \in Paths
        PROVE  /\ p \in Says(co, type) <=> Change(type, p) \in kept
               /\ Change(type, p).type = type /\ Change(type, p).path = p
    <2>1. Change(type, p) # Cancelled
      BY WatchBounds, <1>4 DEF Change, ChangeRecord
    <2> QED
      BY <1>1, <2>1 DEF Says, Change
  <1>5. Coalesced(co) =
           {e \in kept : e.type = "deleted" =>
                            \A x \in kept : x.type = "deleted" => ~Within(e.path, x.path)}
    BY DEF Coalesced
  <1>6. "added" \in Type /\ "updated" \in Type /\ "deleted" \in Type
    BY DEF Type
  <1> HIDE DEF kept
  <1>7. ASSUME NEW type \in {"added", "updated"}
        PROVE  NamedIn(co, {type}) = Says(co, type)
    <2>1. ASSUME NEW p \in Says(co, type) PROVE p \in NamedIn(co, {type})
      <3>1. p \in Paths /\ Change(type, p) \in Coalesced(co)
        BY <1>4, <1>5, <1>6, <1>7 DEF Says
      <3> QED
        BY <1>4, <1>6, <3>1 DEF NamedIn
    <2>2. ASSUME NEW p \in NamedIn(co, {type}) PROVE p \in Says(co, type)
      <3>1. PICK e \in kept : e.type = type /\ e.path = p
        BY <1>5, <2>2 DEF NamedIn
      <3> QED
        BY <1>3, <1>4, <3>1
    <2> QED
      BY <2>1, <2>2
  <1>8. NamedIn(co, {"added", "updated"}) = NamedIn(co, {"added"}) \cup NamedIn(co, {"updated"})
    BY DEF NamedIn
  <1>9. NamedIn(co, {"deleted"}) = Dropped(co)
    <2>1. ASSUME NEW p \in Dropped(co) PROVE p \in NamedIn(co, {"deleted"})
      <3>1. p \in Paths /\ Change("deleted", p) \in kept
        BY <1>4, <1>6 DEF Dropped, Says
      <3>2. ASSUME NEW x \in kept, x.type = "deleted" PROVE ~Within(p, x.path)
        <4>1. x.path \in Says(co, "deleted")
          BY <1>3, <1>4, <3>2
        <4> QED
          BY <4>1 DEF Dropped
      <3>3. Change("deleted", p) \in Coalesced(co)
        BY <1>4, <1>5, <1>6, <3>1, <3>2
      <3> QED
        BY <1>4, <1>6, <3>1, <3>3 DEF NamedIn
    <2>2. ASSUME NEW p \in NamedIn(co, {"deleted"}) PROVE p \in Dropped(co)
      <3>1. PICK e \in kept : /\ e.type = "deleted" /\ e.path = p
                              /\ \A x \in kept : x.type = "deleted" => ~Within(e.path, x.path)
        BY <1>5, <2>2 DEF NamedIn
      <3>2. p \in Says(co, "deleted")
        BY <1>3, <1>4, <3>1
      <3>3. ASSUME NEW x \in Says(co, "deleted") PROVE ~Within(p, x)
        <4>1. x \in Paths /\ Change("deleted", x) \in kept
          BY <1>4, <1>6 DEF Says
        <4> QED
          BY <1>4, <1>6, <3>1, <4>1
      <3> QED
        BY <3>2, <3>3 DEF Dropped
    <2> QED
      BY <2>1, <2>2
  <1> QED
    BY <1>7, <1>8, <1>9 DEF Tells

LEMMA NothingSaid ==
    /\ NoEntries \in Coalescer /\ Rooted(NoEntries)
    /\ \A U : Indexed(Masked(NoEntries, U))
    /\ \A U, tree : Parts(Masked(NoEntries, U), tree, tree)
    /\ NoEntries.list = <<>>
  <1> DEFINE c == NoEntries
  <1>1. c.list = <<>> /\ c.at = [k \in Keys |-> 0] /\ DOMAIN c.list = {}
    BY DEF NoEntries, Keys
  <1>2. c \in Coalescer
    BY DEF NoEntries, Keys, Coalescer
  <1> HIDE DEF c
  <1>3. ASSUME NEW U
        PROVE  Indexed(Masked(c, U)) /\ \A type : Says(Masked(c, U), type) = {}
    <2>1. /\ DOMAIN Masked(c, U).list = {}
          /\ \A k \in Keys : Masked(c, U).at[k] = 0
      BY <1>1, <1>2, MaskedFields
    <2> QED
      BY <2>1 DEF Indexed, Rooted, Says
  <1>4. ASSUME NEW U, NEW tree PROVE Parts(Masked(c, U), tree, tree)
    BY <1>3 DEF Parts
  <1> QED
    BY <1>1, <1>2, <1>3, <1>4 DEF c, Rooted

LEMMA AheadFlushed ==
    ASSUME FoldersSpeltOneWay, NEW U, Whole(U), NEW changed \in Changed,
           NEW co \in Coalescer, Indexed(Masked(co, U)), NEW old, IsTree(old \cap U),
           NEW tree, NEW missed, Ahead(U, Masked(co, U), old \cap U, changed, tree, missed \cap U),
           NEW next,
           next = {p \in old : p \notin Dropped(co) /\ ~\E q \in Dropped(co) : Within(p, q)}
                     \cup Says(co, "added")
    PROVE  /\ IsTree(next \cap U)
           /\ Ahead(U, Masked(NoEntries, U), next \cap U, changed, tree, (missed \ Tells(co)) \cap U)
  <1> DEFINE m == Masked(co, U)
  <1>1. PICK t : Trail(U, t, changed, tree) /\ Parts(m, old \cap U, t[1])
    BY DEF Ahead, Told
  <1>2. IsTree(t[1])
    BY <1>1 DEF Trail, Changed
  <1>3. m \in Coalescer
    BY MaskedFields
  <1>4. next \cap U = {p \in old \cap U : p \notin Dropped(m) /\ ~\E q \in Dropped(m) : Within(p, q)}
                         \cup Says(m, "added")
    BY DroppedMasked
  <1>5. next \cap U = t[1]
    <2> HIDE DEF m
    <2> QED
      BY <1>1, <1>2, <1>3, <1>4, BatchApplied DEF m
  <1>6. Told(U, Masked(NoEntries, U), next \cap U, changed, tree)
    BY <1>1, <1>5, NothingSaid DEF Told
  <1>7. ASSUME NEW p \in ((missed \ Tells(co)) \cap U) \cap tree
        PROVE  Owed(p, Masked(NoEntries, U), changed)
    <2>1. Owed(p, m, changed) /\ p \notin Tells(m)
      BY <1>7, TellsMasked DEF Ahead
    <2> QED
      BY <2>1 DEF Owed
  <1> QED
    BY <1>2, <1>5, <1>6, <1>7 DEF Ahead

-----------------------------------------------------------------------------
WatchTypes ==
    /\ exists \subseteq Paths /\ view \subseteq Paths /\ unread \subseteq Paths
    /\ changes \in 0..MaxChanges /\ lost \subseteq Keys
    /\ raw \in Changed /\ Len(raw) <= MaxRaw
    /\ pending \in Coalescer /\ Rooted(pending)
    /\ quiet \in 0..Debounce /\ deadline \in 0..MaxDebounce

\* What the OS reports of is on its way to the client.
Telling ==
    /\ IsTree(view \cap Known) /\ Indexed(Masked(pending, Known))
    /\ Ahead(Known, Masked(pending, Known), view \cap Known, raw, exists \cap Known, unread \cap Known)

LEMMA WatchStarts == WatcherInit => WatchTypes /\ Telling
  <1> SUFFICES ASSUME WatcherInit PROVE WatchTypes /\ Telling
    OBVIOUS
  <1>1. /\ exists \in SUBSET Paths /\ view = exists /\ unread = {} /\ changes = 0 /\ lost = {}
        /\ raw = <<>> /\ pending = NoEntries /\ quiet = 0 /\ deadline = 0
        /\ IsTree(exists)
    BY DEF WatcherInit, IsTree
  <1>2. WatchTypes
    <2>1. raw \in Changed /\ Len(raw) = 0
      BY <1>1 DEF Changed
    <2>2. pending \in Coalescer /\ Rooted(pending)
      BY <1>1, NothingSaid
    <2> QED
      BY WatchBounds, <1>1, <2>1, <2>2 DEF WatchTypes
  <1> DEFINE tree == exists \cap Known
  <1>3. IsTree(tree)
    BY <1>1, KnownWhole DEF IsTree, Whole
  <1>4. Told(Known, Masked(pending, Known), tree, raw, tree)
    <2> DEFINE t == [i \in 1..1 |-> tree]
    <2>1. Trail(Known, t, raw, tree) /\ t[1] = tree
      <3>1. Len(raw) = 0
        BY <1>1
      <3>2. t \in [1..0 + 1 -> SUBSET Paths] /\ \A i \in 1..0 + 1 : t[i] = tree
        BY <1>1
      <3> HIDE DEF t, tree
      <3> QED
        BY <1>3, <3>1, <3>2 DEF Trail
    <2> HIDE DEF t, tree
    <2> QED
      BY <1>1, <2>1, NothingSaid DEF Told
  <1> QED
    BY <1>1, <1>2, <1>3, <1>4, NothingSaid DEF Telling, Ahead

\* Whatever happens to the tree, what is reported are changes.
LEMMA ReportTypes ==
    ASSUME WatchTypes, NEW tree \in SUBSET Paths, NEW events \in Seq(ChangeRecord),
           Report(tree, events)
    PROVE  /\ exists' \subseteq Paths /\ unread' \subseteq Paths
           /\ raw' \in Changed /\ Len(raw') <= MaxRaw
  <1>1. /\ raw' = raw \o events /\ Len(raw) + Len(events) <= MaxRaw /\ exists' = tree
        /\ unread' = {e.path : e \in {x \in Range(events) : x.type # "deleted"}} \cup (unread \cap tree)
        /\ raw \in Seq(ChangeRecord) /\ unread \subseteq Paths
    BY DEF Report, WatchTypes, Changed
  <1>2. raw \o events \in Seq(ChangeRecord) /\ Len(raw \o events) = Len(raw) + Len(events)
    BY <1>1
  <1>3. ASSUME NEW e \in Range(events) PROVE e.path \in Paths
    <2>1. PICK i \in DOMAIN events : e = events[i]
      BY DEF Range
    <2>2. e \in ChangeRecord
      BY <2>1
    <2> QED
      BY <2>2 DEF ChangeRecord
  <1> QED
    BY <1>1, <1>2, <1>3 DEF Changed

LEMMA TypesStep == WatchTypes /\ [WatcherNext]_watcherVars => WatchTypes'
  <1> SUFFICES ASSUME WatchTypes, [WatcherNext]_watcherVars PROVE WatchTypes'
    OBVIOUS
  <1>1. /\ MaxChanges \in Nat /\ MaxRaw \in Nat /\ Debounce \in Nat /\ MaxDebounce \in Nat
        /\ pending \in Coalescer /\ Rooted(pending) /\ raw \in Seq(ChangeRecord)
    BY WatchBounds DEF WatchTypes, Changed
  <1>2. ASSUME NEW p \in Paths, NEW type \in Type PROVE Change(type, p) \in ChangeRecord
    BY DEF Change, ChangeRecord
  <1>3. "added" \in Type /\ "updated" \in Type /\ "deleted" \in Type
    BY DEF Type
  <1>4. ASSUME NEW p \in Paths, Create(p) \/ WriteFile(p) \/ Delete(p) PROVE WatchTypes'
    <2>1. \E tree \in SUBSET Paths, events \in Seq(ChangeRecord) : Report(tree, events)
      <3>1. ASSUME NEW type \in Type PROVE <<Change(type, p)>> \in Seq(ChangeRecord)
        BY <1>2
      <3>2. exists \cup {p} \in SUBSET Paths /\ exists \in SUBSET Paths /\ exists \ {p} \in SUBSET Paths
        BY DEF WatchTypes
      <3> QED
        BY <1>3, <1>4, <3>1, <3>2 DEF Create, WriteFile, Delete
    <2>2. /\ UNCHANGED <<lost, pending, quiet, deadline, view>>
          /\ changes' \in 0..MaxChanges
      BY <1>1, <1>4 DEF Create, WriteFile, Delete, WatchTypes
    <2> QED
      BY <2>1, <2>2, ReportTypes DEF WatchTypes
  <1>5. ASSUME NEW p \in Paths, NEW q \in Paths, Rename(p, q) PROVE WatchTypes'
    <2> DEFINE gone == Children(p)
               come == {Into(p, q, x) : x \in gone} \cap Paths
               tree == (exists \ (gone \cup {p})) \cup come \cup {q}
    <2>1. tree \in SUBSET Paths /\ gone \subseteq Paths
      BY DEF WatchTypes, Children
    <2>2. <<Change("deleted", p), Change("added", q)>> \in Seq(ChangeRecord)
      <3>1. Change("deleted", p) \in ChangeRecord /\ Change("added", q) \in ChangeRecord
        BY <1>2, <1>3
      <3> QED
        BY <3>1
    <2>3. /\ Report(tree, <<Change("deleted", p), Change("added", q)>>)
          /\ lost' = lost \cup {Key[x] : x \in gone \cup come}
          /\ changes < MaxChanges /\ changes' = changes + 1
          /\ UNCHANGED <<pending, quiet, deadline, view>>
      BY <1>5 DEF Rename
    <2>4. lost' \subseteq Keys
      BY <2>1, <2>3, KeysOfPaths DEF WatchTypes
    <2> HIDE DEF tree
    <2>5. changes' \in 0..MaxChanges
      BY <1>1, <2>3 DEF WatchTypes
    <2> QED
      BY <2>1, <2>2, <2>3, <2>4, <2>5, ReportTypes DEF WatchTypes
  <1>6. CASE Receive
    <2>1. /\ raw # <<>> /\ raw' = Tail(raw) /\ pending' = Process(pending, Head(raw))
          /\ quiet' = Debounce /\ deadline' \in {deadline, MaxDebounce}
          /\ UNCHANGED <<exists, changes, lost, view, unread>>
      BY <1>6 DEF Receive, diskVars
    <2>2. /\ Tail(raw) \in Seq(ChangeRecord) /\ Len(Tail(raw)) = Len(raw) - 1 /\ Len(raw) \in Nat
          /\ Head(raw) \in ChangeRecord
      BY <1>1, <2>1
    <2>3. pending' \in Coalescer /\ Rooted(pending')
      BY <1>1, <2>1, <2>2, ProcessRooted
    <2> QED
      BY <1>1, <2>1, <2>2, <2>3 DEF WatchTypes, Changed
  <1>7. CASE Tick
    <2>1. UNCHANGED <<exists, changes, lost, raw, pending, view, unread>>
      BY <1>7 DEF Tick, diskVars
    <2>2. quiet' \in 0..Debounce /\ deadline' \in 0..MaxDebounce
      BY <1>1, <1>7 DEF Tick, Before, WatchTypes
    <2> QED
      BY <2>1, <2>2 DEF WatchTypes
  <1>8. CASE Flush
    <2>1. /\ view' \subseteq view \cup Named({"added"})
          /\ unread' \subseteq unread
          /\ pending' = NoEntries /\ quiet' = 0 /\ deadline' = 0
          /\ UNCHANGED <<exists, changes, lost, raw>>
      BY <1>8 DEF Flush, diskVars
    <2>2. Named({"added"}) \subseteq Paths
      BY <1>1, NamedSays DEF Named, NamedIn, Says
    <2> QED
      BY <1>1, <2>1, <2>2, NothingSaid DEF WatchTypes
  <1>9. CASE UNCHANGED watcherVars
    <2>1. UNCHANGED <<exists, changes, lost, raw, pending, quiet, deadline, view, unread>>
      BY <1>9 DEF watcherVars, diskVars, loopVars
    <2> QED
      BY <2>1 DEF WatchTypes
  <1> QED
    BY <1>4, <1>5, <1>6, <1>7, <1>8, <1>9 DEF WatcherNext

\* One change is reported, of a tree that changes in this way only as far as it
\* is known.
LEMMA Reported ==
    ASSUME WatchTypes, Telling, NEW e \in ChangeRecord, NEW tree, IsTree(tree \cap Known),
           Moves(Known, exists \cap Known, e, tree \cap Known),
           Report(tree, <<e>>), UNCHANGED <<lost, view, pending>>
    PROVE  Telling'
  <1>1. /\ raw' = Append(raw, e) /\ exists' = tree /\ Known' = Known
        /\ Range(<<e>>) = {e}
    BY DEF Report, WatchTypes, Changed, Known, Range
  <1>2. (unread' \cap Known) \cap (tree \cap Known) \subseteq
           ((unread \cap Known) \cap (exists \cap Known)) \cup (IF e.type = "deleted" THEN {} ELSE {e.path})
    <2>1. unread' = {x.path : x \in {y \in {e} : y.type # "deleted"}} \cup (unread \cap tree)
      BY <1>1 DEF Report
    <2>2. unread' = (IF e.type = "deleted" THEN {} ELSE {e.path}) \cup (unread \cap tree)
      BY <2>1
    <2>3. tree \cap Known \subseteq (exists \cap Known) \cup (IF e.type = "deleted" THEN {} ELSE {e.path})
      BY DEF Moves, Happens
    <2> QED
      BY <2>2, <2>3
  <1> DEFINE m == Masked(pending, Known)
             K == Known
  <1>3. Ahead(K, m, view \cap K, raw, exists \cap K, unread \cap K) /\ raw \in Changed
    BY DEF Telling, WatchTypes
  <1>4. Ahead(K, m, view \cap K, Append(raw, e), tree \cap K, unread' \cap K)
    <2> HIDE DEF m, K
    <2> QED
      BY <1>2, <1>3, AheadAppended DEF K
  <1>5. Masked(pending, Known)' = m
    BY <1>1 DEF Masked, Holds, Live, KeysOf
  <1> QED
    BY <1>1, <1>4, <1>5 DEF Telling

LEMMA TellingNarrowed ==
    ASSUME WatchTypes, Telling, NEW W, Whole(W), W \subseteq Known
    PROVE  /\ IsTree(view \cap W) /\ Indexed(Masked(pending, W))
           /\ Ahead(W, Masked(pending, W), view \cap W, raw, exists \cap W, unread \cap W)
  <1>1. view \cap W = (view \cap Known) \cap W /\ exists \cap W = (exists \cap Known) \cap W
        /\ unread \cap W = (unread \cap Known) \cap W
    OBVIOUS
  <1>2. IsTree(view \cap W)
    BY <1>1 DEF Telling, IsTree, Whole
  <1>3. pending \in Coalescer /\ raw \in Changed /\ Whole(Known)
    BY KnownWhole DEF WatchTypes
  <1>4. Indexed(Masked(pending, W))
    BY <1>3, MaskedIndexed DEF Telling
  <1>5. Ahead(W, Masked(pending, W), (view \cap Known) \cap W, raw, (exists \cap Known) \cap W, (unread \cap Known) \cap W)
    BY <1>3, AheadNarrowed DEF Telling
  <1> QED
    BY <1>1, <1>2, <1>4, <1>5

LEMMA TellingStep ==
    ASSUME FoldersSpeltOneWay
    PROVE  WatchTypes /\ Telling /\ [WatcherNext]_watcherVars => Telling'
  <1> SUFFICES ASSUME WatchTypes, Telling, [WatcherNext]_watcherVars
               PROVE  Telling'
    OBVIOUS
  <1> DEFINE K == Known
             m == Masked(pending, Known)
  <1>1. /\ IsTree(view \cap K) /\ Indexed(m) /\ IsTree(exists \cap K)
        /\ Ahead(K, m, view \cap K, raw, exists \cap K, unread \cap K)
        /\ raw \in Changed /\ pending \in Coalescer /\ Rooted(pending) /\ Whole(K)
    BY KnownWhole DEF Telling, WatchTypes, Ahead
  \* Trees stay trees.
  <1>2. ASSUME NEW U, Whole(U), NEW tree, IsTree(tree \cap U), NEW p \in Paths,
               ~Found(p, tree), Above[p] \subseteq tree
        PROVE  IsTree((tree \cup {p}) \cap U)
    BY <1>2 DEF IsTree, Found, Whole
  <1>3. ASSUME NEW U, Whole(U), IsTree(exists \cap U), NEW p \in exists, Children(p) \cap U = {}
        PROVE  IsTree((exists \ {p}) \cap U)
    BY <1>3 DEF IsTree, Children
  <1>4. ASSUME NEW type \in Type, NEW p \in Paths
        PROVE  /\ Change(type, p) \in ChangeRecord
               /\ Change(type, p).type = type /\ Change(type, p).path = p
    BY <1>4 DEF Change, ChangeRecord
  <1>5. "added" \in Type /\ "updated" \in Type /\ "deleted" \in Type
    BY DEF Type
  <1>6. ASSUME NEW p \in Paths, Create(p) PROVE Telling'
    <2> DEFINE e == Change("added", p)
               tree == exists \cup {p}
    <2>1. /\ Report(tree, <<e>>) /\ UNCHANGED <<lost, pending, view>>
          /\ ~Found(p, exists) /\ Above[p] \subseteq exists
      BY <1>6 DEF Create
    <2>2. IsTree(tree \cap K) /\ e \in ChangeRecord /\ e.type = "added" /\ e.path = p
      BY <1>1, <1>2, <1>4, <1>5, <2>1
    <2>3. Moves(K, exists \cap K, e, tree \cap K)
      BY <2>1, <2>2 DEF Moves, Happens, Found
    <2> HIDE DEF e, tree
    <2> QED
      BY <2>1, <2>2, <2>3, Reported
  <1>7. ASSUME NEW p \in Paths, WriteFile(p) PROVE Telling'
    <2> DEFINE e == Change("updated", p)
    <2>1. Report(exists, <<e>>) /\ UNCHANGED <<lost, pending, view>> /\ p \in exists
      BY <1>7 DEF WriteFile
    <2>2. e \in ChangeRecord /\ e.type = "updated" /\ e.path = p
      BY <1>4, <1>5
    <2>3. Moves(K, exists \cap K, e, exists \cap K)
      BY <2>1, <2>2 DEF Moves, Happens
    <2> HIDE DEF e
    <2> QED
      BY <1>1, <2>1, <2>2, <2>3, Reported
  <1>8. ASSUME NEW p \in Paths, Delete(p) PROVE Telling'
    <2> DEFINE e == Change("deleted", p)
               tree == exists \ {p}
    <2>1. /\ Report(tree, <<e>>) /\ UNCHANGED <<lost, pending, view>>
          /\ p \in exists /\ Children(p) = {}
      BY <1>8 DEF Delete
    <2>2. IsTree(tree \cap K) /\ e \in ChangeRecord /\ e.type = "deleted" /\ e.path = p
      BY <1>1, <1>3, <1>4, <1>5, <2>1
    <2>3. Moves(K, exists \cap K, e, tree \cap K)
      BY <2>1, <2>2 DEF Moves, Happens
    <2> HIDE DEF e, tree
    <2> QED
      BY <2>1, <2>2, <2>3, Reported
  <1>9. ASSUME NEW p \in Paths, NEW q \in Paths, Rename(p, q) PROVE Telling'
    <2> DEFINE gone == Children(p)
               come == {Into(p, q, x) : x \in gone} \cap Paths
               tree == (exists \ (gone \cup {p})) \cup come \cup {q}
               d == Change("deleted", p)
               a == Change("added", q)
               W == Known'
    <2>1. /\ Report(tree, <<d, a>>) /\ UNCHANGED <<pending, quiet, deadline, view>>
          /\ p \in exists /\ q # p /\ ~Found(q, exists \ {p}) /\ Above[q] \subseteq exists \ {p}
          /\ lost' = lost \cup {Key[x] : x \in gone \cup come}
      BY <1>9 DEF Rename
    <2>2. Whole(W)
      BY LostWhole DEF Known
    <2>3. W \subseteq Known /\ W \cap (gone \cup come) = {}
      BY <2>1 DEF Known
    <2> DEFINE w == Masked(pending, W)
               here == exists \cap W
               between == (exists \ {p}) \cap W
               there == tree \cap W
    <2>4. IsTree(view \cap W) /\ Indexed(w) /\ Ahead(W, w, view \cap W, raw, here, unread \cap W)
      <3> HIDE DEF W
      <3> QED
        BY <2>2, <2>3, TellingNarrowed
    <2>5. /\ d \in ChangeRecord /\ d.type = "deleted" /\ d.path = p
          /\ a \in ChangeRecord /\ a.type = "added" /\ a.path = q
      BY <1>4, <1>5
    <2>6. there = ((exists \ {p}) \cup {q}) \cap W
      BY <2>3
    <2>7. IsTree(here)
      BY <2>4 DEF Ahead
    <2>8. IsTree(between) /\ Moves(W, here, d, between)
      <3>1. IsTree(between)
        <4> HIDE DEF W, gone
        <4> QED
          BY <1>3, <2>1, <2>2, <2>3, <2>7 DEF gone
      <3> QED
        BY <2>1, <2>5, <3>1 DEF Moves, Happens
    <2>9. IsTree(there) /\ Moves(W, between, a, there)
      <3>1. IsTree(there)
        <4> HIDE DEF W, there
        <4> QED
          BY <1>2, <2>1, <2>2, <2>6, <2>8
      <3> QED
        BY <2>1, <2>5, <2>6, <3>1 DEF Moves, Happens, Found
    <2>10. /\ raw' = Append(Append(raw, d), a) /\ Append(raw, d) \in Changed /\ exists' = tree
      <3>1. raw' = raw \o <<d, a>> /\ exists' = tree
        BY <2>1 DEF Report
      <3>2. ASSUME NEW S, NEW s \in Seq(S), NEW x \in S, NEW y \in S
            PROVE  s \o <<x, y>> = Append(Append(s, x), y) /\ Append(s, x) \in Seq(S)
        OBVIOUS
      <3> QED
        BY <1>1, <2>5, <3>1, <3>2 DEF Changed
    <2>11. unread' = {q} \cup (unread \cap tree)
      <3>1. Range(<<d, a>>) = {d, a}
        BY DEF Range
      <3>2. unread' = {x.path : x \in {y \in {d, a} : y.type # "deleted"}} \cup (unread \cap tree)
        BY <2>1, <3>1 DEF Report
      <3>3. {y \in {d, a} : y.type # "deleted"} = {a}
        BY <2>5
      <3> QED
        BY <2>5, <3>2, <3>3
    <2>12. Ahead(W, w, view \cap W, Append(raw, d), between, unread \cap between)
      <3>1. (unread \cap between) \cap between \subseteq
               ((unread \cap W) \cap here) \cup (IF d.type = "deleted" THEN {} ELSE {d.path})
        OBVIOUS
      <3> HIDE DEF d, between, here, w, W
      <3> QED
        BY <1>1, <2>4, <2>5, <2>8, <3>1, AheadAppended
    <2>13. Ahead(W, w, view \cap W, raw', there, unread' \cap W)
      <3>1. (unread' \cap W) \cap there \subseteq
               ((unread \cap between) \cap between) \cup (IF a.type = "deleted" THEN {} ELSE {a.path})
        BY <2>5, <2>6, <2>11
      <3> HIDE DEF d, a, between, there, w, W
      <3> QED
        BY <2>5, <2>9, <2>10, <2>12, <3>1, AheadAppended
    <2>14. Masked(pending, Known)' = w /\ view' = view
      BY <2>1 DEF Masked, Holds, Live, KeysOf
    <2> QED
      BY <2>4, <2>10, <2>13, <2>14 DEF Telling
  <1>10. CASE Receive
    <2>1. /\ raw # <<>> /\ raw' = Tail(raw) /\ pending' = Process(pending, Head(raw))
          /\ UNCHANGED <<exists, lost, view, unread>> /\ Known' = Known
      BY <1>10 DEF Receive, diskVars, Known
    <2> DEFINE c == Masked(Process(pending, Head(raw)), K)
    <2>2. /\ Indexed(c)
          /\ Ahead(K, c, view \cap K, Tail(raw), exists \cap K, unread \cap K)
      <3> HIDE DEF K
      <3> QED
        BY <1>1, <2>1, AheadTaken DEF K
    <2>3. Masked(pending, Known)' = c
      BY <2>1 DEF Masked, Holds, Live, KeysOf
    <2> QED
      BY <1>1, <2>1, <2>2, <2>3 DEF Telling
  <1>11. CASE Tick \/ UNCHANGED watcherVars
    <2>1. UNCHANGED <<exists, lost, raw, pending, view, unread>> /\ Known' = Known
      BY <1>11 DEF Tick, diskVars, loopVars, watcherVars, Known
    <2>2. Masked(pending, Known)' = m
      BY <2>1 DEF Masked, Holds, Live, KeysOf
    <2> QED
      BY <1>1, <2>1, <2>2 DEF Telling
  <1>12. CASE Flush
    <2>1. /\ Named({"deleted"}) = Dropped(pending)
          /\ Named({"added"}) = Says(pending, "added")
          /\ Named({"added", "updated"}) = Tells(pending)
      BY <1>1, NamedSays DEF Named, NamedIn
    <2>2. /\ view' = {p \in view : p \notin Dropped(pending)
                                   /\ ~\E q \in Dropped(pending) : Within(p, q)}
                       \cup Says(pending, "added")
          /\ unread' = unread \ Tells(pending)
          /\ pending' = NoEntries /\ Known' = Known
          /\ UNCHANGED <<exists, lost, raw>>
      BY <1>12, <2>1 DEF Flush, diskVars, Known
    <2>3. /\ IsTree(view' \cap K)
          /\ Ahead(K, Masked(NoEntries, K), view' \cap K, raw, exists \cap K, (unread \ Tells(pending)) \cap K)
      <3> HIDE DEF K
      <3> QED
        BY <1>1, <2>2, AheadFlushed DEF K
    <2>4. Masked(pending, Known)' = Masked(NoEntries, K)
      BY <2>2 DEF Masked, Holds, Live, KeysOf
    <2> QED
      BY <2>2, <2>3, <2>4, NothingSaid DEF Telling
  <1> QED
    BY <1>6, <1>7, <1>8, <1>9, <1>10, <1>11, <1>12 DEF WatcherNext

LEMMA TypesHold == WatcherSpec => []WatchTypes
  <1> QED
    BY WatchStarts, TypesStep, PTL DEF WatcherSpec

LEMMA WatchHolds ==
    ASSUME FoldersSpeltOneWay
    PROVE  WatcherSpec => [](WatchTypes /\ Telling)
  <1> QED
    BY WatchStarts, TypesStep, TellingStep, PTL DEF WatcherSpec

\* The coalescer's index points at live entries of the same comparison key, as
\* process expects (watcher.rs:254), and what else a watch holds has its type.
THEOREM WatchTyped == WatcherSpec => []WatcherTypeOK
  <1>1. WatchTypes => WatcherTypeOK
    BY DEF WatchTypes, WatcherTypeOK, Coalescer, Rooted, Live, Keys, Changed
  <1> QED
    BY <1>1, TypesHold, PTL

\* Once every change is handed on the client has the tree on disk and has read
\* what was written, however the changes fell into batches (EventCoalescer,
\* watcher.rs:241), but for what went or came with its folder.
THEOREM NothingIsUntold ==
    ASSUME FoldersSpeltOneWay
    PROVE  WatcherSpec => []NothingUntold
  <1>1. WatchTypes /\ Telling => NothingUntold
    <2> DEFINE m == Masked(pending, Known)
    <2> SUFFICES ASSUME WatchTypes, Telling, raw = <<>>, pending.list = <<>>
                 PROVE  view \cap Known = exists \cap Known /\ unread \cap exists \cap Known = {}
      BY DEF NothingUntold, Holding
    <2>1. Len(raw) = 0 /\ DOMAIN m.list = {}
      BY MaskedFields DEF WatchTypes
    <2>2. \A type : Says(m, type) = {}
      BY <2>1 DEF Says
    <2>3. PICK t : Trail(Known, t, raw, exists \cap Known) /\ Parts(m, view \cap Known, t[1])
      BY DEF Telling, Ahead, Told
    <2>4. t[1] = exists \cap Known
      BY <2>1, <2>3 DEF Trail
    <2> HIDE DEF m
    <2>5. view \cap Known = exists \cap Known
      BY <2>2, <2>3, <2>4 DEF Parts
    <2>6. ASSUME NEW p PROVE ~Owed(p, m, raw)
      BY <2>1, <2>2 DEF Owed, Tells
    <2> QED
      BY <2>5, <2>6 DEF Telling, Ahead, m
  <1> QED
    BY <1>1, WatchHolds, PTL

\* Every batch is the exact difference to what the client was told before
\* (coalesce, watcher.rs:292), but for what went or came with its folder.
THEOREM BatchesExact ==
    ASSUME FoldersSpeltOneWay
    PROVE  WatcherSpec => BatchesAreExact
  <1>1. WatchTypes /\ Telling =>
           LET gone == Named({"deleted"})
           IN  /\ gone \cap Known \subseteq view
               /\ Named({"added"}) \cap Known \cap (view \ gone) = {}
               /\ Named({"updated"}) \cap Known \subseteq view \ gone
    <2> DEFINE m == Masked(pending, Known)
    <2> SUFFICES ASSUME WatchTypes, Telling
                 PROVE  /\ Dropped(pending) \cap Known \subseteq view
                        /\ Says(pending, "added") \cap Known \cap (view \ Dropped(pending)) = {}
                        /\ Says(pending, "updated") \cap Known \subseteq view \ Dropped(pending)
      BY NamedSays DEF Named, NamedIn, WatchTypes
    <2>1. PICK t : Trail(Known, t, raw, exists \cap Known) /\ Parts(m, view \cap Known, t[1])
      BY DEF Telling, Ahead, Told
    <2>2. IsTree(t[1])
      BY <2>1 DEF Trail, WatchTypes, Changed
    <2>3. m \in Coalescer /\ Whole(Known) /\ pending \in Coalescer
      BY MaskedFields, KnownWhole DEF WatchTypes
    <2>4. /\ Dropped(m) = Dropped(pending) \cap Known
          /\ Says(m, "added") = Says(pending, "added") \cap Known
          /\ Says(m, "updated") = Says(pending, "updated") \cap Known
      BY <2>3, DroppedMasked, SaysMasked DEF Type
    <2>5. /\ Dropped(m) \subseteq view \cap Known
          /\ Says(m, "added") \cap ((view \cap Known) \ Dropped(m)) = {}
          /\ Says(m, "updated") \subseteq (view \cap Known) \ Dropped(m)
      <3> HIDE DEF m
      <3> QED
        BY <2>1, <2>2, <2>3, BatchApplied DEF Telling, m
    <2> QED
      BY <2>4, <2>5
  <1>2. WatchTypes /\ Telling =>
           [Holding /\ pending' = NoEntries =>
              LET gone == Named({"deleted"})
              IN  /\ gone \cap Known \subseteq view
                  /\ Named({"added"}) \cap Known \cap (view \ gone) = {}
                  /\ Named({"updated"}) \cap Known \subseteq view \ gone]_watcherVars
    BY <1>1
  <1> QED
    BY <1>2, WatchHolds, PTL DEF BatchesAreExact

=============================================================================
