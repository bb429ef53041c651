-------------------------- MODULE ConnectionProofs --------------------------
(***************************************************************************)
(* The safety properties of a connection: those of one listen event end to *)
(* end (ChannelIpc), for any number of cycles, listeners and events, and,  *)
(* in the last part, those of the calls on it (HostProcess).  Of an event  *)
(* everything is said of where a cycle's requests, answers and events are  *)
(* in the pipes, because both carry several cycles' at once: what keeps    *)
(* the events of an abandoned cycle and of its successor apart is that the *)
(* successor's producer starts after the answer that lets go of the one    *)
(* before.                                                                 *)
(***************************************************************************)
EXTENDS ChannelIpc, HostProcess, TLAPS

\* The i-th line of a pipe.
At(pipe, i, kind, c) == i \in 1 .. Len(pipe) /\ pipe[i].kind = kind /\ pipe[i].id = c

EventAt(pipe, i, c, n) == At(pipe, i, "event", c) /\ pipe[i].payload = n

AnswerAt(i, c) == At(stdout, i, "listening", c) \/ At(stdout, i, "refused", c)

Started(c) == producer[c] # "none"

JobKind == {"listen", "listening", "refused", "taken", "dispose"}

\* The request is on its way to the dispatcher, or about to be written.
Asked(c) == \E i \in Nat : At(stdin, i, "listen", c) \/ At(jobs, i, "listen", c)

\* The microtask that disposes the cycle is due, or the one before it.
Disposing(c) == \E i \in Nat : At(jobs, i, "listening", c) \/ At(jobs, i, "dispose", c)

AnswerSent(c) == \E i \in Nat : AnswerAt(i, c)

\* Ids are drawn in order, and the emitter holds the last one drawn.
Drawn ==
    /\ \A b, c \in Cycle : b < c /\ cycle[c] # "unused" => cycle[b] # "unused"
    /\ subscription # None => cycle[subscription] \in {"opening", "open", "refused"}
    /\ \A c \in Cycle : subscription # None /\ c > subscription => cycle[c] = "unused"

\* The request of an opening cycle is on its way to the dispatcher, being
\* answered, or on its way back, and in one of these places only.
Placed ==
    /\ \A c \in Cycle :
        cycle[c] = "opening" => Asked(c) \/ c \in answering \/ AnswerSent(c)
    /\ \A c \in Cycle : Asked(c) =>
        /\ cycle[c] = "opening" /\ c \notin answering /\ ~AnswerSent(c)
        /\ c \notin subscriptions /\ ~Started(c)
    /\ \A c \in Cycle : c \in answering =>
        cycle[c] = "opening" /\ ~AnswerSent(c) /\ c \in subscriptions
    /\ \A c \in Cycle : AnswerSent(c) => cycle[c] = "opening"

\* No pipe carries a request or an answer twice, or two requests out of order.
Single ==
    /\ \A b, c \in Cycle, i, j \in Nat :
        At(stdin, i, "listen", b) /\ At(stdin, j, "listen", c) /\ i < j => b < c
    /\ \A b, c \in Cycle, i, j \in Nat :
        At(stdin, i, "listen", b) /\ At(jobs, j, "listen", c) => b < c
    /\ \A b, c \in Cycle, i, j \in Nat :
        At(jobs, i, "listen", b) /\ At(jobs, j, "listen", c) /\ i < j => b < c
    /\ \A c \in Cycle, i, j \in Nat : AnswerAt(i, c) /\ AnswerAt(j, c) => i = j
    /\ \A c \in Cycle, i \in Nat : ~At(stdout, i, "taken", c)

\* What is subscribed has a producer, and what was refused has none.
Produced ==
    /\ \A c \in Cycle : c \in subscriptions => Started(c)
    /\ \A c \in Cycle : Started(c) => cycle[c] \notin {"unused", "refused"}
    /\ \A c \in Cycle, i \in Nat : At(stdout, i, "refused", c) => ~Started(c)

\* What a producer has on its way is all it reported since the first of it.
Reported ==
    /\ \A c \in Cycle : reported[c] <= source
    /\ \A c \in Cycle : producer[c] = "emitting" => reported[c] < source
    /\ \A c \in Cycle, i, n \in Nat : EventAt(stdout, i, c, n) => Started(c) /\ n <= reported[c]
    /\ \A c \in Cycle, i, j, m, n \in Nat :
        EventAt(stdout, i, c, m) /\ EventAt(stdout, j, c, n) /\ i < j => m < n
    /\ \A c \in Cycle, i, m, n \in Nat :
        EventAt(stdout, i, c, m) /\ m < n /\ n <= reported[c] => \E j \in Nat : EventAt(stdout, j, c, n)

\* A cycle that is live while a later one has started has been answered ahead
\* of every event of the later one, and its events before that are older.
Apart ==
    \A b, c \in Cycle :
        b < c /\ Timely(b) /\ Timely(c) /\ Started(c) =>
            /\ AnswerSent(b)
            /\ \A k, i, n \in Nat : AnswerAt(k, b) /\ EventAt(stdout, i, c, n) => k < i
            /\ \A k, j, m \in Nat : AnswerAt(k, b) /\ EventAt(stdout, j, b, m) /\ j < k =>
                /\ m <= reported[c]
                /\ \A i, n \in Nat : EventAt(stdout, i, c, n) => m < n

Last == fired[Len(fired)]

\* What has been fired ends where what is to be fired begins.
Joined ==
    /\ \A i, j \in 1 .. Len(fired) : i < j => fired[i].id <= fired[j].id
    /\ \A i \in 1 .. Len(fired) : Started(fired[i].id) /\ fired[i].payload <= source
    /\ \A i \in 1 .. Len(fired), b \in Cycle : b < fired[i].id => ~Timely(b)

\* Every live producer goes on after the last event fired, and all its own
\* producer has reported since is on its way.
Continued ==
    fired # << >> =>
        /\ \A c \in Cycle : Timely(c) /\ Started(c) =>
            /\ Last.payload <= reported[c]
            /\ \A i, n \in Nat : EventAt(stdout, i, c, n) => Last.payload < n
        /\ Timely(Last.id) => \A n \in Nat :
            Last.payload < n /\ n <= reported[Last.id] => \E j \in Nat : EventAt(stdout, j, Last.id, n)

\* NoOrphan, with a place for the unlisten and for the microtasks.
Kept ==
    \A c \in Cycle : c \in subscriptions =>
        Timely(c) \/ Disposing(c) \/ \E i \in Nat : At(stdin, i, "unlisten", c)

\* A microtask that is due knows how its cycle was answered, and a handler is
\* attached until the microtask that detaches it.
Queued ==
    /\ \A c \in Cycle, i \in Nat :
        /\ At(jobs, i, "listening", c) => cycle[c] \in {"open", "disposed"}
        /\ At(jobs, i, "refused", c) => cycle[c] = "refused"
        /\ At(jobs, i, "dispose", c) => cycle[c] = "disposed"
        /\ ~At(jobs, i, "taken", c)
    /\ \A c \in Cycle : Timely(c) => c \in attached
    /\ \A c \in Cycle : c \in attached =>
        Timely(c) \/ Disposing(c) \/ \E i \in Nat : At(jobs, i, "refused", c)

\* Only what the emitter has let go of is unlistened.
LetGo == \A c \in Cycle, i \in Nat : At(stdin, i, "unlisten", c) => cycle[c] = "disposed"

Cycles == Drawn /\ Placed /\ Single /\ Produced /\ LetGo /\ Kept /\ Queued

Payloads == Reported /\ Apart /\ Joined /\ Continued /\ FiredInOrder

LEMMA CycleFacts == \A c \in Cycle : c \in Nat /\ c # None /\ c <= MaxCycle
BY DEF Cycle, None

LEMMA LineFacts ==
    ASSUME TypeOK, NEW i \in 1 .. Len(stdout)
    PROVE  /\ stdout[i].id \in Cycle
           /\ stdout[i].kind \in {"listening", "refused", "taken", "event"}
           /\ stdout[i].kind = "event" => stdout[i].payload \in 1 .. MaxEvent
<1>1. stdout[i] \in Line
    BY DEF TypeOK
<1> QED  BY <1>1 DEF Line

LEMMA RequestFacts ==
    ASSUME TypeOK, NEW i \in 1 .. Len(stdin)
    PROVE  stdin[i].id \in Cycle /\ stdin[i].kind \in {"listen", "unlisten"}
<1>1. stdin[i] \in Request
    BY DEF TypeOK
<1> QED  BY <1>1 DEF Request

LEMMA InitTyped == Init => TypeOK
<1> SUFFICES ASSUME Init PROVE TypeOK
    OBVIOUS
<1>1. /\ jobs \in Seq(Job) /\ fired \in Seq(Payload) /\ stray \in Seq(Payload)
      /\ stdin \in Seq(Request) /\ stdout \in Seq(Line)
    BY DEF Init
<1>2. /\ listeners \in 0 .. MaxListener /\ source \in 0 .. MaxEvent
      /\ reported \in [Cycle -> 0 .. MaxEvent]
    BY BoundAssumption DEF Init
<1> QED  BY <1>1, <1>2 DEF Init, TypeOK, None

\* The heads of the pipes.
LEMMA HeadLine ==
    ASSUME TypeOK, stdout # << >>
    PROVE  /\ Len(stdout) \in Nat \ {0} /\ Head(stdout) = stdout[1]
           /\ Tail(stdout) \in Seq(Line)
           /\ At(stdout, 1, Head(stdout).kind, Head(stdout).id)
           /\ Head(stdout).id \in Cycle
           /\ Head(stdout).kind \in {"listening", "refused", "taken", "event"}
           /\ Head(stdout).kind = "event" => Head(stdout).payload \in 1 .. MaxEvent
<1>1. stdout \in Seq(Line)
    BY DEF TypeOK
<1>2. Len(stdout) \in Nat \ {0} /\ Head(stdout) = stdout[1] /\ Tail(stdout) \in Seq(Line)
    BY <1>1
<1> QED  BY <1>2, LineFacts DEF At

LEMMA HeadRequest ==
    ASSUME TypeOK, stdin # << >>
    PROVE  /\ Len(stdin) \in Nat \ {0} /\ Head(stdin) = stdin[1]
           /\ Tail(stdin) \in Seq(Request)
           /\ At(stdin, 1, Head(stdin).kind, Head(stdin).id)
           /\ Head(stdin).id \in Cycle
           /\ Head(stdin).kind \in {"listen", "unlisten"}
<1>1. stdin \in Seq(Request)
    BY DEF TypeOK
<1>2. Len(stdin) \in Nat \ {0} /\ Head(stdin) = stdin[1] /\ Tail(stdin) \in Seq(Request)
    BY <1>1
<1> QED  BY <1>2, RequestFacts DEF At

LEMMA HeadJob ==
    ASSUME TypeOK, jobs # << >>
    PROVE  /\ Len(jobs) \in Nat \ {0} /\ Head(jobs) = jobs[1]
           /\ Tail(jobs) \in Seq(Job)
           /\ At(jobs, 1, Head(jobs).kind, Head(jobs).id)
           /\ Head(jobs).id \in Cycle
           /\ Head(jobs).kind \in JobKind
<1>1. jobs \in Seq(Job)
    BY DEF TypeOK
<1>2. Len(jobs) \in Nat \ {0} /\ Head(jobs) = jobs[1] /\ Tail(jobs) \in Seq(Job) /\ jobs[1] \in Job
    BY <1>1
<1>3. Head(jobs).id \in Cycle /\ Head(jobs).kind \in JobKind
    BY <1>2 DEF Job, JobKind
<1> QED  BY <1>2, <1>3 DEF At

LEMMA WriteTyped ==
    ASSUME TypeOK, NEW kind \in {"listen", "unlisten"}, NEW c \in Cycle, Write(kind, c)
    PROVE  stdin' \in Seq(Request)
<1>1. [kind |-> kind, id |-> c] \in Request
    BY DEF Request
<1> QED  BY <1>1 DEF Write, TypeOK

LEMMA ReplyTyped ==
    ASSUME TypeOK, NEW kind \in {"listening", "refused", "taken"}, NEW c \in Cycle, Reply(kind, c)
    PROVE  stdout' \in Seq(Line)
<1>1. [kind |-> kind, id |-> c] \in Line
    BY DEF Line
<1> QED  BY <1>1 DEF Reply, TypeOK

LEMMA QueueTyped ==
    ASSUME TypeOK, NEW kind \in JobKind, NEW c \in Cycle
    PROVE  /\ Append(jobs, Due(kind, c)) \in Seq(Job)
           /\ Append(jobs, Due(kind, c)) # << >>
           /\ jobs # << >> => Append(Tail(jobs), Due(kind, c)) \in Seq(Job)
<1>1. PICK new \in Job : new = Due(kind, c)
    BY DEF Job, JobKind, Due
<1>2. jobs \in Seq(Job)
    BY DEF TypeOK
<1>3. Append(jobs, new) \in Seq(Job)
    BY <1>2
<1>4. Append(jobs, new) # << >>
    <2>1. Len(Append(jobs, new)) = Len(jobs) + 1 /\ Len(jobs) \in Nat
        BY <1>2
    <2>2. Len(Append(jobs, new)) # 0 /\ Len(<< >>) = 0
        BY <2>1
    <2> QED  BY <2>2, Zenon
<1>5. jobs # << >> => Append(Tail(jobs), new) \in Seq(Job)
    <2> SUFFICES ASSUME jobs # << >> PROVE Append(Tail(jobs), new) \in Seq(Job)
        OBVIOUS
    <2>1. Tail(jobs) \in Seq(Job)
        BY <1>2
    <2> QED  BY <2>1
<1> QED  BY <1>1, <1>3, <1>4, <1>5, Zenon

\* Steps of the backend.
LEMMA BackendTyped ==
    ASSUME TypeOK, UNCHANGED client, stdin' \in Seq(Request), stdout' \in Seq(Line),
           subscriptions' \in SUBSET Cycle, answering' \in SUBSET Cycle,
           producer' \in [Cycle -> {"none", "running", "emitting", "stopped"}],
           reported' \in [Cycle -> 0 .. MaxEvent], source' \in 0 .. MaxEvent
    PROVE  TypeOK'
BY DEF TypeOK, client, emitter, turn

LEMMA StepTyped ==
    ASSUME TypeOK, \A c \in Cycle : producer[c] = "emitting" => reported[c] < source,
           [Next]_vars
    PROVE  TypeOK'
<1> USE CycleFacts DEF backend
<1>1. CASE AddListener
    <2>1. /\ listeners' \in 0 .. MaxListener /\ listeners' # 0
          /\ UNCHANGED <<draining, fired, stray, stdin, stdout, backend, source>>
        BY <1>1, BoundAssumption DEF AddListener, TypeOK
    <2>2. CASE listeners = 0
        <3>1. PICK c \in FreshId : /\ subscription' = c /\ cycle' = [cycle EXCEPT ![c] = "opening"]
                                   /\ attached' = attached \cup {c}
                                   /\ jobs' = Append(jobs, Due("listen", c))
            BY <1>1, <2>2 DEF AddListener
        <3>2. c \in Cycle
            BY DEF FreshId
        <3>3. jobs' \in Seq(Job) /\ jobs' # << >>
            BY <3>1, <3>2, QueueTyped DEF JobKind
        <3>4. subscription = None
            BY <2>2 DEF TypeOK
        <3> QED  BY <2>1, <3>1, <3>2, <3>3, <3>4 DEF TypeOK
    <2>3. CASE listeners > 0
        BY <1>1, <2>1, <2>3 DEF AddListener, TypeOK
    <2>4. listeners = 0 \/ listeners > 0
        BY BoundAssumption DEF TypeOK
    <2> QED  BY <2>2, <2>3, <2>4
<1>2. CASE RemoveListener
    <2>1. /\ listeners' \in 0 .. MaxListener
          /\ UNCHANGED <<attached, draining, fired, stray, stdin, stdout, backend, source>>
        BY <1>2, BoundAssumption DEF RemoveListener, TypeOK
    <2>2. CASE listeners = 1
        <3>1. subscription \in Cycle /\ subscription' = None /\ listeners' = 0
              /\ DisposeWhenOpen(subscription)
            BY <1>2, <2>2 DEF RemoveListener, TypeOK
        <3>2. CASE cycle[subscription] = "open"
            <4>1. /\ cycle' = [cycle EXCEPT ![subscription] = "disposed"]
                  /\ jobs' = jobs \/ jobs' = Append(jobs, Due("dispose", subscription))
                BY <3>1, <3>2 DEF DisposeWhenOpen
            <4>2. jobs' \in Seq(Job) /\ (jobs' = jobs \/ jobs' # << >>)
                <5>1. jobs \in Seq(Job)
                    BY DEF TypeOK
                <5> QED  BY <3>1, <4>1, <5>1, QueueTyped DEF JobKind
            <4> QED  BY <2>1, <3>1, <4>1, <4>2 DEF TypeOK
        <3>3. CASE cycle[subscription] # "open"
            BY <2>1, <3>1, <3>3 DEF DisposeWhenOpen, TypeOK
        <3> QED  BY <3>2, <3>3
    <2>3. CASE listeners > 1
        BY <1>2, <2>1, <2>3 DEF RemoveListener, TypeOK
    <2>4. listeners = 1 \/ listeners > 1
        BY <1>2 DEF RemoveListener
    <2> QED  BY <2>2, <2>3, <2>4
<1>3. CASE Receive
    <2> DEFINE line == Head(stdout)
    <2>1. /\ stdout # << >> /\ stdout' = Tail(stdout) /\ ~draining
          /\ UNCHANGED <<listeners, subscription, attached, draining, stdin, backend, source>>
        BY <1>3 DEF Receive
    <2>2. /\ line.id \in Cycle /\ stdout' \in Seq(Line)
          /\ line.kind = "event" => line.payload \in 1 .. MaxEvent
          /\ line.kind # "event" => line.kind \in {"listening", "refused", "taken"}
        BY <2>1, HeadLine
    <2>3. CASE line.kind = "event"
        <3> DEFINE new == [id |-> line.id, payload |-> line.payload]
        <3>1. new \in Payload
            BY <2>2, <2>3 DEF Payload
        <3>2. Fire(line) /\ UNCHANGED <<cycle, jobs>>
            BY <1>3, <2>3 DEF Receive
        <3>3. /\ fired' = fired \/ fired' = Append(fired, new)
              /\ stray' = stray \/ stray' = Append(stray, new)
            BY <3>2 DEF Fire
        <3> HIDE DEF new
        <3>4. fired \in Seq(Payload) /\ stray \in Seq(Payload)
            BY DEF TypeOK
        <3>5. fired' \in Seq(Payload)
            BY <3>1, <3>3, <3>4
        <3>6. stray' \in Seq(Payload)
            BY <3>1, <3>3, <3>4
        <3> QED  BY <2>1, <2>2, <3>2, <3>5, <3>6 DEF TypeOK
    <2>4. CASE line.kind # "event"
        <3>1. Resolved(line.id, line.kind) /\ UNCHANGED <<fired, stray>>
            BY <1>3, <2>4 DEF Receive
        <3>2. jobs' \in Seq(Job)
            BY <2>2, <2>4, <3>1, QueueTyped DEF Resolved, JobKind
        <3>3. cycle' = [cycle EXCEPT ![line.id] = IF line.kind # "listening" THEN line.kind
                                     ELSE IF subscription = line.id THEN "open" ELSE "disposed"]
            BY <3>1 DEF Resolved
        <3> HIDE DEF line
        <3> QED  BY <2>1, <2>2, <2>4, <3>1, <3>2, <3>3 DEF TypeOK
    <2> QED  BY <2>3, <2>4
<1>4. CASE Dispatch
    <2> DEFINE c == Head(stdin).id
    <2>1. c \in Cycle /\ stdin' \in Seq(Request) /\ source' \in 0 .. MaxEvent /\ UNCHANGED client
        BY <1>4, HeadRequest DEF Dispatch, TypeOK
    <2>2. CASE Listen(c)
        <3>1. CASE c \notin subscriptions /\ subscriptions' = subscriptions \cup {c}
                   /\ answering' = answering \cup {c}
                   /\ producer' = [producer EXCEPT ![c] = "running"]
                   /\ reported' = [reported EXCEPT ![c] = source] /\ stdout' = stdout
            <4>1. /\ subscriptions' \in SUBSET Cycle /\ answering' \in SUBSET Cycle
                  /\ producer' \in [Cycle -> {"none", "running", "emitting", "stopped"}]
                  /\ reported' \in [Cycle -> 0 .. MaxEvent] /\ stdout' \in Seq(Line)
                BY <2>1, <3>1 DEF TypeOK
            <4> QED  BY <2>1, <4>1, BackendTyped
        <3>2. CASE (Reply("taken", c) \/ Reply("refused", c)) /\ UNCHANGED backend
            <4>1. stdout' \in Seq(Line)
                BY <2>1, <3>2, ReplyTyped
            <4> QED  BY <2>1, <3>2, <4>1, BackendTyped DEF TypeOK
        <3> QED  BY <2>2, <3>1, <3>2 DEF Listen
    <2>3. CASE Unlisten(c)
        <3>1. subscriptions' \in SUBSET Cycle /\ UNCHANGED <<answering, producer, reported, stdout>>
            BY <2>3 DEF Unlisten, TypeOK
        <3> QED  BY <2>1, <3>1, BackendTyped DEF TypeOK
    <2> QED  BY <1>4, <2>2, <2>3 DEF Dispatch
<1>5. CASE Occur
    <2>1. source' \in 0 .. MaxEvent /\ UNCHANGED <<client, stdin, stdout, backend>>
        BY <1>5, BoundAssumption DEF Occur, TypeOK
    <2> QED  BY <2>1, BackendTyped DEF TypeOK
<1>6. ASSUME NEW c \in Cycle, AnswerListen(c) PROVE TypeOK'
    <2>1. stdout' \in Seq(Line) /\ answering' \in SUBSET Cycle
          /\ UNCHANGED <<client, stdin, subscriptions, producer, reported, source>>
        BY <1>6, ReplyTyped DEF AnswerListen, TypeOK
    <2> QED  BY <2>1, BackendTyped DEF TypeOK
<1>7. ASSUME NEW c \in Cycle, CheckActive(c) PROVE TypeOK'
    <2>1. producer' \in [Cycle -> {"none", "running", "emitting", "stopped"}]
          /\ UNCHANGED <<client, stdin, stdout, subscriptions, answering, reported, source>>
        BY <1>7 DEF CheckActive, TypeOK
    <2> QED  BY <2>1, BackendTyped DEF TypeOK
<1>8. ASSUME NEW c \in Cycle, Emit(c) PROVE TypeOK'
    <2>1. reported[c] + 1 \in 1 .. MaxEvent
        <3>1. producer[c] = "emitting"
            BY <1>8 DEF Emit
        <3>2. /\ reported[c] < source /\ reported[c] \in Nat
              /\ source \in Nat /\ source <= MaxEvent /\ MaxEvent \in Nat
            BY <3>1, BoundAssumption DEF TypeOK
        <3> QED  BY <3>2
    <2>2. [kind |-> "event", id |-> c, payload |-> reported[c] + 1] \in Line
        BY <2>1 DEF Line
    <2>3. stdout' \in Seq(Line)
        BY <1>8, <2>2 DEF Emit, TypeOK
    <2>4. /\ producer' \in [Cycle -> {"none", "running", "emitting", "stopped"}]
          /\ reported' \in [Cycle -> 0 .. MaxEvent]
          /\ UNCHANGED <<client, stdin, subscriptions, answering, source>>
        BY <1>8, <2>1 DEF Emit, TypeOK
    <2> QED  BY <2>3, <2>4, BackendTyped DEF TypeOK
<1>9. CASE UNCHANGED vars
    BY <1>9 DEF vars, client, emitter, turn, TypeOK
<1>10. CASE Run
    <2> DEFINE job == Head(jobs)
    <2>1. /\ jobs # << >> /\ draining' = (jobs' # << >>)
          /\ UNCHANGED <<emitter, fired, stray, stdout, backend, source>>
        BY <1>10 DEF Run
    <2>2. job.id \in Cycle /\ Tail(jobs) \in Seq(Job)
        BY <2>1, HeadJob
    <2>3. /\ jobs' = Tail(jobs) \/ jobs' = Append(Tail(jobs), Due("dispose", job.id))
          /\ stdin' = stdin \/ Write("listen", job.id) \/ Write("unlisten", job.id)
          /\ attached' = attached \/ attached' = attached \ {job.id}
        BY <1>10 DEF Run, Opened
    <2>4. jobs' \in Seq(Job)
        BY <2>1, <2>2, <2>3, QueueTyped DEF JobKind
    <2>5. stdin' \in Seq(Request)
        BY <2>2, <2>3, WriteTyped DEF TypeOK
    <2>6. attached' \in SUBSET Cycle
        BY <2>3 DEF TypeOK
    <2> QED  BY <2>1, <2>4, <2>5, <2>6 DEF TypeOK, emitter
<1> QED  BY <1>1, <1>2, <1>3, <1>4, <1>5, <1>6, <1>7, <1>8, <1>9, <1>10 DEF Next

-----------------------------------------------------------------------------
(* What a step does to the pipes. *)

LEMMA RequestWritten ==
    ASSUME TypeOK, NEW kind \in {"listen", "unlisten"}, NEW c \in Cycle, Write(kind, c)
    PROVE  \A i \in Nat, k \in {"listen", "unlisten"}, b \in Cycle :
                At(stdin', i, k, b) <=> \/ At(stdin, i, k, b)
                                        \/ i = Len(stdin) + 1 /\ k = kind /\ b = c
<1> DEFINE new == [kind |-> kind, id |-> c]
<1>1. new \in Request /\ stdin \in Seq(Request) /\ stdin' = Append(stdin, new)
    BY DEF Request, TypeOK, Write
<1>2. /\ Len(stdin) \in Nat /\ Len(stdin') = Len(stdin) + 1
      /\ stdin'[Len(stdin) + 1] = new
      /\ \A i \in 1 .. Len(stdin) : stdin'[i] = stdin[i]
    BY <1>1
<1>3. new.kind = kind /\ new.id = c
    OBVIOUS
<1> HIDE DEF new
<1> QED  BY <1>2, <1>3 DEF At

LEMMA RequestTaken ==
    ASSUME TypeOK, stdin # << >>, stdin' = Tail(stdin)
    PROVE  \A i \in Nat, k \in {"listen", "unlisten"}, b \in Cycle :
                At(stdin', i, k, b) <=> i > 0 /\ At(stdin, i + 1, k, b)
<1>1. stdin \in Seq(Request)
    BY DEF TypeOK
<1>2. /\ Len(stdin) \in Nat \ {0} /\ Len(stdin') = Len(stdin) - 1
      /\ \A i \in 1 .. Len(stdin') : stdin'[i] = stdin[i + 1]
    BY <1>1
<1> QED  BY <1>2 DEF At

LEMMA JobQueued ==
    ASSUME TypeOK, NEW kind \in JobKind, NEW c \in Cycle, jobs' = Append(jobs, Due(kind, c))
    PROVE  /\ Len(jobs) + 1 \in Nat
           /\ \A i \in Nat, k \in JobKind, b \in Cycle :
                At(jobs', i, k, b) <=> \/ At(jobs, i, k, b)
                                       \/ i = Len(jobs) + 1 /\ k = kind /\ b = c
<1> DEFINE new == Due(kind, c)
<1>1. new \in Job /\ jobs \in Seq(Job) /\ jobs' = Append(jobs, new)
    BY DEF Job, JobKind, Due, TypeOK
<1>2. /\ Len(jobs) \in Nat /\ Len(jobs') = Len(jobs) + 1
      /\ jobs'[Len(jobs) + 1] = new
      /\ \A i \in 1 .. Len(jobs) : jobs'[i] = jobs[i]
    BY <1>1
<1>3. new.kind = kind /\ new.id = c
    BY DEF Due
<1> HIDE DEF new
<1> QED  BY <1>2, <1>3 DEF At

LEMMA JobTaken ==
    ASSUME TypeOK, jobs # << >>, jobs' = Tail(jobs)
    PROVE  \A i \in Nat, k \in JobKind, b \in Cycle :
                At(jobs', i, k, b) <=> i > 0 /\ At(jobs, i + 1, k, b)
<1>1. jobs \in Seq(Job)
    BY DEF TypeOK
<1>2. /\ Len(jobs) \in Nat \ {0} /\ Len(jobs') = Len(jobs) - 1
      /\ \A i \in 1 .. Len(jobs') : jobs'[i] = jobs[i + 1]
    BY <1>1
<1> QED  BY <1>2 DEF At

\* A microtask that queues another when it has run.
LEMMA JobReplaced ==
    ASSUME TypeOK, jobs # << >>, NEW kind \in JobKind, NEW c \in Cycle,
           jobs' = Append(Tail(jobs), Due(kind, c))
    PROVE  /\ Len(jobs) \in Nat \ {0}
           /\ \A i \in Nat, k \in JobKind, b \in Cycle :
                At(jobs', i, k, b) <=> \/ i > 0 /\ At(jobs, i + 1, k, b)
                                       \/ i = Len(jobs) /\ k = kind /\ b = c
<1> DEFINE new == Due(kind, c)
<1>1. new \in Job /\ jobs \in Seq(Job) /\ jobs' = Append(Tail(jobs), new)
    BY DEF Job, JobKind, Due, TypeOK
<1>2. PICK n \in Nat : n > 0 /\ n = Len(jobs)
    BY <1>1
<1>3. /\ Len(jobs') = n /\ jobs'[n] = new
      /\ \A i \in 1 .. n - 1 : jobs'[i] = jobs[i + 1]
    <2>1. Tail(jobs) \in Seq(Job) /\ Len(Tail(jobs)) = n - 1
          /\ \A i \in 1 .. n - 1 : Tail(jobs)[i] = jobs[i + 1]
        BY <1>1, <1>2
    <2> HIDE DEF new
    <2> QED  BY <1>1, <1>2, <2>1
<1>4. new.kind = kind /\ new.id = c
    BY DEF Due
<1> HIDE DEF new
<1> QED  BY <1>2, <1>3, <1>4 DEF At

LEMMA JobPlaces ==
    ASSUME TypeOK
    PROVE  /\ Len(jobs) \in Nat
           /\ \A i \in Nat, k, l \in JobKind, b, c \in Cycle :
                At(jobs, i, k, b) /\ At(jobs, i, l, c) => k = l /\ b = c
           /\ \A i \in Nat, k \in JobKind, b \in Cycle :
                At(jobs, i, k, b) => i > 0 /\ i <= Len(jobs)
<1>1. Len(jobs) \in Nat
    BY DEF TypeOK
<1> QED  BY <1>1 DEF At

LEMMA LineReplied ==
    ASSUME TypeOK, NEW kind \in {"listening", "refused", "taken"}, NEW c \in Cycle, Reply(kind, c)
    PROVE  /\ Len(stdout) \in Nat
           /\ \A i \in Nat, k \in {"listening", "refused", "taken"}, b \in Cycle :
                At(stdout', i, k, b) <=> \/ At(stdout, i, k, b)
                                         \/ i = Len(stdout) + 1 /\ k = kind /\ b = c
           /\ \A i, n \in Nat, b \in Cycle : EventAt(stdout', i, b, n) <=> EventAt(stdout, i, b, n)
<1> DEFINE new == [kind |-> kind, id |-> c]
<1>1. new \in Line /\ stdout \in Seq(Line) /\ stdout' = Append(stdout, new)
    BY DEF Line, TypeOK, Reply
<1>2. /\ Len(stdout) \in Nat /\ Len(stdout') = Len(stdout) + 1
      /\ stdout'[Len(stdout) + 1] = new
      /\ \A i \in 1 .. Len(stdout) : stdout'[i] = stdout[i]
    BY <1>1
<1>3. new.kind = kind /\ new.id = c /\ kind # "event"
    OBVIOUS
<1> HIDE DEF new
<1>4. ASSUME NEW i \in Nat
      PROVE  /\ i \in 1 .. Len(stdout) => i \in 1 .. Len(stdout') /\ stdout'[i] = stdout[i]
             /\ i = Len(stdout) + 1 => i \in 1 .. Len(stdout') /\ stdout'[i] = new
                                     /\ i \notin 1 .. Len(stdout)
             /\ i \in 1 .. Len(stdout') => i \in 1 .. Len(stdout) \/ i = Len(stdout) + 1
    BY <1>2
<1>5. \A i \in Nat, k \in {"listening", "refused", "taken", "event"}, b \in Cycle :
        At(stdout', i, k, b) <=> \/ At(stdout, i, k, b)
                                 \/ i = Len(stdout) + 1 /\ k = new.kind /\ b = new.id
    BY <1>4 DEF At
<1>6. \A i, n \in Nat, b \in Cycle :
        EventAt(stdout', i, b, n) <=>
            \/ EventAt(stdout, i, b, n)
            \/ i = Len(stdout) + 1 /\ new.kind = "event" /\ b = new.id /\ n = new.payload
    BY <1>4, <1>5 DEF At, EventAt
<1>7. \A i \in Nat, k \in {"listening", "refused", "taken", "event"}, b \in Cycle :
        At(stdout', i, k, b) <=> \/ At(stdout, i, k, b)
                                 \/ i = Len(stdout) + 1 /\ k = kind /\ b = c
    BY <1>3, <1>5
<1>8. \A i, n \in Nat, b \in Cycle :
        EventAt(stdout', i, b, n) <=> EventAt(stdout, i, b, n)
    BY <1>3, <1>6
<1> QED  BY <1>2, <1>7, <1>8

LEMMA LineEmitted ==
    ASSUME TypeOK, NEW c \in Cycle, NEW m \in 1 .. MaxEvent,
           stdout' = Append(stdout, [kind |-> "event", id |-> c, payload |-> m])
    PROVE  /\ Len(stdout) \in Nat
           /\ \A i \in Nat, k \in {"listening", "refused", "taken"}, b \in Cycle :
                At(stdout', i, k, b) <=> At(stdout, i, k, b)
           /\ \A i, n \in Nat, b \in Cycle :
                EventAt(stdout', i, b, n) <=> \/ EventAt(stdout, i, b, n)
                                              \/ i = Len(stdout) + 1 /\ b = c /\ n = m
<1> DEFINE new == [kind |-> "event", id |-> c, payload |-> m]
<1>1. new \in Line /\ stdout \in Seq(Line)
    BY DEF Line, TypeOK
<1>2. /\ Len(stdout) \in Nat /\ Len(stdout') = Len(stdout) + 1
      /\ stdout'[Len(stdout) + 1] = new
      /\ \A i \in 1 .. Len(stdout) : stdout'[i] = stdout[i]
    BY <1>1
<1>3. new.kind = "event" /\ new.id = c /\ new.payload = m
    OBVIOUS
<1> HIDE DEF new
<1>4. ASSUME NEW i \in Nat
      PROVE  /\ i \in 1 .. Len(stdout) => i \in 1 .. Len(stdout') /\ stdout'[i] = stdout[i]
             /\ i = Len(stdout) + 1 => i \in 1 .. Len(stdout') /\ stdout'[i] = new
                                     /\ i \notin 1 .. Len(stdout)
             /\ i \in 1 .. Len(stdout') => i \in 1 .. Len(stdout) \/ i = Len(stdout) + 1
    BY <1>2
<1>5. \A i \in Nat, k \in {"listening", "refused", "taken", "event"}, b \in Cycle :
        At(stdout', i, k, b) <=> \/ At(stdout, i, k, b)
                                 \/ i = Len(stdout) + 1 /\ k = new.kind /\ b = new.id
    BY <1>4 DEF At
<1>6. \A i, n \in Nat, b \in Cycle :
        EventAt(stdout', i, b, n) <=>
            \/ EventAt(stdout, i, b, n)
            \/ i = Len(stdout) + 1 /\ new.kind = "event" /\ b = new.id /\ n = new.payload
    BY <1>4, <1>5 DEF At, EventAt
<1> QED  BY <1>2, <1>3, <1>5, <1>6

LEMMA LineTaken ==
    ASSUME TypeOK, stdout # << >>, stdout' = Tail(stdout)
    PROVE  /\ \A i \in Nat, k \in {"listening", "refused", "taken"}, b \in Cycle :
                At(stdout', i, k, b) <=> i > 0 /\ At(stdout, i + 1, k, b)
           /\ \A i, n \in Nat, b \in Cycle : EventAt(stdout', i, b, n) <=> i > 0 /\ EventAt(stdout, i + 1, b, n)
<1>1. stdout \in Seq(Line)
    BY DEF TypeOK
<1>2. /\ Len(stdout) \in Nat \ {0} /\ Len(stdout') = Len(stdout) - 1
      /\ \A i \in 1 .. Len(stdout') : stdout'[i] = stdout[i + 1]
    BY <1>1
<1> QED  BY <1>2 DEF At, EventAt

\* No place in a pipe holds two lines, and none is before the first.
LEMMA Places ==
    ASSUME TypeOK
    PROVE  /\ \A i \in Nat, k, l \in {"listening", "refused", "taken"}, b, c \in Cycle :
                At(stdout, i, k, b) /\ At(stdout, i, l, c) => k = l /\ b = c
           /\ \A i, m, n \in Nat, b, c \in Cycle :
                EventAt(stdout, i, b, m) /\ EventAt(stdout, i, c, n) => b = c /\ m = n
           /\ \A i, n \in Nat, k \in {"listening", "refused", "taken"}, b, c \in Cycle :
                At(stdout, i, k, b) => ~EventAt(stdout, i, c, n)
           /\ \A i, n \in Nat, k \in {"listening", "refused", "taken"}, b \in Cycle :
                At(stdout, i, k, b) \/ EventAt(stdout, i, b, n) => i > 0 /\ i <= Len(stdout)
           /\ \A i \in Nat, k, l \in {"listen", "unlisten"}, b, c \in Cycle :
                At(stdin, i, k, b) /\ At(stdin, i, l, c) => k = l /\ b = c
           /\ \A i \in Nat, k \in {"listen", "unlisten"}, b \in Cycle :
                At(stdin, i, k, b) => i > 0 /\ i <= Len(stdin)
           /\ Len(stdin) \in Nat /\ Len(stdout) \in Nat
<1>1. Len(stdin) \in Nat /\ Len(stdout) \in Nat
    BY DEF TypeOK
<1> QED  BY <1>1 DEF At, EventAt

LEMMA AskedTaken ==
    ASSUME TypeOK, Single, stdin # << >>, stdin' = Tail(stdin), jobs' = jobs, NEW b \in Cycle
    PROVE  Asked(b)' <=> Asked(b) /\ ~At(stdin, 1, "listen", b)
<1>1. ASSUME NEW i \in Nat, At(stdin', i, "listen", b)
      PROVE  Asked(b) /\ ~At(stdin, 1, "listen", b)
    <2>1. i > 0 /\ At(stdin, i + 1, "listen", b)
        BY <1>1, RequestTaken
    <2>2. ~At(stdin, 1, "listen", b)
        BY <2>1, CycleFacts DEF Single
    <2> QED  BY <2>1, <2>2 DEF Asked
<1>2. ASSUME NEW i \in Nat, At(stdin, i, "listen", b), ~At(stdin, 1, "listen", b)
      PROVE  Asked(b)'
    <2>1. i # 1 /\ i > 0
        BY <1>2, Places
    <2>2. i - 1 \in Nat /\ i - 1 > 0 /\ At(stdin, (i - 1) + 1, "listen", b)
        BY <1>2, <2>1
    <2>3. At(stdin', i - 1, "listen", b)
        BY <2>2, RequestTaken
    <2> QED  BY <2>2, <2>3 DEF Asked
<1>3. ASSUME NEW i \in Nat, At(jobs, i, "listen", b)
      PROVE  Asked(b)' /\ Asked(b) /\ ~At(stdin, 1, "listen", b)
    <2>1. ~At(stdin, 1, "listen", b)
        BY <1>3, CycleFacts DEF Single
    <2> QED  BY <1>3, <2>1 DEF Asked
<1> QED  BY <1>1, <1>2, <1>3 DEF Asked

LEMMA AnswerTaken ==
    ASSUME TypeOK, Single, stdout # << >>, stdout' = Tail(stdout), NEW b \in Cycle
    PROVE  /\ AnswerSent(b)' <=> AnswerSent(b) /\ ~AnswerAt(1, b)
           /\ \A i \in Nat : AnswerAt(i, b)' => i > 0 /\ AnswerAt(i + 1, b)
<1>1. ASSUME NEW i \in Nat, AnswerAt(i, b)'
      PROVE  i > 0 /\ AnswerAt(i + 1, b) /\ ~AnswerAt(1, b)
    <2>1. i > 0 /\ AnswerAt(i + 1, b)
        BY <1>1, LineTaken DEF AnswerAt
    <2>2. ~AnswerAt(1, b)
        BY <2>1 DEF Single
    <2> QED  BY <2>1, <2>2
<1>2. ASSUME NEW i \in Nat, AnswerAt(i, b), ~AnswerAt(1, b)
      PROVE  AnswerSent(b)'
    <2>1. i # 1 /\ i > 0
        BY <1>2, Places DEF AnswerAt
    <2>2. i - 1 \in Nat /\ i - 1 > 0 /\ AnswerAt((i - 1) + 1, b)
        BY <1>2, <2>1
    <2>3. AnswerAt(i - 1, b)'
        BY <2>2, LineTaken DEF AnswerAt
    <2> QED  BY <2>2, <2>3 DEF AnswerSent
<1> QED  BY <1>1, <1>2 DEF AnswerSent

LEMMA InitCycles == Init => Cycles
<1> SUFFICES ASSUME Init PROVE Cycles
    OBVIOUS
<1>1. \A i : \A k, c : ~At(stdin, i, k, c) /\ ~At(stdout, i, k, c) /\ ~At(jobs, i, k, c)
    BY DEF Init, At
<1>2. \A c \in Cycle : /\ ~Asked(c) /\ ~AnswerSent(c) /\ cycle[c] = "unused" /\ ~Started(c)
    BY <1>1 DEF Asked, AnswerSent, AnswerAt, Init, Started
<1>3. subscription = None /\ subscriptions = {} /\ answering = {} /\ attached = {}
    BY DEF Init
<1>4. Queued
    BY <1>1, <1>2, <1>3 DEF Queued, Timely
<1> QED  BY <1>1, <1>2, <1>3, <1>4 DEF Cycles, Drawn, Placed, Single, Produced, LetGo, Kept, AnswerAt

\* Steps that only emit, or do not touch a pipe.
LEMMA CyclesBeside ==
    ASSUME TypeOK, Cycles,
           UNCHANGED <<cycle, subscription, subscriptions, answering, stdin, attached, jobs>>,
           \A c \in Cycle : Started(c)' <=> Started(c),
           \A i \in Nat, k \in {"listening", "refused", "taken"}, c \in Cycle :
                At(stdout', i, k, c) <=> At(stdout, i, k, c)
    PROVE  Cycles'
<1>1. \A c \in Cycle : Asked(c)' <=> Asked(c)
    BY DEF Asked
<1>2. \A c \in Cycle : AnswerSent(c)' <=> AnswerSent(c)
    BY DEF AnswerSent, AnswerAt
<1>3. Drawn'
    BY DEF Cycles, Drawn
<1>4. Placed'
    BY <1>1, <1>2 DEF Cycles, Placed
<1>5. Single'
    BY DEF Cycles, Single, AnswerAt
<1>6. Produced' /\ LetGo' /\ Kept'
    <2> USE TypeOK DEF TypeOK
    <2>1. Produced'
        BY DEF Cycles, Produced
    <2>2. LetGo' /\ Kept'
        BY DEF Cycles, LetGo, Kept, Timely, Disposing
    <2> QED  BY <2>1, <2>2
<1>7. Queued'
    BY DEF Cycles, Queued, Timely, Disposing
<1> QED  BY <1>3, <1>4, <1>5, <1>6, <1>7 DEF Cycles

\* A request that is queued behind the others is the newest.
LEMMA CyclesAdd == ASSUME TypeOK, Cycles, AddListener PROVE Cycles'
<1>1. CASE listeners > 0
    <2>1. UNCHANGED <<cycle, subscription, subscriptions, answering, stdin, stdout, producer, attached, jobs>>
        BY <1>1 DEF AddListener, backend
    <2>2. \A c \in Cycle : Started(c)' <=> Started(c)
        BY <2>1 DEF Started
    <2> QED  BY <2>1, <2>2, CyclesBeside
<1>2. CASE listeners = 0
    <2>1. PICK c \in FreshId : /\ subscription' = c /\ cycle' = [cycle EXCEPT ![c] = "opening"]
                               /\ attached' = attached \cup {c}
                               /\ jobs' = Append(jobs, Due("listen", c))
        BY <1>2 DEF AddListener
    <2>2. /\ c \in Cycle /\ cycle[c] = "unused" /\ \A b \in Cycle : b < c => cycle[b] # "unused"
          /\ c # None /\ subscription = None
        <3>1. c \in Cycle /\ cycle[c] = "unused" /\ \A b \in 1 .. c - 1 : cycle[b] # "unused"
            BY DEF FreshId
        <3> QED  BY <1>2, <3>1, CycleFacts DEF TypeOK, Cycle
    <2>3. UNCHANGED <<subscriptions, answering, stdin, stdout, producer>>
        BY <1>2 DEF AddListener, backend
    <2>4. /\ Len(jobs) + 1 \in Nat
          /\ \A i \in Nat, k \in JobKind, b \in Cycle :
                At(jobs', i, k, b) <=> \/ At(jobs, i, k, b)
                                       \/ i = Len(jobs) + 1 /\ k = "listen" /\ b = c
        <3>1. "listen" \in JobKind
            BY DEF JobKind
        <3> QED  BY <2>1, <2>2, <3>1, JobQueued
    <2>5. \A b \in Cycle : b >= c => cycle[b] = "unused"
        BY <2>2, CycleFacts DEF Cycles, Drawn
    <2>6. ~Asked(c) /\ ~AnswerSent(c) /\ c \notin answering /\ ~Started(c) /\ c \notin subscriptions
        BY <2>2 DEF Cycles, Placed, Produced
    <2>7. \A b \in Cycle : /\ Asked(b)' <=> Asked(b) \/ b = c
                           /\ AnswerSent(b)' <=> AnswerSent(b)
                           /\ Disposing(b)' <=> Disposing(b)
        BY <2>3, <2>4 DEF Asked, AnswerSent, AnswerAt, Disposing, JobKind
    <2>8. \A b \in Cycle : b # c => cycle'[b] = cycle[b]
        BY <2>1 DEF TypeOK
    <2>9. cycle'[c] = "opening"
        BY <2>1, <2>2 DEF TypeOK
    <2>10. Drawn'
        BY <2>1, <2>2, <2>5, <2>8, <2>9, CycleFacts DEF Cycles, Drawn
    <2>11. Placed'
        BY <2>3, <2>6, <2>7, <2>8, <2>9 DEF Cycles, Placed, Started
    <2>12. Single'
        <3>1. \A b \in Cycle : Asked(b) => b < c
            <4> SUFFICES ASSUME NEW b \in Cycle, Asked(b) PROVE b < c
                OBVIOUS
            <4>1. cycle[b] = "opening"
                BY DEF Cycles, Placed
            <4> QED  BY <2>2, <2>5, <4>1, CycleFacts
        <3>2. \A a, b \in Cycle, i, j \in Nat :
                At(stdin', i, "listen", a) /\ At(jobs', j, "listen", b) => a < b
            BY <2>3, <2>4, <3>1 DEF Cycles, Single, Asked, JobKind
        <3>3. ASSUME NEW a \in Cycle, NEW b \in Cycle, NEW i \in Nat, NEW j \in Nat,
                     At(jobs', i, "listen", a), At(jobs', j, "listen", b), i < j
              PROVE  a < b
            <4>1. At(jobs, i, "listen", a)
                BY <2>4, <3>3, JobPlaces DEF JobKind
            <4> QED  BY <2>4, <3>1, <3>3, <4>1 DEF Cycles, Single, Asked, JobKind
        <3>4. \A b \in Cycle, i \in Nat : ~At(stdout', i, "taken", b)
            BY <2>3 DEF Cycles, Single
        <3>5. \A b \in Cycle, i, j \in Nat : AnswerAt(i, b)' /\ AnswerAt(j, b)' => i = j
            BY <2>3 DEF Cycles, Single, AnswerAt
        <3>6. \A a, b \in Cycle, i, j \in Nat :
                At(stdin', i, "listen", a) /\ At(stdin', j, "listen", b) /\ i < j => a < b
            BY <2>3 DEF Cycles, Single
        <3> QED  BY <3>2, <3>3, <3>4, <3>5, <3>6 DEF Single
    <2>13. Produced'
        BY <2>3, <2>6, <2>8, <2>9 DEF Cycles, Produced, Started
    <2>14. LetGo'
        BY <2>2, <2>3, <2>8 DEF Cycles, LetGo
    <2>15. Kept'
        BY <2>3, <2>7, <2>8, <2>9 DEF Cycles, Kept, Timely
    <2>16. Queued'
        <3>1. ASSUME NEW b \in Cycle, NEW i \in Nat
              PROVE  /\ At(jobs', i, "listening", b) => cycle'[b] \in {"open", "disposed"}
                     /\ At(jobs', i, "refused", b) => cycle'[b] = "refused"
                     /\ At(jobs', i, "dispose", b) => cycle'[b] = "disposed"
                     /\ ~At(jobs', i, "taken", b)
            BY <2>2, <2>4, <2>8, <2>9 DEF Cycles, Queued, JobKind
        <3>2. \A b \in Cycle : Timely(b)' => b \in attached'
            BY <2>1, <2>8 DEF Cycles, Queued, Timely
        <3>3. ASSUME NEW b \in Cycle, b \in attached'
              PROVE  Timely(b)' \/ Disposing(b)' \/ \E i \in Nat : At(jobs', i, "refused", b)
            <4>1. CASE b = c
                BY <2>9, <4>1 DEF Timely
            <4>2. CASE b # c
                <5>1. Timely(b) \/ Disposing(b) \/ \E i \in Nat : At(jobs, i, "refused", b)
                    BY <2>1, <3>3, <4>2 DEF Cycles, Queued
                <5> QED  BY <2>4, <2>7, <2>8, <4>2, <5>1 DEF Timely, JobKind
            <4> QED  BY <4>1, <4>2
        <3> QED  BY <3>1, <3>2, <3>3 DEF Queued
    <2> QED  BY <2>10, <2>11, <2>12, <2>13, <2>14, <2>15, <2>16 DEF Cycles
<1> QED  BY <1>1, <1>2 DEF AddListener

\* A cycle is let go of, and the microtask that disposes it is due.
LEMMA CyclesDispose ==
    ASSUME TypeOK, Cycles, NEW c \in Cycle, cycle' = [cycle EXCEPT ![c] = "disposed"],
           cycle[c] \in {"opening", "open"}, ~Asked(c), c \notin answering, ~AnswerSent(c)',
           subscription' # c, subscription' = subscription \/ subscription' = None,
           UNCHANGED <<subscriptions, answering, producer, stdin, attached>>,
           \A b \in Cycle : b # c => (AnswerSent(b)' <=> AnswerSent(b)),
           \A i \in Nat, k \in JobKind, b \in Cycle : At(jobs, i, k, b) => At(jobs', i, k, b),
           \A i \in Nat, k \in JobKind, b \in Cycle :
                At(jobs', i, k, b) => At(jobs, i, k, b) \/ (b = c /\ k \in {"listening", "dispose"}),
           Disposing(c)',
           Single', \A i \in Nat, b \in Cycle : At(stdout', i, "refused", b) => ~Started(b)
    PROVE  Cycles'
<1>1. \A b \in Cycle : (Asked(b)' <=> Asked(b)) /\ (Disposing(b) => Disposing(b)')
    BY DEF Asked, Disposing, JobKind
<1>2. cycle'[c] = "disposed" /\ \A b \in Cycle : b # c => cycle'[b] = cycle[b]
    BY DEF TypeOK
<1>3. Drawn'
    BY <1>2, CycleFacts DEF Cycles, Drawn, TypeOK
<1>4. Placed'
    BY <1>1, <1>2 DEF Cycles, Placed, Started
<1>5. Produced'
    BY <1>2 DEF Cycles, Produced, Started
<1>6. LetGo'
    BY <1>2 DEF Cycles, LetGo
<1>7. Kept'
    BY <1>1, <1>2 DEF Cycles, Kept, Timely
<1>8. Queued'
    <2>1. ASSUME NEW b \in Cycle, NEW i \in Nat
          PROVE  /\ At(jobs', i, "listening", b) => cycle'[b] \in {"open", "disposed"}
                 /\ At(jobs', i, "refused", b) => cycle'[b] = "refused"
                 /\ At(jobs', i, "dispose", b) => cycle'[b] = "disposed"
                 /\ ~At(jobs', i, "taken", b)
        BY <1>2 DEF Cycles, Queued, JobKind
    <2>2. \A b \in Cycle : Timely(b)' => b \in attached'
        BY <1>2 DEF Cycles, Queued, Timely
    <2>3. ASSUME NEW b \in Cycle, b \in attached'
          PROVE  Timely(b)' \/ Disposing(b)' \/ \E i \in Nat : At(jobs', i, "refused", b)
        <3>1. Timely(b) \/ Disposing(b) \/ \E i \in Nat : At(jobs, i, "refused", b)
            BY <2>3 DEF Cycles, Queued
        <3> QED  BY <1>1, <1>2, <3>1 DEF Timely, JobKind
    <2> QED  BY <2>1, <2>2, <2>3 DEF Queued
<1> QED  BY <1>3, <1>4, <1>5, <1>6, <1>7, <1>8 DEF Cycles

LEMMA CyclesRemove == ASSUME TypeOK, Cycles, RemoveListener PROVE Cycles'
<1>1. UNCHANGED <<subscriptions, answering, stdin, stdout, producer, attached>>
    BY DEF RemoveListener, backend
<1>2. \A c \in Cycle : (Started(c)' <=> Started(c)) /\ (AnswerSent(c)' <=> AnswerSent(c))
    BY <1>1 DEF Started, AnswerSent, AnswerAt
<1>3. CASE listeners = 1
    <2>1. PICK held \in Cycle : /\ held = subscription /\ held # None /\ subscription' = None
                                /\ DisposeWhenOpen(held)
        BY <1>3, CycleFacts DEF RemoveListener, TypeOK
    <2>2. CASE cycle[held] = "open"
        <3>1. /\ cycle' = [cycle EXCEPT ![held] = "disposed"]
              /\ jobs' = IF InTransit(jobs, "listening", held) THEN jobs
                         ELSE Append(jobs, Due("dispose", held))
            BY <2>1, <2>2 DEF DisposeWhenOpen
        <3>2. ~Asked(held) /\ held \notin answering /\ ~AnswerSent(held)'
            BY <1>2, <2>1, <2>2 DEF Cycles, Placed
        <3>3. /\ \A i \in Nat, k \in JobKind, b \in Cycle : At(jobs, i, k, b) => At(jobs', i, k, b)
              /\ \A i \in Nat, k \in JobKind, b \in Cycle :
                    At(jobs', i, k, b) => At(jobs, i, k, b) \/ (b = held /\ k = "dispose")
              /\ Disposing(held)'
            <4>1. CASE InTransit(jobs, "listening", held)
                <5>1. jobs' = jobs /\ DOMAIN jobs = 1 .. Len(jobs) /\ Len(jobs) \in Nat
                    BY <3>1, <4>1 DEF TypeOK
                <5> QED  BY <4>1, <5>1 DEF InTransit, Disposing, At
            <4>2. CASE ~InTransit(jobs, "listening", held)
                <5>1. "dispose" \in JobKind /\ jobs' = Append(jobs, Due("dispose", held))
                    BY <3>1, <4>2 DEF JobKind
                <5> QED  BY <5>1, JobQueued DEF Disposing
            <4> QED  BY <4>1, <4>2
        <3>4. Single'
            <4>1. \A i \in Nat, b \in Cycle : At(jobs', i, "listen", b) => At(jobs, i, "listen", b)
                BY <3>3 DEF JobKind
            <4> QED  BY <1>1, <4>1 DEF Cycles, Single, AnswerAt
        <3>5. \A i \in Nat, b \in Cycle : At(stdout', i, "refused", b) => ~Started(b)
            BY <1>1 DEF Cycles, Produced
        <3> QED  BY <1>1, <1>2, <2>1, <2>2, <3>1, <3>2, <3>3, <3>4, <3>5, CyclesDispose
    <2>3. CASE cycle[held] # "open"
        <3>1. UNCHANGED <<cycle, jobs>> /\ subscription' = None
            BY <2>1, <2>3 DEF DisposeWhenOpen
        <3>2. \A c \in Cycle : (Asked(c)' <=> Asked(c)) /\ (Disposing(c)' <=> Disposing(c))
            BY <1>1, <3>1 DEF Asked, Disposing
        <3>3. Drawn'
            BY <3>1 DEF Cycles, Drawn
        <3>4. Placed'
            BY <1>1, <1>2, <3>1, <3>2 DEF Cycles, Placed
        <3>5. Single' /\ LetGo'
            BY <1>1, <3>1 DEF Cycles, Single, AnswerAt, LetGo
        <3>6. Produced' /\ Kept'
            BY <1>1, <1>2, <3>1, <3>2 DEF Cycles, Produced, Kept, Timely, TypeOK
        <3>7. Queued'
            BY <1>1, <3>1, <3>2 DEF Cycles, Queued, Timely
        <3> QED  BY <3>3, <3>4, <3>5, <3>6, <3>7 DEF Cycles
    <2> QED  BY <2>2, <2>3
<1>4. CASE listeners > 1
    <2>1. UNCHANGED <<cycle, subscription, jobs>>
        BY <1>4 DEF RemoveListener
    <2> QED  BY <1>1, <1>2, <2>1, CyclesBeside
<1> QED  BY <1>3, <1>4 DEF RemoveListener, TypeOK

LEMMA SingleTaken ==
    ASSUME TypeOK, Single, stdout # << >>, stdout' = Tail(stdout), stdin' = stdin,
           \A i \in Nat, b \in Cycle : At(jobs', i, "listen", b) => At(jobs, i, "listen", b)
    PROVE  Single'
<1>1. \A b \in Cycle, i, j \in Nat : AnswerAt(i, b)' /\ AnswerAt(j, b)' => i = j
    <2> SUFFICES ASSUME NEW b \in Cycle, NEW i \in Nat, NEW j \in Nat, AnswerAt(i, b)', AnswerAt(j, b)'
                 PROVE  i = j
        OBVIOUS
    <2>1. AnswerAt(i + 1, b) /\ AnswerAt(j + 1, b)
        BY AnswerTaken
    <2> QED  BY <2>1 DEF Single
<1>2. \A b \in Cycle, i \in Nat : ~At(stdout', i, "taken", b)
    BY LineTaken DEF Single
<1> QED  BY <1>1, <1>2 DEF Single

LEMMA CyclesReceive == ASSUME TypeOK, Cycles, Receive PROVE Cycles'
<1> DEFINE line == Head(stdout)
<1>1. /\ stdout # << >> /\ stdout' = Tail(stdout)
      /\ UNCHANGED <<subscription, subscriptions, answering, producer, stdin, attached>>
    BY DEF Receive, backend
<1>2. PICK c \in Cycle : c = line.id /\ At(stdout, 1, line.kind, c)
    BY <1>1, HeadLine
<1>3. \A b \in Cycle : Started(b)' <=> Started(b)
    BY <1>1 DEF Started
<1>4. \A b \in Cycle : AnswerSent(b)' <=> AnswerSent(b) /\ ~AnswerAt(1, b)
    BY <1>1, AnswerTaken DEF Cycles
<1>5. \A b \in Cycle : b # c => ~AnswerAt(1, b)
    BY <1>2 DEF AnswerAt, At
<1>6. \A i \in Nat, b \in Cycle : At(stdout', i, "refused", b) => ~Started(b)
    BY <1>1, LineTaken DEF Cycles, Produced
<1>7. CASE line.kind = "event"
    <2>1. UNCHANGED <<cycle, jobs>> /\ ~AnswerAt(1, c)
        BY <1>2, <1>7 DEF Receive, AnswerAt, At
    <2>2. \A b \in Cycle : /\ Asked(b)' <=> Asked(b)
                           /\ AnswerSent(b)' <=> AnswerSent(b)
                           /\ Disposing(b)' <=> Disposing(b)
        BY <1>1, <1>4, <1>5, <2>1 DEF Asked, Disposing
    <2>3. Single'
        BY <1>1, <2>1, SingleTaken DEF Cycles
    <2>4. Drawn' /\ LetGo'
        BY <1>1, <2>1 DEF Cycles, Drawn, LetGo
    <2>5. Placed'
        BY <1>1, <1>3, <2>1, <2>2 DEF Cycles, Placed
    <2>6. Produced' /\ Kept'
        BY <1>1, <1>3, <1>6, <2>1, <2>2 DEF Cycles, Produced, Kept, Timely
    <2>7. Queued'
        BY <1>1, <2>1, <2>2 DEF Cycles, Queued, Timely
    <2> QED  BY <2>3, <2>4, <2>5, <2>6, <2>7 DEF Cycles
<1>8. ASSUME NEW kind \in JobKind, kind = line.kind, kind \in {"listening", "refused"}
      PROVE  /\ AnswerSent(c) /\ cycle[c] = "opening" /\ c # None
             /\ ~Asked(c) /\ c \notin answering /\ ~AnswerSent(c)'
             /\ \A b \in Cycle : b # c => (AnswerSent(b)' <=> AnswerSent(b))
             /\ jobs' = Append(jobs, Due(kind, c)) /\ Len(jobs) + 1 \in Nat
             /\ \A i \in Nat, k \in JobKind, b \in Cycle :
                    At(jobs', i, k, b) <=> \/ At(jobs, i, k, b)
                                           \/ i = Len(jobs) + 1 /\ k = kind /\ b = c
             /\ Single'
    <2>1. AnswerAt(1, c) /\ AnswerSent(c) /\ Resolved(c, kind)
        BY <1>2, <1>8 DEF Receive, AnswerAt, AnswerSent
    <2>2. cycle[c] = "opening" /\ ~Asked(c) /\ c \notin answering /\ ~AnswerSent(c)'
        BY <1>4, <2>1 DEF Cycles, Placed
    <2>3. jobs' = Append(jobs, Due(kind, c))
        BY <2>1 DEF Resolved
    <2>4. /\ Len(jobs) + 1 \in Nat
          /\ \A i \in Nat, k \in JobKind, b \in Cycle :
                At(jobs', i, k, b) <=> \/ At(jobs, i, k, b)
                                       \/ i = Len(jobs) + 1 /\ k = kind /\ b = c
        BY <2>3, JobQueued
    <2>5. \A i \in Nat, b \in Cycle : At(jobs', i, "listen", b) => At(jobs, i, "listen", b)
        BY <1>8, <2>4 DEF JobKind
    <2>6. Single'
        BY <1>1, <2>5, SingleTaken DEF Cycles
    <2> QED  BY <1>4, <1>5, <2>1, <2>2, <2>3, <2>4, <2>6, CycleFacts
<1>9. CASE line.kind = "listening"
    <2>1. "listening" \in JobKind
        BY DEF JobKind
    <2>2. /\ AnswerSent(c) /\ cycle[c] = "opening" /\ c # None
          /\ ~Asked(c) /\ c \notin answering /\ ~AnswerSent(c)'
          /\ \A b \in Cycle : b # c => (AnswerSent(b)' <=> AnswerSent(b))
          /\ Len(jobs) + 1 \in Nat
          /\ \A i \in Nat, k \in JobKind, b \in Cycle :
                At(jobs', i, k, b) <=> \/ At(jobs, i, k, b)
                                       \/ i = Len(jobs) + 1 /\ k = "listening" /\ b = c
          /\ Single'
        BY <1>8, <1>9, <2>1
    <2>3. cycle' = [cycle EXCEPT ![c] = IF subscription = c THEN "open" ELSE "disposed"]
        BY <1>2, <1>9 DEF Receive, Resolved
    <2>4. Disposing(c)' /\ \A b \in Cycle : /\ Asked(b)' <=> Asked(b)
                                            /\ Disposing(b) => Disposing(b)'
        BY <1>1, <2>1, <2>2 DEF Asked, Disposing, JobKind
    <2>5. CASE subscription = c
        <3>1. cycle'[c] = "open" /\ \A b \in Cycle : b # c => cycle'[b] = cycle[b]
            BY <2>3, <2>5 DEF TypeOK
        <3>2. Drawn'
            BY <1>1, <2>2, <2>5, <3>1, CycleFacts DEF Cycles, Drawn, TypeOK
        <3>3. Placed'
            BY <1>1, <1>3, <2>2, <2>4, <3>1 DEF Cycles, Placed
        <3>4. Produced' /\ LetGo'
            BY <1>1, <1>3, <1>6, <2>2, <3>1 DEF Cycles, Produced, LetGo
        <3>5. Kept'
            BY <1>1, <2>4, <3>1 DEF Cycles, Kept, Timely
        <3>6. Queued'
            <4>1. ASSUME NEW b \in Cycle, NEW i \in Nat
                  PROVE  /\ At(jobs', i, "listening", b) => cycle'[b] \in {"open", "disposed"}
                         /\ At(jobs', i, "refused", b) => cycle'[b] = "refused"
                         /\ At(jobs', i, "dispose", b) => cycle'[b] = "disposed"
                         /\ ~At(jobs', i, "taken", b)
                BY <2>2, <3>1 DEF Cycles, Queued, JobKind
            <4>2. \A b \in Cycle : Timely(b)' => b \in attached'
                BY <1>1, <2>2, <3>1 DEF Cycles, Queued, Timely
            <4>3. \A b \in Cycle : b \in attached' =>
                        Timely(b)' \/ Disposing(b)' \/ \E i \in Nat : At(jobs', i, "refused", b)
                BY <1>1, <2>2, <2>4, <3>1 DEF Cycles, Queued, Timely, JobKind
            <4> QED  BY <4>1, <4>2, <4>3 DEF Queued
        <3> QED  BY <2>2, <3>2, <3>3, <3>4, <3>5, <3>6 DEF Cycles
    <2>6. CASE subscription # c
        <3>1. cycle' = [cycle EXCEPT ![c] = "disposed"]
            BY <2>3, <2>6
        <3>2. \A i \in Nat, k \in JobKind, b \in Cycle : At(jobs, i, k, b) => At(jobs', i, k, b)
            BY <2>2
        <3>3. \A i \in Nat, k \in JobKind, b \in Cycle :
                At(jobs', i, k, b) => At(jobs, i, k, b) \/ (b = c /\ k \in {"listening", "dispose"})
            BY <2>2
        <3> QED  BY <1>1, <1>6, <2>2, <2>4, <2>6, <3>1, <3>2, <3>3, CyclesDispose
    <2> QED  BY <2>5, <2>6
<1>10. CASE line.kind = "refused"
    <2>1. "refused" \in JobKind
        BY DEF JobKind
    <2>2. /\ AnswerSent(c) /\ cycle[c] = "opening" /\ c # None
          /\ ~Asked(c) /\ c \notin answering /\ ~AnswerSent(c)'
          /\ \A b \in Cycle : b # c => (AnswerSent(b)' <=> AnswerSent(b))
          /\ Len(jobs) + 1 \in Nat
          /\ \A i \in Nat, k \in JobKind, b \in Cycle :
                At(jobs', i, k, b) <=> \/ At(jobs, i, k, b)
                                       \/ i = Len(jobs) + 1 /\ k = "refused" /\ b = c
          /\ Single'
        BY <1>8, <1>10, <2>1
    <2>3. cycle' = [cycle EXCEPT ![c] = "refused"]
        BY <1>2, <1>10 DEF Receive, Resolved
    <2>4. cycle'[c] = "refused" /\ \A b \in Cycle : b # c => cycle'[b] = cycle[b]
        BY <2>3 DEF TypeOK
    <2>5. \A b \in Cycle : (Asked(b)' <=> Asked(b)) /\ (Disposing(b)' <=> Disposing(b))
        BY <1>1, <2>2 DEF Asked, Disposing, JobKind
    <2>6. ~Started(c) /\ c \notin subscriptions
        <3>1. At(stdout, 1, "refused", c)
            BY <1>2, <1>10
        <3> QED  BY <3>1 DEF Cycles, Produced
    <2>7. Drawn'
        BY <1>1, <2>2, <2>4, CycleFacts DEF Cycles, Drawn, TypeOK
    <2>8. Placed'
        BY <1>1, <1>3, <2>2, <2>4, <2>5 DEF Cycles, Placed
    <2>9. Produced' /\ LetGo'
        BY <1>1, <1>3, <1>6, <2>2, <2>4, <2>6 DEF Cycles, Produced, LetGo
    <2>10. Kept'
        BY <1>1, <2>4, <2>5, <2>6 DEF Cycles, Kept, Timely
    <2>11. Queued'
        <3>1. ASSUME NEW b \in Cycle, NEW i \in Nat
              PROVE  /\ At(jobs', i, "listening", b) => cycle'[b] \in {"open", "disposed"}
                     /\ At(jobs', i, "refused", b) => cycle'[b] = "refused"
                     /\ At(jobs', i, "dispose", b) => cycle'[b] = "disposed"
                     /\ ~At(jobs', i, "taken", b)
            BY <2>2, <2>4 DEF Cycles, Queued, JobKind
        <3>2. \A b \in Cycle : Timely(b)' => b \in attached'
            BY <1>1, <2>4 DEF Cycles, Queued, Timely
        <3>3. \A b \in Cycle : b \in attached' =>
                    Timely(b)' \/ Disposing(b)' \/ \E i \in Nat : At(jobs', i, "refused", b)
            <4> SUFFICES ASSUME NEW b \in Cycle, b \in attached
                         PROVE  Timely(b)' \/ Disposing(b)' \/ \E i \in Nat : At(jobs', i, "refused", b)
                BY <1>1
            <4>1. CASE b = c
                BY <2>1, <2>2, <4>1
            <4>2. CASE b # c
                BY <2>1, <2>2, <2>4, <2>5, <4>2 DEF Cycles, Queued, Timely
            <4> QED  BY <4>1, <4>2
        <3> QED  BY <3>1, <3>2, <3>3 DEF Queued
    <2> QED  BY <2>2, <2>7, <2>8, <2>9, <2>10, <2>11 DEF Cycles
<1>11. line.kind # "taken"
    BY <1>2 DEF Cycles, Single
<1> QED  BY <1>1, <1>7, <1>9, <1>10, <1>11, HeadLine

\* A microtask that has run, in the words of those that are left.
LEMMA JobRun ==
    ASSUME TypeOK, jobs # << >>, Run
    PROVE  /\ \A i \in Nat, k \in {"listen", "listening", "refused", "taken"}, b \in Cycle :
                At(jobs', i, k, b) <=> i > 0 /\ At(jobs, i + 1, k, b)
           /\ \A i \in Nat, b \in Cycle : At(jobs', i, "dispose", b) =>
                \/ i > 0 /\ At(jobs, i + 1, "dispose", b)
                \/ At(jobs, 1, "listening", b) /\ cycle[b] = "disposed"
           /\ \A i \in Nat, b \in Cycle : At(jobs, i + 1, "dispose", b) /\ i > 0 => At(jobs', i, "dispose", b)
           /\ \A b \in Cycle : At(jobs, 1, "listening", b) /\ cycle[b] = "disposed" => Disposing(b)'
<1> DEFINE job == Head(jobs)
<1>1. PICK c \in Cycle : c = job.id /\ job.kind \in JobKind /\ At(jobs, 1, job.kind, c)
    BY HeadJob
<1>2. CASE jobs' = Tail(jobs) /\ (job.kind = "listening" => cycle[c] # "disposed")
    <2>1. \A i \in Nat, k \in JobKind, b \in Cycle :
                At(jobs', i, k, b) <=> i > 0 /\ At(jobs, i + 1, k, b)
        BY <1>2, JobTaken
    <2>2. \A b \in Cycle : At(jobs, 1, "listening", b) => b = c /\ job.kind = "listening"
        BY <1>1, JobPlaces DEF JobKind
    <2> QED  BY <1>2, <2>1, <2>2 DEF JobKind
<1>3. CASE jobs' = Append(Tail(jobs), Due("dispose", c)) /\ job.kind = "listening" /\ cycle[c] = "disposed"
    <2>1. /\ Len(jobs) \in Nat \ {0} /\ "dispose" \in JobKind
          /\ \A i \in Nat, k \in JobKind, b \in Cycle :
                At(jobs', i, k, b) <=> \/ i > 0 /\ At(jobs, i + 1, k, b)
                                       \/ i = Len(jobs) /\ k = "dispose" /\ b = c
        <3>1. "dispose" \in JobKind
            BY DEF JobKind
        <3> QED  BY <1>3, <3>1, JobReplaced
    <2>2. \A b \in Cycle : At(jobs, 1, "listening", b) => b = c
        BY <1>1, JobPlaces DEF JobKind
    <2>3. Disposing(c)'
        BY <2>1 DEF Disposing
    <2> QED  BY <1>1, <1>3, <2>1, <2>2, <2>3 DEF JobKind
<1>4. \/ jobs' = Tail(jobs) /\ (job.kind = "listening" => cycle[c] # "disposed")
      \/ jobs' = Append(Tail(jobs), Due("dispose", c)) /\ job.kind = "listening" /\ cycle[c] = "disposed"
    BY <1>1 DEF Run, Opened
<1> QED  BY <1>2, <1>3, <1>4

\* A microtask runs: a request is written, or what is due is carried out.
LEMMA CyclesRun == ASSUME TypeOK, Cycles, Run PROVE Cycles'
<1> DEFINE job == Head(jobs)
<1>1. /\ jobs # << >>
      /\ UNCHANGED <<cycle, subscription, subscriptions, answering, producer, stdout>>
    BY DEF Run, emitter, backend
<1>2. PICK c \in Cycle : c = job.id /\ job.kind \in JobKind /\ At(jobs, 1, job.kind, c)
    BY <1>1, HeadJob
<1>3. /\ \A i \in Nat, k \in {"listen", "listening", "refused", "taken"}, b \in Cycle :
            At(jobs', i, k, b) <=> i > 0 /\ At(jobs, i + 1, k, b)
      /\ \A i \in Nat, b \in Cycle : At(jobs', i, "dispose", b) =>
            \/ i > 0 /\ At(jobs, i + 1, "dispose", b)
            \/ At(jobs, 1, "listening", b) /\ cycle[b] = "disposed"
      /\ \A i \in Nat, b \in Cycle : At(jobs, i + 1, "dispose", b) /\ i > 0 => At(jobs', i, "dispose", b)
      /\ \A b \in Cycle : At(jobs, 1, "listening", b) /\ cycle[b] = "disposed" => Disposing(b)'
    BY <1>1, JobRun
<1>4. \A i \in Nat, k \in JobKind, b \in Cycle :
        At(jobs, i, k, b) => \/ i = 1 /\ k = job.kind /\ b = c
                             \/ i - 1 \in Nat /\ i - 1 > 0 /\ At(jobs, (i - 1) + 1, k, b)
    <2> SUFFICES ASSUME NEW i \in Nat, NEW k \in JobKind, NEW b \in Cycle, At(jobs, i, k, b)
                 PROVE  \/ i = 1 /\ k = job.kind /\ b = c
                        \/ i - 1 \in Nat /\ i - 1 > 0 /\ At(jobs, (i - 1) + 1, k, b)
        OBVIOUS
    <2>1. CASE i = 1
        BY <1>2, <2>1, JobPlaces
    <2>2. CASE i # 1
        <3>1. i > 0
            BY JobPlaces
        <3>2. i - 1 \in Nat /\ i - 1 > 0 /\ (i - 1) + 1 = i
            BY <2>2, <3>1
        <3> QED  BY <3>2
    <2> QED  BY <2>1, <2>2
<1>5. \A b \in Cycle : (Started(b)' <=> Started(b)) /\ (AnswerSent(b)' <=> AnswerSent(b))
                       /\ (Timely(b)' <=> Timely(b))
    BY <1>1 DEF Started, AnswerSent, AnswerAt, Timely
<1>6. \A i \in Nat, b \in Cycle :
        /\ At(stdin', i, "listen", b) <=>
                At(stdin, i, "listen", b) \/ (i = Len(stdin) + 1 /\ b = c /\ job.kind = "listen")
        /\ At(stdin', i, "unlisten", b) <=>
                At(stdin, i, "unlisten", b) \/ (i = Len(stdin) + 1 /\ b = c /\ job.kind = "dispose")
    <2>1. CASE job.kind = "listen"
        <3>1. Write("listen", c)
            BY <1>2, <2>1 DEF Run
        <3> QED  BY <2>1, <3>1, RequestWritten
    <2>2. CASE job.kind = "dispose"
        <3>1. Write("unlisten", c)
            BY <1>2, <2>2 DEF Run
        <3> QED  BY <2>2, <3>1, RequestWritten
    <2>3. CASE job.kind \notin {"listen", "dispose"}
        <3>1. stdin' = stdin
            BY <2>3 DEF Run
        <3> QED  BY <2>3, <3>1
    <2> QED  BY <2>1, <2>2, <2>3
<1>7. Len(stdin) + 1 \in Nat /\ \A i \in Nat, b \in Cycle : At(stdin, i, "listen", b) => i <= Len(stdin)
    BY Places
<1>8. \A b \in Cycle : Asked(b)' <=> Asked(b)
    <2>1. ASSUME NEW b \in Cycle, NEW i \in Nat, At(stdin', i, "listen", b) \/ At(jobs', i, "listen", b)
          PROVE  Asked(b)
        BY <1>2, <1>3, <1>6, <2>1 DEF Asked
    <2>2. ASSUME NEW b \in Cycle, NEW i \in Nat, At(jobs, i, "listen", b)
          PROVE  Asked(b)'
        BY <1>3, <1>4, <1>6, <1>7, <2>2 DEF Asked, JobKind
    <2>3. ASSUME NEW b \in Cycle, NEW i \in Nat, At(stdin, i, "listen", b)
          PROVE  Asked(b)'
        BY <1>6, <2>3 DEF Asked
    <2> QED  BY <2>1, <2>2, <2>3 DEF Asked
<1>9. \A b \in Cycle : Disposing(b) => Disposing(b)' \/ (b = c /\ job.kind = "dispose")
                                        \/ cycle[b] = "open"
    <2> SUFFICES ASSUME NEW b \in Cycle, NEW i \in Nat, NEW k \in {"listening", "dispose"},
                        At(jobs, i, k, b), cycle[b] # "open", ~(b = c /\ job.kind = "dispose")
                 PROVE  Disposing(b)'
        BY DEF Disposing
    <2>1. CASE i = 1 /\ k = "listening"
        <3>1. cycle[b] = "disposed"
            BY <2>1 DEF Cycles, Queued
        <3> QED  BY <1>3, <2>1, <3>1
    <2>2. CASE i - 1 \in Nat /\ i - 1 > 0 /\ At(jobs, (i - 1) + 1, k, b)
        BY <1>3, <2>2 DEF Disposing
    <2> QED  BY <1>4, <2>1, <2>2 DEF JobKind
<1>10. Drawn'
    BY <1>1 DEF Cycles, Drawn
<1>11. Placed'
    BY <1>1, <1>5, <1>8 DEF Cycles, Placed
<1>12. Single'
    <2>1. ASSUME NEW a \in Cycle, NEW b \in Cycle, NEW i \in Nat, NEW j \in Nat,
                 At(stdin', i, "listen", a), At(stdin', j, "listen", b), i < j
          PROVE  a < b
        <3>1. At(stdin, i, "listen", a)
            BY <1>6, <1>7, <2>1
        <3>2. CASE At(stdin, j, "listen", b)
            BY <2>1, <3>1, <3>2 DEF Cycles, Single
        <3>3. CASE b = c /\ job.kind = "listen"
            BY <1>2, <3>1, <3>3 DEF Cycles, Single
        <3> QED  BY <1>6, <2>1, <3>2, <3>3
    <2>2. ASSUME NEW a \in Cycle, NEW b \in Cycle, NEW i \in Nat, NEW j \in Nat,
                 At(stdin', i, "listen", a), At(jobs', j, "listen", b)
          PROVE  a < b
        <3>1. At(jobs, j + 1, "listen", b) /\ 1 < j + 1 /\ j + 1 \in Nat
            BY <1>3, <2>2
        <3>2. CASE At(stdin, i, "listen", a)
            BY <3>1, <3>2 DEF Cycles, Single
        <3>3. CASE a = c /\ job.kind = "listen"
            BY <1>2, <3>1, <3>3 DEF Cycles, Single
        <3> QED  BY <1>6, <2>2, <3>2, <3>3
    <2>3. ASSUME NEW a \in Cycle, NEW b \in Cycle, NEW i \in Nat, NEW j \in Nat,
                 At(jobs', i, "listen", a), At(jobs', j, "listen", b), i < j
          PROVE  a < b
        <3>1. At(jobs, i + 1, "listen", a) /\ At(jobs, j + 1, "listen", b)
              /\ i + 1 < j + 1 /\ i + 1 \in Nat /\ j + 1 \in Nat
            BY <1>3, <2>3
        <3> QED  BY <3>1 DEF Cycles, Single
    <2>4. /\ \A b \in Cycle, i \in Nat : ~At(stdout', i, "taken", b)
          /\ \A b \in Cycle, i, j \in Nat : AnswerAt(i, b)' /\ AnswerAt(j, b)' => i = j
        BY <1>1 DEF Cycles, Single, AnswerAt
    <2> QED  BY <2>1, <2>2, <2>3, <2>4 DEF Single
<1>13. Produced'
    BY <1>1, <1>5 DEF Cycles, Produced
<1>14. LetGo'
    <2>1. job.kind = "dispose" => cycle[c] = "disposed"
        BY <1>2 DEF Cycles, Queued
    <2> QED  BY <1>1, <1>6, <2>1 DEF Cycles, LetGo
<1>15. Kept'
    <2> SUFFICES ASSUME NEW b \in Cycle, b \in subscriptions
                 PROVE  Timely(b)' \/ Disposing(b)' \/ \E i \in Nat : At(stdin', i, "unlisten", b)
        BY <1>1 DEF Kept
    <2>1. CASE Timely(b) \/ \E i \in Nat : At(stdin, i, "unlisten", b)
        BY <1>5, <1>6, <2>1
    <2>2. CASE Disposing(b)
        BY <1>5, <1>6, <1>7, <1>9, <2>2 DEF Timely
    <2> QED  BY <2>1, <2>2 DEF Cycles, Kept
<1>16. Queued'
    <2>1. ASSUME NEW b \in Cycle, NEW i \in Nat
          PROVE  /\ At(jobs', i, "listening", b) => cycle'[b] \in {"open", "disposed"}
                 /\ At(jobs', i, "refused", b) => cycle'[b] = "refused"
                 /\ At(jobs', i, "dispose", b) => cycle'[b] = "disposed"
                 /\ ~At(jobs', i, "taken", b)
        <3>1. i + 1 \in Nat
            OBVIOUS
        <3> QED  BY <1>1, <1>3, <3>1 DEF Cycles, Queued
    <2>2. /\ \A b \in Cycle : b \in attached' => b \in attached
          /\ \A b \in Cycle : b \in attached /\ b \notin attached' => b = c
          /\ c \in attached' => job.kind \notin {"refused", "taken", "dispose"} \/ c \notin attached
          /\ job.kind \in {"listen", "listening"} => attached' = attached
        BY <1>2 DEF Run
    <2>3. Timely(c) => job.kind \in {"listen", "listening"}
        BY <1>2 DEF Cycles, Queued, Timely, JobKind
    <2>4. \A b \in Cycle : Timely(b)' => b \in attached'
        BY <1>5, <2>2, <2>3 DEF Cycles, Queued
    <2>5. ASSUME NEW b \in Cycle, b \in attached'
          PROVE  Timely(b)' \/ Disposing(b)' \/ \E i \in Nat : At(jobs', i, "refused", b)
        <3>1. b \in attached /\ ~(b = c /\ job.kind \in {"refused", "dispose"})
            BY <2>2, <2>5
        <3>2. CASE Timely(b)
            BY <1>5, <3>2
        <3>3. CASE Disposing(b)
            BY <1>5, <1>9, <3>1, <3>3 DEF Timely
        <3>4. ASSUME NEW i \in Nat, At(jobs, i, "refused", b)
              PROVE  \E j \in Nat : At(jobs', j, "refused", b)
            <4>1. i - 1 \in Nat /\ i - 1 > 0 /\ At(jobs, (i - 1) + 1, "refused", b)
                BY <1>4, <3>1, <3>4 DEF JobKind
            <4> QED  BY <1>3, <4>1
        <3> QED  BY <3>1, <3>2, <3>3, <3>4 DEF Cycles, Queued
    <2> QED  BY <2>1, <2>4, <2>5 DEF Queued
<1> QED  BY <1>10, <1>11, <1>12, <1>13, <1>14, <1>15, <1>16 DEF Cycles

LEMMA CyclesDispatch == ASSUME TypeOK, Cycles, Dispatch PROVE Cycles'
<1>1. stdin # << >> /\ stdin' = Tail(stdin) /\ UNCHANGED <<cycle, subscription, attached, jobs>>
    BY DEF Dispatch, client, emitter, turn
<1>2. PICK c \in Cycle : c = Head(stdin).id /\ At(stdin, 1, Head(stdin).kind, c)
    BY <1>1, HeadRequest
<1>3. \A b \in Cycle : Asked(b)' <=> Asked(b) /\ ~At(stdin, 1, "listen", b)
    BY <1>1, AskedTaken DEF Cycles
<1>4. \A i \in Nat, k \in {"listen", "unlisten"}, b \in Cycle :
            At(stdin', i, k, b) <=> i > 0 /\ At(stdin, i + 1, k, b)
    BY <1>1, RequestTaken
<1>5. /\ \A b, a \in Cycle, i, j \in Nat :
            At(stdin', i, "listen", b) /\ At(stdin', j, "listen", a) /\ i < j => b < a
      /\ \A b, a \in Cycle, i, j \in Nat :
            At(stdin', i, "listen", b) /\ At(jobs', j, "listen", a) => b < a
      /\ \A b, a \in Cycle, i, j \in Nat :
            At(jobs', i, "listen", b) /\ At(jobs', j, "listen", a) /\ i < j => b < a
    BY <1>1, <1>4 DEF Cycles, Single
<1>6. Drawn' /\ LetGo' /\ Queued' /\ \A b \in Cycle : Disposing(b)' <=> Disposing(b)
    <2>1. \A b \in Cycle : Disposing(b)' <=> Disposing(b)
        BY <1>1 DEF Disposing
    <2>2. Drawn' /\ LetGo'
        BY <1>1, <1>4 DEF Cycles, Drawn, LetGo
    <2> QED  BY <1>1, <2>1, <2>2 DEF Cycles, Queued, Timely
<1>7. CASE Head(stdin).kind = "listen"
    <2>1. Asked(c) /\ ~Asked(c)' /\ Listen(c)
        BY <1>2, <1>3, <1>7 DEF Dispatch, Asked
    <2>2. \A b \in Cycle : b # c => (Asked(b)' <=> Asked(b))
        BY <1>2, <1>3 DEF At
    <2>3. /\ cycle[c] = "opening" /\ c \notin answering /\ ~AnswerSent(c)
          /\ c \notin subscriptions /\ ~Started(c)
        BY <2>1 DEF Cycles, Placed
    <2>4. ASSUME NEW b \in Cycle, b # c, b \in subscriptions
          PROVE  Timely(b)' \/ Disposing(b)' \/ \E i \in Nat : At(stdin', i, "unlisten", b)
        <3>1. CASE Timely(b)
            BY <1>1, <3>1 DEF Timely
        <3>2. ASSUME NEW i \in Nat, At(stdin, i, "unlisten", b)
              PROVE  \E j \in Nat : At(stdin', j, "unlisten", b)
            <4>1. i # 1 /\ i > 0
                BY <1>2, <1>7, <3>2, Places
            <4>2. i - 1 \in Nat /\ i - 1 > 0 /\ At(stdin, (i - 1) + 1, "unlisten", b)
                BY <3>2, <4>1
            <4> QED  BY <1>4, <4>2
        <3> QED  BY <1>6, <2>4, <3>1, <3>2 DEF Cycles, Kept
    <2>5. CASE /\ subscriptions' = subscriptions \cup {c} /\ answering' = answering \cup {c}
               /\ producer' = [producer EXCEPT ![c] = "running"] /\ stdout' = stdout
        <3>1. \A b \in Cycle : AnswerSent(b)' <=> AnswerSent(b)
            BY <2>5 DEF AnswerSent, AnswerAt
        <3>2. Started(c)' /\ \A b \in Cycle : b # c => (Started(b)' <=> Started(b))
            BY <2>5 DEF Started, TypeOK
        <3>3. Placed'
            BY <1>1, <2>1, <2>2, <2>3, <2>5, <3>1, <3>2 DEF Cycles, Placed
        <3>4. Single'
            BY <1>5, <2>5 DEF Cycles, Single, AnswerAt
        <3>5. Produced'
            BY <1>1, <2>3, <2>5, <3>2 DEF Cycles, Produced, AnswerSent, AnswerAt
        <3>6. Kept'
            BY <1>1, <2>3, <2>4, <2>5 DEF Kept, Timely
        <3> QED  BY <1>6, <3>3, <3>4, <3>5, <3>6 DEF Cycles
    <2>6. CASE Reply("refused", c) /\ UNCHANGED backend
        <3>1. /\ \A i \in Nat, k \in {"listening", "refused", "taken"}, b \in Cycle :
                    At(stdout', i, k, b) <=> \/ At(stdout, i, k, b)
                                             \/ i = Len(stdout) + 1 /\ k = "refused" /\ b = c
              /\ Len(stdout) + 1 \in Nat
            BY <2>6, LineReplied
        <3>2. \A b \in Cycle : AnswerSent(b)' <=> AnswerSent(b) \/ b = c
            BY <3>1 DEF AnswerSent, AnswerAt
        <3>3. \A b \in Cycle : Started(b)' <=> Started(b)
            BY <2>6 DEF Started, backend
        <3>4. Placed'
            BY <1>1, <2>1, <2>2, <2>3, <2>6, <3>2, <3>3 DEF Cycles, Placed, backend
        <3>5. Single'
            <4>1. \A i \in Nat, b \in Cycle : ~At(stdout', i, "taken", b)
                BY <3>1 DEF Cycles, Single
            <4>2. \A b \in Cycle, i, j \in Nat : AnswerAt(i, b)' /\ AnswerAt(j, b)' => i = j
                BY <2>3, <3>1 DEF Cycles, Single, AnswerAt, AnswerSent
            <4> QED  BY <1>5, <4>1, <4>2 DEF Single
        <3>6. Produced'
            BY <1>1, <2>3, <2>6, <3>1, <3>3 DEF Cycles, Produced, backend
        <3>7. Kept'
            BY <1>1, <2>3, <2>4, <2>6 DEF Kept, backend
        <3> QED  BY <1>6, <3>4, <3>5, <3>6, <3>7 DEF Cycles
    <2> QED  BY <2>1, <2>3, <2>5, <2>6 DEF Listen
<1>8. CASE Head(stdin).kind = "unlisten"
    <2>1. /\ subscriptions' = subscriptions \ {c} /\ UNCHANGED <<answering, producer, stdout>>
          /\ At(stdin, 1, "unlisten", c) /\ cycle[c] = "disposed"
        BY <1>2, <1>8 DEF Dispatch, Unlisten, Cycles, LetGo
    <2>2. \A b \in Cycle : Asked(b)' <=> Asked(b)
        BY <1>3, <2>1, Places
    <2>3. \A b \in Cycle : (AnswerSent(b)' <=> AnswerSent(b)) /\ (Started(b)' <=> Started(b))
        BY <2>1 DEF AnswerSent, AnswerAt, Started
    <2>4. Placed'
        BY <1>1, <2>1, <2>2, <2>3 DEF Cycles, Placed
    <2>5. Single' /\ Produced'
        BY <1>1, <1>5, <2>1, <2>3 DEF Cycles, Single, Produced, AnswerAt
    <2>6. Kept'
        <3> SUFFICES ASSUME NEW b \in Cycle, b \in subscriptions, b # c
                     PROVE  Timely(b)' \/ Disposing(b)' \/ \E i \in Nat : At(stdin', i, "unlisten", b)
            BY <2>1 DEF Kept
        <3>1. CASE Timely(b)
            BY <1>1, <3>1 DEF Timely
        <3>2. ASSUME NEW i \in Nat, At(stdin, i, "unlisten", b)
              PROVE  \E j \in Nat : At(stdin', j, "unlisten", b)
            <4>1. i # 1 /\ i > 0
                BY <2>1, <3>2, Places
            <4>2. i - 1 \in Nat /\ i - 1 > 0 /\ At(stdin, (i - 1) + 1, "unlisten", b)
                BY <3>2, <4>1
            <4> QED  BY <1>4, <4>2
        <3> QED  BY <1>6, <3>1, <3>2 DEF Cycles, Kept
    <2> QED  BY <1>6, <2>4, <2>5, <2>6 DEF Cycles
<1> QED  BY <1>1, <1>7, <1>8, HeadRequest

LEMMA CyclesAnswer == ASSUME TypeOK, Cycles, NEW c \in Cycle, AnswerListen(c) PROVE Cycles'
<1>1. /\ c \in answering /\ answering' = answering \ {c} /\ Reply("listening", c)
      /\ UNCHANGED <<cycle, subscription, subscriptions, stdin, producer, attached, jobs>>
    BY DEF AnswerListen, client, emitter, turn
<1>2. /\ \A i \in Nat, k \in {"listening", "refused", "taken"}, b \in Cycle :
            At(stdout', i, k, b) <=> \/ At(stdout, i, k, b)
                                     \/ i = Len(stdout) + 1 /\ k = "listening" /\ b = c
      /\ Len(stdout) + 1 \in Nat
    BY <1>1, LineReplied
<1>3. cycle[c] = "opening" /\ ~AnswerSent(c) /\ ~Asked(c)
    BY <1>1 DEF Cycles, Placed
<1>4. \A b \in Cycle : /\ AnswerSent(b)' <=> AnswerSent(b) \/ b = c
                       /\ Asked(b)' <=> Asked(b)
                       /\ Started(b)' <=> Started(b)
    BY <1>1, <1>2 DEF AnswerSent, AnswerAt, Asked, Started
<1>5. Drawn' /\ LetGo' /\ Kept' /\ Queued'
    <2>1. \A b \in Cycle : Disposing(b)' <=> Disposing(b)
        BY <1>1 DEF Disposing
    <2> QED  BY <1>1, <2>1 DEF Cycles, Drawn, LetGo, Kept, Timely, Queued
<1>6. Placed'
    BY <1>1, <1>3, <1>4 DEF Cycles, Placed
<1>7. Single'
    <2>1. \A i \in Nat, b \in Cycle : ~At(stdout', i, "taken", b)
        BY <1>2 DEF Cycles, Single
    <2>2. \A b \in Cycle, i, j \in Nat : AnswerAt(i, b)' /\ AnswerAt(j, b)' => i = j
        BY <1>2, <1>3 DEF Cycles, Single, AnswerAt, AnswerSent
    <2> QED  BY <1>1, <2>1, <2>2 DEF Cycles, Single
<1>8. Produced'
    BY <1>1, <1>2, <1>4 DEF Cycles, Produced
<1> QED  BY <1>5, <1>6, <1>7, <1>8 DEF Cycles

LEMMA StepCycles ==
    ASSUME TypeOK, Cycles, \A b \in Cycle : producer[b] = "emitting" => reported[b] < source,
           [Next]_vars
    PROVE  Cycles'
<1>1. CASE Occur \/ UNCHANGED vars
    <2>1. UNCHANGED <<cycle, subscription, subscriptions, answering, stdin, stdout, producer, attached, jobs>>
        BY <1>1 DEF Occur, vars, client, emitter, turn, backend
    <2> QED  BY <2>1, CyclesBeside DEF Started
<1>2. ASSUME NEW c \in Cycle, CheckActive(c) PROVE Cycles'
    <2>1. UNCHANGED <<cycle, subscription, subscriptions, answering, stdin, stdout, attached, jobs>>
        BY <1>2 DEF CheckActive, client, emitter, turn
    <2>2. \A b \in Cycle : Started(b)' <=> Started(b)
        BY <1>2 DEF CheckActive, Started, TypeOK
    <2> QED  BY <2>1, <2>2, CyclesBeside
<1>3. ASSUME NEW c \in Cycle, Emit(c) PROVE Cycles'
    <2>1. /\ UNCHANGED <<cycle, subscription, subscriptions, answering, stdin, attached, jobs>>
          /\ stdout' = Append(stdout, [kind |-> "event", id |-> c, payload |-> reported[c] + 1])
        BY <1>3 DEF Emit, client, emitter, turn
    <2>2. reported[c] + 1 \in 1 .. MaxEvent
        BY <1>3, BoundAssumption DEF Emit, TypeOK
    <2>3. \A b \in Cycle : Started(b)' <=> Started(b)
        BY <1>3 DEF Emit, Started, TypeOK
    <2>4. \A i \in Nat, k \in {"listening", "refused", "taken"}, b \in Cycle :
                At(stdout', i, k, b) <=> At(stdout, i, k, b)
        BY <2>1, <2>2, LineEmitted
    <2> QED  BY <2>1, <2>3, <2>4, CyclesBeside
<1> QED  BY <1>1, <1>2, <1>3, CyclesAdd, CyclesRemove, CyclesReceive, CyclesRun,
      CyclesDispatch, CyclesAnswer DEF Next

-----------------------------------------------------------------------------
(* The events. *)

LEMMA InitPayloads == Init => Payloads
<1> SUFFICES ASSUME Init PROVE Payloads
    OBVIOUS
<1>1. \A i, b, n : ~EventAt(stdout, i, b, n)
    BY DEF Init, At, EventAt
<1>2. \A c \in Cycle : ~Started(c) /\ ~Timely(c) /\ reported[c] = 0 /\ producer[c] = "none"
    BY DEF Init, Started, Timely
<1>3. fired = << >> /\ Len(fired) = 0 /\ source = 0
    BY DEF Init
<1>4. Reported
    BY <1>1, <1>2, <1>3 DEF Reported
<1>5. Apart
    BY <1>2 DEF Apart
<1>6. Joined /\ Continued /\ FiredInOrder
    BY <1>3 DEF Joined, Continued, FiredInOrder
<1> QED  BY <1>4, <1>5, <1>6 DEF Payloads

LEMMA FiredFacts ==
    ASSUME TypeOK
    PROVE  /\ fired \in Seq([id : Cycle, payload : 1 .. MaxEvent]) /\ Len(fired) \in Nat
           /\ DOMAIN fired = 1 .. Len(fired)
           /\ \A i \in 1 .. Len(fired) :
                    fired[i].id \in Cycle /\ fired[i].payload \in 1 .. MaxEvent
           /\ fired # << >> => Len(fired) \in 1 .. Len(fired)
<1> DEFINE Fired == [id : Cycle, payload : 1 .. MaxEvent]
<1>1. fired \in Seq(Fired)
    BY DEF TypeOK, Payload
<1>2. \A f \in Fired : f.id \in Cycle /\ f.payload \in 1 .. MaxEvent
    OBVIOUS
<1> HIDE DEF Fired
<1>3. /\ Len(fired) \in Nat /\ \A i \in 1 .. Len(fired) : fired[i] \in Fired
      /\ DOMAIN fired = 1 .. Len(fired)
      /\ fired # << >> => Len(fired) > 0
    BY <1>1
<1> QED  BY <1>1, <1>2, <1>3 DEF Fired

\* A cycle comes or goes while nothing moves in the pipes.
LEMMA PayloadsLive ==
    ASSUME TypeOK, Payloads, UNCHANGED <<stdout, producer, reported, source, fired>>,
           \A b \in Cycle : Timely(b)' => \/ Timely(b)
                                        \/ \A c \in Cycle : b <= c => ~Started(c)
    PROVE  Payloads'
<1>1. \A c \in Cycle : /\ Started(c)' <=> Started(c)
                       /\ AnswerSent(c)' <=> AnswerSent(c)
                       /\ \A i \in Nat : AnswerAt(i, c)' <=> AnswerAt(i, c)
    BY DEF Started, AnswerSent, AnswerAt
<1>2. \A b, c \in Cycle : b <= c /\ Timely(b)' /\ Started(c) => Timely(b)
    OBVIOUS
<1>3. Reported'
    BY <1>1 DEF Payloads, Reported
<1>4. Apart'
    <2>1. \A b, c \in Cycle : b < c => b <= c /\ c <= c
        BY CycleFacts
    <2> QED  BY <1>1, <1>2, <2>1 DEF Payloads, Apart
<1>5. Joined'
    <2>1. \A i \in 1 .. Len(fired) : Started(fired[i].id) /\ fired[i].id \in Cycle
        BY FiredFacts DEF Payloads, Joined
    <2>2. \A i \in 1 .. Len(fired), b \in Cycle : b < fired[i].id => ~Timely(b)'
        <3> SUFFICES ASSUME NEW i \in 1 .. Len(fired), NEW b \in Cycle, b < fired[i].id, Timely(b)'
                     PROVE  FALSE
            OBVIOUS
        <3>1. b <= fired[i].id
            BY <2>1, CycleFacts
        <3> QED  BY <1>2, <2>1, <3>1 DEF Payloads, Joined
    <2>3. \A i \in 1 .. Len(fired) : Started(fired[i].id)'
        BY <1>1, <2>1 DEF Started
    <2> QED  BY <2>2, <2>3 DEF Payloads, Joined
<1>6. Continued'
    <2>1. fired # << >> => Last.id \in Cycle /\ Started(Last.id)
        BY FiredFacts DEF Payloads, Joined, Last
    <2>2. Last' = Last
        BY DEF Last
    <2>3. \A c \in Cycle : Timely(c)' /\ Started(c) => Timely(c)
        BY <1>2, CycleFacts
    <2>4. Timely(Last.id)' /\ fired # << >> => Timely(Last.id)
        BY <2>1, <2>2, <2>3 DEF Timely
    <2> QED  BY <1>1, <2>1, <2>2, <2>3, <2>4 DEF Payloads, Continued
<1>7. FiredInOrder'
    BY DEF Payloads, FiredInOrder
<1> QED  BY <1>3, <1>4, <1>5, <1>6, <1>7 DEF Payloads

LEMMA EventTaken ==
    ASSUME TypeOK, stdout # << >>, stdout' = Tail(stdout), NEW b \in Cycle, NEW n \in Nat,
           \E j \in Nat : EventAt(stdout, j, b, n), ~EventAt(stdout, 1, b, n)
    PROVE  \E j \in Nat : EventAt(stdout', j, b, n)
<1>1. PICK j \in Nat : EventAt(stdout, j, b, n)
    OBVIOUS
<1>2. j # 1 /\ j > 0
    BY <1>1, Places
<1>3. j - 1 \in Nat /\ j - 1 > 0 /\ EventAt(stdout, (j - 1) + 1, b, n)
    BY <1>1, <1>2
<1> QED  BY <1>3, LineTaken

LEMMA ReportedTaken ==
    ASSUME TypeOK, Reported, stdout # << >>, stdout' = Tail(stdout),
           UNCHANGED <<producer, reported, source>>
    PROVE  Reported'
<1>1. \A i, n \in Nat, b \in Cycle :
        EventAt(stdout', i, b, n) <=> i > 0 /\ i + 1 \in Nat /\ EventAt(stdout, i + 1, b, n)
    BY LineTaken
<1>2. \A c \in Cycle : Started(c)' <=> Started(c)
    BY DEF Started
<1>3. \A c \in Cycle, i, n \in Nat : EventAt(stdout', i, c, n) => Started(c)' /\ n <= reported'[c]
    BY <1>1, <1>2 DEF Reported
<1>4. \A c \in Cycle, i, j, m, n \in Nat :
        EventAt(stdout', i, c, m) /\ EventAt(stdout', j, c, n) /\ i < j => m < n
    <2> SUFFICES ASSUME NEW c \in Cycle, NEW i \in Nat, NEW j \in Nat, NEW m \in Nat, NEW n \in Nat,
                        EventAt(stdout', i, c, m), EventAt(stdout', j, c, n), i < j
                 PROVE  m < n
        OBVIOUS
    <2>1. EventAt(stdout, i + 1, c, m) /\ EventAt(stdout, j + 1, c, n) /\ i + 1 < j + 1
          /\ i + 1 \in Nat /\ j + 1 \in Nat
        BY <1>1
    <2> QED  BY <2>1 DEF Reported
<1>5. ASSUME NEW c \in Cycle, NEW i \in Nat, NEW m \in Nat, NEW n \in Nat,
             EventAt(stdout', i, c, m), m < n, n <= reported[c]
      PROVE  \E j \in Nat : EventAt(stdout', j, c, n)
    <2>1. EventAt(stdout, i + 1, c, m) /\ i + 1 > 1 /\ i + 1 \in Nat
        BY <1>1, <1>5
    <2>2. \E j \in Nat : EventAt(stdout, j, c, n)
        BY <1>5, <2>1 DEF Reported
    <2>3. ~EventAt(stdout, 1, c, n)
        <3> SUFFICES ASSUME EventAt(stdout, 1, c, n) PROVE FALSE
            OBVIOUS
        <3>1. n < m
            BY <2>1 DEF Reported
        <3> QED  BY <1>5, <3>1
    <2> QED  BY <2>2, <2>3, EventTaken
<1> QED  BY <1>3, <1>4, <1>5 DEF Reported

LEMMA ApartTaken ==
    ASSUME TypeOK, Single, Apart, stdout # << >>, stdout' = Tail(stdout),
           UNCHANGED <<producer, reported>>, \A b \in Cycle : Timely(b)' => Timely(b),
           \A b, c \in Cycle : b < c /\ Timely(b)' /\ Timely(c)' /\ Started(c) => ~AnswerAt(1, b)
    PROVE  Apart'
<1>1. \A i, n \in Nat, b \in Cycle :
        EventAt(stdout', i, b, n) <=> i > 0 /\ i + 1 \in Nat /\ EventAt(stdout, i + 1, b, n)
    BY LineTaken
<1>2. \A c \in Cycle : Started(c)' <=> Started(c)
    BY DEF Started
<1> SUFFICES ASSUME NEW b \in Cycle, NEW c \in Cycle, b < c, Timely(b)', Timely(c)', Started(c)
             PROVE  /\ AnswerSent(b)'
                    /\ \A k, i, n \in Nat : AnswerAt(k, b)' /\ EventAt(stdout', i, c, n) => k < i
                    /\ \A k, j, m \in Nat :
                        AnswerAt(k, b)' /\ EventAt(stdout', j, b, m) /\ j < k =>
                            /\ m <= reported[c]
                            /\ \A i, n \in Nat : EventAt(stdout', i, c, n) => m < n
    BY <1>2 DEF Apart
<1>3. Timely(b) /\ Timely(c) /\ ~AnswerAt(1, b)
    OBVIOUS
<1>4. AnswerSent(b)'
    BY <1>3, AnswerTaken DEF Apart
<1>5. \A k \in Nat : AnswerAt(k, b)' => k > 0 /\ k + 1 \in Nat /\ AnswerAt(k + 1, b)
    BY AnswerTaken
<1>6. ASSUME NEW k \in Nat, NEW i \in Nat, NEW n \in Nat, AnswerAt(k, b)', EventAt(stdout', i, c, n)
      PROVE  k < i
    <2>1. AnswerAt(k + 1, b) /\ EventAt(stdout, i + 1, c, n) /\ k + 1 \in Nat /\ i + 1 \in Nat
        BY <1>1, <1>5, <1>6
    <2>2. k + 1 < i + 1
        BY <1>3, <2>1 DEF Apart
    <2> QED  BY <2>2
<1>7. ASSUME NEW k \in Nat, NEW j \in Nat, NEW m \in Nat,
             AnswerAt(k, b)', EventAt(stdout', j, b, m), j < k
      PROVE  /\ m <= reported[c]
             /\ \A i, n \in Nat : EventAt(stdout', i, c, n) => m < n
    <2>1. AnswerAt(k + 1, b) /\ EventAt(stdout, j + 1, b, m) /\ k + 1 \in Nat /\ j + 1 \in Nat
          /\ j + 1 < k + 1
        BY <1>1, <1>5, <1>7
    <2>2. /\ m <= reported[c]
          /\ \A i, n \in Nat : EventAt(stdout, i, c, n) => m < n
        BY <1>3, <2>1 DEF Apart
    <2> QED  BY <1>1, <2>2
<1> QED  BY <1>4, <1>6, <1>7

\* The answer of a cycle is taken out of the pipe, and nothing is fired.
LEMMA PayloadsAnswered ==
    ASSUME TypeOK, Single, Payloads, NEW a \in Cycle, AnswerAt(1, a),
           stdout # << >>, stdout' = Tail(stdout), UNCHANGED <<producer, reported, source, fired>>,
           \A b \in Cycle : Timely(b)' => Timely(b),
           Timely(a)' => \A c \in Cycle : a < c => ~Started(c)
    PROVE  Payloads'
<1>1. \A b \in Cycle : b # a => ~AnswerAt(1, b)
    BY Places DEF AnswerAt
<1>2. \A b \in Cycle, n \in Nat : ~EventAt(stdout, 1, b, n)
    BY Places DEF AnswerAt
<1>3. \A c \in Cycle : Started(c)' <=> Started(c)
    BY DEF Started
<1>4. Reported'
    BY ReportedTaken DEF Payloads
<1>5. Apart'
    <2>1. \A b, c \in Cycle : b < c /\ Timely(b)' /\ Timely(c)' /\ Started(c) => ~AnswerAt(1, b)
        BY <1>1
    <2> QED  BY <2>1, ApartTaken DEF Payloads
<1>6. Joined' /\ FiredInOrder'
    <2>1. \A i \in 1 .. Len(fired) : Started(fired[i].id)' <=> Started(fired[i].id)
        BY DEF Started
    <2> QED  BY <2>1, FiredFacts DEF Payloads, Joined, FiredInOrder
<1>7. Continued'
    <2> SUFFICES ASSUME fired # << >> PROVE Continued'
        BY DEF Continued
    <2>1. Last' = Last /\ Last.id \in Cycle /\ Last.payload \in Nat
        BY FiredFacts DEF Last
    <2>2. ASSUME NEW c \in Cycle, Timely(c)', Started(c)
          PROVE  /\ Last.payload <= reported[c]
                 /\ \A i, n \in Nat : EventAt(stdout', i, c, n) => Last.payload < n
        <3>1. \A i, n \in Nat : EventAt(stdout', i, c, n) => i + 1 \in Nat /\ EventAt(stdout, i + 1, c, n)
            BY LineTaken
        <3> QED  BY <2>2, <3>1 DEF Payloads, Continued
    <2>3. ASSUME Timely(Last.id)', NEW n \in Nat, Last.payload < n, n <= reported[Last.id]
          PROVE  \E j \in Nat : EventAt(stdout', j, Last.id, n)
        <3>1. Timely(Last.id)
            BY <2>1, <2>3 DEF Timely
        <3>2. \E j \in Nat : EventAt(stdout, j, Last.id, n)
            BY <2>3, <3>1 DEF Payloads, Continued
        <3> QED  BY <1>2, <2>1, <3>2, EventTaken
    <2> QED  BY <1>3, <2>1, <2>2, <2>3 DEF Continued
<1> QED  BY <1>4, <1>5, <1>6, <1>7 DEF Payloads

\* The event at the head is fired or dropped.
LEMMA PayloadsDropped ==
    ASSUME TypeOK, Single, Payloads, NEW a \in Cycle, NEW p \in Nat, EventAt(stdout, 1, a, p), ~Timely(a),
           stdout # << >>, stdout' = Tail(stdout),
           UNCHANGED <<cycle, producer, reported, source, fired>>
    PROVE  Payloads'
<1>1. \A b \in Cycle : ~AnswerAt(1, b) /\ (Timely(b)' <=> Timely(b)) /\ (Started(b)' <=> Started(b))
    BY Places DEF AnswerAt, Timely, Started
<1>2. Reported' /\ Apart'
    BY <1>1, ReportedTaken, ApartTaken DEF Payloads
<1>3. Joined' /\ FiredInOrder'
    <2>1. \A i \in 1 .. Len(fired) : Started(fired[i].id)' <=> Started(fired[i].id)
        BY DEF Started
    <2> QED  BY <1>1, <2>1, FiredFacts DEF Payloads, Joined, FiredInOrder
<1>4. Continued'
    <2> SUFFICES ASSUME fired # << >> PROVE Continued'
        BY DEF Continued
    <2>1. Last' = Last /\ Last.id \in Cycle /\ Last.payload \in Nat
        BY FiredFacts DEF Last
    <2>2. ASSUME NEW c \in Cycle, Timely(c), Started(c)
          PROVE  /\ Last.payload <= reported[c]
                 /\ \A i, n \in Nat : EventAt(stdout', i, c, n) => Last.payload < n
        <3>1. \A i, n \in Nat : EventAt(stdout', i, c, n) => i + 1 \in Nat /\ EventAt(stdout, i + 1, c, n)
            BY LineTaken
        <3> QED  BY <2>2, <3>1 DEF Payloads, Continued
    <2>3. ASSUME Timely(Last.id), NEW n \in Nat, Last.payload < n, n <= reported[Last.id]
          PROVE  \E j \in Nat : EventAt(stdout', j, Last.id, n)
        <3>1. \E j \in Nat : EventAt(stdout, j, Last.id, n)
            BY <2>3 DEF Payloads, Continued
        <3>2. Last.id # a
            BY <2>3
        <3>3. ~EventAt(stdout, 1, Last.id, n)
            BY <2>1, <3>2, Places
        <3> QED  BY <2>1, <3>1, <3>3, EventTaken
    <2>4. Timely(Last.id)' <=> Timely(Last.id)
        BY <2>1 DEF Timely
    <2> QED  BY <1>1, <2>1, <2>2, <2>3, <2>4 DEF Continued
<1> QED  BY <1>2, <1>3, <1>4 DEF Payloads

LEMMA FiredLast ==
    ASSUME TypeOK, NEW i \in 1 .. Len(fired)
    PROVE  /\ fired[i].id \in Cycle /\ fired[i].id \in Nat /\ fired[i].payload \in Nat
           /\ fired # << >> /\ Len(fired) \in 1 .. Len(fired) /\ Last = fired[Len(fired)]
           /\ Last.id \in Cycle /\ Last.id \in Nat /\ Last.payload \in Nat
<1>1. Len(fired) \in Nat /\ Len(fired) > 0
    BY FiredFacts
<1>2. fired # << >> /\ Len(fired) \in 1 .. Len(fired)
    BY <1>1, FiredFacts
<1>3. \A k \in 1 .. Len(fired) :
        fired[k].id \in Cycle /\ fired[k].id \in Nat /\ fired[k].payload \in Nat
    BY FiredFacts, CycleFacts
<1> QED  BY <1>2, <1>3 DEF Last

LEMMA FiredEarlier ==
    ASSUME TypeOK, Payloads, NEW i \in 1 .. Len(fired), i # Len(fired)
    PROVE  /\ fired[i].payload < Last.payload /\ fired[i].id <= Last.id
           /\ fired[i].id = Last.id => Last.payload - fired[i].payload = Len(fired) - i
<1>1. PICK n \in Nat : n = Len(fired) /\ DOMAIN fired = 1 .. n
    BY FiredFacts
<1>2. i \in 1 .. n /\ n \in 1 .. n /\ i < n
    BY <1>1
<1>3. Joined /\ FiredInOrder
    BY DEF Payloads
<1>4. fired[i].id <= fired[n].id
    BY <1>1, <1>2, <1>3 DEF Joined
<1>5. /\ fired[i].payload < fired[n].payload
      /\ fired[i].id = fired[n].id => fired[n].payload - fired[i].payload = n - i
    BY <1>1, <1>2, <1>3 DEF FiredInOrder
<1> QED  BY <1>1, <1>4, <1>5 DEF Last

LEMMA PayloadsFired ==
    ASSUME TypeOK, Single, Payloads, NEW a \in Cycle, NEW p \in 1 .. MaxEvent,
           EventAt(stdout, 1, a, p), Timely(a), stdout # << >>, stdout' = Tail(stdout),
           fired' = Append(fired, [id |-> a, payload |-> p]),
           UNCHANGED <<cycle, producer, reported, source>>
    PROVE  Payloads'
<1> DEFINE new == [id |-> a, payload |-> p]
           N == Len(fired)
<1>1. \A b \in Cycle : ~AnswerAt(1, b) /\ (Timely(b)' <=> Timely(b)) /\ (Started(b)' <=> Started(b))
    BY Places DEF AnswerAt, Timely, Started
<1>2. Reported' /\ Apart'
    BY <1>1, ReportedTaken, ApartTaken DEF Payloads
<1>3. /\ p \in Nat /\ a \in Nat /\ Started(a) /\ p <= reported[a] /\ reported[a] <= source
      /\ reported[a] \in Nat /\ source \in Nat
    BY CycleFacts DEF Payloads, Reported, TypeOK
<1>4. /\ N \in Nat /\ Len(fired') = N + 1 /\ fired'[N + 1] = new
      /\ DOMAIN fired = 1 .. N /\ DOMAIN fired' = 1 .. N + 1
      /\ \A i \in 1 .. N : fired'[i] = fired[i]
    BY FiredFacts
<1>5. new.id = a /\ new.payload = p
    OBVIOUS
<1> HIDE DEF new
<1>6. \A b \in Cycle : b < a => ~Timely(b)
    <2> SUFFICES ASSUME NEW b \in Cycle, b < a, Timely(b) PROVE FALSE
        OBVIOUS
    <2>1. PICK k \in Nat : AnswerAt(k, b)
        BY <1>3 DEF Payloads, Apart, AnswerSent
    <2>2. k < 1
        BY <1>3, <2>1 DEF Payloads, Apart
    <2> QED  BY <2>1, <2>2, Places DEF AnswerAt
<1>7. ASSUME NEW i \in 1 .. N
      PROVE  /\ fired[i].id \in Cycle /\ fired[i].id \in Nat /\ fired[i].payload \in Nat
             /\ fired[i].id <= a /\ fired[i].payload < p
             /\ fired[i].id = a => p - fired[i].payload = N + 1 - i
    <2>1. /\ fired[i].id \in Cycle /\ fired[i].id \in Nat /\ fired[i].payload \in Nat
          /\ fired # << >> /\ N \in 1 .. N /\ Last = fired[N]
          /\ Last.id \in Cycle /\ Last.id \in Nat /\ Last.payload \in Nat
        BY FiredLast
    <2>2. fired[i].id <= a /\ Last.id <= a
        <3>1. a \in Nat /\ Started(a)
            BY <1>3
        <3> QED  BY <1>3, <2>1, <3>1, SMTT(30) DEF Payloads, Joined
    <2>3. Last.payload < p
        BY <1>3, <2>1 DEF Payloads, Continued
    <2>4. ASSUME i # N
          PROVE  /\ fired[i].payload < Last.payload /\ fired[i].id <= Last.id
                 /\ fired[i].id = Last.id => Last.payload - fired[i].payload = N - i
        BY <2>4, FiredEarlier
    <2>5. CASE fired[i].id = a
        <3>1. Last.id = a
            BY <2>1, <2>2, <2>4, <2>5, <1>3
        <3>2. p = Last.payload + 1
            <4> SUFFICES ASSUME p # Last.payload + 1 PROVE FALSE
                OBVIOUS
            <4>a. PICK q \in Nat : q = Last.payload
                BY <2>1
            <4>b. q < p /\ p # q + 1
                BY <2>3, <4>a
            <4>c. q + 1 < p /\ q + 1 \in Nat /\ q < q + 1 /\ q + 1 <= reported[a]
                BY <1>3, <4>b
            <4>1. Last.payload + 1 < p /\ Last.payload + 1 \in Nat
                  /\ Last.payload < Last.payload + 1 /\ Last.payload + 1 <= reported[a]
                BY <4>a, <4>c
            <4>d. PICK m \in Nat : m = Last.payload + 1
                BY <4>1
            <4>2. PICK j \in Nat : EventAt(stdout, j, a, m)
                BY <2>1, <3>1, <4>1, <4>d DEF Payloads, Continued
            <4>3. j # 1 /\ j > 0
                <5>1. j > 0
                    BY <4>2, Places
                <5>2. ASSUME j = 1 PROVE FALSE
                    <6>1. EventAt(stdout, 1, a, m) /\ EventAt(stdout, 1, a, p) /\ p \in Nat
                        BY <1>3, <4>2, <5>2
                    <6>2. p = m
                        BY <6>1, Places
                    <6> QED  BY <4>d, <6>2
                <5> QED  BY <5>1, <5>2
            <4>4. p < m
                <5>1. 1 < j
                    BY <4>3
                <5> QED  BY <1>3, <4>2, <5>1 DEF Payloads, Reported
            <4> QED  BY <1>3, <2>1, <4>1, <4>d, <4>4
        <3>3. CASE i = N
            BY <1>3, <1>4, <2>1, <2>5, <3>2, <3>3
        <3>4. CASE i # N
            <4>1. PICK q, r \in Nat : q = Last.payload /\ r = fired[i].payload
                BY <2>1
            <4>2. PICK d \in Nat : d = N
                BY <1>4
            <4>3. q - r = d - i /\ p = q + 1 /\ r < p /\ i \in Nat
                BY <2>3, <2>4, <2>5, <3>1, <3>2, <3>4, <4>1, <4>2
            <4>4. p - r = d + 1 - i
                BY <4>3
            <4>5. p - r = N + 1 - i
                BY <4>2, <4>4
            <4> QED  BY <2>1, <2>2, <2>5, <4>1, <4>3, <4>5
        <3> QED  BY <3>3, <3>4
    <2>6. fired[i].payload < p
        BY <1>3, <2>1, <2>3, <2>4
    <2> QED  BY <2>1, <2>2, <2>5, <2>6
<1>8. ASSUME NEW i \in 1 .. N + 1
      PROVE  \/ i \in 1 .. N /\ fired'[i] = fired[i]
             \/ i = N + 1 /\ fired'[i] = new
    BY <1>4
<1>9. FiredInOrder'
    <2> SUFFICES ASSUME NEW i \in 1 .. N + 1, NEW j \in 1 .. N + 1, i < j
                 PROVE  /\ fired'[i].payload < fired'[j].payload
                        /\ fired'[i].id = fired'[j].id =>
                             fired'[j].payload - fired'[i].payload = j - i
        BY <1>4 DEF FiredInOrder
    <2>1. i \in 1 .. N /\ fired'[i] = fired[i]
        BY <1>4, <1>8
    <2>2. CASE j = N + 1
        BY <1>4, <1>5, <1>7, <2>1, <2>2
    <2>3. CASE j \in 1 .. N
        BY <1>4, <2>1, <2>3 DEF Payloads, FiredInOrder
    <2> QED  BY <1>8, <2>2, <2>3
<1>10. Joined'
    <2>1. ASSUME NEW i \in 1 .. N + 1, NEW j \in 1 .. N + 1, i < j
          PROVE  fired'[i].id <= fired'[j].id
        <3>1. i \in 1 .. N /\ fired'[i] = fired[i]
            BY <1>4, <1>8, <2>1
        <3>2. CASE j = N + 1
            BY <1>4, <1>5, <1>7, <3>1, <3>2
        <3>3. CASE j \in 1 .. N
            BY <1>4, <2>1, <3>1, <3>3 DEF Payloads, Joined
        <3> QED  BY <1>8, <3>2, <3>3
    <2>2. ASSUME NEW i \in 1 .. N + 1
          PROVE  /\ fired'[i].id \in Cycle /\ Started(fired'[i].id)
                 /\ fired'[i].payload <= source
                 /\ \A b \in Cycle : b < fired'[i].id => ~Timely(b)
        <3>1. CASE i = N + 1
            BY <1>3, <1>4, <1>5, <1>6, <3>1
        <3>2. CASE i \in 1 .. N
            BY <1>4, <1>7, <3>2 DEF Payloads, Joined
        <3> QED  BY <1>8, <3>1, <3>2
    <2>3. \A i \in 1 .. N + 1 : (producer[fired[i].id] # "none")' 
        BY <2>2 DEF Started
    <2> QED  BY <1>1, <1>4, <2>1, <2>2, <2>3 DEF Joined, Started
<1>11. Continued'
    <2>1. Last' = new /\ fired' # << >>
        BY <1>4 DEF Last
    <2>2. ASSUME NEW c \in Cycle, Timely(c), Started(c)
          PROVE  /\ p <= reported[c]
                 /\ \A i, n \in Nat : EventAt(stdout', i, c, n) => p < n
        <3>1. \A i, n \in Nat :
                EventAt(stdout', i, c, n) => i > 0 /\ i + 1 \in Nat /\ EventAt(stdout, i + 1, c, n)
            BY LineTaken
        <3>2. CASE c = a
            BY <1>3, <3>1, <3>2 DEF Payloads, Reported
        <3>3. CASE c # a
            <4>1. a < c
                BY <1>6, <2>2, <3>3, CycleFacts
            <4>2. PICK k \in Nat : AnswerAt(k, a)
                BY <2>2, <4>1 DEF Payloads, Apart, AnswerSent
            <4>3. 1 < k
                BY <1>1, <4>2, Places DEF AnswerAt
            <4> QED  BY <1>3, <2>2, <3>1, <4>1, <4>2, <4>3 DEF Payloads, Apart
        <3> QED  BY <3>2, <3>3
    <2>3. ASSUME NEW n \in Nat, p < n, n <= reported[a]
          PROVE  \E j \in Nat : EventAt(stdout', j, a, n)
        <3>1. \E j \in Nat : EventAt(stdout, j, a, n)
            BY <1>3, <2>3 DEF Payloads, Reported
        <3>2. ~EventAt(stdout, 1, a, n)
            BY <1>3, <2>3, Places
        <3> QED  BY <3>1, <3>2, EventTaken
    <2> QED  BY <1>1, <1>5, <2>1, <2>2, <2>3 DEF Continued
<1> QED  BY <1>2, <1>9, <1>10, <1>11 DEF Payloads

\* An answer is written behind everything else.
LEMMA PayloadsReplied ==
    ASSUME TypeOK, Payloads, NEW a \in Cycle, ~AnswerSent(a),
           NEW kind \in {"listening", "refused", "taken"}, Reply(kind, a),
           UNCHANGED <<cycle, producer, reported, source, fired>>
    PROVE  Payloads'
<1>1. /\ Len(stdout) \in Nat
      /\ \A i \in Nat, k \in {"listening", "refused", "taken"}, b \in Cycle :
            At(stdout', i, k, b) <=> \/ At(stdout, i, k, b)
                                     \/ i = Len(stdout) + 1 /\ k = kind /\ b = a
      /\ \A i, n \in Nat, b \in Cycle : EventAt(stdout', i, b, n) <=> EventAt(stdout, i, b, n)
    BY LineReplied
<1>2. \A b \in Cycle : (Timely(b)' <=> Timely(b)) /\ (Started(b)' <=> Started(b))
    BY DEF Timely, Started
<1>3. \A b \in Cycle : b # a => \A i \in Nat : AnswerAt(i, b)' <=> AnswerAt(i, b)
    BY <1>1 DEF AnswerAt
<1>4. \A b \in Cycle : AnswerSent(b) => AnswerSent(b)' /\ b # a
    BY <1>1 DEF AnswerSent, AnswerAt
<1>5. Reported'
    BY <1>1, <1>2 DEF Payloads, Reported
<1>6. Apart'
    BY <1>1, <1>2, <1>3, <1>4 DEF Payloads, Apart
<1>7. Joined' /\ FiredInOrder'
    <2>1. \A i \in 1 .. Len(fired) : Started(fired[i].id)' <=> Started(fired[i].id)
        BY DEF Started
    <2> QED  BY <1>2, <2>1, FiredFacts DEF Payloads, Joined, FiredInOrder
<1>8. Continued'
    <2>1. /\ Last' = Last
          /\ fired # << >> => Last.id \in Cycle /\ Last.payload \in Nat
        BY FiredFacts DEF Last
    <2>2. Timely(Last.id)' <=> Timely(Last.id)
        BY <2>1 DEF Timely
    <2> QED  BY <1>1, <1>2, <2>1, <2>2 DEF Payloads, Continued
<1> QED  BY <1>5, <1>6, <1>7, <1>8 DEF Payloads

\* A producer is started, and reports from the present on.
LEMMA PayloadsAccepted ==
    ASSUME TypeOK, Cycles, Payloads, NEW a \in Cycle, At(stdin, 1, "listen", a), answering = {},
           producer' = [producer EXCEPT ![a] = "running"],
           reported' = [reported EXCEPT ![a] = source],
           UNCHANGED <<cycle, stdout, source, fired>>
    PROVE  Payloads'
<1>1. Asked(a)
    BY DEF Asked
<1>2. cycle[a] = "opening" /\ ~AnswerSent(a) /\ ~Started(a)
    BY <1>1 DEF Cycles, Placed
<1>3. \A i, n \in Nat : ~EventAt(stdout, i, a, n)
    BY <1>2 DEF Payloads, Reported
<1>4. \A b \in Cycle : /\ Timely(b)' <=> Timely(b)
                       /\ Started(b)' <=> Started(b) \/ b = a
                       /\ AnswerSent(b)' <=> AnswerSent(b)
                       /\ \A k \in Nat : AnswerAt(k, b)' <=> AnswerAt(k, b)
                       /\ reported'[b] = IF b = a THEN source ELSE reported[b]
                       /\ b # a => producer'[b] = producer[b]
    BY DEF TypeOK, Timely, Started, AnswerSent, AnswerAt
<1>5. producer'[a] = "running" /\ source \in Nat /\ \A b \in Cycle : reported[b] \in Nat
    BY BoundAssumption DEF TypeOK
<1>6. \A b \in Cycle : b < a /\ Timely(b) => AnswerSent(b)
    <2> SUFFICES ASSUME NEW b \in Cycle, b < a, Timely(b) PROVE AnswerSent(b)
        OBVIOUS
    <2>1. cycle[b] # "open"
        BY <1>2, CycleFacts DEF TypeOK, Cycles, Drawn
    <2>2. ~Asked(b)
        <3>1. ASSUME NEW i \in Nat, At(stdin, i, "listen", b) PROVE FALSE
            <4>1. i > 0 /\ i # 1
                BY <3>1, Places, CycleFacts
            <4>2. a < b
                BY <3>1, <4>1 DEF Cycles, Single
            <4> QED  BY <4>2, CycleFacts
        <3>2. ASSUME NEW i \in Nat, At(jobs, i, "listen", b) PROVE FALSE
            <4>1. a < b
                BY <3>2 DEF Cycles, Single
            <4> QED  BY <4>1, CycleFacts
        <3> QED  BY <3>1, <3>2 DEF Asked
    <2> QED  BY <2>1, <2>2 DEF Timely, Cycles, Placed
<1>7. Reported'
    BY <1>3, <1>4, <1>5 DEF Payloads, Reported
<1>8. Apart'
    <2> SUFFICES ASSUME NEW b \in Cycle, NEW c \in Cycle,
                        b < c /\ Timely(b)' /\ Timely(c)' /\ Started(c)'
                 PROVE  (/\ AnswerSent(b)
                         /\ \A k, i, n \in Nat : AnswerAt(k, b) /\ EventAt(stdout, i, c, n) => k < i
                         /\ \A k, j, m \in Nat : AnswerAt(k, b) /\ EventAt(stdout, j, b, m) /\ j < k =>
                            /\ m <= reported[c]
                            /\ \A i, n \in Nat : EventAt(stdout, i, c, n) => m < n)'
        BY DEF Apart
    <2> SUFFICES /\ AnswerSent(b)
                 /\ \A k, i, n \in Nat : AnswerAt(k, b) /\ EventAt(stdout, i, c, n) => k < i
                 /\ \A k, j, m \in Nat : AnswerAt(k, b) /\ EventAt(stdout, j, b, m) /\ j < k =>
                    /\ m <= reported'[c]
                    /\ \A i, n \in Nat : EventAt(stdout, i, c, n) => m < n
        BY <1>4
    <2>0. Timely(b) /\ Timely(c)
        BY <1>4
    <2>1. CASE c = a
        <3>1. \A j, m \in Nat : EventAt(stdout, j, b, m) => m <= source
            BY <1>5 DEF Payloads, Reported
        <3> QED  BY <1>3, <1>4, <1>6, <2>1, <3>1
    <2>2. CASE c # a
        BY <1>4, <2>2 DEF Payloads, Apart
    <2> QED  BY <2>1, <2>2
<1>9. Joined' /\ FiredInOrder'
    <2>1. \A i \in 1 .. Len(fired) : Started(fired[i].id) /\ fired[i].id \in Cycle
        BY FiredFacts DEF Payloads, Joined
    <2>2. \A i \in 1 .. Len(fired) : Started(fired[i].id)'
        <3> SUFFICES ASSUME NEW i \in 1 .. Len(fired) PROVE Started(fired[i].id)'
            OBVIOUS
        <3>1. PICK b \in Cycle : b = fired[i].id
            BY <2>1
        <3>2. Started(b)'
            BY <1>4, <2>1, <3>1
        <3> QED  BY <3>1, <3>2 DEF Started
    <2> QED  BY <1>4, <2>2 DEF Payloads, Joined, FiredInOrder
<1>10. Continued'
    <2> SUFFICES ASSUME fired # << >> PROVE Continued'
        BY DEF Continued
    <2>1. PICK b \in Cycle : b = Last.id /\ Started(b) /\ Last.payload \in Nat
                             /\ Last.payload <= source
        BY FiredFacts DEF Payloads, Joined, Last
    <2>2. Last' = Last
        BY DEF Last
    <2>3. b # a
        BY <1>2, <2>1
    <2>4. ASSUME NEW c \in Cycle, Timely(c), Started(c)'
          PROVE  /\ Last.payload <= reported'[c]
                 /\ \A i, n \in Nat : EventAt(stdout, i, c, n) => Last.payload < n
        BY <1>3, <1>4, <2>1, <2>4 DEF Payloads, Continued
    <2>5. ASSUME Timely(b), NEW n \in Nat, Last.payload < n, n <= reported'[b]
          PROVE  \E j \in Nat : EventAt(stdout, j, b, n)
        BY <1>4, <2>1, <2>3, <2>5 DEF Payloads, Continued
    <2>6. Timely(Last.id)' <=> Timely(b)
        BY <1>4, <2>1, <2>2 DEF Timely
    <2> QED  BY <1>4, <2>1, <2>2, <2>4, <2>5, <2>6 DEF Continued
<1> QED  BY <1>7, <1>8, <1>9, <1>10 DEF Payloads

\* A producer reports the next event behind everything else.
LEMMA PayloadsEmitted == ASSUME TypeOK, Payloads, NEW a \in Cycle, Emit(a) PROVE Payloads'
<1>1. /\ producer[a] = "emitting" /\ producer' = [producer EXCEPT ![a] = "running"]
      /\ reported' = [reported EXCEPT ![a] = reported[a] + 1]
      /\ UNCHANGED <<cycle, source, fired>>
    BY DEF Emit, client, emitter, turn
<1>2. PICK m \in Nat : /\ m = reported[a] + 1 /\ m \in 1 .. MaxEvent /\ m <= source
                       /\ stdout' = Append(stdout, [kind |-> "event", id |-> a, payload |-> m])
    <2>1. reported[a] \in 0 .. MaxEvent /\ source \in 0 .. MaxEvent /\ reported[a] < source
          /\ MaxEvent \in Nat
        BY <1>1, BoundAssumption DEF TypeOK, Payloads, Reported
    <2>2. reported[a] + 1 \in 1 .. MaxEvent /\ reported[a] + 1 \in Nat /\ reported[a] + 1 <= source
        BY <2>1
    <2> QED  BY <2>2 DEF Emit
<1>3. PICK N \in Nat : N = Len(stdout)
    BY Places
<1>4. /\ \A i, n \in Nat, b \in Cycle :
            EventAt(stdout', i, b, n) <=> \/ EventAt(stdout, i, b, n)
                                          \/ i = N + 1 /\ b = a /\ n = m
      /\ \A i \in Nat, k \in {"listening", "refused", "taken"}, b \in Cycle :
            At(stdout', i, k, b) <=> At(stdout, i, k, b)
    BY <1>2, <1>3, LineEmitted
<1>5. \A b \in Cycle : /\ Timely(b)' <=> Timely(b)
                       /\ Started(b)' <=> Started(b)
                       /\ AnswerSent(b)' <=> AnswerSent(b)
                       /\ \A k \in Nat : AnswerAt(k, b)' <=> AnswerAt(k, b)
                       /\ reported'[b] = IF b = a THEN m ELSE reported[b]
                       /\ producer'[b] = IF b = a THEN "running" ELSE producer[b]
                       /\ reported[b] \in Nat
    <2>1. reported \in [Cycle -> 0 .. MaxEvent] /\ DOMAIN producer = Cycle
        BY DEF TypeOK
    <2>2. ASSUME NEW b \in Cycle
          PROVE  /\ reported'[b] = IF b = a THEN m ELSE reported[b]
                 /\ producer'[b] = IF b = a THEN "running" ELSE producer[b]
                 /\ reported[b] \in Nat
        BY <1>1, <1>2, <2>1, BoundAssumption
    <2>3. ASSUME NEW b \in Cycle
          PROVE  (Timely(b)' <=> Timely(b)) /\ (Started(b)' <=> Started(b))
        BY <1>1, <2>2 DEF Timely, Started
    <2>4. ASSUME NEW b \in Cycle
          PROVE  \A k \in Nat : AnswerAt(k, b)' <=> AnswerAt(k, b)
        BY <1>4 DEF AnswerAt
    <2>5. ASSUME NEW b \in Cycle
          PROVE  AnswerSent(b)' <=> AnswerSent(b)
        BY <2>4 DEF AnswerSent
    <2> QED  BY <2>2, <2>3, <2>4, <2>5
<1>6. \A b \in Cycle, i, n \in Nat : EventAt(stdout, i, b, n) => i <= N /\ n <= reported[b]
    BY <1>3, Places DEF Payloads, Reported
<1>7. \A b \in Cycle, k \in Nat : AnswerAt(k, b) => k <= N
    BY <1>3, Places DEF AnswerAt
<1>8. Started(a) /\ N + 1 \in Nat /\ source \in Nat
    BY <1>1, BoundAssumption DEF Started, TypeOK
<1>9. Reported'
    <2>1. \A c \in Cycle : reported'[c] <= source /\ (producer'[c] = "emitting" => reported'[c] < source)
        BY <1>2, <1>5 DEF Payloads, Reported
    <2>2. \A c \in Cycle, i, n \in Nat : EventAt(stdout', i, c, n) => Started(c) /\ n <= reported'[c]
        BY <1>2, <1>4, <1>5, <1>8 DEF Payloads, Reported
    <2>3. ASSUME NEW c \in Cycle, NEW i \in Nat, NEW j \in Nat, NEW l \in Nat, NEW n \in Nat,
                 EventAt(stdout', i, c, l), EventAt(stdout', j, c, n), i < j
          PROVE  l < n
        <3>1. EventAt(stdout, i, c, l)
            BY <1>4, <1>6, <2>3
        <3>2. CASE EventAt(stdout, j, c, n)
            BY <2>3, <3>1, <3>2 DEF Payloads, Reported
        <3>3. CASE c = a /\ n = m
            BY <1>2, <1>5, <1>6, <3>1, <3>3
        <3> QED  BY <1>4, <2>3, <3>2, <3>3
    <2>4. ASSUME NEW c \in Cycle, NEW i \in Nat, NEW l \in Nat, NEW n \in Nat,
                 EventAt(stdout', i, c, l), l < n, n <= reported'[c]
          PROVE  \E j \in Nat : EventAt(stdout', j, c, n)
        <3>1. CASE c = a /\ n = m
            BY <1>4, <1>8, <3>1
        <3>2. CASE ~(c = a /\ n = m)
            <4>1. n <= reported[c]
                BY <1>2, <1>5, <2>4, <3>2
            <4>2. EventAt(stdout, i, c, l)
                BY <1>2, <1>4, <1>5, <2>4, <4>1
            <4>3. \E j \in Nat : EventAt(stdout, j, c, n)
                BY <2>4, <4>1, <4>2 DEF Payloads, Reported
            <4> QED  BY <1>4, <4>3
        <3> QED  BY <3>1, <3>2
    <2> QED  BY <1>1, <1>5, <2>1, <2>2, <2>3, <2>4 DEF Reported
<1>10. Apart'
    <2> SUFFICES ASSUME NEW b \in Cycle, NEW c \in Cycle, b < c, Timely(b), Timely(c), Started(c)
                 PROVE  /\ AnswerSent(b)
                        /\ \A k, i, n \in Nat : AnswerAt(k, b) /\ EventAt(stdout', i, c, n) => k < i
                        /\ \A k, j, l \in Nat :
                            AnswerAt(k, b) /\ EventAt(stdout', j, b, l) /\ j < k =>
                                /\ l <= reported'[c]
                                /\ \A i, n \in Nat : EventAt(stdout', i, c, n) => l < n
        BY <1>5 DEF Apart
    <2>1. AnswerSent(b)
        BY DEF Payloads, Apart
    <2>2. ASSUME NEW k \in Nat, NEW i \in Nat, NEW n \in Nat, AnswerAt(k, b), EventAt(stdout', i, c, n)
          PROVE  k < i
        BY <1>4, <1>7, <2>2 DEF Payloads, Apart
    <2>3. ASSUME NEW k \in Nat, NEW j \in Nat, NEW l \in Nat,
                 AnswerAt(k, b), EventAt(stdout', j, b, l), j < k
          PROVE  /\ l <= reported'[c]
                 /\ \A i, n \in Nat : EventAt(stdout', i, c, n) => l < n
        <3>1. EventAt(stdout, j, b, l)
            BY <1>4, <1>7, <2>3
        <3>2. l <= reported[c] /\ \A i, n \in Nat : EventAt(stdout, i, c, n) => l < n
            BY <2>3, <3>1 DEF Payloads, Apart
        <3>3. c = a => l < m
            BY <1>2, <1>5, <3>2
        <3> QED  BY <1>4, <1>5, <3>2, <3>3
    <2> QED  BY <2>1, <2>2, <2>3
<1>11. Joined' /\ FiredInOrder'
    <2>1. \A i \in 1 .. Len(fired) : Started(fired[i].id)' <=> Started(fired[i].id)
        <3> SUFFICES ASSUME NEW i \in 1 .. Len(fired)
                     PROVE  Started(fired[i].id)' <=> Started(fired[i].id)
            OBVIOUS
        <3>1. PICK b \in Cycle : b = fired[i].id
            BY FiredFacts
        <3> QED  BY <1>1, <1>5, <3>1 DEF Started
    <2> QED  BY <1>1, <1>5, <2>1 DEF Payloads, Joined, FiredInOrder
<1>12. Continued'
    <2> SUFFICES ASSUME fired # << >> PROVE Continued'
        BY <1>1 DEF Continued
    <2>1. PICK b \in Cycle : b = Last.id /\ Last.payload \in Nat /\ Started(b)
        BY FiredFacts DEF Last, Payloads, Joined
    <2>2. Last' = Last
        BY <1>1 DEF Last
    <2>3. ASSUME NEW c \in Cycle, Timely(c), Started(c)
          PROVE  /\ Last.payload <= reported'[c]
                 /\ \A i, n \in Nat : EventAt(stdout', i, c, n) => Last.payload < n
        <3>1. /\ Last.payload <= reported[c]
              /\ \A i, n \in Nat : EventAt(stdout, i, c, n) => Last.payload < n
            BY <2>3 DEF Payloads, Continued
        <3>2. c = a => Last.payload < m
            BY <1>2, <1>5, <2>1, <3>1
        <3> QED  BY <1>2, <1>4, <1>5, <2>1, <3>1, <3>2
    <2>4. ASSUME Timely(b), NEW n \in Nat, Last.payload < n, n <= reported'[b]
          PROVE  \E j \in Nat : EventAt(stdout', j, b, n)
        <3>1. CASE b = a /\ n = m
            BY <1>4, <1>8, <3>1
        <3>2. CASE ~(b = a /\ n = m)
            <4>1. n <= reported[b]
                BY <1>2, <1>5, <2>4, <3>2
            <4>2. \E j \in Nat : EventAt(stdout, j, b, n)
                BY <2>1, <2>4, <4>1 DEF Payloads, Continued
            <4> QED  BY <1>4, <4>2
        <3> QED  BY <3>1, <3>2
    <2>5. Timely(Last.id)' <=> Timely(b)
        BY <1>1, <1>5, <2>1, <2>2 DEF Timely
    <2> QED  BY <1>1, <1>5, <2>1, <2>2, <2>3, <2>4, <2>5 DEF Continued
<1> QED  BY <1>9, <1>10, <1>11, <1>12 DEF Payloads

\* Nothing moves in the pipes, and no producer comes or reports.
LEMMA PayloadsBeside ==
    ASSUME TypeOK, Payloads, UNCHANGED <<cycle, fired, stdout, reported>>,
           source' \in Nat, source <= source',
           \A c \in Cycle : Started(c)' <=> Started(c),
           \A c \in Cycle : producer'[c] = "emitting" => reported[c] < source'
    PROVE  Payloads'
<1>1. \A c \in Cycle : /\ Timely(c)' <=> Timely(c)
                       /\ AnswerSent(c)' <=> AnswerSent(c)
                       /\ \A k \in Nat : AnswerAt(k, c)' <=> AnswerAt(k, c)
                       /\ reported[c] \in Nat
    BY BoundAssumption DEF TypeOK, Timely, AnswerSent, AnswerAt
<1>2. source \in Nat
    BY BoundAssumption DEF TypeOK
<1>3. Reported'
    <2>1. Reported
        BY DEF Payloads
    <2>2. \A c \in Cycle : reported[c] <= source'
        BY <1>1, <1>2, <2>1 DEF Reported
    <2>3. \A c \in Cycle, i, n \in Nat : EventAt(stdout, i, c, n) => Started(c)' /\ n <= reported[c]
        BY <2>1 DEF Reported
    <2> QED  BY <2>1, <2>2, <2>3 DEF Reported
<1>4. Apart'
    BY <1>1 DEF Payloads, Apart
<1>5. Joined' /\ FiredInOrder'
    <2>1. ASSUME NEW i \in 1 .. Len(fired)
          PROVE  Started(fired[i].id)' /\ fired[i].payload <= source'
        <3>1. PICK b \in Cycle : b = fired[i].id /\ Started(b) /\ fired[i].payload <= source
                                 /\ fired[i].payload \in Nat
            BY FiredFacts DEF Payloads, Joined
        <3>2. Started(b)'
            BY <3>1
        <3> QED  BY <1>2, <3>1, <3>2 DEF Started
    <2> QED  BY <1>1, <2>1 DEF Payloads, Joined, FiredInOrder
<1>6. Continued'
    <2> SUFFICES ASSUME fired # << >> PROVE Continued'
        BY DEF Continued
    <2>1. PICK b \in Cycle : b = Last.id
        BY FiredFacts DEF Last
    <2>2. Last' = Last
        BY DEF Last
    <2>3. Timely(Last.id)' <=> Timely(b)
        BY <1>1, <2>1, <2>2 DEF Timely
    <2> QED  BY <1>1, <2>1, <2>2, <2>3 DEF Payloads, Continued
<1> QED  BY <1>3, <1>4, <1>5, <1>6 DEF Payloads

LEMMA PayloadsReceive == ASSUME TypeOK, Cycles, Payloads, Receive PROVE Payloads'
<1> DEFINE line == Head(stdout)
<1>1. /\ stdout # << >> /\ stdout' = Tail(stdout)
      /\ UNCHANGED <<subscription, producer, reported, source>>
    BY DEF Receive, backend
<1>2. PICK a \in Cycle : a = line.id /\ At(stdout, 1, line.kind, a)
    BY <1>1, HeadLine
<1>3. Single
    BY DEF Cycles
<1>4. CASE line.kind = "event"
    <2>1. PICK p \in 1 .. MaxEvent : p = line.payload /\ EventAt(stdout, 1, a, p)
        BY <1>1, <1>2, <1>4, HeadLine DEF EventAt
    <2>2. UNCHANGED cycle /\ Fire(line)
        BY <1>4 DEF Receive
    <2>0. Timely(a) => a \in attached
        BY DEF Cycles, Queued
    <2>3. p \in Nat
        BY BoundAssumption
    <2>4. CASE Timely(a)
        <3>1. fired' = Append(fired, [id |-> a, payload |-> p])
            BY <1>2, <2>0, <2>1, <2>2, <2>4 DEF Fire, HasHandler
        <3> QED  BY <1>1, <1>3, <2>1, <2>2, <2>4, <3>1, PayloadsFired
    <2>5. CASE ~Timely(a)
        <3>1. fired' = fired
            BY <1>2, <2>2, <2>5 DEF Fire
        <3> QED  BY <1>1, <1>3, <2>1, <2>2, <2>3, <2>5, <3>1, PayloadsDropped
    <2> QED  BY <2>4, <2>5
<1>5. CASE line.kind = "listening"
    <2>1. UNCHANGED fired /\ Resolved(a, "listening") /\ AnswerAt(1, a)
        BY <1>2, <1>5 DEF Receive, AnswerAt
    <2>2. cycle[a] = "opening"
        BY <2>1 DEF AnswerSent, Cycles, Placed
    <2>3. /\ \A b \in Cycle : Timely(b)' => Timely(b)
          /\ Timely(a)' => subscription = a
        BY <2>1, <2>2 DEF TypeOK, Resolved, Timely
    <2>4. subscription = a => \A c \in Cycle : a < c => ~Started(c)
        BY CycleFacts DEF Cycles, Drawn, Produced
    <2> QED  BY <1>1, <1>3, <2>1, <2>3, <2>4, PayloadsAnswered
<1>6. CASE line.kind = "refused"
    <2>1. UNCHANGED fired /\ cycle' = [cycle EXCEPT ![a] = "refused"] /\ AnswerAt(1, a)
        BY <1>2, <1>6 DEF Receive, Resolved, AnswerAt
    <2>2. (\A b \in Cycle : Timely(b)' => Timely(b)) /\ ~Timely(a)'
        BY <2>1 DEF TypeOK, Timely
    <2> QED  BY <1>1, <1>3, <2>1, <2>2, PayloadsAnswered
<1>7. line.kind # "taken"
    BY <1>2 DEF Cycles, Single
<1> QED  BY <1>1, <1>4, <1>5, <1>6, <1>7, HeadLine

LEMMA PayloadsDispatch == ASSUME TypeOK, Cycles, Payloads, Dispatch PROVE Payloads'
<1>1. /\ stdin # << >> /\ stdin' = Tail(stdin) /\ answering = {}
      /\ UNCHANGED <<cycle, subscription, fired, source>>
    BY DEF Dispatch, client, emitter, turn, DispatcherFree
<1>2. PICK a \in Cycle : a = Head(stdin).id /\ At(stdin, 1, Head(stdin).kind, a)
    BY <1>1, HeadRequest
<1>3. source \in Nat
    BY BoundAssumption DEF TypeOK
<1>4. CASE Head(stdin).kind = "unlisten"
    <2>1. Unlisten(a)
        BY <1>2, <1>4 DEF Dispatch
    <2> QED  BY <1>1, <1>3, <2>1, PayloadsBeside DEF Unlisten, Started, Payloads, Reported
<1>5. CASE Head(stdin).kind = "listen"
    <2>1. Listen(a) /\ Asked(a) /\ At(stdin, 1, "listen", a)
        BY <1>2, <1>5 DEF Dispatch, Asked
    <2>2. a \notin subscriptions /\ ~AnswerSent(a)
        BY <2>1 DEF Cycles, Placed
    <2>3. \/ /\ producer' = [producer EXCEPT ![a] = "running"]
             /\ reported' = [reported EXCEPT ![a] = source]
             /\ UNCHANGED stdout
          \/ Reply("refused", a) /\ UNCHANGED backend
        BY <2>1, <2>2 DEF Listen
    <2>4. CASE /\ producer' = [producer EXCEPT ![a] = "running"]
               /\ reported' = [reported EXCEPT ![a] = source]
               /\ UNCHANGED stdout
        BY <1>1, <2>1, <2>4, PayloadsAccepted
    <2>5. CASE Reply("refused", a) /\ UNCHANGED backend
        <3>1. UNCHANGED <<producer, reported>>
            BY <2>5 DEF backend
        <3> QED  BY <1>1, <2>2, <2>5, <3>1, PayloadsReplied
    <2> QED  BY <2>3, <2>4, <2>5
<1> QED  BY <1>1, <1>4, <1>5, HeadRequest

LEMMA StepPayloads ==
    ASSUME TypeOK, Cycles, Payloads, [Next]_vars
    PROVE  Payloads'
<1>1. source \in Nat /\ \A c \in Cycle : reported[c] \in Nat
    BY BoundAssumption DEF TypeOK
<1>2. CASE AddListener
    <2>1. UNCHANGED <<stdout, producer, reported, source, fired>>
        BY <1>2 DEF AddListener, backend
    <2>2. CASE listeners = 0
        <3>1. PICK c \in FreshId : cycle' = [cycle EXCEPT ![c] = "opening"]
            BY <1>2, <2>2 DEF AddListener
        <3>2. c \in Cycle /\ cycle[c] = "unused"
            BY <3>1 DEF FreshId
        <3>3. \A d \in Cycle : c <= d => cycle[d] = "unused"
            BY <3>2, CycleFacts DEF Cycles, Drawn
        <3>4. \A d \in Cycle : c <= d => ~Started(d)
            BY <3>3 DEF Cycles, Produced
        <3>5. \A b \in Cycle : Timely(b)' => Timely(b) \/ b = c
            BY <3>1 DEF TypeOK, Timely
        <3> QED  BY <2>1, <3>4, <3>5, PayloadsLive
    <2>3. CASE listeners # 0
        <3>1. UNCHANGED cycle
            BY <1>2, <2>3 DEF AddListener
        <3> QED  BY <2>1, <3>1, PayloadsLive DEF Timely
    <2> QED  BY <2>2, <2>3
<1>3. CASE RemoveListener
    <2>1. UNCHANGED <<stdout, producer, reported, source, fired>>
        BY <1>3 DEF RemoveListener, backend
    <2>2. \A b \in Cycle : Timely(b)' => Timely(b)
        BY <1>3 DEF RemoveListener, DisposeWhenOpen, TypeOK, Timely
    <2> QED  BY <2>1, <2>2, PayloadsLive
<1>4. CASE Receive
    BY <1>4, PayloadsReceive
<1>5. CASE Dispatch
    BY <1>5, PayloadsDispatch
<1>6. CASE Occur
    <2>1. UNCHANGED <<cycle, fired, stdout, reported, producer>> /\ source' = source + 1
        BY <1>6 DEF Occur, client, emitter, turn, backend
    <2> QED  BY <1>1, <2>1, PayloadsBeside DEF Started, Payloads, Reported
<1>7. ASSUME NEW c \in Cycle, AnswerListen(c) PROVE Payloads'
    <2>1. c \in answering /\ Reply("listening", c) /\ UNCHANGED <<cycle, producer, reported, source, fired>>
        BY <1>7 DEF AnswerListen, client, emitter, turn
    <2>2. ~AnswerSent(c)
        BY <2>1 DEF Cycles, Placed
    <2> QED  BY <2>1, <2>2, PayloadsReplied
<1>8. ASSUME NEW c \in Cycle, CheckActive(c) PROVE Payloads'
    <2>1. UNCHANGED <<cycle, fired, stdout, reported, source>>
        BY <1>8 DEF CheckActive, client, emitter, turn
    <2>2. \A b \in Cycle : b # c => producer'[b] = producer[b]
        BY <1>8 DEF CheckActive, TypeOK
    <2>3. /\ producer[c] = "running"
          /\ \/ producer'[c] = "emitting" /\ reported[c] < source
             \/ producer'[c] = "stopped"
        BY <1>8 DEF CheckActive, TypeOK
    <2>4. \A b \in Cycle : Started(b)' <=> Started(b)
        BY <2>2, <2>3 DEF Started
    <2>5. \A b \in Cycle : producer'[b] = "emitting" => reported[b] < source
        BY <2>2, <2>3 DEF Payloads, Reported
    <2> QED  BY <1>1, <2>1, <2>4, <2>5, PayloadsBeside
<1>9. ASSUME NEW c \in Cycle, Emit(c) PROVE Payloads'
    BY <1>9, PayloadsEmitted
<1>10. CASE UNCHANGED vars
    <2>1. UNCHANGED <<cycle, fired, stdout, reported, producer, source>>
        BY <1>10 DEF vars, client, emitter, turn, backend
    <2>2. /\ \A c \in Cycle : Started(c)' <=> Started(c)
          /\ \A c \in Cycle : producer'[c] = "emitting" => reported[c] < source'
        BY <2>1 DEF Started, Payloads, Reported
    <2> QED  BY <1>1, <2>1, <2>2, PayloadsBeside
<1>11. CASE Run
    <2>1. UNCHANGED <<cycle, fired, stdout, reported, producer, source>>
        BY <1>11 DEF Run, emitter, backend
    <2>2. /\ \A c \in Cycle : Started(c)' <=> Started(c)
          /\ \A c \in Cycle : producer'[c] = "emitting" => reported[c] < source'
        BY <2>1 DEF Started, Payloads, Reported
    <2> QED  BY <1>1, <2>1, <2>2, PayloadsBeside
<1> QED  BY <1>2, <1>3, <1>4, <1>5, <1>6, <1>7, <1>8, <1>9, <1>10, <1>11 DEF Next

-----------------------------------------------------------------------------
(* The theorems. *)

\* NoOrphan is a matter of Cycles, which is inductive with the types alone;
\* FiredInOrder needs all of it.
ChannelInv == TypeOK /\ Cycles /\ Payloads

LEMMA ChannelHolds == Spec => []ChannelInv
<1>1. Init => ChannelInv
    BY InitTyped, InitCycles, InitPayloads DEF ChannelInv
<1>2. ChannelInv /\ [Next]_vars => ChannelInv'
    <2> SUFFICES ASSUME ChannelInv, [Next]_vars PROVE ChannelInv'
        OBVIOUS
    <2>1. \A c \in Cycle : producer[c] = "emitting" => reported[c] < source
        BY DEF ChannelInv, Payloads, Reported
    <2> QED  BY <2>1, StepTyped, StepCycles, StepPayloads DEF ChannelInv
<1> QED  BY <1>1, <1>2, PTL DEF Spec

\* The types of a channel's state, and with them: the emitter holds a cycle
\* exactly while it has listeners, and no other cycle is open
\* (ipc.tauri.ts:137-152).
THEOREM TypeCorrect == Spec => []TypeOK
BY ChannelHolds, PTL DEF ChannelInv

\* However often listeners leave and come back, no event of the source is fired
\* twice or after a later one, nor is one missing between two of one cycle, but
\* for what a cycle fires that was answered and let go in the chunk being read
\* (stray): the dispatcher answers a subscription ahead of what its successor
\* can report (ipc.tauri.ts:172-190, rpc.rs:150-163).
THEOREM EventsInOrder == Spec => []FiredInOrder
BY ChannelHolds, PTL DEF ChannelInv, Payloads

\* Every subscription the backend keeps is one the client will still dispose:
\* it is opening or open, its disposal is due, or its unlisten is on its way;
\* and no handler outlives its cycle but until the microtask that detaches it
\* (ipc.tauri.ts:147-151).
THEOREM NothingOrphaned == Spec => []NoOrphan
<1>1. ChannelInv => NoOrphan
    <2> SUFFICES ASSUME ChannelInv PROVE NoOrphan
        OBVIOUS
    <2>1. DOMAIN stdin = 1 .. Len(stdin) /\ DOMAIN jobs = 1 .. Len(jobs)
        BY DEF ChannelInv, TypeOK
    <2>2. ASSUME NEW c \in Cycle, Disposing(c) PROVE Owed(c)
        BY <2>1, <2>2 DEF Owed, InTransit, Disposing, At
    <2>3. ASSUME NEW c \in Cycle, c \in subscriptions, ~Timely(c), ~Owed(c)
          PROVE  InTransit(stdin, "unlisten", c)
        <3>1. PICK i \in Nat : At(stdin, i, "unlisten", c)
            BY <2>2, <2>3 DEF ChannelInv, Cycles, Kept
        <3> QED  BY <2>1, <3>1 DEF InTransit, At
    <2>4. ASSUME NEW c \in Cycle, c \in attached, ~Timely(c), ~Owed(c)
          PROVE  InTransit(jobs, "refused", c)
        <3>1. PICK i \in Nat : At(jobs, i, "refused", c)
            BY <2>2, <2>4 DEF ChannelInv, Cycles, Queued
        <3> QED  BY <2>1, <3>1 DEF InTransit, At
    <2> QED  BY <2>3, <2>4 DEF NoOrphan, ChannelInv, TypeOK
<1> QED  BY <1>1, ChannelHolds, PTL


-----------------------------------------------------------------------------
(***************************************************************************)
(* The frontend's end of the host process (HostProcess): no call of the    *)
(* same connection hangs or loses its answer, for every set of calls and   *)
(* every way continuations follow them.                                    *)
(***************************************************************************)
Made(c) == call[c] # "unmade"

\* Calls are known to the host, and have continuations, only as far as they
\* have been made; what a continuation calls is made by nobody else.
Order ==
    /\ \A i \in 1 .. Len(requests) : Made(requests[i])
    /\ \A c \in Call : serving[c] # "unread" => Made(c)
    /\ \A c \in continuations : call[c] \in {"answered", "lost"}
    /\ \A c \in Call : FollowUp[c] # NoCall /\ Made(FollowUp[c]) =>
            call[c] \in {"answered", "lost"} /\ c \notin continuations

\* What the host has answered is still to be read, or has been settled.
Replied ==
    \A c \in Call : serving[c] = "replied" =>
        call[c] # "pending" \/ \E i \in 1 .. Len(replies) : replies[i] = c

\* Until the host is gone nothing fails, and callers run on.
Healthy ==
    gone = "no" =>
        /\ stop \in {"uncalled", "settling", "turn"}
        /\ \A c \in Call : call[c] \notin {"lost", "refused"}
        /\ \A c \in Call : call[c] = "answered" /\ FollowUp[c] # NoCall =>
                c \in continuations \/ Made(FollowUp[c])

\* What the reasons a host is gone for say of the rest of the state.
Reasons ==
    /\ gone = "closed" => child = "closed"
    /\ gone = "stopped" => stop \in {"exiting", "closing", "returned"}
    /\ stop \in {"exiting", "closing", "returned"} => inputEnded
    /\ gone = "stopped" /\ ~late => continuations = {}

HostInv ==
    /\ HostTypeOK
    /\ NoCallHangs
    /\ Order
    /\ Replied
    /\ Healthy
    /\ Reasons
    /\ DrainLosesNothing
    /\ RepliesDelivered

-----------------------------------------------------------------------------

\* The initial state satisfies every part of the invariant.
LEMMA HostInitHolds == HostInit => HostInv
<1> SUFFICES ASSUME HostInit PROVE HostInv
  OBVIOUS
<1>1. HostTypeOK
  <2>1. << >> \in Seq(Call)
    OBVIOUS
  <2> QED BY <2>1 DEF HostInit, HostTypeOK
<1>2. Order
  BY FollowUpAssumption DEF HostInit, Order, Made
<1>3. NoCallHangs /\ Replied /\ Healthy /\ Reasons /\ DrainLosesNothing /\ RepliesDelivered
  BY DEF HostInit, NoCallHangs, Replied, Healthy, Reasons, DrainLosesNothing, RepliesDelivered
<1> QED BY <1>1, <1>2, <1>3 DEF HostInv

\* Every action keeps every part of it.
LEMMA HostStepHolds == HostInv /\ [HostNext]_hostVars => HostInv'
<1> SUFFICES ASSUME HostInv, [HostNext]_hostVars PROVE HostInv'
  OBVIOUS
<1> USE DEF HostInv
<1>1. ASSUME NEW c \in Call, Make(c) PROVE HostInv'
  <2>a. \A b \in Call : FollowUp[b] # c
    BY <1>1 DEF Make, Initial
  <2>b. requests \in Seq(Call) /\ (requests' = requests \/ requests' = Append(requests, c))
    BY <1>1 DEF Make, Invoke, HostTypeOK
  <2>c. /\ requests' \in Seq(Call)
        /\ \A i \in 1 .. Len(requests') :
              \/ requests'[i] = c
              \/ i \in 1 .. Len(requests) /\ requests'[i] = requests[i]
    <3>1. CASE requests' = requests
      BY <2>b, <3>1
    <3>2. CASE requests' = Append(requests, c)
      BY <2>b, <3>2
    <3> QED BY <2>b, <3>1, <3>2
  <2>d. /\ call[c] = "unmade"
        /\ call'[c] = IF gone = "no" THEN "pending" ELSE "refused"
        /\ \A b \in Call : b # c => call'[b] = call[b]
    BY <1>1 DEF Make, Invoke, HostTypeOK
  <2>e. UNCHANGED <<continuations, gone, stop, awaited, late, inputEnded, serving, replies, child>>
    BY <1>1 DEF Make, stopping, host
  <2>1. HostTypeOK'
    <3>2. call' \in [Call -> {"unmade", "pending", "answered", "lost", "refused"}]
      BY <1>1, FollowUpAssumption DEF Make, Invoke, HostTypeOK
    <3> QED BY <1>1, <2>c, <3>2 DEF Make, HostTypeOK, stopping, host
  <2>2. NoCallHangs'
    BY <2>c, <2>d, <2>e DEF NoCallHangs, Pending, HostTypeOK
  <2>3. Order'
    <3>1. ASSUME NEW i \in 1 .. Len(requests') PROVE call'[requests'[i]] # "unmade"
      <4>1. CASE requests'[i] = c
        BY <2>d, <4>1
      <4>2. CASE i \in 1 .. Len(requests) /\ requests'[i] = requests[i]
        <5>1. requests[i] \in Call /\ call[requests[i]] # "unmade"
          BY <2>b, <4>2 DEF Order, Made
        <5> QED BY <2>d, <4>2, <5>1
      <4> QED BY <2>c, <4>1, <4>2
    <3>2. \A b \in Call : serving'[b] # "unread" => call'[b] # "unmade"
      BY <2>d, <2>e DEF Order, Made
    <3>3. \A b \in continuations' : call'[b] \in {"answered", "lost"}
      BY <2>d, <2>e DEF Order, HostTypeOK
    <3>4. ASSUME NEW b \in Call, FollowUp[b] # NoCall, call'[FollowUp[b]] # "unmade"
          PROVE  call'[b] \in {"answered", "lost"} /\ b \notin continuations'
      <4>1. FollowUp[b] \in Call /\ FollowUp[b] # c /\ Made(FollowUp[b])
        BY <3>4, <2>a, <2>d, FollowUpAssumption DEF Made
      <4>2. call[b] \in {"answered", "lost"} /\ b \notin continuations
        BY <3>4, <4>1 DEF Order
      <4> QED BY <4>2, <2>d, <2>e
    <3> QED BY <3>1, <3>2, <3>3, <3>4 DEF Order, Made
  <2>4. Replied'
    BY <2>c, <2>d, <2>e DEF HostTypeOK, Replied, Order, Made, Pending
  <2>5. Healthy'
    BY <2>a, <2>c, <2>d, <2>e, FollowUpAssumption DEF HostTypeOK, Healthy, Order,
         Made, Pending
  <2>6. Reasons'
    BY <2>c, <2>d, <2>e DEF HostTypeOK, Reasons, Healthy, NoCallHangs, Pending
  <2>7. DrainLosesNothing'
    BY <2>a, <2>c, <2>d, <2>e, FollowUpAssumption DEF HostTypeOK,
         DrainLosesNothing, Order, Healthy, Reasons, NoCallHangs, Made,
         Pending
  <2>8. RepliesDelivered'
    BY <2>a, <2>c, <2>d, <2>e, FollowUpAssumption DEF HostTypeOK,
         RepliesDelivered, Order, Replied, Healthy, Reasons, NoCallHangs,
         Made, Pending
  <2> QED BY <2>1, <2>2, <2>3, <2>4, <2>5, <2>6, <2>7, <2>8
<1>2. ASSUME NEW c \in Call, Continue(c) PROVE HostInv'
  <2>a. c \in continuations /\ c \in Call /\ continuations' = continuations \ {c}
    BY <1>2 DEF Continue, HostTypeOK
  <2>b. \/ FollowUp[c] = NoCall /\ UNCHANGED <<call, requests>>
        \/ FollowUp[c] \in Call /\ Invoke(FollowUp[c])
    BY <1>2, <2>a, FollowUpAssumption DEF Continue
  <2>c. /\ requests' \in Seq(Call)
        /\ \A i \in 1 .. Len(requests') :
              \/ requests'[i] = FollowUp[c] /\ requests' # requests
              \/ i \in 1 .. Len(requests) /\ requests'[i] = requests[i]
    <3>1. CASE requests' = requests
      BY <3>1 DEF HostTypeOK
    <3>2. CASE FollowUp[c] \in Call /\ requests' = Append(requests, FollowUp[c])
      BY <3>2 DEF HostTypeOK
    <3> QED BY <2>b, <3>1, <3>2 DEF Invoke
  <2>d. UNCHANGED <<gone, stop, awaited, late, inputEnded, serving, replies, child>>
    BY <1>2 DEF Continue, stopping, host
  <2>e. /\ FollowUp[c] # NoCall => call'[FollowUp[c]] = IF gone = "no" THEN "pending" ELSE "refused"
        /\ \A b \in Call : b # FollowUp[c] => call'[b] = call[b]
    BY <2>b, FollowUpAssumption DEF Invoke, HostTypeOK
  <2>f. call[c] \in {"answered", "lost"} /\ (FollowUp[c] # NoCall => ~Made(FollowUp[c]))
    BY <2>a DEF Order
  <2>1. HostTypeOK'
    <3>2. call' \in [Call -> {"unmade", "pending", "answered", "lost", "refused"}]
      BY <1>2, FollowUpAssumption DEF Continue, Invoke, HostTypeOK
    <3> QED BY <1>2, <2>c, <3>2 DEF Continue, HostTypeOK, stopping, host
  <2>2. NoCallHangs'
    BY <2>a, <2>c, <2>d, <2>e, <2>f, FollowUpAssumption DEF NoCallHangs,
         Pending, HostTypeOK
  <2>3. Order'
    <3>1. \A b \in Call : Made(b) => call'[b] = call[b]
      BY <2>e, <2>f, FollowUpAssumption DEF Made
    <3>2. FollowUp[c] # NoCall => call'[FollowUp[c]] # "unmade"
      BY <2>e
    <3>3. ASSUME NEW i \in 1 .. Len(requests') PROVE call'[requests'[i]] # "unmade"
      <4>1. CASE requests'[i] = FollowUp[c] /\ requests' # requests
        BY <2>b, <3>2, <4>1, FollowUpAssumption DEF Made
      <4>2. CASE i \in 1 .. Len(requests) /\ requests'[i] = requests[i]
        <5>1. requests[i] \in Call /\ Made(requests[i])
          BY <4>2 DEF Order, HostTypeOK
        <5> QED BY <3>1, <4>2, <5>1 DEF Made
      <4> QED BY <2>c, <4>1, <4>2
    <3>4. \A b \in Call : serving'[b] # "unread" => call'[b] # "unmade"
      BY <2>d, <3>1 DEF Order, Made
    <3>5. \A b \in continuations' : call'[b] \in {"answered", "lost"}
      BY <2>a, <3>1 DEF Order, HostTypeOK, Made
    <3>6. ASSUME NEW b \in Call, FollowUp[b] # NoCall, call'[FollowUp[b]] # "unmade"
          PROVE  call'[b] \in {"answered", "lost"} /\ b \notin continuations'
      <4>1. CASE b = c
        BY <2>a, <2>f, <3>1, <4>1 DEF Made
      <4>2. CASE b # c
        <5>1. FollowUp[b] # FollowUp[c] /\ FollowUp[b] \in Call
          BY <2>a, <3>6, <4>2, FollowUpAssumption
        <5>2. Made(FollowUp[b])
          BY <2>e, <3>6, <5>1 DEF Made
        <5>3. call[b] \in {"answered", "lost"} /\ b \notin continuations
          BY <3>6, <5>2 DEF Order
        <5> QED BY <2>a, <3>1, <5>3 DEF Made
      <4> QED BY <4>1, <4>2
    <3> QED BY <3>3, <3>4, <3>5, <3>6 DEF Order, Made
  <2>4. Replied'
    BY <2>a, <2>c, <2>d, <2>e, <2>f, FollowUpAssumption DEF HostTypeOK, Replied,
         Order, Made, Pending
  <2>5. Healthy'
    BY <2>a, <2>c, <2>d, <2>e, <2>f, FollowUpAssumption DEF HostTypeOK, Healthy,
         Order, Made, Pending
  <2>6. Reasons'
    BY <2>a, <2>c, <2>d, <2>e, <2>f, FollowUpAssumption DEF HostTypeOK, Reasons,
         Healthy, NoCallHangs, Pending
  <2>7. DrainLosesNothing'
    BY <2>a, <2>c, <2>d, <2>e, <2>f, FollowUpAssumption DEF HostTypeOK,
         DrainLosesNothing, Order, Healthy, Reasons, NoCallHangs, Made,
         Pending
  <2>8. RepliesDelivered'
    BY <2>a, <2>c, <2>d, <2>e, <2>f, FollowUpAssumption DEF HostTypeOK,
         RepliesDelivered, Order, Replied, Healthy, Reasons, NoCallHangs,
         Made, Pending
  <2> QED BY <2>1, <2>2, <2>3, <2>4, <2>5, <2>6, <2>7, <2>8
<1>3. ASSUME TakeReply PROVE HostInv'
  <2>1. HostTypeOK'
    <3>1. replies' \in Seq(Call) /\ Head(replies) \in Call
      BY <1>3 DEF TakeReply, HostTypeOK
    <3> QED BY <1>3, <3>1 DEF TakeReply, HostTypeOK, callers, stopping
  <2>2. NoCallHangs'
    BY <1>3 DEF TakeReply, NoCallHangs, Pending, HostTypeOK, callers, stopping, host
  <2>3. Order'
    BY <1>3, FollowUpAssumption DEF TakeReply, HostTypeOK, Order, Made, Pending,
         callers, stopping, host
  <2>4. Replied'
    <3>1. PICK d \in Call :
            /\ d = Head(replies) /\ call'[d] # "pending"
            /\ \A c \in Call : c # d => call'[c] = call[c]
      BY <1>3 DEF TakeReply, HostTypeOK, callers, Pending
    <3>2. \A i \in 1 .. Len(replies) : i # 1 => i - 1 \in 1 .. Len(replies') /\ replies'[i - 1] = replies[i]
      BY <1>3, <3>1 DEF TakeReply, HostTypeOK
    <3>3. Len(replies) > 0 => replies[1] = d
      BY <3>1
    <3> QED BY <1>3, <3>1, <3>2, <3>3 DEF TakeReply, Replied
  <2>5. Healthy'
    BY <1>3, FollowUpAssumption DEF TakeReply, HostTypeOK, Healthy, Order, Made,
         Pending, callers, stopping, host
  <2>6. Reasons'
    BY <1>3 DEF TakeReply, HostTypeOK, Reasons, Healthy, NoCallHangs, Pending,
         callers, stopping, host
  <2>7. DrainLosesNothing'
    BY <1>3, FollowUpAssumption DEF TakeReply, HostTypeOK, DrainLosesNothing, Order,
         Healthy, Reasons, NoCallHangs, Made, Pending, callers, stopping, host
  <2>8. RepliesDelivered'
    BY <1>3, FollowUpAssumption DEF TakeReply, HostTypeOK, RepliesDelivered, Order,
         Replied, Healthy, Reasons, NoCallHangs, Made, Pending, callers,
         stopping, host
  <2> QED BY <2>1, <2>2, <2>3, <2>4, <2>5, <2>6, <2>7, <2>8
<1>4. ASSUME ChildCloses PROVE HostInv'
  <2>1. HostTypeOK'
    BY <1>4 DEF ChildCloses, NewTask, Die, HostTypeOK, Pending, Delivered, callers,
         stopping, host
  <2>2. NoCallHangs'
    BY <1>4 DEF ChildCloses, NewTask, Die, NoCallHangs, Pending, HostTypeOK, Delivered,
         callers, stopping, host
  <2>3. Order'
    BY <1>4, FollowUpAssumption DEF ChildCloses, NewTask, Die, HostTypeOK, Order, Made,
         Pending, Delivered, callers, stopping, host
  <2>4. Replied'
    BY <1>4 DEF ChildCloses, NewTask, Die, HostTypeOK, Replied, Order, Made, Pending,
         Delivered, callers, stopping, host
  <2>5. Healthy'
    BY <1>4, FollowUpAssumption DEF ChildCloses, NewTask, Die, HostTypeOK, Healthy, Order,
         Made, Pending, Delivered, callers, stopping, host
  <2>6. Reasons'
    BY <1>4 DEF ChildCloses, NewTask, Die, HostTypeOK, Reasons, Healthy, NoCallHangs,
         Pending, Delivered, callers, stopping, host
  <2>7. DrainLosesNothing'
    BY <1>4, FollowUpAssumption DEF ChildCloses, NewTask, Die, HostTypeOK,
         DrainLosesNothing, Order, Healthy, Reasons, NoCallHangs, Made,
         Pending, Delivered, callers, stopping, host
  <2>8. RepliesDelivered'
    BY <1>4, FollowUpAssumption DEF ChildCloses, NewTask, Die, HostTypeOK,
         RepliesDelivered, Order, Replied, Healthy, Reasons, NoCallHangs,
         Made, Pending, Delivered, callers, stopping, host
  <2> QED BY <2>1, <2>2, <2>3, <2>4, <2>5, <2>6, <2>7, <2>8
<1>5. ASSUME Breaks PROVE HostInv'
  <2>1. HostTypeOK'
    BY <1>5 DEF Breaks, Die, HostTypeOK, Pending, callers, stopping, host
  <2>2. NoCallHangs'
    BY <1>5 DEF Breaks, Die, NoCallHangs, Pending, HostTypeOK, callers, stopping,
         host
  <2>3. Order'
    BY <1>5, FollowUpAssumption DEF Breaks, Die, HostTypeOK, Order, Made, Pending,
         callers, stopping, host
  <2>4. Replied'
    BY <1>5 DEF Breaks, Die, HostTypeOK, Replied, Order, Made, Pending, callers,
         stopping, host
  <2>5. Healthy'
    BY <1>5, FollowUpAssumption DEF Breaks, Die, HostTypeOK, Healthy, Order, Made,
         Pending, callers, stopping, host
  <2>6. Reasons'
    BY <1>5 DEF Breaks, Die, HostTypeOK, Reasons, Healthy, NoCallHangs, Pending,
         callers, stopping, host
  <2>7. DrainLosesNothing'
    BY <1>5, FollowUpAssumption DEF Breaks, Die, HostTypeOK, DrainLosesNothing,
         Order, Healthy, Reasons, NoCallHangs, Made, Pending, callers,
         stopping, host
  <2>8. RepliesDelivered'
    BY <1>5, FollowUpAssumption DEF Breaks, Die, HostTypeOK, RepliesDelivered,
         Order, Replied, Healthy, Reasons, NoCallHangs, Made, Pending,
         callers, stopping, host
  <2> QED BY <2>1, <2>2, <2>3, <2>4, <2>5, <2>6, <2>7, <2>8
<1>6. ASSUME Stop PROVE HostInv'
  <2>1. HostTypeOK'
    BY <1>6 DEF Stop, NewTask, HostTypeOK, Pending, callers, stopping, host
  <2>2. Reasons'
    BY <1>6 DEF Stop, NewTask, HostTypeOK, Reasons, callers, stopping, host
  <2>3. /\ NoCallHangs' /\ Order' /\ Replied'
        /\ Healthy' /\ DrainLosesNothing' /\ RepliesDelivered'
    BY <1>6 DEF Stop, NewTask, NoCallHangs, Order, Replied, Healthy,
         DrainLosesNothing, RepliesDelivered, Made, Pending, callers,
         stopping, host
  <2> QED BY <2>1, <2>2, <2>3
<1>7. ASSUME IdleYields PROVE HostInv'
  <2>1. HostTypeOK'
    BY <1>7 DEF IdleYields, HostTypeOK, Pending, callers, stopping, host, Settled
  <2>2. Reasons'
    BY <1>7 DEF IdleYields, HostTypeOK, Reasons, callers, stopping, host, Settled
  <2>3. /\ NoCallHangs' /\ Order' /\ Replied'
        /\ Healthy' /\ DrainLosesNothing' /\ RepliesDelivered'
    BY <1>7 DEF IdleYields, NoCallHangs, Order, Replied, Healthy,
         DrainLosesNothing, RepliesDelivered, Made, Pending, callers,
         stopping, host, Settled
  <2> QED BY <2>1, <2>2, <2>3
<1>8. ASSUME Turn PROVE HostInv'
  <2>1. HostTypeOK'
    <3>1. late' \in BOOLEAN /\ inputEnded' \in BOOLEAN
      BY <1>8 DEF Turn, NewTask, HostTypeOK, EndHost
    <3>2. call' \in [Call -> {"unmade", "pending", "answered", "lost", "refused"}]
      BY <1>8 DEF Turn, NewTask, HostTypeOK, EndHost, Die, callers
    <3>3. gone' \in {"no", "closed", "broken", "stopped"} /\ continuations' \in SUBSET Call
      BY <1>8 DEF Turn, NewTask, HostTypeOK, EndHost, Die, Pending, callers
    <3>4. delivering' \in BOOLEAN
      BY <1>8 DEF Turn, NewTask
    <3>5. /\ stop' \in {"settling", "exiting"} /\ awaited' \in SUBSET Call
          /\ child = "killed" => inputEnded'
      BY <1>8 DEF Turn, EndHost, HostTypeOK, Pending
    <3>6. UNCHANGED <<requests, serving, replies, child>>
      BY <1>8 DEF Turn, EndHost, host
    <3> QED BY <3>1, <3>2, <3>3, <3>4, <3>5, <3>6 DEF HostTypeOK
  <2>2. NoCallHangs'
    BY <1>8 DEF Turn, NewTask, EndHost, Die, NoCallHangs, Pending, HostTypeOK, Quiet,
         callers, stopping, host
  <2>3. Order'
    BY <1>8, FollowUpAssumption DEF Turn, NewTask, EndHost, Die, HostTypeOK, Order, Made,
         Pending, Quiet, callers, stopping, host
  <2>4. Replied'
    <3>1. /\ UNCHANGED <<serving, replies>>
          /\ \A c \in Call : call[c] # "pending" => call'[c] # "pending"
      BY <1>8 DEF Turn, EndHost, Die, HostTypeOK, Pending, callers, host
    <3> QED BY <3>1 DEF Replied
  <2>5. Healthy'
    BY <1>8, FollowUpAssumption DEF Turn, NewTask, EndHost, Die, HostTypeOK, Healthy,
         Order, Made, Pending, Quiet, callers, stopping, host
  <2>6. Reasons'
    BY <1>8 DEF Turn, NewTask, EndHost, Die, HostTypeOK, Reasons, Healthy, NoCallHangs,
         Pending, Quiet, callers, stopping, host
  <2>7. DrainLosesNothing'
    BY <1>8, FollowUpAssumption DEF Turn, NewTask, EndHost, Die, HostTypeOK,
         DrainLosesNothing, Order, Healthy, Reasons, NoCallHangs, Made,
         Pending, Quiet, callers, stopping, host
  <2>8. RepliesDelivered'
    BY <1>8, FollowUpAssumption DEF Turn, NewTask, EndHost, Die, HostTypeOK,
         RepliesDelivered, Order, Replied, Healthy, Reasons, NoCallHangs,
         Made, Pending, Quiet, callers, stopping, host
  <2> QED BY <2>1, <2>2, <2>3, <2>4, <2>5, <2>6, <2>7, <2>8
<1>9. ASSUME DrainExpires PROVE HostInv'
  <2>1. HostTypeOK'
    BY <1>9 DEF DrainExpires, NewTask, EndHost, Die, HostTypeOK, Pending, callers,
         stopping, host
  <2>2. NoCallHangs'
    BY <1>9 DEF DrainExpires, NewTask, EndHost, Die, NoCallHangs, Pending, HostTypeOK,
         callers, stopping, host
  <2>3. Order'
    BY <1>9, FollowUpAssumption DEF DrainExpires, NewTask, EndHost, Die, HostTypeOK, Order,
         Made, Pending, callers, stopping, host
  <2>4. Replied'
    BY <1>9 DEF DrainExpires, NewTask, EndHost, Die, HostTypeOK, Replied, Order, Made,
         Pending, callers, stopping, host
  <2>5. Healthy'
    BY <1>9, FollowUpAssumption DEF DrainExpires, NewTask, EndHost, Die, HostTypeOK,
         Healthy, Order, Made, Pending, callers, stopping, host
  <2>6. Reasons'
    BY <1>9 DEF DrainExpires, NewTask, EndHost, Die, HostTypeOK, Reasons, Healthy,
         NoCallHangs, Pending, callers, stopping, host
  <2>7. DrainLosesNothing'
    BY <1>9, FollowUpAssumption DEF DrainExpires, NewTask, EndHost, Die, HostTypeOK,
         DrainLosesNothing, Order, Healthy, Reasons, NoCallHangs, Made,
         Pending, callers, stopping, host
  <2>8. RepliesDelivered'
    BY <1>9, FollowUpAssumption DEF DrainExpires, NewTask, EndHost, Die, HostTypeOK,
         RepliesDelivered, Order, Replied, Healthy, Reasons, NoCallHangs,
         Made, Pending, callers, stopping, host
  <2> QED BY <2>1, <2>2, <2>3, <2>4, <2>5, <2>6, <2>7, <2>8
<1>10. ASSUME ExitSeen PROVE HostInv'
  <2>1. HostTypeOK'
    BY <1>10 DEF ExitSeen, NewTask, HostTypeOK, Pending, callers, stopping, host
  <2>2. Reasons'
    BY <1>10 DEF ExitSeen, NewTask, HostTypeOK, Reasons, callers, stopping, host
  <2>3. /\ NoCallHangs' /\ Order' /\ Replied'
        /\ Healthy' /\ DrainLosesNothing' /\ RepliesDelivered'
    BY <1>10 DEF ExitSeen, NewTask, NoCallHangs, Order, Replied, Healthy,
         DrainLosesNothing, RepliesDelivered, Made, Pending, callers,
         stopping, host
  <2> QED BY <2>1, <2>2, <2>3
<1>11. ASSUME ExitExpires PROVE HostInv'
  <2>1. HostTypeOK'
    <3>1. inputEnded
      BY <1>11 DEF ExitExpires, NewTask, Reasons
    <3> QED BY <1>11, <3>1 DEF ExitExpires, NewTask, Kill, HostTypeOK, callers
  <2>2. Reasons'
    BY <1>11 DEF ExitExpires, NewTask, Kill, HostTypeOK, Reasons, callers, stopping, host
  <2>3. /\ NoCallHangs' /\ Order' /\ Replied'
        /\ Healthy' /\ DrainLosesNothing' /\ RepliesDelivered'
    BY <1>11 DEF ExitExpires, NewTask, NoCallHangs, Order, Replied, Healthy,
         DrainLosesNothing, RepliesDelivered, Made, Pending, callers,
         stopping, host
  <2> QED BY <2>1, <2>2, <2>3
<1>12. ASSUME StopReturns PROVE HostInv'
  <2>1. HostTypeOK'
    BY <1>12 DEF StopReturns, NewTask, HostTypeOK, Pending, callers, stopping, host
  <2>2. Reasons'
    BY <1>12 DEF StopReturns, NewTask, HostTypeOK, Reasons, callers, stopping, host
  <2>3. /\ NoCallHangs' /\ Order' /\ Replied'
        /\ Healthy' /\ DrainLosesNothing' /\ RepliesDelivered'
    BY <1>12 DEF StopReturns, NewTask, NoCallHangs, Order, Replied, Healthy,
         DrainLosesNothing, RepliesDelivered, Made, Pending, callers,
         stopping, host
  <2> QED BY <2>1, <2>2, <2>3
<1>13. ASSUME Read PROVE HostInv'
  <2>1. HostTypeOK'
    BY <1>13 DEF Read, HostTypeOK, Pending, callers, stopping, host
  <2>2. NoCallHangs'
    BY <1>13 DEF Read, NoCallHangs, Pending, HostTypeOK, callers, stopping, host
  <2>3. Order'
    BY <1>13, FollowUpAssumption DEF Read, HostTypeOK, Order, Made, Pending,
         callers, stopping, host
  <2>4. Replied'
    BY <1>13 DEF Read, HostTypeOK, Replied, Order, Made, Pending, Alive, callers,
         stopping, host
  <2>5. Healthy'
    BY <1>13, FollowUpAssumption DEF Read, HostTypeOK, Healthy, Order, Made,
         Pending, callers, stopping, host
  <2>6. Reasons'
    BY <1>13 DEF Read, HostTypeOK, Reasons, Healthy, NoCallHangs, Pending, Alive,
         callers, stopping, host
  <2>7. DrainLosesNothing'
    BY <1>13, FollowUpAssumption DEF Read, HostTypeOK, DrainLosesNothing, Order,
         Healthy, Reasons, NoCallHangs, Made, Pending, callers, stopping, host
  <2>8. RepliesDelivered'
    BY <1>13, FollowUpAssumption DEF Read, HostTypeOK, RepliesDelivered, Order,
         Replied, Healthy, Reasons, NoCallHangs, Made, Pending, Alive,
         callers, stopping, host
  <2> QED BY <2>1, <2>2, <2>3, <2>4, <2>5, <2>6, <2>7, <2>8
<1>14. ASSUME NEW c \in Call, HostReplies(c) PROVE HostInv'
  <2>1. HostTypeOK'
    BY <1>14 DEF HostReplies, HostTypeOK, Pending, callers, stopping, host
  <2>2. NoCallHangs'
    BY <1>14 DEF HostReplies, NoCallHangs, Pending, HostTypeOK, callers, stopping, host
  <2>3. Order'
    BY <1>14, FollowUpAssumption DEF HostReplies, HostTypeOK, Order, Made, Pending,
         callers, stopping, host
  <2>4. Replied'
    BY <1>14 DEF HostReplies, HostTypeOK, Replied, Order, Made, Pending, Alive,
         callers, stopping, host
  <2>5. Healthy'
    BY <1>14, FollowUpAssumption DEF HostReplies, HostTypeOK, Healthy, Order, Made,
         Pending, callers, stopping, host
  <2>6. Reasons'
    BY <1>14 DEF HostReplies, HostTypeOK, Reasons, Healthy, NoCallHangs, Pending, Alive,
         callers, stopping, host
  <2>7. DrainLosesNothing'
    BY <1>14, FollowUpAssumption DEF HostReplies, HostTypeOK, DrainLosesNothing, Order,
         Healthy, Reasons, NoCallHangs, Made, Pending, callers, stopping, host
  <2>8. RepliesDelivered'
    BY <1>14, FollowUpAssumption DEF HostReplies, HostTypeOK, RepliesDelivered, Order,
         Replied, Healthy, Reasons, NoCallHangs, Made, Pending, Alive,
         callers, stopping, host
  <2> QED BY <2>1, <2>2, <2>3, <2>4, <2>5, <2>6, <2>7, <2>8
<1>15. ASSUME Exit PROVE HostInv'
  <2>1. HostTypeOK'
    BY <1>15 DEF Exit, HostTypeOK, Pending, callers, stopping, host
  <2>2. Reasons'
    BY <1>15 DEF Exit, HostTypeOK, Reasons, callers, stopping, host, Alive
  <2>3. /\ NoCallHangs' /\ Order' /\ Replied'
        /\ Healthy' /\ DrainLosesNothing' /\ RepliesDelivered'
    BY <1>15 DEF Exit, NoCallHangs, Order, Replied, Healthy,
         DrainLosesNothing, RepliesDelivered, Made, Pending, callers,
         stopping, host
  <2> QED BY <2>1, <2>2, <2>3
<1>16. ASSUME UNCHANGED hostVars PROVE HostInv'
  <2>1. HostTypeOK'
    BY <1>16 DEF hostVars, HostTypeOK, Pending, callers, stopping, host
  <2>2. Reasons'
    BY <1>16 DEF hostVars, HostTypeOK, Reasons, callers, stopping, host
  <2>3. /\ NoCallHangs' /\ Order' /\ Replied'
        /\ Healthy' /\ DrainLosesNothing' /\ RepliesDelivered'
    BY <1>16 DEF hostVars, NoCallHangs, Order, Replied, Healthy,
         DrainLosesNothing, RepliesDelivered, Made, Pending, callers,
         stopping, host
  <2> QED BY <2>1, <2>2, <2>3
<1> QED BY <1>1, <1>2, <1>3, <1>4, <1>5, <1>6, <1>7, <1>8, <1>9, <1>10, <1>11, <1>12, <1>13, <1>14, <1>15, <1>16 DEF HostNext

\* The strengthening is an invariant of every behaviour.
LEMMA HostHolds == HostSpec => []HostInv
BY HostInitHolds, HostStepHolds, PTL DEF HostSpec

\* The state keeps its types, and a host that is killed was asked to leave.
THEOREM HostTyped == HostSpec => []HostTypeOK
<1>1. HostInv => HostTypeOK
  BY DEF HostInv
<1> QED BY HostHolds, <1>1, PTL

\* Whatever ends the host, no call of it is left pending (ipc.host.ts:255-262).
THEOREM NothingHangs == HostSpec => []NoCallHangs
<1>1. HostInv => NoCallHangs
  BY DEF HostInv
<1> QED BY HostHolds, <1>1, PTL

\* A drain within its time rejects no call of the past, and none that the
\* continuation of an answered call has made (ipc.host.ts:196-212).
THEOREM DrainIsLossless == HostSpec => []DrainLosesNothing
<1>1. HostInv => DrainLosesNothing
  BY DEF HostInv
<1> QED BY HostHolds, <1>1, PTL

\* A host that closes by itself has had every reply it wrote delivered
\* (ipc.host.ts:107-112).
THEOREM EveryReplyDelivered == HostSpec => []RepliesDelivered
<1>1. HostInv => RepliesDelivered
  BY DEF HostInv
<1> QED BY HostHolds, <1>1, PTL

\* However the host goes, no answer is lost on the way out.
THEOREM AnswersArrive == HostSpec => []NoAnswerLost
<1> QED BY DrainIsLossless, EveryReplyDelivered, PTL DEF NoAnswerLost

=============================================================================
