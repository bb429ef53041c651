------------------------- MODULE FileProviderProofs -------------------------
(***************************************************************************)
(* Proofs about FileProvider for any operations, windows, files and calls: *)
(* an operation at a file owns its lock, whatever happens to its handle    *)
(* and its window in between, and gives it back.                           *)
(***************************************************************************)
EXTENDS FileProvider, TLAPS

IsStream(o) == call[o].kind = "stream"

\* The files an operation is about, and locks.
Needed(o) == {call[o].path, call[o].other}

HoldsAll(o) == \A p \in Needed(o) : Locks!Holds(o, p)

\* Clients make the calls that Jobs has them make.
CallsWellFormed == \A o \in Op : Started(o) => call[o] \in Call /\ WellFormed(call[o])

\* Only a stream's handle is the client's; only the others do more than write.
StagesFit ==
  \A o \in Op : Started(o) =>
    IF IsStream(o) THEN pc[o] \notin {"rename", "deleteTemp", "read", "copy"}
                   ELSE pc[o] \notin {"register", "streaming"}

\* A handle is open from the open to the close that its operation waits for.
HandlesFit ==
  \A o \in Op :
    /\ pc[o] \in {"idle", "acquire", "open"} => handle[o] = "none"
    /\ pc[o] \in {"register", "resolve", "pwrite", "close"} => handle[o] = "open"
    /\ handle[o] = "open" => pc[o] \in {"register", "streaming", "resolve", "pwrite", "close"}
    /\ handle[o] = "flushing" => pc[o] \in {"streaming", "flush"}

\* A write that is tried has tries left.
TriesLeft ==
  \A o \in Op : pc[o] \in {"idle", "acquire", "open", "resolve", "pwrite"} => attempt[o] <= WriteRetries

\* The handles of a window are streams its client is done with for the moment;
\* those it closes with are the same, and nobody uses them any more.
OwnedFit ==
  \A c \in Conn : \A o \in owned[c] :
    /\ Started(o) /\ IsStream(o) /\ call[o].conn = c
    /\ pc[o] \in {"streaming", "resolve", "pwrite"} /\ handle[o] = "open"
    /\ conn[c] \in {"open", "draining"}

ReclaimFit ==
  \A c \in Conn : \A o \in reclaim[c] :
    /\ Started(o) /\ IsStream(o) /\ call[o].conn = c
    /\ pc[o] = "streaming" /\ conn[c] = "closing"

\* Once the calls of a window have been joined there are no more of them.
DrainedQuiet ==
  \A o \in Op :
    Started(o) /\ conn[call[o].conn] \in {"closing", "closed"} => pc[o] \in {"streaming", "done"}

\* A stream is never out of its window's sight.
StreamsKnown ==
  \A o \in Op : Started(o) /\ IsStream(o) /\ pc[o] \in {"streaming", "resolve", "pwrite"} =>
    LET c == call[o].conn
    IN /\ conn[c] \in {"open", "draining"} => o \in owned[c]
       /\ conn[c] = "closing" => o \in reclaim[c]
       /\ conn[c] = "closed" => handle[o] = "closed"

\* An operation that waits for locks has one to wait for.
KeysToCome == \A o \in Op : pc[o] = "acquire" => remaining[o] # <<>>

\* Everything but the queues has its type.
ControlType ==
  /\ call \in [Op -> Call \cup {None}]
  /\ pc \in [Op -> PC]
  /\ remaining \in [Op -> Seq(Path)]
  /\ handle \in [Op -> {"none", "open", "flushing", "closed"}]
  /\ attempt \in [Op -> 0 .. WriteRetries + 1]
  /\ owned \in [Conn -> SUBSET Op]
  /\ reclaim \in [Conn -> SUBSET Op]
  /\ conn \in [Conn -> {"open", "draining", "closing", "closed"}]

Typed == ControlType /\ CallsWellFormed /\ TriesLeft /\ KeysToCome

Control ==
  /\ Typed /\ StagesFit /\ HandlesFit
  /\ OwnedFit /\ ReclaimFit /\ DrainedQuiet /\ StreamsKnown

\* An operation has one place in a queue.
QueuesUnique ==
  \A p \in Path : \A i, j \in 1 .. Len(queue[p]) : queue[p][i] = queue[p][j] => i = j

\* It waits for one lock at a time, and only for those of its own files.
QueuedFits ==
  \A o \in Op, p \in Path : Locks!Queued(o, p) =>
    /\ p \in Needed(o)
    /\ Locks!Holds(o, p) \/ (pc[o] = "acquire" /\ p = Head(remaining[o]))

\* The locks it waits for are its own files'.
KeysNeeded ==
  \A o \in Op : pc[o] = "acquire" => \A i \in 1 .. Len(remaining[o]) : remaining[o][i] \in Needed(o)

\* What it has not locked yet is still to come; what works on files has locked
\* them all, and a stream has as long as its handle is in use.
LocksHeld ==
  \A o \in Op :
    /\ pc[o] = "acquire" =>
         \A p \in Needed(o) :
           Locks!Holds(o, p) \/ \E i \in 1 .. Len(remaining[o]) : remaining[o][i] = p
    /\ pc[o] = "open" => HoldsAll(o)
    /\ pc[o] \notin {"idle", "acquire", "release", "done"} /\ ~IsStream(o) => HoldsAll(o)
    /\ handle[o] \in {"open", "flushing"} => HoldsAll(o)

\* What is over holds nothing.
LocksLeft ==
  \A o \in Op, p \in Path :
    pc[o] \in {"idle", "done"} \/ (IsStream(o) /\ handle[o] = "closed") => ~Locks!Queued(o, p)

QueueType == queue \in [Path -> Seq(Op)]

Locking == QueueType /\ QueuesUnique /\ KeysNeeded /\ QueuedFits /\ LocksHeld /\ LocksLeft

-----------------------------------------------------------------------------
(* Queues *)

\* Nobody holds a lock together with somebody else.
LEMMA OneHolder ==
  ASSUME NEW o, NEW n, NEW p, Locks!Holds(o, p), Locks!Holds(n, p)
  PROVE  o = n
  BY DEF Locks!Holds

\* Whoever joins a queue takes nothing from the others.
LEMMA JoinKeeps ==
  ASSUME QueueType, QueuesUnique, NEW o \in Op, NEW k \in Path, Locks!Join(o, k)
  PROVE  /\ QueueType' /\ QueuesUnique'
         /\ \A n \in Op, p \in Path : Locks!Holds(n, p) => Locks!Holds(n, p)'
         /\ \A n \in Op, p \in Path :
              Locks!Queued(n, p)' => Locks!Queued(n, p) \/ (n = o /\ p = k)
  <1> USE DEF QueueType
  <1>1. queue' = [queue EXCEPT ![k] = Append(@, o)] /\ ~Locks!Queued(o, k)
    BY DEF Locks!Join
  <1>2. QueueType'
    BY <1>1
  <1>3. QueuesUnique'
    BY <1>1 DEF QueuesUnique, Locks!Queued
  <1>4. \A n \in Op, p \in Path : Locks!Holds(n, p) => Locks!Holds(n, p)'
    BY <1>1 DEF Locks!Holds
  <1>5. \A n \in Op, p \in Path : Locks!Queued(n, p)' => Locks!Queued(n, p) \/ (n = o /\ p = k)
    BY <1>1 DEF Locks!Queued
  <1> QED
    BY <1>2, <1>3, <1>4, <1>5

\* Whoever leaves a queue is out of it, and the others are as they were or next.
LEMMA LeaveKeeps ==
  ASSUME QueueType, QueuesUnique, NEW o \in Op, NEW k \in Path, Locks!Leave(o, k)
  PROVE  /\ QueueType' /\ QueuesUnique'
         /\ Locks!Holds(o, k)
         /\ \A n \in Op, p \in Path : Locks!Holds(n, p) /\ (n # o \/ p # k) => Locks!Holds(n, p)'
         /\ \A n \in Op, p \in Path :
              Locks!Queued(n, p)' => Locks!Queued(n, p) /\ (n # o \/ p # k)
  <1> USE DEF QueueType
  <1>1. queue' = [queue EXCEPT ![k] = Tail(@)] /\ queue[k] # <<>> /\ Head(queue[k]) = o
    BY DEF Locks!Leave, Locks!Holds
  <1>2. QueueType'
    BY <1>1
  <1>3. \A p \in Path \ {k} : queue'[p] = queue[p]
    BY <1>1
  <1>4. queue'[k] = Tail(queue[k]) /\ queue[k] \in Seq(Op)
    BY <1>1
  <1>5. /\ Len(queue'[k]) = Len(queue[k]) - 1 /\ Len(queue'[k]) \in Nat
        /\ \A i \in 1 .. Len(queue'[k]) : i + 1 \in 1 .. Len(queue[k]) /\ queue'[k][i] = queue[k][i + 1]
        /\ queue[k][1] = o /\ 1 \in 1 .. Len(queue[k])
    BY <1>1, <1>4
  <1>6. QueuesUnique'
    <2> SUFFICES ASSUME NEW p \in Path, NEW i \in 1 .. Len(queue'[p]), NEW j \in 1 .. Len(queue'[p]),
                        queue'[p][i] = queue'[p][j]
                 PROVE  i = j
      BY DEF QueuesUnique
    <2>1. CASE p = k
      <3>1. /\ i + 1 \in 1 .. Len(queue[k]) /\ j + 1 \in 1 .. Len(queue[k])
            /\ queue[k][i + 1] = queue[k][j + 1]
        BY <1>5, <2>1
      <3>2. i + 1 = j + 1
        BY <3>1 DEF QueuesUnique
      <3> QED
        BY <3>2, <1>5, <2>1
    <2>2. CASE p # k
      BY <1>3, <2>2 DEF QueuesUnique
    <2> QED
      BY <2>1, <2>2
  <1>7. \A n \in Op, p \in Path : Locks!Holds(n, p) /\ (n # o \/ p # k) => Locks!Holds(n, p)'
    BY <1>1, <1>3 DEF Locks!Holds
  <1>8. \A n \in Op, p \in Path : Locks!Queued(n, p)' => Locks!Queued(n, p) /\ (n # o \/ p # k)
    <2> SUFFICES ASSUME NEW n \in Op, NEW p \in Path, Locks!Queued(n, p)'
                 PROVE  Locks!Queued(n, p) /\ (n # o \/ p # k)
      OBVIOUS
    <2>1. PICK i \in 1 .. Len(queue'[p]) : queue'[p][i] = n
      BY DEF Locks!Queued
    <2>2. CASE p = k
      <3>1. i + 1 \in 1 .. Len(queue[k]) /\ queue[k][i + 1] = n
        BY <1>5, <2>1, <2>2
      <3>2. i + 1 # 1
        BY <1>5, <2>2
      <3>3. n # o
        BY <1>5, <3>1, <3>2 DEF QueuesUnique
      <3> QED
        BY <2>2, <3>1, <3>3 DEF Locks!Queued
    <2>3. CASE p # k
      BY <1>3, <2>1, <2>3 DEF Locks!Queued
    <2> QED
      BY <2>2, <2>3
  <1> QED
    BY <1>1, <1>2, <1>6, <1>7, <1>8 DEF Locks!Holds

\* Whoever holds a lock is in its queue.
LEMMA HeldIsQueued ==
  ASSUME QueueType, NEW o \in Op, NEW p \in Path, Locks!Holds(o, p)
  PROVE  Locks!Queued(o, p)
  <1>1. queue[p] \in Seq(Op) /\ queue[p] # <<>> /\ Head(queue[p]) = o
    BY DEF QueueType, Locks!Holds
  <1>2. 1 \in 1 .. Len(queue[p]) /\ queue[p][1] = o
    BY <1>1
  <1> QED
    BY <1>2 DEF Locks!Queued

-----------------------------------------------------------------------------
(* Operations and windows *)

\* The keys of a call are those of its files.
LEMMA WantedType ==
  ASSUME NEW job \in Call
  PROVE  /\ Wanted(job) \in Seq(Path) /\ Wanted(job) # <<>>
         /\ job.path \in Path /\ job.other \in Path
         /\ \A i \in 1 .. Len(Wanted(job)) : Wanted(job)[i] \in {job.path, job.other}
         /\ WellFormed(job) =>
              \A p \in {job.path, job.other} : \E i \in 1 .. Len(Wanted(job)) : Wanted(job)[i] = p
  <1>1. job.path \in Path /\ job.other \in Path /\ job.kind \in Kind /\ job.path \in File
    BY DEF Call, Path
  <1>2. CASE job.kind \in {"atomicWrite", "clone"}
    <2>1. Wanted(job) = <<job.path, job.other>> \/ Wanted(job) = <<job.other, job.path>>
      BY <1>2 DEF Wanted, InKeyOrder
    <2>2. /\ Wanted(job) \in Seq(Path) /\ Wanted(job) # <<>> /\ Len(Wanted(job)) = 2
          /\ \/ Wanted(job)[1] = job.path /\ Wanted(job)[2] = job.other
             \/ Wanted(job)[1] = job.other /\ Wanted(job)[2] = job.path
      <3>1. CASE Wanted(job) = <<job.path, job.other>>
        BY <1>1, <3>1
      <3>2. CASE Wanted(job) = <<job.other, job.path>>
        BY <1>1, <3>2
      <3> QED
        BY <2>1, <3>1, <3>2
    <2>3. 1 \in 1 .. 2 /\ 2 \in 1 .. 2
      OBVIOUS
    <2>4. \A p \in {job.path, job.other} : \E i \in 1 .. 2 : Wanted(job)[i] = p
      BY <2>2, <2>3
    <2>5. \A i \in 1 .. 2 : Wanted(job)[i] \in {job.path, job.other}
      BY <2>2
    <2> QED
      BY <1>1, <2>2, <2>4, <2>5
  <1>3. CASE job.kind \notin {"atomicWrite", "clone"}
    <2>1. Wanted(job) = <<job.path>>
      BY <1>3 DEF Wanted
    <2>2. WellFormed(job) => job.other = job.path
      BY <1>1, <1>3 DEF WellFormed, Kind
    <2> QED
      BY <1>1, <2>1, <2>2
  <1> QED
    BY <1>2, <1>3

\* What a call does first and what it does after its close.
LEMMA Branches ==
  ASSUME NEW o
  PROVE  /\ FirstStep(call[o].kind) \in {"read", "copy", "open"}
         /\ call[o].kind = "stream" => FirstStep(call[o].kind) = "open" /\ AfterClose(o) = "done"
         /\ call[o].kind # "stream" => AfterClose(o) \in {"rename", "release"}
  <1>1. FirstStep(call[o].kind) \in {"read", "copy", "open"}
    BY DEF FirstStep
  <1>2. CASE call[o].kind = "stream"
    BY <1>1, <1>2 DEF FirstStep, AfterClose
  <1>3. CASE call[o].kind # "stream"
    BY <1>1, <1>3 DEF AfterClose
  <1> QED
    BY <1>2, <1>3

\* A write that fails is tried again while there are tries left.
LEMMA TryAgain ==
  ASSUME Typed, NEW o \in Op, WriteFails(o), attempt[o] \in 0 .. WriteRetries
  PROVE  \E s \in {"resolve", "streaming", "close"}, n \in 1 .. WriteRetries + 1 :
           /\ pc' = [pc EXCEPT ![o] = s]
           /\ attempt' = [attempt EXCEPT ![o] = n]
           /\ s = "resolve" => n <= WriteRetries
           /\ s = "streaming" => IsStream(o)
           /\ s = "close" => ~IsStream(o)
  <1>1. /\ attempt' = [attempt EXCEPT ![o] = attempt[o] + 1]
        /\ pc' = [pc EXCEPT ![o] = IF attempt[o] < WriteRetries THEN "resolve" ELSE AfterWrite(o)]
    BY DEF WriteFails, GoTo
  <1>2. attempt[o] + 1 \in 1 .. WriteRetries + 1
    BY RetriesAssumption
  <1>3. CASE attempt[o] < WriteRetries
    <2>1. pc' = [pc EXCEPT ![o] = "resolve"] /\ attempt[o] + 1 <= WriteRetries
      BY <1>1, <1>3, RetriesAssumption
    <2> QED
      BY <1>1, <1>2, <2>1
  <1>4. CASE ~(attempt[o] < WriteRetries) /\ IsStream(o)
    BY <1>1, <1>2, <1>4 DEF AfterWrite, IsStream
  <1>5. CASE ~(attempt[o] < WriteRetries) /\ ~IsStream(o)
    BY <1>1, <1>2, <1>5 DEF AfterWrite, IsStream
  <1> QED
    BY <1>3, <1>4, <1>5

\* The keys that are left once the first is locked.
LEMMA TailKeys ==
  ASSUME NEW s \in Seq(Path), s # <<>>
  PROVE  /\ Tail(s) \in Seq(Path) /\ Head(s) \in Path /\ Head(s) = s[1]
         /\ Len(s) # 1 => Tail(s) # <<>>
         /\ Len(s) = 1 => \A i \in 1 .. Len(s) : s[i] = Head(s)
         /\ \A j \in 1 .. Len(Tail(s)) : \E i \in 1 .. Len(s) : Tail(s)[j] = s[i]
         /\ \A i \in 1 .. Len(s) : i = 1 \/ \E j \in 1 .. Len(Tail(s)) : Tail(s)[j] = s[i]
  <1>1. Tail(s) \in Seq(Path) /\ Head(s) \in Path /\ Head(s) = s[1] /\ Len(Tail(s)) = Len(s) - 1
    OBVIOUS
  <1>2. Len(s) # 1 => Tail(s) # <<>>
    <2>1. Len(s) # 1 => Len(Tail(s)) # 0
      BY <1>1
    <2> QED
      BY <2>1
  <1>3. ASSUME NEW i \in 1 .. Len(s), i # 1
        PROVE  \E j \in 1 .. Len(Tail(s)) : Tail(s)[j] = s[i]
    <2>1. i - 1 \in 1 .. Len(Tail(s)) /\ Tail(s)[i - 1] = s[i]
      BY <1>1, <1>3
    <2> QED
      BY <2>1
  <1>4. Len(s) = 1 => \A i \in 1 .. Len(s) : s[i] = Head(s)
    BY <1>1
  <1>5. ASSUME NEW j \in 1 .. Len(Tail(s)) PROVE \E i \in 1 .. Len(s) : Tail(s)[j] = s[i]
    <2>1. j + 1 \in 1 .. Len(s) /\ Tail(s)[j] = s[j + 1]
      BY <1>1
    <2> QED
      BY <2>1
  <1> QED
    BY <1>1, <1>2, <1>3, <1>4, <1>5

LEMMA TypedInit == Init => Typed
  BY RetriesAssumption
  DEF Init, Typed, ControlType, TriesLeft, CallsWellFormed, KeysToCome, Started, PC

\* A call that has nothing more to try or to acquire moves on, and perhaps its
\* handle with it.
LEMMA MovesOn ==
  ASSUME Typed, NEW o \in Op, pc[o] # "idle",
         NEW s \in {"register", "streaming", "close", "flush", "rename", "deleteTemp", "release", "done"},
         pc' = [pc EXCEPT ![o] = s],
         handle' \in [Op -> {"none", "open", "flushing", "closed"}],
         UNCHANGED <<call, remaining, attempt, owned, reclaim, conn>>
  PROVE  Typed'
  <1>1. ControlType'
    BY DEF Typed, ControlType, PC
  <1>2. \A n \in Op : pc'[n] = IF n = o THEN s ELSE pc[n]
    BY DEF Typed, ControlType
  <1>3. CallsWellFormed'
    BY <1>2 DEF Typed, CallsWellFormed, Started
  <1>4. TriesLeft' /\ KeysToCome'
    BY <1>2 DEF Typed, TriesLeft, KeysToCome
  <1> QED
    BY <1>1, <1>3, <1>4 DEF Typed

LEMMA TypedStep == Typed /\ [Next]_vars => Typed'
  <1> SUFFICES ASSUME Typed, [Next]_vars PROVE Typed'
    OBVIOUS
  <1> USE RetriesAssumption
      DEF Typed, ControlType, TriesLeft, CallsWellFormed, KeysToCome, Started, PC, GoTo
  <1>1. ASSUME NEW o \in Op, Start(o) PROVE Typed'
    <2>1. PICK job \in Jobs[o] :
            /\ pc[o] = "idle" /\ call' = [call EXCEPT ![o] = job]
            /\ remaining' = [remaining EXCEPT ![o] = Wanted(job)]
            /\ pc' = [pc EXCEPT ![o] = "acquire"]
            /\ UNCHANGED <<handle, attempt, owned, reclaim, conn>>
      BY <1>1 DEF Start
    <2>2. job \in Call /\ WellFormed(job)
      BY JobsAssumption
    <2>3. Wanted(job) \in Seq(Path) /\ Wanted(job) # <<>>
      BY <2>2, WantedType
    <2> QED
      BY <2>1, <2>2, <2>3
  <1>2. ASSUME NEW o \in Op, Await(o) PROVE Typed'
    BY <1>2 DEF Await
  <1>3. ASSUME NEW o \in Op, Acquired(o) PROVE Typed'
    <2>1. remaining[o] \in Seq(Path) /\ remaining[o] # <<>>
      BY <1>3 DEF Acquired
    <2>2. /\ remaining' = [remaining EXCEPT ![o] = Tail(remaining[o])]
          /\ Tail(remaining[o]) \in Seq(Path)
          /\ Len(remaining[o]) # 1 => Tail(remaining[o]) # <<>>
      <3>1. remaining' = [remaining EXCEPT ![o] = Tail(remaining[o])]
        BY <1>3 DEF Acquired
      <3> QED
        BY <2>1, <3>1, TailKeys
    <2>3. Len(remaining[o]) # 1 => UNCHANGED pc
      BY <1>3 DEF Acquired
    <2>4. Len(remaining[o]) = 1 => \E s \in {"read", "copy", "open"} : pc' = [pc EXCEPT ![o] = s]
      BY <1>3, Branches DEF Acquired
    <2>5. /\ UNCHANGED <<call, handle, attempt, owned, reclaim, conn>>
          /\ pc[o] = "acquire" /\ \A n \in Op \ {o} : remaining'[n] = remaining[n]
      BY <1>3 DEF Acquired
    <2>6. CASE Len(remaining[o]) = 1
      <3>1. PICK s \in {"read", "copy", "open"} : pc' = [pc EXCEPT ![o] = s]
        BY <2>4, <2>6
      <3> QED
        BY <2>2, <2>5, <3>1
    <2>7. CASE Len(remaining[o]) # 1
      BY <2>2, <2>3, <2>5, <2>7
    <2> QED
      BY <2>6, <2>7
  <1>4. ASSUME NEW o \in Op, Release(o) PROVE Typed'
    BY <1>4 DEF Release
  <1>5. ASSUME NEW o \in Op, Flush(o) PROVE Typed'
    <2>1. /\ UNCHANGED <<call, remaining, attempt, owned, reclaim, conn>>
          /\ handle' = [handle EXCEPT ![o] = "closed"]
      BY <1>5 DEF Flush
    <2>2. CASE pc[o] = "flush"
      <3>1. PICK s \in {"done", "rename", "release"} : pc' = [pc EXCEPT ![o] = s]
        BY <1>5, <2>2, Branches DEF Flush
      <3>2. handle' \in [Op -> {"none", "open", "flushing", "closed"}]
        BY <2>1
      <3> QED
        BY <2>1, <2>2, <3>1, <3>2, MovesOn
    <2>3. CASE pc[o] # "flush"
      <3>1. UNCHANGED pc
        BY <1>5, <2>3 DEF Flush
      <3> QED
        BY <2>1, <3>1
    <2> QED
      BY <2>2, <2>3
  <1>6. ASSUME NEW o \in Op, Register(o) PROVE Typed'
    BY <1>6 DEF Register
  <1>7. ASSUME NEW o \in Op, ClientWrite(o) PROVE Typed'
    BY <1>7 DEF ClientWrite, CanUseHandle, Failed
  <1>8. ASSUME NEW o \in Op, ClientClose(o) PROVE Typed'
    BY <1>8 DEF ClientClose, CanUseHandle
  <1>9. ASSUME NEW o \in Op, Open(o) PROVE Typed'
    <2>1. UNCHANGED <<call, remaining, attempt, owned, reclaim, conn>> /\ pc[o] = "open"
      BY <1>9 DEF Open
    <2>2. handle' = [handle EXCEPT ![o] = "open"] \/ UNCHANGED handle
      BY <1>9 DEF Open
    <2>3. PICK s \in {"register", "resolve", "release"} : pc' = [pc EXCEPT ![o] = s]
      BY <1>9 DEF Open
    <2>4. handle' \in [Op -> {"none", "open", "flushing", "closed"}]
      BY <2>2
    <2>5. CASE s = "resolve"
      BY <2>1, <2>3, <2>4, <2>5
    <2>6. CASE s # "resolve"
      BY <2>1, <2>3, <2>4, <2>6, MovesOn
    <2> QED
      BY <2>5, <2>6
  <1>10. ASSUME NEW o \in Op, Close(o) PROVE Typed'
    <2>1. /\ UNCHANGED <<call, remaining, attempt, owned, reclaim, conn>>
          /\ handle' = [handle EXCEPT ![o] = "flushing"] \/ UNCHANGED handle
      BY <1>10 DEF Close
    <2>2. PICK s \in {"flush", "done", "rename", "release"} : pc' = [pc EXCEPT ![o] = s]
      <3>1. CASE handle[o] = "open"
        BY <1>10, <3>1 DEF Close
      <3>2. CASE handle[o] # "open"
        <4>1. pc' = [pc EXCEPT ![o] = AfterClose(o)]
          BY <1>10, <3>2 DEF Close
        <4>2. AfterClose(o) \in {"done", "rename", "release"}
          BY Branches
        <4> QED
          BY <4>1, <4>2
      <3> QED
        BY <3>1, <3>2
    <2>3. pc[o] # "idle"
      BY <1>10 DEF Close
    <2>4. handle' \in [Op -> {"none", "open", "flushing", "closed"}]
      BY <2>1
    <2> QED
      BY <2>1, <2>2, <2>3, <2>4, MovesOn
  <1>11. ASSUME NEW o \in Op, Resolve(o) PROVE Typed'
    <2>1. /\ UNCHANGED <<call, remaining, handle, owned, reclaim, conn>>
          /\ pc[o] = "resolve" /\ attempt[o] \in 0 .. WriteRetries
      BY <1>11 DEF Resolve
    <2>2. \/ pc' = [pc EXCEPT ![o] = "pwrite"] /\ UNCHANGED attempt
          \/ WriteFails(o)
      BY <1>11 DEF Resolve
    <2>3. CASE pc' = [pc EXCEPT ![o] = "pwrite"] /\ UNCHANGED attempt
      BY <2>1, <2>3
    <2>4. CASE WriteFails(o)
      <3>1. PICK s \in {"resolve", "streaming", "close"}, n \in 1 .. WriteRetries + 1 :
              /\ pc' = [pc EXCEPT ![o] = s] /\ attempt' = [attempt EXCEPT ![o] = n]
              /\ s = "resolve" => n <= WriteRetries
        BY <2>1, <2>4, TryAgain
      <3> QED
        BY <2>1, <3>1
    <2> QED
      BY <2>2, <2>3, <2>4
  <1>12. ASSUME NEW o \in Op, Pwrite(o) PROVE Typed'
    <2>1. /\ UNCHANGED <<call, remaining, handle, owned, reclaim, conn>>
          /\ pc[o] = "pwrite" /\ attempt[o] \in 0 .. WriteRetries
      BY <1>12 DEF Pwrite
    <2>2. \/ pc' = [pc EXCEPT ![o] = AfterWrite(o)] /\ attempt' = [attempt EXCEPT ![o] = 0]
          \/ WriteFails(o)
      BY <1>12 DEF Pwrite
    <2>3. AfterWrite(o) \in {"streaming", "close"}
      BY DEF AfterWrite
    <2>4. CASE pc' = [pc EXCEPT ![o] = AfterWrite(o)] /\ attempt' = [attempt EXCEPT ![o] = 0]
      BY <2>1, <2>3, <2>4
    <2>5. CASE WriteFails(o)
      <3>1. PICK s \in {"resolve", "streaming", "close"}, n \in 1 .. WriteRetries + 1 :
              /\ pc' = [pc EXCEPT ![o] = s] /\ attempt' = [attempt EXCEPT ![o] = n]
              /\ s = "resolve" => n <= WriteRetries
        BY <2>1, <2>5, TryAgain
      <3> QED
        BY <2>1, <3>1
    <2> QED
      BY <2>2, <2>4, <2>5
  <1>13. ASSUME NEW o \in Op, Rename(o) \/ Finish(o) PROVE Typed'
    <2>1. PICK s \in {"release", "deleteTemp"} : pc' = [pc EXCEPT ![o] = s]
      BY <1>13 DEF Rename, Finish
    <2>2. UNCHANGED <<call, remaining, queue, handle, attempt, owned, reclaim, conn>> /\ pc[o] # "idle"
      BY <1>13 DEF Rename, Finish
    <2> QED
      BY <2>1, <2>2, MovesOn
  <1>14. ASSUME NEW c \in Conn, CloseWindow(c) \/ Drained(c) \/ ReclaimHandle(c) \/ Closed(c)
         PROVE  Typed'
    <2>1. CASE CloseWindow(c)
      BY <2>1 DEF CloseWindow
    <2>2. CASE Drained(c)
      BY <2>2 DEF Drained
    <2>3. CASE ReclaimHandle(c)
      BY <2>3 DEF ReclaimHandle
    <2>4. CASE Closed(c)
      BY <2>4 DEF Closed
    <2> QED
      BY <1>14, <2>1, <2>2, <2>3, <2>4
  <1>15. CASE UNCHANGED vars
    BY <1>15 DEF vars
  <1> QED
    BY <1>1, <1>2, <1>3, <1>4, <1>5, <1>6, <1>7, <1>8, <1>9, <1>10, <1>11, <1>12, <1>13, <1>14, <1>15
    DEF Next, Backend, Drain

-----------------------------------------------------------------------------
\* What Control says beyond the types.
Rest == StagesFit /\ HandlesFit /\ OwnedFit /\ ReclaimFit /\ DrainedQuiet /\ StreamsKnown

\* An operation takes a step of its own: it moves, and its handle may, and both
\* fit what is known of it.
LEMMA MoveKeeps ==
  ASSUME Control, NEW o \in Op, NEW s \in PC, NEW h \in {"none", "open", "flushing", "closed"},
         Started(o),
         pc' = [pc EXCEPT ![o] = s], handle' = [handle EXCEPT ![o] = h],
         UNCHANGED <<call, owned, reclaim, conn>>,
         s # "idle",
         IF IsStream(o) THEN s \notin {"rename", "deleteTemp", "read", "copy"}
                        ELSE s \notin {"register", "streaming"},
         s \in {"acquire", "open"} => h = "none",
         s \in {"register", "resolve", "pwrite", "close"} => h = "open",
         h = "open" => s \in {"register", "streaming", "resolve", "pwrite", "close"},
         h = "flushing" => s \in {"streaming", "flush"},
         o \in owned[call[o].conn] => s \in {"streaming", "resolve", "pwrite"} /\ h = "open",
         o \in reclaim[call[o].conn] => s = "streaming",
         conn[call[o].conn] \in {"closing", "closed"} => s \in {"streaming", "done"},
         IsStream(o) /\ s \in {"streaming", "resolve", "pwrite"} =>
           pc[o] \in {"streaming", "resolve", "pwrite"} /\ (handle[o] = "closed" => h = "closed")
  PROVE  Rest'
  <1> USE DEF Control, Typed, ControlType, Rest, Started
  <1>1. StagesFit' /\ HandlesFit'
    BY DEF StagesFit, HandlesFit, IsStream
  <1>2. OwnedFit' /\ ReclaimFit'
    BY DEF OwnedFit, ReclaimFit, IsStream
  <1>3. DrainedQuiet' /\ StreamsKnown'
    BY DEF DrainedQuiet, StreamsKnown, IsStream
  <1> QED
    BY <1>1, <1>2, <1>3

\* Where an operation under way stands.
LEMMA Standing ==
  ASSUME Control, NEW o \in Op, Started(o)
  PROVE  /\ call[o] \in Call /\ call[o].conn \in Conn
         /\ pc[o] \in PC /\ handle[o] \in {"none", "open", "flushing", "closed"}
         /\ o \in owned[call[o].conn] =>
              /\ IsStream(o) /\ pc[o] \in {"streaming", "resolve", "pwrite"} /\ handle[o] = "open"
              /\ conn[call[o].conn] \in {"open", "draining"}
         /\ o \in reclaim[call[o].conn] =>
              IsStream(o) /\ pc[o] = "streaming" /\ conn[call[o].conn] = "closing"
         /\ conn[call[o].conn] \in {"closing", "closed"} => pc[o] \in {"streaming", "done"}
         /\ IsStream(o) => pc[o] \notin {"rename", "deleteTemp", "read", "copy"}
         /\ ~IsStream(o) => pc[o] \notin {"register", "streaming"}
         /\ pc[o] \in {"idle", "acquire", "open"} => handle[o] = "none"
         /\ pc[o] \in {"register", "resolve", "pwrite", "close"} => handle[o] = "open"
         /\ handle[o] = "open" => pc[o] \in {"register", "streaming", "resolve", "pwrite", "close"}
         /\ handle[o] = "flushing" => pc[o] \in {"streaming", "flush"}
  <1>1. call[o] \in Call /\ call[o].conn \in Conn
    BY DEF Control, Typed, CallsWellFormed, Call
  <1> QED
    BY <1>1
    DEF Control, Typed, ControlType, OwnedFit, ReclaimFit, DrainedQuiet, StagesFit, HandlesFit

LEMMA ControlInit == Init => Control
  <1> SUFFICES ASSUME Init PROVE Control
    OBVIOUS
  <1>1. Typed
    BY TypedInit
  <1>2. StagesFit /\ HandlesFit /\ OwnedFit /\ ReclaimFit /\ DrainedQuiet /\ StreamsKnown
    BY DEF Init, StagesFit, HandlesFit, OwnedFit, ReclaimFit, DrainedQuiet, StreamsKnown, Started
  <1> QED
    BY <1>1, <1>2 DEF Control

LEMMA ControlStep == Control /\ [Next]_vars => Control'
  <1> SUFFICES ASSUME Control, [Next]_vars PROVE Control'
    OBVIOUS
  <1>0. Typed'
    BY TypedStep DEF Control
  <1> USE DEF Control, Typed, ControlType, Started, PC, GoTo
  <1>1. ASSUME NEW o \in Op, Start(o) PROVE Rest'
    <2>1. PICK job \in Jobs[o] :
            /\ pc[o] = "idle" /\ conn[job.conn] = "open" /\ call' = [call EXCEPT ![o] = job]
            /\ pc' = [pc EXCEPT ![o] = "acquire"]
            /\ UNCHANGED <<handle, owned, reclaim, conn>>
      BY <1>1 DEF Start
    <2>2. call'[o] = job
      BY <2>1
    <2>3. StagesFit' /\ HandlesFit'
      BY <2>1 DEF StagesFit, HandlesFit, IsStream
    <2>4. OwnedFit' /\ ReclaimFit'
      BY <2>1, <2>2 DEF OwnedFit, ReclaimFit, IsStream
    <2>5. DrainedQuiet' /\ StreamsKnown'
      BY <2>1, <2>2 DEF DrainedQuiet, StreamsKnown, IsStream
    <2> QED
      BY <2>3, <2>4, <2>5 DEF Rest
  <1>2. ASSUME NEW o \in Op, Await(o) PROVE Rest'
    BY <1>2 DEF Await, Rest, StagesFit, HandlesFit, OwnedFit, ReclaimFit, DrainedQuiet, StreamsKnown, IsStream
  <1>3. ASSUME NEW o \in Op, Acquired(o) PROVE Rest'
    <2>1. /\ pc[o] = "acquire" /\ UNCHANGED <<call, handle, owned, reclaim, conn>>
      BY <1>3 DEF Acquired
    <2>2. PICK s \in {"acquire", "read", "copy", "open"} :
            pc' = [pc EXCEPT ![o] = s] /\ (IsStream(o) => s \in {"acquire", "open"})
      <3>1. CASE Len(remaining[o]) = 1
        BY <1>3, <3>1, Branches DEF Acquired, IsStream
      <3>2. CASE Len(remaining[o]) # 1
        <4>1. pc' = [pc EXCEPT ![o] = "acquire"]
          BY <1>3, <3>2, <2>1 DEF Acquired
        <4> QED
          BY <4>1
      <3> QED
        BY <3>1, <3>2
    <2>3. handle' = [handle EXCEPT ![o] = "none"]
      BY <2>1, Standing
    <2> QED
      BY <2>1, <2>2, <2>3, Standing, MoveKeeps
  <1>4. ASSUME NEW o \in Op, Release(o) PROVE Rest'
    <2>1. /\ pc[o] = "release" /\ UNCHANGED <<call, handle, owned, reclaim, conn>>
      BY <1>4 DEF Release
    <2>2. PICK s \in {"release", "done"} : pc' = [pc EXCEPT ![o] = s]
      <3>1. pc' = [pc EXCEPT ![o] = "done"] \/ UNCHANGED pc
        BY <1>4 DEF Release
      <3>2. UNCHANGED pc => pc' = [pc EXCEPT ![o] = "release"]
        BY <2>1
      <3> QED
        BY <3>1, <3>2
    <2>3. handle' = [handle EXCEPT ![o] = handle[o]]
      BY <2>1
    <2> QED
      BY <2>1, <2>2, <2>3, Standing, MoveKeeps
  <1>5. ASSUME NEW o \in Op, Open(o) PROVE Rest'
    <2>1. /\ pc[o] = "open" /\ handle[o] = "none" /\ UNCHANGED <<call, owned, reclaim, conn>>
      BY <1>5, Standing DEF Open
    <2>2. CASE /\ handle' = [handle EXCEPT ![o] = "open"]
               /\ pc' = [pc EXCEPT ![o] = IF call[o].kind = "stream" THEN "register" ELSE "resolve"]
      <3>1. CASE IsStream(o)
        BY <2>1, <2>2, <3>1, Standing, MoveKeeps DEF IsStream
      <3>2. CASE ~IsStream(o)
        BY <2>1, <2>2, <3>2, Standing, MoveKeeps DEF IsStream
      <3> QED
        BY <3>1, <3>2
    <2>3. CASE pc' = [pc EXCEPT ![o] = "release"] /\ UNCHANGED handle
      <3>1. handle' = [handle EXCEPT ![o] = "none"]
        BY <2>1, <2>3
      <3> QED
        BY <2>1, <2>3, <3>1, Standing, MoveKeeps
    <2> QED
      BY <1>5, <2>1, <2>2, <2>3 DEF Open
  <1>6. ASSUME NEW o \in Op, Register(o) PROVE Rest'
    <2>1. /\ pc[o] = "register" /\ call[o].conn \in Conn /\ IsStream(o) /\ handle[o] = "open"
          /\ owned' = [owned EXCEPT ![call[o].conn] = @ \cup {o}]
          /\ pc' = [pc EXCEPT ![o] = "streaming"]
          /\ UNCHANGED <<call, handle, reclaim, conn>>
      BY <1>6, Standing DEF Register
    <2>2. o \in owned'[call[o].conn] /\ conn[call[o].conn] \in {"open", "draining"}
      BY <2>1, Standing
    <2>3. StagesFit' /\ HandlesFit'
      BY <2>1 DEF StagesFit, HandlesFit, IsStream
    <2>4. OwnedFit' /\ ReclaimFit'
      BY <2>1, <2>2 DEF OwnedFit, ReclaimFit, IsStream
    <2>5. DrainedQuiet' /\ StreamsKnown'
      BY <2>1, <2>2 DEF DrainedQuiet, StreamsKnown, IsStream
    <2> QED
      BY <2>3, <2>4, <2>5 DEF Rest
  <1>7. ASSUME NEW o \in Op, ClientWrite(o) PROVE Rest'
    <2>1. /\ pc[o] = "streaming" /\ conn[call[o].conn] = "open" /\ o \in owned[call[o].conn]
          /\ pc' = [pc EXCEPT ![o] = "resolve"]
          /\ UNCHANGED <<call, handle, owned, reclaim, conn>>
      BY <1>7 DEF ClientWrite, CanUseHandle
    <2>2. IsStream(o) /\ call[o].conn \in Conn /\ o \notin reclaim[call[o].conn]
      BY <2>1, Standing
    <2>3. handle' = [handle EXCEPT ![o] = "open"]
      BY <2>1, Standing
    <2> QED
      BY <2>1, <2>2, <2>3, MoveKeeps
  <1>8. ASSUME NEW o \in Op, ClientClose(o) PROVE Rest'
    <2>1. /\ pc[o] = "streaming" /\ conn[call[o].conn] = "open" /\ o \in owned[call[o].conn]
          /\ owned' = [owned EXCEPT ![call[o].conn] = @ \ {o}]
          /\ pc' = [pc EXCEPT ![o] = "close"]
          /\ UNCHANGED <<call, handle, reclaim, conn>>
      BY <1>8 DEF ClientClose, CanUseHandle
    <2>2. IsStream(o) /\ call[o].conn \in Conn /\ o \notin reclaim[call[o].conn]
      BY <2>1, Standing
    <2>3. StagesFit' /\ HandlesFit'
      BY <2>1, <2>2 DEF StagesFit, HandlesFit, IsStream, OwnedFit
    <2>4. OwnedFit' /\ ReclaimFit'
      BY <2>1, <2>2 DEF OwnedFit, ReclaimFit, IsStream
    <2>5. DrainedQuiet' /\ StreamsKnown'
      BY <2>1, <2>2 DEF DrainedQuiet, StreamsKnown, IsStream
    <2> QED
      BY <2>3, <2>4, <2>5 DEF Rest
  <1>9. ASSUME NEW o \in Op, Resolve(o) PROVE Rest'
    <2>1. /\ pc[o] = "resolve" /\ handle[o] = "open" /\ UNCHANGED <<call, handle, owned, reclaim, conn>>
      BY <1>9, Standing DEF Resolve
    <2>2. pc' = [pc EXCEPT ![o] = "pwrite"]
      BY <1>9, <2>1 DEF Resolve
    <2>3. handle' = [handle EXCEPT ![o] = "open"]
      BY <2>1
    <2> QED
      BY <2>1, <2>2, <2>3, Standing, MoveKeeps
  <1>10. ASSUME NEW o \in Op, Pwrite(o) PROVE Rest'
    <2>1. /\ pc[o] = "pwrite" /\ handle[o] = "open" /\ UNCHANGED <<call, handle, owned, reclaim, conn>>
      BY <1>10, Standing DEF Pwrite
    <2>2. PICK s \in {"resolve", "streaming", "close"} :
            /\ pc' = [pc EXCEPT ![o] = s]
            /\ s = "streaming" => IsStream(o)
            /\ s = "close" => ~IsStream(o)
      <3>1. CASE pc' = [pc EXCEPT ![o] = AfterWrite(o)]
        BY <3>1 DEF AfterWrite, IsStream
      <3>2. CASE WriteFails(o)
        <4>1. attempt[o] \in 0 .. WriteRetries
          BY <2>1, RetriesAssumption DEF TriesLeft
        <4> QED
          BY <3>2, <4>1, TryAgain
      <3> QED
        BY <1>10, <3>1, <3>2 DEF Pwrite
    <2>3. handle' = [handle EXCEPT ![o] = "open"]
      BY <2>1
    <2> QED
      BY <2>1, <2>2, <2>3, Standing, MoveKeeps
  <1>11. ASSUME NEW o \in Op, Close(o) PROVE Rest'
    <2>1. /\ pc[o] = "close" /\ handle[o] = "open" /\ UNCHANGED <<call, owned, reclaim, conn>>
      BY <1>11, Standing DEF Close
    <2>2. pc' = [pc EXCEPT ![o] = "flush"] /\ handle' = [handle EXCEPT ![o] = "flushing"]
      BY <1>11, <2>1 DEF Close
    <2> QED
      BY <2>1, <2>2, Standing, MoveKeeps
  <1>12. ASSUME NEW o \in Op, Flush(o) PROVE Rest'
    <2>1. /\ handle[o] = "flushing" /\ Started(o) /\ UNCHANGED <<call, owned, reclaim, conn>>
          /\ handle' = [handle EXCEPT ![o] = "closed"]
      BY <1>12 DEF Flush, HandlesFit
    <2>2. CASE pc[o] = "flush"
      <3>1. PICK s \in {"done", "rename", "release"} :
              /\ pc' = [pc EXCEPT ![o] = s]
              /\ IsStream(o) => s = "done"
        BY <1>12, <2>2, Branches DEF Flush, IsStream
      <3> QED
        BY <2>1, <2>2, <3>1, Standing, MoveKeeps
    <2>3. CASE pc[o] # "flush"
      <3>1. pc[o] = "streaming" /\ pc' = [pc EXCEPT ![o] = "streaming"]
        BY <1>12, <2>1, <2>3, Standing DEF Flush
      <3> QED
        BY <2>1, <3>1, Standing, MoveKeeps
    <2> QED
      BY <2>2, <2>3
  <1>13. ASSUME NEW o \in Op, Rename(o) \/ Finish(o) PROVE Rest'
    <2>1. /\ pc[o] \in {"rename", "deleteTemp", "read", "copy"}
          /\ UNCHANGED <<call, handle, owned, reclaim, conn>>
      BY <1>13 DEF Rename, Finish
    <2>2. PICK s \in {"release", "deleteTemp"} : pc' = [pc EXCEPT ![o] = s]
      BY <1>13 DEF Rename, Finish
    <2>3. handle' = [handle EXCEPT ![o] = handle[o]]
      BY <2>1
    <2> QED
      BY <2>1, <2>2, <2>3, Standing, MoveKeeps
  <1>14. ASSUME NEW c \in Conn, CloseWindow(c) PROVE Rest'
    BY <1>14
    DEF CloseWindow, Rest, StagesFit, HandlesFit, OwnedFit, ReclaimFit, DrainedQuiet, StreamsKnown, IsStream
  <1>15. ASSUME NEW c \in Conn, Drained(c) PROVE Rest'
    <2>1. /\ conn[c] = "draining"
          /\ \A o \in Op : Started(o) /\ call[o].conn = c => pc[o] \in {"streaming", "done"}
          /\ conn' = [conn EXCEPT ![c] = "closing"]
          /\ reclaim' = [reclaim EXCEPT ![c] = owned[c]]
          /\ owned' = [owned EXCEPT ![c] = {}]
          /\ UNCHANGED <<call, pc, handle>>
      BY <1>15 DEF Drained, InFlight
    <2>2. StagesFit' /\ HandlesFit'
      BY <2>1 DEF StagesFit, HandlesFit, IsStream
    <2>3. OwnedFit'
      BY <2>1 DEF OwnedFit, IsStream
    <2>4. \A o \in owned[c] : o \in Op /\ Started(o) /\ IsStream(o) /\ call[o].conn = c /\ pc[o] = "streaming"
      BY <2>1 DEF OwnedFit
    <2>5. ReclaimFit'
      BY <2>1, <2>4 DEF ReclaimFit, IsStream
    <2>6. DrainedQuiet'
      BY <2>1 DEF DrainedQuiet
    <2>7. StreamsKnown'
      BY <2>1 DEF StreamsKnown, IsStream
    <2> QED
      BY <2>2, <2>3, <2>6, <2>7, <2>5 DEF Rest
  <1>16. ASSUME NEW c \in Conn, ReclaimHandle(c) PROVE Rest'
    <2>1. PICK o \in reclaim[c] :
            /\ handle' = [handle EXCEPT ![o] = "flushing"] /\ handle[o] = "open"
            /\ UNCHANGED <<call, pc, owned, reclaim, conn>>
      BY <1>16 DEF ReclaimHandle
    <2>2. o \in Op /\ Started(o) /\ call[o].conn = c /\ pc[o] = "streaming" /\ IsStream(o)
      BY <2>1 DEF ReclaimFit
    <2>3. pc' = [pc EXCEPT ![o] = "streaming"]
      BY <2>1, <2>2
    <2>4. o \notin owned[call[o].conn]
      BY <1>16, <2>2, Standing DEF ReclaimHandle
    <2> QED
      BY <2>1, <2>2, <2>3, <2>4, MoveKeeps
  <1>17. ASSUME NEW c \in Conn, Closed(c) PROVE Rest'
    <2>1. /\ conn[c] = "closing" /\ \A h \in reclaim[c] : handle[h] = "closed"
          /\ conn' = [conn EXCEPT ![c] = "closed"]
          /\ reclaim' = [reclaim EXCEPT ![c] = {}]
          /\ UNCHANGED <<call, pc, handle, owned>>
      BY <1>17 DEF Closed
    <2>2. StagesFit' /\ HandlesFit'
      BY <2>1 DEF StagesFit, HandlesFit, IsStream
    <2>3. OwnedFit' /\ ReclaimFit'
      BY <2>1 DEF OwnedFit, ReclaimFit, IsStream
    <2>4. DrainedQuiet' /\ StreamsKnown'
      BY <2>1 DEF DrainedQuiet, StreamsKnown, IsStream
    <2> QED
      BY <2>2, <2>3, <2>4 DEF Rest
  <1>18. ASSUME UNCHANGED vars PROVE Rest'
    <2>1. UNCHANGED <<call, pc, handle, owned, reclaim, conn>>
      BY <1>18 DEF vars
    <2>2. StagesFit' /\ HandlesFit' /\ OwnedFit' /\ ReclaimFit'
      BY <2>1 DEF StagesFit, HandlesFit, OwnedFit, ReclaimFit, IsStream
    <2>3. DrainedQuiet' /\ StreamsKnown'
      BY <2>1 DEF DrainedQuiet, StreamsKnown, IsStream
    <2> QED
      BY <2>2, <2>3 DEF Rest
  <1>19. Rest'
    BY <1>1, <1>2, <1>3, <1>4, <1>5, <1>6, <1>7, <1>8, <1>9, <1>10, <1>11, <1>12, <1>13, <1>14, <1>15,
       <1>16, <1>17, <1>18
    DEF Next, Backend, Drain
  <1> QED
    BY <1>0, <1>19 DEF Rest

-----------------------------------------------------------------------------
(* Operations and their locks *)

LEMMA LockingInit == Init => Locking
  <1> SUFFICES ASSUME Init PROVE Locking
    OBVIOUS
  <1>1. queue = [k \in Path |-> <<>>] /\ \A o \in Op : pc[o] = "idle" /\ handle[o] = "none"
    BY DEF Init, Locks!Init
  <1>2. QueueType /\ QueuesUnique /\ KeysNeeded
    BY <1>1 DEF QueueType, QueuesUnique, KeysNeeded
  <1>3. \A o \in Op, p \in Path : ~Locks!Queued(o, p)
    BY <1>1 DEF Locks!Queued
  <1>4. QueuedFits /\ LocksLeft
    BY <1>3 DEF QueuedFits, LocksLeft
  <1>5. LocksHeld
    BY <1>1 DEF LocksHeld
  <1> QED
    BY <1>2, <1>4, <1>5 DEF Locking

\* A stream has one file, the one its handle is open on.
LEMMA NeededFiles ==
  ASSUME Control, NEW o \in Op, Started(o)
  PROVE  Needed(o) \subseteq Path /\ (IsStream(o) => Needed(o) = {HandlePath(o)})
  <1>1. call[o] \in Call /\ WellFormed(call[o])
    BY DEF Control, Typed, CallsWellFormed
  <1>2. Needed(o) \subseteq Path
    BY <1>1 DEF Needed, Call, Path
  <1>3. IsStream(o) => call[o].other = call[o].path
    BY <1>1 DEF IsStream, WellFormed
  <1>4. IsStream(o) => HandlePath(o) = call[o].path
    BY DEF IsStream, HandlePath
  <1> QED
    BY <1>2, <1>3, <1>4 DEF Needed

\* An operation moves and leaves the queues alone.
LEMMA StayKeeps ==
  ASSUME Control, Locking, NEW o \in Op, NEW s \in PC, NEW h \in {"none", "open", "flushing", "closed"},
         pc' = [pc EXCEPT ![o] = s], handle' = [handle EXCEPT ![o] = h],
         UNCHANGED <<call, remaining, queue>>,
         pc[o] # "acquire", s \notin {"idle", "acquire", "open"},
         s \notin {"release", "done"} /\ ~IsStream(o) => HoldsAll(o),
         h \in {"open", "flushing"} => HoldsAll(o),
         s = "done" \/ (IsStream(o) /\ h = "closed") => \A p \in Path : ~Locks!Queued(o, p)
  PROVE  Locking'
  <1> USE DEF Control, Typed, ControlType, Locking, HoldsAll, Needed, IsStream
  <1>1. \A n \in Op, p \in Path :
          (Locks!Queued(n, p)' <=> Locks!Queued(n, p)) /\ (Locks!Holds(n, p)' <=> Locks!Holds(n, p))
    BY DEF Locks!Queued, Locks!Holds
  <1>2. QueueType' /\ QueuesUnique' /\ KeysNeeded'
    BY DEF QueueType, QueuesUnique, KeysNeeded
  <1>3. QueuedFits'
    BY <1>1 DEF QueuedFits
  <1>4. LocksHeld'
    BY DEF LocksHeld, Locks!Holds
  <1>5. LocksLeft'
    BY <1>1 DEF LocksLeft
  <1> QED
    BY <1>2, <1>3, <1>4, <1>5

\* The others lose nothing when one leaves a queue.
LEMMA OthersHold ==
  ASSUME Control, NEW o \in Op, UNCHANGED call,
         \A n \in Op, p \in Path : n # o /\ Locks!Holds(n, p) => Locks!Holds(n, p)'
  PROVE  \A n \in Op \ {o} :
           /\ \A p \in Needed(n) : Started(n) /\ Locks!Holds(n, p) => Locks!Holds(n, p)'
           /\ Started(n) /\ HoldsAll(n) => HoldsAll(n)'
           /\ handle[n] \in {"open", "flushing"} => Started(n)
  <1>1. \A n \in Op : Started(n) => Needed(n) \subseteq Path
    BY NeededFiles
  <1>2. \A n \in Op : Needed(n)' = Needed(n)
    BY DEF Needed
  <1>3. \A n \in Op : handle[n] \in {"open", "flushing"} => Started(n)
    BY DEF Control, HandlesFit, Started
  <1>4. \A n \in Op \ {o} : \A p \in Needed(n) : Started(n) /\ Locks!Holds(n, p) => Locks!Holds(n, p)'
    BY <1>1
  <1> QED
    BY <1>2, <1>3, <1>4 DEF HoldsAll

LEMMA LockingStep == Control /\ Locking /\ [Next]_vars => Locking'
  <1> SUFFICES ASSUME Control, Locking, [Next]_vars PROVE Locking'
    OBVIOUS
  <1>a. /\ ControlType /\ QueueType /\ QueuesUnique /\ KeysNeeded /\ QueuedFits /\ LocksHeld /\ LocksLeft
    BY DEF Control, Typed, Locking
  <1>1. ASSUME NEW o \in Op, Start(o) PROVE Locking'
    <2>1. PICK job \in Jobs[o] :
            /\ pc[o] = "idle" /\ call' = [call EXCEPT ![o] = job]
            /\ remaining' = [remaining EXCEPT ![o] = Wanted(job)]
            /\ pc' = [pc EXCEPT ![o] = "acquire"]
            /\ UNCHANGED <<queue, handle>>
      BY <1>1 DEF Start, GoTo
    <2>2. job \in Call /\ WellFormed(job)
      BY JobsAssumption
    <2>3. /\ call'[o] = job /\ remaining'[o] = Wanted(job) /\ pc'[o] = "acquire" /\ handle[o] = "none"
          /\ \A n \in Op \ {o} : call'[n] = call[n] /\ remaining'[n] = remaining[n] /\ pc'[n] = pc[n]
      BY <1>a, <2>1 DEF ControlType, Control, HandlesFit
    <2>4. \A p \in Path : ~Locks!Queued(o, p)
      BY <1>a, <2>1 DEF LocksLeft
    <2>5. \A n \in Op, p \in Path :
            (Locks!Queued(n, p)' <=> Locks!Queued(n, p)) /\ (Locks!Holds(n, p)' <=> Locks!Holds(n, p))
      BY <2>1 DEF Locks!Queued, Locks!Holds
    <2>6. /\ \A j \in 1 .. Len(Wanted(job)) : Wanted(job)[j] \in {job.path, job.other}
          /\ \A p \in {job.path, job.other} : \E j \in 1 .. Len(Wanted(job)) : Wanted(job)[j] = p
      BY <2>2, WantedType
    <2>7. \A n \in Op \ {o} : Needed(n)' = Needed(n) /\ IsStream(n)' = IsStream(n)
      BY <2>3 DEF Needed, IsStream
    <2>8. Needed(o)' = {job.path, job.other}
      BY <2>3 DEF Needed
    <2>9. QueueType' /\ QueuesUnique'
      BY <1>a, <2>1 DEF QueueType, QueuesUnique
    <2>10. KeysNeeded'
      BY <1>a, <2>3, <2>6, <2>7, <2>8 DEF KeysNeeded
    <2>11. QueuedFits'
      BY <1>a, <2>3, <2>4, <2>5, <2>7 DEF QueuedFits
    <2>12. LocksHeld'
      <3> SUFFICES ASSUME NEW n \in Op
                   PROVE  /\ pc'[n] = "acquire" =>
                               \A p \in Needed(n)' :
                                 Locks!Holds(n, p)' \/ \E j \in 1 .. Len(remaining'[n]) : remaining'[n][j] = p
                          /\ pc'[n] = "open" => HoldsAll(n)'
                          /\ pc'[n] \notin {"idle", "acquire", "release", "done"} /\ ~IsStream(n)' => HoldsAll(n)'
                          /\ handle'[n] \in {"open", "flushing"} => HoldsAll(n)'
        BY DEF LocksHeld
      <3>1. CASE n = o
        BY <2>1, <2>3, <2>6, <2>8, <3>1
      <3>2. CASE n # o
        <4>1. HoldsAll(n)' <=> HoldsAll(n)
          BY <2>1, <2>3, <3>2 DEF HoldsAll, Needed, Locks!Holds
        <4>2. \A p : Locks!Holds(n, p)' <=> Locks!Holds(n, p)
          BY <2>1 DEF Locks!Holds
        <4> QED
          BY <1>a, <2>1, <2>3, <2>7, <3>2, <4>1, <4>2 DEF LocksHeld
      <3> QED
        BY <3>1, <3>2
    <2>13. LocksLeft'
      BY <1>a, <2>1, <2>3, <2>4, <2>5, <2>7 DEF LocksLeft
    <2> QED
      BY <2>9, <2>10, <2>11, <2>12, <2>13 DEF Locking
  <1>2. ASSUME NEW o \in Op, Await(o) PROVE Locking'
    <2>1. /\ pc[o] = "acquire" /\ Locks!Join(o, Head(remaining[o]))
          /\ UNCHANGED <<call, pc, remaining, handle>>
      BY <1>2 DEF Await
    <2> DEFINE k == Head(remaining[o])
    <2>2. k \in Needed(o) /\ k \in Path
      <3>1. remaining[o] \in Seq(Path) /\ remaining[o] # <<>>
        BY <2>1 DEF Control, Typed, ControlType, KeysToCome
      <3>2. k = remaining[o][1] /\ 1 \in 1 .. Len(remaining[o]) /\ k \in Path
        BY <3>1
      <3> QED
        BY <1>a, <2>1, <3>2 DEF KeysNeeded
    <2> HIDE DEF k
    <2>3. /\ QueueType' /\ QueuesUnique'
          /\ \A n \in Op, p \in Path : Locks!Holds(n, p) => Locks!Holds(n, p)'
          /\ \A n \in Op, p \in Path : Locks!Queued(n, p)' => Locks!Queued(n, p) \/ (n = o /\ p = k)
      BY <1>a, <2>1, <2>2, JoinKeeps DEF k
    <2>4. /\ \A n \in Op : Started(n) => Needed(n) \subseteq Path
          /\ \A n \in Op : ~Started(n) => handle[n] = "none"
      BY NeededFiles DEF Control, HandlesFit, Started
    <2>5. \A n \in Op : Needed(n)' = Needed(n) /\ (IsStream(n)' <=> IsStream(n))
      BY <2>1 DEF Needed, IsStream
    <2>6. \A n \in Op : Started(n) /\ HoldsAll(n) => HoldsAll(n)'
      BY <2>3, <2>4, <2>5 DEF HoldsAll
    <2>7. KeysNeeded' /\ QueuedFits'
      BY <1>a, <2>1, <2>2, <2>3 DEF KeysNeeded, QueuedFits, Needed, k
    <2>8. LocksHeld'
      BY <1>a, <2>1, <2>3, <2>4, <2>5, <2>6 DEF LocksHeld, Started
    <2>9. LocksLeft'
      BY <1>a, <2>1, <2>3 DEF LocksLeft, IsStream, Control, HandlesFit
    <2> QED
      BY <2>3, <2>7, <2>8, <2>9 DEF Locking
  <1>3. ASSUME NEW o \in Op, Acquired(o) PROVE Locking'
    <2> DEFINE k == Head(remaining[o])
    <2>1. /\ pc[o] = "acquire" /\ Locks!Holds(o, k) /\ remaining' = [remaining EXCEPT ![o] = Tail(@)]
          /\ Started(o) /\ UNCHANGED <<call, queue, handle>>
      BY <1>3 DEF Acquired, Started
    <2>2. remaining[o] \in Seq(Path) /\ remaining[o] # <<>> /\ handle[o] = "none"
      BY <2>1 DEF Control, Typed, ControlType, KeysToCome, HandlesFit
    <2>3. /\ k = remaining[o][1]
          /\ Len(remaining[o]) = 1 => \A i \in 1 .. Len(remaining[o]) : remaining[o][i] = k
          /\ \A j \in 1 .. Len(Tail(remaining[o])) :
               \E i \in 1 .. Len(remaining[o]) : Tail(remaining[o])[j] = remaining[o][i]
          /\ \A i \in 1 .. Len(remaining[o]) :
               i = 1 \/ \E j \in 1 .. Len(Tail(remaining[o])) : Tail(remaining[o])[j] = remaining[o][i]
      BY <2>2, TailKeys
    <2> HIDE DEF k
    <2>4. /\ remaining'[o] = Tail(remaining[o])
          /\ \A n \in Op \ {o} : remaining'[n] = remaining[n] /\ pc'[n] = pc[n]
      BY <1>3, <2>1 DEF Acquired, GoTo, Control, Typed, ControlType
    <2>5. /\ Len(remaining[o]) = 1 => pc'[o] \in {"read", "copy", "open"}
          /\ Len(remaining[o]) # 1 => pc'[o] = "acquire"
      <3>1. CASE Len(remaining[o]) = 1
        <4>1. pc' = [pc EXCEPT ![o] = FirstStep(call[o].kind)]
          BY <1>3, <3>1 DEF Acquired, GoTo
        <4> QED
          BY <1>a, <3>1, <4>1, Branches DEF ControlType
      <3>2. CASE Len(remaining[o]) # 1
        BY <1>3, <2>1, <3>2 DEF Acquired
      <3> QED
        BY <3>1, <3>2
    <2>6. \A n \in Op : Needed(n)' = Needed(n) /\ (IsStream(n)' <=> IsStream(n))
      BY <2>1 DEF Needed, IsStream
    <2>7. \A n \in Op, p \in Path :
            (Locks!Queued(n, p)' <=> Locks!Queued(n, p)) /\ (Locks!Holds(n, p)' <=> Locks!Holds(n, p))
      BY <2>1 DEF Locks!Queued, Locks!Holds
    <2>8. \A p \in Needed(o) :
            \/ Locks!Holds(o, p)
            \/ Len(remaining[o]) # 1 /\ \E j \in 1 .. Len(remaining'[o]) : remaining'[o][j] = p
      <3> SUFFICES ASSUME NEW p \in Needed(o), ~Locks!Holds(o, p)
                   PROVE  Len(remaining[o]) # 1 /\ \E j \in 1 .. Len(remaining'[o]) : remaining'[o][j] = p
        OBVIOUS
      <3>1. PICK i \in 1 .. Len(remaining[o]) : remaining[o][i] = p
        BY <1>a, <2>1 DEF LocksHeld
      <3>2. p # k
        BY <2>1
      <3>3. i # 1 /\ Len(remaining[o]) # 1
        BY <2>3, <3>1, <3>2
      <3>4. PICK j \in 1 .. Len(Tail(remaining[o])) : Tail(remaining[o])[j] = p
        BY <2>3, <3>1, <3>3
      <3> QED
        BY <2>4, <3>3, <3>4
    <2>9. QueueType' /\ QueuesUnique'
      BY <1>a, <2>1 DEF QueueType, QueuesUnique
    <2>10. KeysNeeded'
      <3>1. \A j \in 1 .. Len(remaining'[o]) : remaining'[o][j] \in Needed(o)'
        <4>1. \A i \in 1 .. Len(remaining[o]) : remaining[o][i] \in Needed(o)
          BY <1>a, <2>1 DEF KeysNeeded
        <4>2. \A j \in 1 .. Len(Tail(remaining[o])) : Tail(remaining[o])[j] \in Needed(o)
          BY <2>3, <4>1
        <4> QED
          BY <2>4, <2>6, <4>2
      <3>2. ASSUME NEW n \in Op \ {o}, pc'[n] = "acquire"
            PROVE  \A j \in 1 .. Len(remaining'[n]) : remaining'[n][j] \in Needed(n)'
        BY <1>a, <2>4, <2>6, <3>2 DEF KeysNeeded
      <3> QED
        BY <3>1, <3>2 DEF KeysNeeded
    <2>11. QueuedFits'
      BY <1>a, <2>1, <2>4, <2>6, <2>7 DEF QueuedFits, k
    <2>12. LocksHeld'
      <3> SUFFICES ASSUME NEW n \in Op
                   PROVE  /\ pc'[n] = "acquire" =>
                               \A p \in Needed(n)' :
                                 Locks!Holds(n, p)' \/ \E j \in 1 .. Len(remaining'[n]) : remaining'[n][j] = p
                          /\ pc'[n] = "open" => HoldsAll(n)'
                          /\ pc'[n] \notin {"idle", "acquire", "release", "done"} /\ ~IsStream(n)' => HoldsAll(n)'
                          /\ handle'[n] \in {"open", "flushing"} => HoldsAll(n)'
        BY DEF LocksHeld
      <3>1. \A p : Locks!Holds(n, p)' <=> Locks!Holds(n, p)
        BY <2>1 DEF Locks!Holds
      <3>2. CASE n = o
        <4>1. Len(remaining[o]) = 1 => HoldsAll(o)'
          BY <2>6, <2>8, <3>1, <3>2 DEF HoldsAll
        <4>2. handle'[o] = "none"
          BY <2>1, <2>2
        <4>3. CASE Len(remaining[o]) = 1
          BY <2>5, <3>2, <4>1, <4>2, <4>3
        <4>4. CASE Len(remaining[o]) # 1
          BY <2>5, <2>6, <2>8, <3>1, <3>2, <4>2, <4>4
        <4> QED
          BY <4>3, <4>4
      <3>3. CASE n # o
        <4>1. HoldsAll(n)' <=> HoldsAll(n)
          BY <2>6, <3>1 DEF HoldsAll
        <4> QED
          BY <1>a, <2>1, <2>4, <2>6, <3>1, <3>3, <4>1 DEF LocksHeld
      <3> QED
        BY <3>2, <3>3
    <2>13. LocksLeft'
      BY <1>a, <2>1, <2>2, <2>4, <2>5, <2>6, <2>7 DEF LocksLeft
    <2> QED
      BY <2>9, <2>10, <2>11, <2>12, <2>13 DEF Locking
  <1>4. ASSUME NEW o \in Op, Release(o) PROVE Locking'
    <2>1. /\ pc[o] = "release" /\ UNCHANGED <<call, remaining, handle>>
          /\ Started(o) /\ handle[o] \notin {"open", "flushing"}
      BY <1>4 DEF Release, Started, Control, HandlesFit
    <2>2. PICK k \in Path :
            /\ Locks!Leave(o, k)
            /\ \/ pc' = [pc EXCEPT ![o] = "done"] /\ \A j \in Path \ {k} : ~Locks!Holds(o, j)
               \/ UNCHANGED pc
      BY <1>4 DEF Release, GoTo
    <2>3. /\ QueueType' /\ QueuesUnique'
          /\ \A n \in Op, p \in Path : Locks!Holds(n, p) /\ (n # o \/ p # k) => Locks!Holds(n, p)'
          /\ \A n \in Op, p \in Path : Locks!Queued(n, p)' => Locks!Queued(n, p) /\ (n # o \/ p # k)
      BY <1>a, <2>2, LeaveKeeps
    <2>4. /\ pc'[o] \in {"release", "done"} /\ \A n \in Op \ {o} : pc'[n] = pc[n]
          /\ pc'[o] = "done" => \A j \in Path \ {k} : ~Locks!Holds(o, j)
      BY <1>a, <2>1, <2>2 DEF ControlType
    <2>5. \A n \in Op : Needed(n)' = Needed(n) /\ (IsStream(n)' <=> IsStream(n))
      BY <2>1 DEF Needed, IsStream
    <2>6. KeysNeeded'
      BY <1>a, <2>1, <2>4, <2>5 DEF KeysNeeded
    <2>7. \A p \in Path : Locks!Queued(o, p)' => Locks!Holds(o, p) /\ Locks!Holds(o, p)'
      BY <1>a, <2>1, <2>3 DEF QueuedFits
    <2>8. QueuedFits'
      BY <1>a, <2>1, <2>3, <2>4, <2>5, <2>7 DEF QueuedFits
    <2>9. LocksHeld'
      <3> SUFFICES ASSUME NEW n \in Op
                   PROVE  /\ pc'[n] = "acquire" =>
                               \A p \in Needed(n)' :
                                 Locks!Holds(n, p)' \/ \E j \in 1 .. Len(remaining'[n]) : remaining'[n][j] = p
                          /\ pc'[n] = "open" => HoldsAll(n)'
                          /\ pc'[n] \notin {"idle", "acquire", "release", "done"} /\ ~IsStream(n)' => HoldsAll(n)'
                          /\ handle'[n] \in {"open", "flushing"} => HoldsAll(n)'
          BY DEF LocksHeld
      <3>1. CASE n = o
        BY <2>1, <2>4, <3>1
      <3>2. CASE n # o
        <4>1. /\ \A p \in Needed(n) : Started(n) /\ Locks!Holds(n, p) => Locks!Holds(n, p)'
              /\ Started(n) /\ HoldsAll(n) => HoldsAll(n)'
              /\ handle[n] \in {"open", "flushing"} => Started(n)
          BY <2>1, <2>3, <3>2, OthersHold
        <4> QED
          BY <1>a, <2>1, <2>4, <2>5, <3>2, <4>1 DEF LocksHeld, Started
      <3> QED
        BY <3>1, <3>2
    <2>10. LocksLeft'
      BY <1>a, <2>1, <2>3, <2>4, <2>5, <2>7 DEF LocksLeft
    <2> QED
      BY <2>3, <2>6, <2>8, <2>9, <2>10 DEF Locking
  <1>5. ASSUME NEW o \in Op, Flush(o) PROVE Locking'
    <2>1. /\ handle[o] = "flushing" /\ handle' = [handle EXCEPT ![o] = "closed"]
          /\ pc[o] \in {"flush", "streaming"} /\ Started(o)
          /\ UNCHANGED <<call, remaining>>
          /\ IF pc[o] = "flush" THEN pc' = [pc EXCEPT ![o] = AfterClose(o)] ELSE UNCHANGED pc
      BY <1>5 DEF Flush, GoTo, Control, HandlesFit, Started
    <2>2. HoldsAll(o)
      BY <1>a, <2>1 DEF LocksHeld
    <2>3. CASE ~IsStream(o)
      <3>1. UNCHANGED queue /\ pc[o] = "flush"
        BY <1>5, <2>1, <2>3, Standing DEF Flush, IsStream
      <3>2. PICK s \in {"rename", "release"} : pc' = [pc EXCEPT ![o] = s]
        BY <2>1, <2>3, <3>1, Branches DEF IsStream
      <3> QED
        BY <2>1, <2>2, <2>3, <3>1, <3>2, StayKeeps DEF PC
    <2>4. CASE IsStream(o)
      <3> DEFINE k == HandlePath(o)
      <3>1. Locks!Leave(o, k) /\ Needed(o) = {k} /\ k \in Path
        BY <1>5, <2>1, <2>4, NeededFiles DEF Flush, IsStream
      <3> HIDE DEF k
      <3>2. /\ QueueType' /\ QueuesUnique'
            /\ \A n \in Op, p \in Path : Locks!Holds(n, p) /\ (n # o \/ p # k) => Locks!Holds(n, p)'
            /\ \A n \in Op, p \in Path : Locks!Queued(n, p)' => Locks!Queued(n, p) /\ (n # o \/ p # k)
        BY <1>a, <3>1, LeaveKeeps
      <3>3. \A p \in Path : ~Locks!Queued(o, p)'
        BY <1>a, <3>1, <3>2 DEF QueuedFits
      <3>4. /\ pc'[o] \in {"streaming", "done"} /\ handle'[o] = "closed"
            /\ \A n \in Op \ {o} : pc'[n] = pc[n] /\ handle'[n] = handle[n]
        BY <1>a, <2>1, <2>4, Branches DEF ControlType, IsStream
      <3>5. \A n \in Op : Needed(n)' = Needed(n) /\ (IsStream(n)' <=> IsStream(n))
        BY <2>1 DEF Needed, IsStream
      <3>6. KeysNeeded'
        BY <1>a, <2>1, <3>4, <3>5 DEF KeysNeeded
      <3>7. QueuedFits'
        BY <1>a, <2>1, <3>2, <3>3, <3>4, <3>5 DEF QueuedFits
      <3>8. LocksHeld'
        <4> SUFFICES ASSUME NEW n \in Op
                     PROVE  /\ pc'[n] = "acquire" =>
                                 \A p \in Needed(n)' :
                                   Locks!Holds(n, p)' \/ \E j \in 1 .. Len(remaining'[n]) : remaining'[n][j] = p
                            /\ pc'[n] = "open" => HoldsAll(n)'
                            /\ pc'[n] \notin {"idle", "acquire", "release", "done"} /\ ~IsStream(n)' => HoldsAll(n)'
                            /\ handle'[n] \in {"open", "flushing"} => HoldsAll(n)'
            BY DEF LocksHeld
        <4>1. CASE n = o
          BY <2>4, <3>4, <3>5, <4>1
        <4>2. CASE n # o
          <5>1. /\ \A p \in Needed(n) : Started(n) /\ Locks!Holds(n, p) => Locks!Holds(n, p)'
                /\ Started(n) /\ HoldsAll(n) => HoldsAll(n)'
                /\ handle[n] \in {"open", "flushing"} => Started(n)
            BY <2>1, <3>2, <4>2, OthersHold
          <5> QED
            BY <1>a, <2>1, <3>4, <3>5, <4>2, <5>1 DEF LocksHeld, Started
        <4> QED
          BY <4>1, <4>2
      <3>9. LocksLeft'
        BY <1>a, <2>1, <3>2, <3>3, <3>4, <3>5 DEF LocksLeft
      <3> QED
        BY <3>2, <3>6, <3>7, <3>8, <3>9 DEF Locking
    <2> QED
      BY <2>3, <2>4
  <1>6. ASSUME NEW o \in Op, Register(o) \/ ClientWrite(o) \/ ClientClose(o) PROVE Locking'
    <2>1. /\ pc[o] \in {"register", "streaming"} /\ UNCHANGED <<call, remaining, queue, handle>>
          /\ Started(o) /\ handle[o] \in {"none", "open", "flushing", "closed"}
      BY <1>a, <1>6 DEF Register, ClientWrite, ClientClose, CanUseHandle, Started, ControlType
    <2>2. IsStream(o) /\ (handle[o] \in {"open", "flushing"} => HoldsAll(o))
      BY <1>a, <2>1, Standing DEF LocksHeld
    <2>3. PICK s \in {"streaming", "resolve", "close"} : pc' = [pc EXCEPT ![o] = s]
      BY <1>6 DEF Register, ClientWrite, ClientClose, GoTo
    <2>4. handle' = [handle EXCEPT ![o] = handle[o]]
      BY <1>a, <2>1 DEF ControlType
    <2>5. handle[o] = "closed" => \A p \in Path : ~Locks!Queued(o, p)
      BY <1>a, <2>2 DEF LocksLeft
    <2> QED
      BY <2>1, <2>2, <2>3, <2>4, <2>5, StayKeeps DEF PC
  <1>7. ASSUME NEW o \in Op, Open(o) PROVE Locking'
    <2>1. /\ pc[o] = "open" /\ UNCHANGED <<call, remaining, queue>> /\ handle[o] = "none"
      BY <1>7 DEF Open, Control, HandlesFit
    <2>2. HoldsAll(o)
      BY <1>a, <2>1 DEF LocksHeld
    <2>3. PICK s \in {"register", "resolve", "release"}, h \in {"none", "open"} :
            pc' = [pc EXCEPT ![o] = s] /\ handle' = [handle EXCEPT ![o] = h]
      <3>1. \E s \in {"register", "resolve", "release"} : pc' = [pc EXCEPT ![o] = s]
        BY <1>7 DEF Open, GoTo
      <3>2. handle' = [handle EXCEPT ![o] = "open"] \/ UNCHANGED handle
        BY <1>7 DEF Open
      <3>3. UNCHANGED handle => handle' = [handle EXCEPT ![o] = "none"]
        BY <1>a, <2>1 DEF ControlType
      <3> QED
        BY <3>1, <3>2, <3>3
    <2> QED
      BY <2>1, <2>2, <2>3, StayKeeps DEF PC
  <1>8. ASSUME NEW o \in Op, Resolve(o) \/ Pwrite(o) \/ Close(o) PROVE Locking'
    <2>1. /\ pc[o] \in {"resolve", "pwrite", "close"} /\ UNCHANGED <<call, remaining, queue>>
          /\ handle[o] = "open"
      BY <1>8 DEF Resolve, Pwrite, Close, Control, HandlesFit
    <2>2. HoldsAll(o)
      BY <1>a, <2>1 DEF LocksHeld
    <2>3. PICK s \in {"pwrite", "resolve", "streaming", "close", "flush"}, h \in {"open", "flushing"} :
            pc' = [pc EXCEPT ![o] = s] /\ handle' = [handle EXCEPT ![o] = h]
      <3>1. UNCHANGED handle => handle' = [handle EXCEPT ![o] = "open"]
        BY <1>a, <2>1 DEF ControlType
      <3>2. CASE Resolve(o)
        BY <2>1, <3>1, <3>2 DEF Resolve, GoTo
      <3>3. CASE Pwrite(o)
        <4>1. AfterWrite(o) \in {"streaming", "close"}
          BY DEF AfterWrite
        <4>2. \E s \in {"resolve", "streaming", "close"} : pc' = [pc EXCEPT ![o] = s]
          BY <3>3, <4>1 DEF Pwrite, WriteFails, GoTo
        <4> QED
          BY <3>1, <3>3, <4>2 DEF Pwrite
      <3>4. CASE Close(o)
        BY <2>1, <3>4 DEF Close, GoTo
      <3> QED
        BY <1>8, <3>2, <3>3, <3>4
    <2> QED
      BY <2>1, <2>2, <2>3, StayKeeps DEF PC
  <1>9. ASSUME NEW o \in Op, Rename(o) \/ Finish(o) PROVE Locking'
    <2>1. /\ pc[o] \in {"rename", "deleteTemp", "read", "copy"}
          /\ UNCHANGED <<call, remaining, queue, handle>> /\ Started(o)
          /\ handle[o] \in {"none", "closed"}
      BY <1>a, <1>9 DEF Rename, Finish, Started, Control, HandlesFit, ControlType
    <2>2. ~IsStream(o) /\ HoldsAll(o)
      BY <1>a, <2>1, Standing DEF LocksHeld
    <2>3. PICK s \in {"release", "deleteTemp"} : pc' = [pc EXCEPT ![o] = s]
      BY <1>9 DEF Rename, Finish, GoTo
    <2>4. handle' = [handle EXCEPT ![o] = handle[o]]
      BY <1>a, <2>1 DEF ControlType
    <2> QED
      BY <2>1, <2>2, <2>3, <2>4, StayKeeps DEF PC
  <1>10. ASSUME NEW c \in Conn, ReclaimHandle(c) PROVE Locking'
    <2>1. PICK o \in reclaim[c] :
            /\ handle' = [handle EXCEPT ![o] = "flushing"] /\ handle[o] = "open"
            /\ UNCHANGED <<call, pc, remaining, queue>>
      BY <1>10 DEF ReclaimHandle
    <2>2. o \in Op /\ IsStream(o) /\ pc[o] = "streaming"
      BY <1>a, <2>1 DEF Control, ReclaimFit, ControlType
    <2>3. pc' = [pc EXCEPT ![o] = "streaming"] /\ HoldsAll(o)
      BY <1>a, <2>1, <2>2 DEF ControlType, LocksHeld
    <2> QED
      BY <2>1, <2>2, <2>3, StayKeeps DEF PC
  <1>11. ASSUME UNCHANGED <<call, pc, remaining, queue, handle>> PROVE Locking'
    <2>1. \A n, p : /\ Locks!Queued(n, p)' <=> Locks!Queued(n, p)
                    /\ Locks!Holds(n, p)' <=> Locks!Holds(n, p)
      BY <1>11 DEF Locks!Queued, Locks!Holds
    <2>2. QueueType' /\ QueuesUnique' /\ KeysNeeded'
      BY <1>a, <1>11 DEF QueueType, QueuesUnique, KeysNeeded, Needed
    <2>3. QueuedFits' /\ LocksHeld' /\ LocksLeft'
      BY <1>a, <1>11, <2>1 DEF QueuedFits, LocksHeld, LocksLeft, HoldsAll, Needed, IsStream
    <2> QED
      BY <2>2, <2>3 DEF Locking
  <1>12. ASSUME NEW c \in Conn, CloseWindow(c) \/ Drained(c) \/ Closed(c) PROVE Locking'
    BY <1>11, <1>12 DEF CloseWindow, Drained, Closed
  <1>13. CASE UNCHANGED vars
    BY <1>11, <1>13 DEF vars
  <1> QED
    BY <1>1, <1>2, <1>3, <1>4, <1>5, <1>6, <1>7, <1>8, <1>9, <1>10, <1>12, <1>13
    DEF Next, Backend, Drain

-----------------------------------------------------------------------------
(* Theorems *)

LEMMA Invariant == Spec => [](Control /\ Locking)
  <1>1. Init => Control /\ Locking
    BY ControlInit, LockingInit
  <1>2. Control /\ Locking /\ [Next]_vars => (Control /\ Locking)'
    BY ControlStep, LockingStep
  <1> QED
    BY <1>1, <1>2, PTL DEF Spec

\* Type correctness, for every set of calls: a write is tried no more often than
\* WRITE_RETRIES allows (the retry loop of `write`, provider.rs), and a key is
\* taken off an operation's list only once its lock is there.
THEOREM TypeCorrect == Spec => []TypeOK
  <1>1. Control /\ Locking => TypeOK
    BY DEF Control, Typed, ControlType, Locking, QueueType, TypeOK
  <1> QED
    BY <1>1, Invariant, PTL

\* "two concurrent writers to one file cannot interleave" (provider.rs), and no
\* atomic read or clone sees a file that is being written: whoever is at a file
\* holds its lock, from the open to the end of the last write, also when the
\* window closes half way.
THEOREM WritersExclude == Spec => []NoInterleaving
  <1>1. ASSUME Control, Locking PROVE NoInterleaving
    <2>1. ASSUME NEW o \in Op, NEW p \in Path, Writes(o, p) \/ Reads(o, p)
          PROVE  Locks!Holds(o, p)
      <3>1. /\ Started(o)
            /\ \/ HandleInUse(o) /\ HandlePath(o) = p
               \/ pc[o] \in {"rename", "deleteTemp"} /\ p \in {call[o].path, call[o].other}
               \/ pc[o] \in {"read", "copy"} /\ p \in {call[o].path, call[o].other}
        BY <2>1 DEF Writes, Reads, Started
      <3>2. p \in Needed(o)
        BY <3>1 DEF Needed, HandlePath
      <3>3. HandleInUse(o) => handle[o] \in {"open", "flushing"}
        BY <1>1, <3>1, Standing DEF HandleInUse
      <3>4. ~IsStream(o) \/ handle[o] \in {"open", "flushing"}
        BY <1>1, <3>1, <3>3, Standing
      <3>5. HoldsAll(o)
        BY <1>1, <3>1, <3>3, <3>4 DEF Locking, LocksHeld
      <3> QED
        BY <3>2, <3>5 DEF HoldsAll
    <2> QED
      BY <2>1, OneHolder DEF NoInterleaving
  <1> QED
    BY <1>1, Invariant, PTL

\* A window that is closed has left nothing in the provider that all windows
\* share: no open handle, no lock and no place in the queue of a lock
\* (Connection::close, rpc.rs; close_handles, channels/file.rs).
THEOREM ClosedHoldsNothing == Spec => []NothingLeftBehind
  <1>1. ASSUME Control, Locking PROVE NothingLeftBehind
    <2> SUFFICES ASSUME NEW o \in Op, Started(o), conn[call[o].conn] = "closed"
                 PROVE  handle[o] \in {"none", "closed"} /\ \A p \in Path : ~Locks!Queued(o, p)
      BY DEF NothingLeftBehind
    <2>1. pc[o] \in {"streaming", "done"} /\ handle[o] \in {"none", "open", "flushing", "closed"}
      BY <1>1, Standing
    <2>2. CASE pc[o] = "streaming"
      <3>1. IsStream(o)
        BY <1>1, <2>2, Standing
      <3>2. handle[o] = "closed"
        BY <1>1, <2>2, <3>1 DEF Control, StreamsKnown
      <3> QED
        BY <1>1, <3>1, <3>2 DEF Locking, LocksLeft
    <2>3. CASE pc[o] = "done"
      <3>1. handle[o] \in {"none", "closed"}
        BY <1>1, <2>1, <2>3 DEF Control, HandlesFit
      <3> QED
        BY <1>1, <2>3, <3>1 DEF Locking, LocksLeft
    <2> QED
      BY <2>1, <2>2, <2>3
  <1> QED
    BY <1>1, Invariant, PTL

\* The operations use the locks as a lock service may be used: nobody takes a
\* place in a queue twice or gives up a lock somebody else has.  What
\* ResourceLocks promises of that service (locks.rs) holds under all of them.
THEOREM UsesLockService == Spec => Locks!Spec
  <1>1. Init => Locks!Init
    BY DEF Init
  <1>2. Control /\ [Next]_vars => [Locks!Next]_queue
    <2> SUFFICES ASSUME Control, [Next]_vars, queue' # queue
                 PROVE  \E c \in Op, k \in Path : Locks!Join(c, k) \/ Locks!Leave(c, k)
      BY DEF Locks!Next
    <2>1. ASSUME NEW o \in Op, Await(o) PROVE Head(remaining[o]) \in Path /\ Locks!Join(o, Head(remaining[o]))
      <3>1. remaining[o] \in Seq(Path) /\ remaining[o] # <<>>
        BY <2>1 DEF Await, Control, Typed, ControlType, KeysToCome
      <3> QED
        BY <2>1, <3>1, TailKeys DEF Await
    <2>2. ASSUME NEW o \in Op, Release(o) PROVE \E k \in Path : Locks!Leave(o, k)
      BY <2>2 DEF Release
    <2>3. ASSUME NEW o \in Op, Flush(o) PROVE \E k \in Path : Locks!Leave(o, k)
      <3>1. IsStream(o) /\ Started(o) /\ Locks!Leave(o, HandlePath(o))
        BY <2>3 DEF Flush, IsStream, Started, Control, HandlesFit
      <3> QED
        BY <3>1, NeededFiles
    <2>4. /\ \A o \in Op :
               /\ Start(o) \/ Acquired(o) \/ Open(o) \/ Register(o) \/ Resolve(o) \/ Pwrite(o) => FALSE
               /\ Close(o) \/ Rename(o) \/ Finish(o) \/ ClientWrite(o) \/ ClientClose(o) => FALSE
          /\ \A c \in Conn : CloseWindow(c) \/ Drained(c) \/ ReclaimHandle(c) \/ Closed(c) => FALSE
          /\ ~UNCHANGED vars
      BY DEF Start, Acquired, Open, Register, Resolve, Pwrite, Close, Rename, Finish, ClientWrite, ClientClose,
             CloseWindow, Drained, ReclaimHandle, Closed, vars
    <2> QED
      BY <2>1, <2>2, <2>3, <2>4 DEF Next, Backend, Drain
  <1> QED
    BY <1>1, <1>2, Invariant, PTL DEF Spec, Locks!Spec
=============================================================================
