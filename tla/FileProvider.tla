---------------------------- MODULE FileProvider ----------------------------
(***************************************************************************)
(* The disk provider's locked operations (tscode-fs/src/provider.rs), the  *)
(* file channel that lends its handles to one connection                   *)
(* (tscode-app/src/channels/file.rs), the close of a connection            *)
(* (tscode-app/src/rpc.rs) and the file service in front of them           *)
(* (vs/platform/files/common/fileService.ts).                              *)
(*                                                                         *)
(* All connections share one provider and so one lock per resource         *)
(* (LockService).  An operation is one `call` record and runs once:        *)
(*   stream       open for writing, write chunk by chunk, close            *)
(*   write        writeFile in place                                       *)
(*   atomicWrite  writeFile to a temporary sibling, then rename            *)
(*   atomicRead   readFile with opts.atomic                                *)
(*   clone        cloneFile                                                *)
(* A handle is named by the operation that opened it.  Operations that     *)
(* take no lock (stat, readdir, mkdir, delete, rename, copy, plain reads)  *)
(* are no part of what the locks promise and are left out.                 *)
(***************************************************************************)
EXTENDS Naturals, Sequences

CONSTANTS Op,            \* operations, each run at most once
          Conn,          \* connections (windows)
          Closing,       \* the connections that may be closed
          File,          \* files, numbered in the order of their keys
          Jobs,          \* Jobs[o]: the calls that the clients may make as o
          WriteRetries,  \* WRITE_RETRIES (3 in the code)
          None           \* an operation that has not started

Kind == {"stream", "write", "atomicWrite", "atomicRead", "clone"}

\* resource.sibling_path(postfix): it sorts right after the file itself.
Temp(f) == f + 1

Path == File \cup {Temp(f) : f \in File}

Call == [conn : Conn, kind : Kind, path : File, other : Path]

\* The second path is the temporary sibling of an atomic write and the target
\* of a clone (clone_file returns early when both paths are the same); the
\* other kinds have one path.
WellFormed(job) ==
  CASE job.kind = "atomicWrite" -> job.other = Temp(job.path)
    [] job.kind = "clone" -> job.other \in File \ {job.path}
    [] OTHER -> job.other = job.path

ASSUME FileAssumption == File \subseteq Nat /\ \A f \in File : Temp(f) \notin File
ASSUME ClosingAssumption == Closing \subseteq Conn
ASSUME JobsAssumption == Jobs \in [Op -> SUBSET {job \in Call : WellFormed(job)}]
ASSUME RetriesAssumption == WriteRetries \in Nat

VARIABLES call,       \* [conn, kind, path, other] of each operation
          pc,         \* where the operation is
          remaining,  \* the keys it has yet to lock, in order
          queue,      \* the resource locks: LockService
          handle,     \* the state of the handle it opened
          attempt,    \* failed attempts of its current write
          owned,      \* FileChannel::handles of each connection
          reclaim,    \* the handles `close_handles` took to close
          conn        \* the state of each connection

vars == <<call, pc, remaining, queue, handle, attempt, owned, reclaim, conn>>

Locks == INSTANCE LockService WITH Caller <- Op, Key <- Path

PC == {"idle", "acquire", "open", "register", "streaming", "resolve", "pwrite",
       "close", "flush", "rename", "deleteTemp", "read", "copy", "release", "done"}

Init ==
  /\ call = [o \in Op |-> None]
  /\ pc = [o \in Op |-> "idle"]
  /\ remaining = [o \in Op |-> <<>>]
  /\ Locks!Init
  /\ handle = [o \in Op |-> "none"]
  /\ attempt = [o \in Op |-> 0]
  /\ owned = [c \in Conn |-> {}]
  /\ reclaim = [c \in Conn |-> {}]
  /\ conn = [c \in Conn |-> "open"]

Started(o) == pc[o] # "idle"

\* The file the operation's handle is open on.
HandlePath(o) ==
  IF call[o].kind = "atomicWrite" THEN call[o].other ELSE call[o].path

\* Mutant of InKeyOrder: the locks are taken in the order of the arguments.
InArgumentOrder(a, b) == <<a, b>>

\* acquire_pair: both locks in key order.
InKeyOrder(a, b) == IF a <= b THEN <<a, b>> ELSE <<b, a>>

Wanted(job) ==
  IF job.kind \in {"atomicWrite", "clone"} THEN InKeyOrder(job.path, job.other)
  ELSE <<job.path>>

\* ResourceQueue: a window runs one operation at a time on a file, except that
\* a clone goes straight to the provider.
WriteQueueFree(c, f) ==
  \A o \in Op : Started(o) /\ pc[o] # "done" /\ call[o].conn = c
                  /\ call[o].kind # "clone" => call[o].path # f

GoTo(o, there) == pc' = [pc EXCEPT ![o] = there]

\* A window calls the provider.
Start(o) ==
  \E job \in Jobs[o] :
    /\ pc[o] = "idle"
    /\ conn[job.conn] = "open"
    /\ job.kind = "clone" \/ WriteQueueFree(job.conn, job.path)
    /\ call' = [call EXCEPT ![o] = job]
    /\ remaining' = [remaining EXCEPT ![o] = Wanted(job)]
    /\ GoTo(o, "acquire")
    /\ UNCHANGED <<queue, handle, attempt, owned, reclaim, conn>>

-----------------------------------------------------------------------------
(* Taking and dropping locks *)

\* The first poll of the next lock.
Await(o) ==
  /\ pc[o] = "acquire"
  /\ Locks!Join(o, Head(remaining[o]))
  /\ UNCHANGED <<call, pc, remaining, handle, attempt, owned, reclaim, conn>>

FirstStep(kind) ==
  CASE kind = "atomicRead" -> "read"
    [] kind = "clone" -> "copy"
    [] OTHER -> "open"

Acquired(o) ==
  /\ pc[o] = "acquire"
  /\ Locks!Holds(o, Head(remaining[o]))
  /\ remaining' = [remaining EXCEPT ![o] = Tail(@)]
  /\ IF Len(remaining[o]) = 1 THEN GoTo(o, FirstStep(call[o].kind)) ELSE UNCHANGED pc
  /\ UNCHANGED <<call, queue, handle, attempt, owned, reclaim, conn>>

\* The guards of the call are dropped, one after the other.
Release(o) ==
  /\ pc[o] = "release"
  /\ \E k \in Path :
       /\ Locks!Leave(o, k)
       /\ IF \E j \in Path \ {k} : Locks!Holds(o, j) THEN UNCHANGED pc ELSE GoTo(o, "done")
  /\ UNCHANGED <<call, remaining, handle, attempt, owned, reclaim, conn>>

-----------------------------------------------------------------------------
(* Handles *)

\* do_open, after do_write_file's checks of create and overwrite; a failure of
\* either drops the locks.
Open(o) ==
  /\ pc[o] = "open"
  /\ \/ /\ handle' = [handle EXCEPT ![o] = "open"]
        /\ GoTo(o, IF call[o].kind = "stream" THEN "register" ELSE "resolve")
     \/ GoTo(o, "release") /\ UNCHANGED handle
  /\ UNCHANGED <<call, remaining, queue, attempt, owned, reclaim, conn>>

\* FileChannel::open records the handle and answers.
Register(o) ==
  /\ pc[o] = "register"
  /\ owned' = [owned EXCEPT ![call[o].conn] = @ \cup {o}]
  /\ GoTo(o, "streaming")
  /\ UNCHANGED <<call, remaining, queue, handle, attempt, reclaim, conn>>

Failed(o) == attempt[o] > WriteRetries

\* The window has no call in flight and its handle is open.
CanUseHandle(o) ==
  /\ pc[o] = "streaming"
  /\ conn[call[o].conn] = "open"
  /\ o \in owned[call[o].conn]

ClientWrite(o) ==
  /\ CanUseHandle(o)
  /\ ~Failed(o)
  /\ GoTo(o, "resolve")
  /\ UNCHANGED <<call, remaining, queue, handle, attempt, owned, reclaim, conn>>

\* FileChannel::close forgets the handle before the provider closes it.
ClientClose(o) ==
  /\ CanUseHandle(o)
  /\ owned' = [owned EXCEPT ![call[o].conn] = @ \ {o}]
  /\ GoTo(o, "close")
  /\ UNCHANGED <<call, remaining, queue, handle, attempt, reclaim, conn>>

AfterWrite(o) == IF call[o].kind = "stream" THEN "streaming" ELSE "close"

\* Mutant of WriteFails: one attempt too many.
WriteFailsLate(o) ==
  /\ attempt' = [attempt EXCEPT ![o] = @ + 1]
  /\ GoTo(o, IF attempt[o] <= WriteRetries THEN "resolve" ELSE AfterWrite(o))

WriteFails(o) ==
  /\ attempt' = [attempt EXCEPT ![o] = @ + 1]
  /\ GoTo(o, IF attempt[o] < WriteRetries THEN "resolve" ELSE AfterWrite(o))

\* Each attempt of `write` looks the handle up again.
Resolve(o) ==
  /\ pc[o] = "resolve"
  /\ IF handle[o] = "open" THEN GoTo(o, "pwrite") /\ UNCHANGED attempt ELSE WriteFails(o)
  /\ UNCHANGED <<call, remaining, queue, handle, owned, reclaim, conn>>

\* The blocking write, which holds its own Arc to the file.
Pwrite(o) ==
  /\ pc[o] = "pwrite"
  /\ \/ GoTo(o, AfterWrite(o)) /\ attempt' = [attempt EXCEPT ![o] = 0]
     \/ WriteFails(o)
  /\ UNCHANGED <<call, remaining, queue, handle, owned, reclaim, conn>>

AfterClose(o) ==
  CASE call[o].kind = "stream" -> "done"
    [] call[o].kind = "atomicWrite" /\ ~Failed(o) -> "rename"
    [] OTHER -> "release"

\* provider.close removes the handle from the table, then flushes.
Close(o) ==
  /\ pc[o] = "close"
  /\ IF handle[o] = "open"
     THEN handle' = [handle EXCEPT ![o] = "flushing"] /\ GoTo(o, "flush")
     ELSE GoTo(o, AfterClose(o)) /\ UNCHANGED handle
  /\ UNCHANGED <<call, remaining, queue, attempt, owned, reclaim, conn>>

\* Mutant of Flush: a stream's lock outlives its handle.
FlushKeepsLock(o) ==
  /\ handle[o] = "flushing"
  /\ handle' = [handle EXCEPT ![o] = "closed"]
  /\ IF pc[o] = "flush" THEN GoTo(o, AfterClose(o)) ELSE UNCHANGED pc
  /\ UNCHANGED <<call, remaining, queue, attempt, owned, reclaim, conn>>

\* The flush is over and the OpenFile is dropped, with the lock of a stream.
Flush(o) ==
  /\ handle[o] = "flushing"
  /\ handle' = [handle EXCEPT ![o] = "closed"]
  /\ IF pc[o] = "flush" THEN GoTo(o, AfterClose(o)) ELSE UNCHANGED pc
  /\ IF call[o].kind = "stream" THEN Locks!Leave(o, HandlePath(o)) ELSE UNCHANGED queue
  /\ UNCHANGED <<call, remaining, attempt, owned, reclaim, conn>>

-----------------------------------------------------------------------------
(* The rest of an atomic write, atomic read and clone *)

Rename(o) ==
  /\ pc[o] = "rename"
  /\ GoTo(o, "release") \/ GoTo(o, "deleteTemp")
  /\ UNCHANGED <<call, remaining, queue, handle, attempt, owned, reclaim, conn>>

\* Whatever comes of it, the write is over.
Finish(o) ==
  /\ pc[o] \in {"deleteTemp", "read", "copy"}
  /\ GoTo(o, "release")
  /\ UNCHANGED <<call, remaining, queue, handle, attempt, owned, reclaim, conn>>

-----------------------------------------------------------------------------
(* Closing a connection *)

InFlight(o) == pc[o] \notin {"idle", "streaming", "done"}

\* The window is gone: no more frames arrive, and Connection::close begins.
CloseWindow(c) ==
  /\ c \in Closing
  /\ conn[c] = "open"
  /\ conn' = [conn EXCEPT ![c] = "draining"]
  /\ UNCHANGED <<call, pc, remaining, queue, handle, attempt, owned, reclaim>>

\* Mutant of Drained: the handles are closed before the calls have ended.
DrainedAtOnce(c) ==
  /\ conn[c] = "draining"
  /\ conn' = [conn EXCEPT ![c] = "closing"]
  /\ reclaim' = [reclaim EXCEPT ![c] = owned[c]]
  /\ owned' = [owned EXCEPT ![c] = {}]
  /\ UNCHANGED <<call, pc, remaining, queue, handle, attempt>>

\* calls.join_next() has returned None; close_handles takes the handles.
Drained(c) ==
  /\ conn[c] = "draining"
  /\ \A o \in Op : Started(o) /\ call[o].conn = c => ~InFlight(o)
  /\ conn' = [conn EXCEPT ![c] = "closing"]
  /\ reclaim' = [reclaim EXCEPT ![c] = owned[c]]
  /\ owned' = [owned EXCEPT ![c] = {}]
  /\ UNCHANGED <<call, pc, remaining, queue, handle, attempt>>

\* close_handles closes one handle after the other.
ReclaimHandle(c) ==
  /\ conn[c] = "closing"
  /\ \A h \in reclaim[c] : handle[h] # "flushing"
  /\ \E h \in reclaim[c] :
       /\ handle[h] = "open"
       /\ handle' = [handle EXCEPT ![h] = "flushing"]
  /\ UNCHANGED <<call, pc, remaining, queue, attempt, owned, reclaim, conn>>

\* Mutant of Closed: the last flush is not awaited.
ClosedUnflushed(c) ==
  /\ conn[c] = "closing"
  /\ \A h \in reclaim[c] : handle[h] # "open"
  /\ conn' = [conn EXCEPT ![c] = "closed"]
  /\ reclaim' = [reclaim EXCEPT ![c] = {}]
  /\ UNCHANGED <<call, pc, remaining, queue, handle, attempt, owned>>

Closed(c) ==
  /\ conn[c] = "closing"
  /\ \A h \in reclaim[c] : handle[h] = "closed"
  /\ conn' = [conn EXCEPT ![c] = "closed"]
  /\ reclaim' = [reclaim EXCEPT ![c] = {}]
  /\ UNCHANGED <<call, pc, remaining, queue, handle, attempt, owned>>

-----------------------------------------------------------------------------
Backend(o) ==
  \/ Await(o) \/ Acquired(o) \/ Release(o)
  \/ Open(o) \/ Register(o) \/ Resolve(o) \/ Pwrite(o) \/ Close(o) \/ Flush(o)
  \/ Rename(o) \/ Finish(o)

Drain(c) == Drained(c) \/ ReclaimHandle(c) \/ Closed(c)

Next ==
  \/ \E o \in Op :
       \/ Start(o)
       \/ Backend(o)
       \/ ClientWrite(o) \/ ClientClose(o)
  \/ \E c \in Conn : CloseWindow(c) \/ Drain(c)

Spec == Init /\ [][Next]_vars

\* The runtime polls every task, and a stream that is written is finite.
FairSpec ==
  /\ Spec
  /\ \A o \in Op : WF_vars(Backend(o)) /\ SF_vars(ClientClose(o))
  /\ \A c \in Conn : WF_vars(Drain(c))

-----------------------------------------------------------------------------
(* Properties *)

\* Type invariant.
TypeOK ==
  /\ call \in [Op -> Call \cup {None}]
  /\ pc \in [Op -> PC]
  /\ remaining \in [Op -> Seq(Path)]
  /\ queue \in [Path -> Seq(Op)]
  /\ handle \in [Op -> {"none", "open", "flushing", "closed"}]
  /\ attempt \in [Op -> 0 .. WriteRetries + 1]
  /\ owned \in [Conn -> SUBSET Op]
  /\ reclaim \in [Conn -> SUBSET Op]
  /\ conn \in [Conn -> {"open", "draining", "closing", "closed"}]

HandleInUse(o) == handle[o] \in {"open", "flushing"} \/ pc[o] = "pwrite"

\* The operation may be changing the file at p.
Writes(o, p) ==
  /\ Started(o)
  /\ \/ HandleInUse(o) /\ HandlePath(o) = p
     \/ pc[o] \in {"rename", "deleteTemp"} /\ p \in {call[o].path, call[o].other}
     \/ pc[o] = "copy" /\ p = call[o].other

Reads(o, p) ==
  /\ pc[o] \in {"read", "copy"}
  /\ p = call[o].path

\* "two concurrent writers to one file cannot interleave", and an atomic read
\* or a clone sees no writer at work: from the open of a file to the end of the
\* last write in flight on it, no other operation touches it, across windows
\* and across the close of a window.
NoInterleaving ==
  \A o, n \in Op, p \in Path :
    o # n /\ Writes(o, p) => ~Writes(n, p) /\ ~Reads(n, p)

\* Once a connection is closed it holds nothing: no handle, no lock, and no
\* place in the queue of a lock.
NothingLeftBehind ==
  \A o \in Op :
    Started(o) /\ conn[call[o].conn] = "closed" =>
      /\ handle[o] \in {"none", "closed"}
      /\ \A p \in Path : ~Locks!Queued(o, p)

\* An operation that waits for its locks is served unless its window closes:
\* "Other windows continue serving while this connection drains."
OtherWindowsServed ==
  \A o \in Op :
    pc[o] = "acquire" ~> (pc[o] # "acquire" \/ conn[call[o].conn] # "open")

Underway(o) == Started(o) /\ pc[o] # "done" /\ conn[call[o].conn] = "open"

\* Every operation finishes, unless its window closes first.
OperationsFinish == \A o \in Op : []<>~Underway(o)

\* A window that closes is closed in the end.
ConnectionsClose == \A c \in Conn : conn[c] = "draining" ~> conn[c] = "closed"

\* Nobody waits for ever: neither for a lock of a pair that others take in the
\* other direction, nor for the drain of a window (acquire_pair, locks.rs:80;
\* Connection::close, rpc.rs:115).
NobodyWaitsForEver == OperationsFinish /\ ConnectionsClose
=============================================================================
