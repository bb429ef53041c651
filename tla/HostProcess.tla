---------------------------- MODULE HostProcess -----------------------------
(***************************************************************************)
(* The frontend's end of the host process (ipc.host.ts): calls written to  *)
(* its stdin and matched with replies by id, the host's death, and `stop`, *)
(* which drains what is in flight, closes stdin, waits for the host to     *)
(* exit and kills it when it is late.                                      *)
(*                                                                         *)
(* JavaScript runs to completion: the continuations of the promises a task *)
(* settles are actions of their own, and no other task starts before they  *)
(* have run (`Quiet`).  The lines of a chunk of stdout are read in one     *)
(* task, and the continuations of all its replies run after its last line. *)
(* The timers of `stop` expire whenever they like.                         *)
(***************************************************************************)
EXTENDS Naturals, Sequences, FiniteSets

CONSTANTS
    Call,       \* every call the frontend makes, under a request id of its own
    FollowUp,   \* the call a call's continuation makes, or NoCall
    NoCall

ASSUME FollowUpAssumption ==
    /\ NoCall \notin Call
    /\ FollowUp \in [Call -> Call \cup {NoCall}]
    \* Every call is made once.
    /\ \A b, c \in Call : FollowUp[b] = FollowUp[c] => b = c \/ FollowUp[b] = NoCall

VARIABLES
    call,           \* each call, as its caller sees it
    continuations,  \* settled calls whose callers have not run on
    delivering,     \* whether a chunk of replies is being read
    gone,           \* why the host is gone, or "no"
    stop,           \* how far `stop` has come
    awaited,        \* the calls whenIdle waits for
    late,           \* whether the drain's timer has won
    requests,       \* calls the host has not read
    inputEnded,     \* whether `stop` has closed the pipe
    serving,        \* each call, as the host sees it
    replies,        \* replies the frontend has not read
    child           \* the host process

callers == <<call, continuations>>
stopping == <<stop, awaited, late>>
host == <<serving, replies, child>>
hostVars == <<callers, delivering, gone, stopping, requests, inputEnded, host>>

Initial == {c \in Call : \A b \in Call : FollowUp[b] # c}

Pending == {c \in Call : call[c] = "pending"}

HostTypeOK ==
    /\ call \in [Call -> {"unmade", "pending", "answered", "lost", "refused"}]
    /\ continuations \in SUBSET Call
    /\ delivering \in BOOLEAN
    /\ gone \in {"no", "closed", "broken", "stopped"}
    /\ stop \in {"uncalled", "settling", "turn", "exiting", "closing", "returned"}
    /\ awaited \in SUBSET Call
    /\ late \in BOOLEAN
    /\ requests \in Seq(Call)
    /\ inputEnded \in BOOLEAN
    /\ serving \in [Call -> {"unread", "serving", "replied"}]
    /\ replies \in Seq(Call)
    /\ child \in {"running", "killed", "exited", "closed"}
    \* A host is asked to leave before it is killed.
    /\ child = "killed" => inputEnded

HostInit ==
    /\ call = [c \in Call |-> "unmade"]
    /\ continuations = {}
    /\ delivering = FALSE
    /\ gone = "no"
    /\ stop = "uncalled"
    /\ awaited = {}
    /\ late = FALSE
    /\ requests = << >>
    /\ inputEnded = FALSE
    /\ serving = [c \in Call |-> "unread"]
    /\ replies = << >>
    /\ child = "running"

Alive == child \in {"running", "killed"}

\* whenIdle has what it waited for and is about to go on.
Settled == stop = "settling" /\ awaited \cap Pending = {}

\* No continuation is left to run, so the next task may start.
Quiet == continuations = {} /\ ~Settled

NewTask == Quiet /\ delivering' = FALSE

\* What a line of the chunk being read may do, and a task of its own as well.
AtOnce == Quiet \/ delivering

-----------------------------------------------------------------------------
(* Calls. *)

\* Mutant of Invoke: a call is written whether or not the host is gone.
InvokeBlindly(c) ==
    /\ call' = [call EXCEPT ![c] = "pending"]
    /\ requests' = Append(requests, c)

\* `invoke` rejects once the host is gone; else it writes the request.
Invoke(c) ==
    \/ /\ gone = "no"
       /\ call' = [call EXCEPT ![c] = "pending"]
       /\ requests' = Append(requests, c)
    \/ /\ gone # "no"
       /\ call' = [call EXCEPT ![c] = "refused"]
       /\ UNCHANGED requests

Make(c) ==
    /\ AtOnce
    /\ c \in Initial
    /\ call[c] = "unmade"
    /\ Invoke(c)
    /\ UNCHANGED <<continuations, delivering, gone, stopping, inputEnded, host>>

\* The caller's own continuation, which may call again.
Continue(c) ==
    /\ c \in continuations
    /\ continuations' = continuations \ {c}
    /\ \/ /\ FollowUp[c] # NoCall
          /\ Invoke(FollowUp[c])
       \/ /\ FollowUp[c] = NoCall
          /\ UNCHANGED <<call, requests>>
    /\ delivering' = FALSE
    /\ UNCHANGED <<gone, stopping, inputEnded, host>>

\* `deliver` settles the request the reply names; one that has been rejected
\* meanwhile is no request any more.
TakeReply ==
    /\ AtOnce
    /\ stop \notin {"exiting", "closing", "returned"}
    /\ replies # << >>
    /\ replies' = Tail(replies)
    /\ LET c == Head(replies) IN
        \/ /\ c \in Pending
           /\ call' = [call EXCEPT ![c] = "answered"]
           /\ continuations' = continuations \cup {c}
        \/ /\ c \notin Pending
           /\ UNCHANGED callers
    /\ delivering' = TRUE
    /\ UNCHANGED <<gone, stopping, requests, inputEnded, serving, child>>

-----------------------------------------------------------------------------
(* Death. *)

\* Every request in flight fails, and every later one will.
Die(reason) ==
    /\ gone' = IF gone = "no" THEN reason ELSE gone
    /\ call' = [c \in Call |-> IF c \in Pending THEN "lost" ELSE call[c]]
    /\ continuations' = continuations \cup Pending

\* Mutant of Delivered: the host is gone when its process has exited.
ExitedIsEnough == TRUE

\* Node closes a child when it has exited and its output has been read, or is
\* read by nobody any more.
Delivered == replies = << >> \/ stop \in {"exiting", "closing", "returned"}

ChildCloses ==
    /\ NewTask
    /\ child = "exited"
    /\ Delivered
    /\ child' = "closed"
    /\ Die("closed")
    /\ UNCHANGED <<stopping, requests, inputEnded, serving, replies>>

\* The child cannot be run, its pipe is written to after it has exited, or an
\* event's handler throws.
Breaks ==
    /\ AtOnce
    /\ gone = "no"
    /\ Die("broken")
    /\ UNCHANGED <<delivering, stopping, requests, inputEnded, host>>

-----------------------------------------------------------------------------
(* `stop`. *)

Stop ==
    /\ NewTask
    /\ stop = "uncalled"
    /\ stop' = "settling"
    /\ awaited' = Pending
    /\ UNCHANGED <<callers, gone, late, requests, inputEnded, host>>

\* Drained, or out of patience: reject what is left, let go of stdout, close
\* stdin.
EndHost ==
    /\ Die("stopped")
    /\ stop' = "exiting"
    /\ inputEnded' = TRUE
    /\ UNCHANGED <<awaited, requests, host>>

\* Mutant of Turn: whenIdle looks only once.
TurnOnce ==
    /\ NewTask
    /\ stop = "turn"
    /\ EndHost
    /\ UNCHANGED late

\* What whenIdle waited for has settled: it lets the event loop turn once.
IdleYields ==
    /\ Settled
    /\ stop' = "turn"
    /\ delivering' = FALSE
    /\ UNCHANGED <<callers, gone, awaited, late, requests, inputEnded, host>>

\* The turn over, whenIdle looks whether anything has been issued meanwhile.
Turn ==
    /\ NewTask
    /\ stop = "turn"
    /\ \/ /\ Pending = {}
          /\ EndHost
       \/ /\ Pending # {}
          /\ stop' = "settling"
          /\ awaited' = Pending
          /\ UNCHANGED <<callers, gone, requests, inputEnded, host>>
    /\ UNCHANGED late

DrainExpires ==
    /\ NewTask
    /\ stop \in {"settling", "turn"}
    /\ late' = TRUE
    /\ EndHost

ExitSeen ==
    /\ NewTask
    /\ stop = "exiting"
    /\ ~Alive
    /\ stop' = "closing"
    /\ UNCHANGED <<callers, gone, awaited, late, requests, inputEnded, host>>

\* Mutant of Kill: a late host is given up, not killed.
GiveUp == UNCHANGED child

Kill == child' = IF child = "running" THEN "killed" ELSE child

ExitExpires ==
    /\ NewTask
    /\ stop = "exiting"
    /\ stop' = "closing"
    /\ Kill
    /\ UNCHANGED <<callers, gone, awaited, late, requests, inputEnded, serving, replies>>

\* `close` is awaited in either case.
StopReturns ==
    /\ NewTask
    /\ stop = "closing"
    /\ child = "closed"
    /\ stop' = "returned"
    /\ UNCHANGED <<callers, gone, awaited, late, requests, inputEnded, host>>

-----------------------------------------------------------------------------
(* The host. *)

Read ==
    /\ Alive
    /\ requests # << >>
    /\ requests' = Tail(requests)
    /\ serving' = [serving EXCEPT ![Head(requests)] = "serving"]
    /\ UNCHANGED <<callers, delivering, gone, stopping, inputEnded, replies, child>>

\* Calls are spawned, so they are answered in any order, or never.
HostReplies(c) ==
    /\ Alive
    /\ serving[c] = "serving"
    /\ serving' = [serving EXCEPT ![c] = "replied"]
    /\ replies' = Append(replies, c)
    /\ UNCHANGED <<callers, delivering, gone, stopping, requests, inputEnded, child>>

\* A host may exit at any moment; one whose stdin has ended does once its
\* calls are over, and one that has been killed does.
Exit ==
    /\ Alive
    /\ child' = "exited"
    /\ UNCHANGED <<callers, delivering, gone, stopping, requests, inputEnded, serving, replies>>

HostNext ==
    \/ \E c \in Call : Make(c) \/ Continue(c) \/ HostReplies(c)
    \/ TakeReply \/ ChildCloses \/ Breaks
    \/ Stop \/ IdleYields \/ Turn \/ DrainExpires \/ ExitSeen \/ ExitExpires \/ StopReturns
    \/ Read \/ Exit

HostSpec == HostInit /\ [][HostNext]_hostVars

\* The event loop turns and its timers expire; a host may be stuck and still
\* exits when it is killed.  Nobody has to call `stop`, and no call has to be
\* answered.
HostFairSpec ==
    /\ HostSpec
    /\ \A c \in Call : WF_hostVars(Continue(c))
    /\ WF_hostVars(TakeReply)
    /\ WF_hostVars(ChildCloses)
    /\ WF_hostVars(IdleYields)
    /\ WF_hostVars(Turn)
    /\ WF_hostVars(DrainExpires)
    /\ WF_hostVars(ExitSeen)
    /\ WF_hostVars(ExitExpires)
    /\ WF_hostVars(StopReturns)
    /\ WF_hostVars(child = "killed" /\ Exit)

-----------------------------------------------------------------------------
(* Properties. *)

\* No call outlives the host: once it is gone nothing is pending, and nothing
\* becomes so, whichever of its four causes came first (ipc.host.ts:255-262).
NoCallHangs == gone # "no" => Pending = {}

\* A drain that its timer did not cut short loses nothing: neither a call that
\* was in flight nor one the continuation of an answered call has made
\* (ipc.host.ts:196-212).
DrainLosesNothing ==
    (gone = "stopped" /\ ~late) =>
        \A c \in Call :
            /\ call[c] # "lost"
            /\ call[c] = "answered" /\ FollowUp[c] # NoCall => call[FollowUp[c]] = "answered"

\* A host that closes has had every reply it wrote delivered: a call it
\* answered is not reported as failed (ipc.host.ts:107-112).
RepliesDelivered ==
    gone = "closed" => \A c \in Call : serving[c] = "replied" => call[c] = "answered"

\* No answer is lost on the way out, whether the host is stopped or goes by
\* itself.
NoAnswerLost == DrainLosesNothing /\ RepliesDelivered

\* `stop` returns, however stuck the host and its calls are
\* (ipc.host.ts:172-180, 282-287).
StopEnds == (stop # "uncalled") ~> (stop = "returned")

=============================================================================
