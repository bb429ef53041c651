-------------------------- MODULE TerminalProcess --------------------------
(***************************************************************************)
(* The terminals of one window, from `create` to the reaping of the shell: *)
(* the client (tauriTerminalProcess.ts), the pty channel with its registry *)
(* and its sinks (channels/pty.rs, registry.rs), the launch, the reader    *)
(* and waiter threads and the supervisor (process.rs), and the connection  *)
(* that drains its calls and shuts every terminal down when the window     *)
(* goes (rpc.rs).                                                          *)
(*                                                                         *)
(* The four event streams of a terminal are listened to, attached and      *)
(* dropped together, so a terminal has one sink here.  Time is left out: a *)
(* timer that is armed may fire at once or late.                           *)
(***************************************************************************)
EXTENDS Naturals, Sequences

CONSTANTS
    Term,       \* the terminals of the window
    MaxData     \* the bound on the reads of one terminal

ASSUME MaxDataAssumption == MaxData \in Nat

VARIABLES
    client,     \* how far TauriTerminalProcess has come
    listen,     \* its four `listen` requests
    ending,     \* its `shutdown`, behind `input` in the client's queue
    input,      \* its `input` call, which blocks while the shell reads nothing
    registry,   \* PtyRegistry::ptys
    sinks,      \* PtyState::subscriptions
    launch,     \* how far the `start` call has come
    running,    \* the terminals whose TerminalProcess::running is set
    shell,      \* the child process
    reads,      \* how often the reader thread has read
    controls,   \* the supervisor's mpsc channel
    supervisor, \* the supervisor task
    seen,       \* the events the client has been sent
    conn,       \* the connection
    closing,    \* the terminals shutdown_all has taken out of the registry
    windows     \* cfg!(windows), which differs from build to build only

calls == <<listen, ending, input>>
channel == <<registry, sinks>>
process == <<launch, running, shell, reads, controls, supervisor>>
connection == <<conn, closing, windows>>
vars == <<client, calls, channel, process, seen, connection>>

\* A `Shutdown { immediate: true }` is "kill" here.
Control == {"data", "exit", "shutdown", "kill"}
Event == {"ready", "data", "exit"}

TypeOK ==
    /\ client \in [Term -> {"new", "creating", "created", "listening",
                        "starting", "open", "failed", "exited"}]
    /\ listen \in [Term -> {"none", "asked", "attached"}]
    /\ ending \in [Term -> {"no", "asked", "sent"}]
    /\ input \in [Term -> {"none", "writing"}]
    /\ registry \in SUBSET Term
    /\ sinks \in SUBSET Term
    /\ launch \in [Term -> {"none", "validating", "spawning", "storing",
                        "announcing", "supervising", "done", "failed"}]
    /\ running \in SUBSET Term
    /\ shell \in [Term -> {"none", "alive", "exited", "waited"}]
    /\ reads \in [Term -> 0..MaxData]
    /\ controls \in [Term -> Seq(Control)]
    /\ supervisor \in [Term -> {"none", "looping", "flushing", "killing",
                        "forgetting", "disposing", "reaped"}]
    /\ seen \in [Term -> Seq(Event)]
    /\ conn \in {"open", "draining", "stopping", "reaping", "closed", "abandoned"}
    /\ closing \in SUBSET Term
    /\ windows \in BOOLEAN
    \* The supervisor comes last in a launch.
    /\ \A t \in Term : supervisor[t] # "none" => launch[t] \in {"supervising", "done"}

Init ==
    /\ client = [t \in Term |-> "new"]
    /\ listen = [t \in Term |-> "none"]
    /\ ending = [t \in Term |-> "no"]
    /\ input = [t \in Term |-> "none"]
    /\ registry = {}
    /\ sinks = {}
    /\ launch = [t \in Term |-> "none"]
    /\ running = {}
    /\ shell = [t \in Term |-> "none"]
    /\ reads = [t \in Term |-> 0]
    /\ controls = [t \in Term |-> << >>]
    /\ supervisor = [t \in Term |-> "none"]
    /\ seen = [t \in Term |-> << >>]
    /\ conn = "open"
    /\ closing = {}
    /\ windows \in BOOLEAN

Advance(t, from, to) == client[t] = from /\ client' = [client EXCEPT ![t] = to]

Proceed(t, from, to) == launch[t] = from /\ launch' = [launch EXCEPT ![t] = to]

\* PtyState::emit: an event of a terminal nobody listens to is dropped.
Emit(t, event) ==
    seen' = IF t \in sinks THEN [seen EXCEPT ![t] = Append(@, event)] ELSE seen

\* control.send: nobody reads it once the supervisor has left its loop.
Send(t, control) == controls' = [controls EXCEPT ![t] = Append(@, control)]

-----------------------------------------------------------------------------
(* The client. *)

\* Each of its steps but the first waits for the answer to the one before; a
\* window that has gone takes none.
Create(t) ==
    /\ conn = "open"
    /\ Advance(t, "new", "creating")
    /\ UNCHANGED <<calls, channel, process, seen, connection>>

Listen(t) ==
    /\ conn = "open"
    /\ Advance(t, "created", "listening")
    /\ listen' = [listen EXCEPT ![t] = "asked"]
    /\ UNCHANGED <<ending, input, channel, process, seen, connection>>

\* Mutant of Subscribed: the launch is asked for right behind the listens.
Unawaited(t) == TRUE

\* whenSubscribed: all four listens have been answered.
Subscribed(t) == listen[t] = "attached"

Start(t) ==
    /\ conn = "open"
    /\ Advance(t, "listening", "starting")
    /\ Subscribed(t)
    /\ launch' = [launch EXCEPT ![t] = "validating"]
    /\ UNCHANGED <<calls, channel, running, shell, reads, controls, supervisor,
                   seen, connection>>

\* The answer to `start`.  An exit the client has seen first stays what it is.
Started(t) ==
    /\ conn = "open"
    /\ client[t] = "starting"
    /\ \/ launch[t] = "done" /\ client' = [client EXCEPT ![t] = "open"]
       \/ launch[t] = "failed" /\ client' = [client EXCEPT ![t] = "failed"]
    /\ UNCHANGED <<calls, channel, process, seen, connection>>

\* onProcessExit disposes the client's process, which unlistens all four.
Exited(t) ==
    /\ conn = "open"
    /\ client[t] \in {"starting", "open"}
    /\ seen[t] # << >> /\ seen[t][Len(seen[t])] = "exit"
    /\ client' = [client EXCEPT ![t] = "exited"]
    /\ UNCHANGED <<calls, channel, process, seen, connection>>

\* The terminal is closed in the window, which it may be at any time.
AskShutdown(t) ==
    /\ conn = "open"
    /\ client[t] # "new" /\ ending[t] = "no"
    /\ ending' = [ending EXCEPT ![t] = "asked"]
    /\ UNCHANGED <<client, listen, input, channel, process, seen, connection>>

\* `input` is sent once everything queued before it has been answered.
Type(t) ==
    /\ conn = "open"
    /\ client[t] = "open"
    /\ input[t] = "none" /\ ending[t] = "no"
    /\ input' = [input EXCEPT ![t] = "writing"]
    /\ UNCHANGED <<client, listen, ending, channel, process, seen, connection>>

-----------------------------------------------------------------------------
(* The calls of the pty channel. *)

RunCreate(t) ==
    /\ Advance(t, "creating", "created")
    /\ registry' = registry \cup {t}
    /\ UNCHANGED <<calls, sinks, process, seen, connection>>

\* The connection runs listens in arrival order, and before it closes.
RunListen(t) ==
    /\ listen[t] = "asked"
    /\ listen' = [listen EXCEPT ![t] = "attached"]
    /\ sinks' = sinks \cup {t}
    /\ UNCHANGED <<client, ending, input, registry, process, seen, connection>>

\* Mutant of Reachable: only a supervised process is sent the shutdown.
Supervised(t) == t \in registry /\ supervisor[t] # "none"

Reachable(t) == t \in registry \cap running

\* shutdown: a process that does not run is left alone, and so is one that is
\* no longer registered.  The client's queue sends it once the pty has an id
\* and `input` has been answered.
RunShutdown(t) ==
    /\ conn \in {"open", "draining"}
    /\ ending[t] = "asked" /\ input[t] = "none" /\ client[t] # "creating"
    /\ ending' = [ending EXCEPT ![t] = "sent"]
    /\ IF Reachable(t)
       THEN \E control \in {"shutdown", "kill"} : Send(t, control)
       ELSE UNCHANGED controls
    /\ UNCHANGED <<client, listen, input, channel, launch, running, shell, reads,
                   supervisor, seen, connection>>

\* The shell takes what is written to it: when it likes to.
ShellReads(t) ==
    /\ input[t] = "writing" /\ shell[t] = "alive"
    /\ input' = [input EXCEPT ![t] = "none"]
    /\ UNCHANGED <<client, listen, ending, channel, process, seen, connection>>

\* A write to a shell that is gone fails, which is logged and no error.
WriteFails(t) ==
    /\ input[t] = "writing" /\ shell[t] # "alive"
    /\ input' = [input EXCEPT ![t] = "none"]
    /\ UNCHANGED <<client, listen, ending, channel, process, seen, connection>>

-----------------------------------------------------------------------------
(* The launch: validate_cwd, validate_executable and setup_pty_process. *)

Validate(t) ==
    /\ \/ Proceed(t, "validating", "spawning")
       \/ Proceed(t, "validating", "failed")
    /\ UNCHANGED <<client, calls, channel, running, shell, reads, controls,
                   supervisor, seen, connection>>

Spawn(t) ==
    /\ \/ /\ Proceed(t, "spawning", "storing")
          /\ shell' = [shell EXCEPT ![t] = "alive"]
       \/ Proceed(t, "spawning", "failed") /\ UNCHANGED shell
    /\ UNCHANGED <<client, calls, channel, running, reads, controls,
                   supervisor, seen, connection>>

\* `running` is set, and the reader and waiter threads spawned, before the
\* client hears that the process is ready.
Store(t) ==
    /\ Proceed(t, "storing", "announcing")
    /\ running' = running \cup {t}
    /\ UNCHANGED <<client, calls, channel, shell, reads, controls, supervisor,
                   seen, connection>>

\* Mutant of AfterReady: the supervisor is spawned ahead of on_process_ready.
SupervisedFirst(t) == launch[t] = "announcing"

AfterReady(t) == launch[t] = "supervising"

Announce(t) ==
    /\ Proceed(t, "announcing", "supervising")
    /\ Emit(t, "ready")
    /\ UNCHANGED <<client, calls, channel, running, shell, reads, controls,
                   supervisor, connection>>

\* `reaped` is set and the supervisor spawned.
Supervise(t) ==
    /\ AfterReady(t) /\ supervisor[t] = "none"
    /\ supervisor' = [supervisor EXCEPT ![t] = "looping"]
    /\ UNCHANGED <<client, calls, channel, launch, running, shell, reads,
                   controls, seen, connection>>

Launched(t) ==
    /\ supervisor[t] # "none"
    /\ Proceed(t, "supervising", "done")
    /\ UNCHANGED <<client, calls, channel, running, shell, reads, controls,
                   supervisor, seen, connection>>

-----------------------------------------------------------------------------
(* The reader and the waiter thread, and the shell. *)

HasThreads(t) == launch[t] \in {"announcing", "supervising", "done"}

\* What the shell wrote before it exited is still there to be read.
Read(t) ==
    /\ HasThreads(t) /\ shell[t] # "none" /\ reads[t] < MaxData
    /\ supervisor[t] \notin {"disposing", "reaped"}
    /\ reads' = [reads EXCEPT ![t] = @ + 1]
    /\ Send(t, "data")
    /\ UNCHANGED <<client, calls, channel, launch, running, shell, supervisor,
                   seen, connection>>

Exit(t) ==
    /\ shell[t] = "alive"
    /\ shell' = [shell EXCEPT ![t] = "exited"]
    /\ UNCHANGED <<client, calls, channel, launch, running, reads, controls,
                   supervisor, seen, connection>>

\* child.wait returns.
Wait(t) ==
    /\ HasThreads(t) /\ shell[t] = "exited"
    /\ shell' = [shell EXCEPT ![t] = "waited"]
    /\ Send(t, "exit")
    /\ UNCHANGED <<client, calls, channel, launch, running, reads, supervisor,
                   seen, connection>>

-----------------------------------------------------------------------------
(* The supervisor. *)

Received(t, control) ==
    /\ supervisor[t] \in {"looping", "flushing"}
    /\ controls[t] # << >> /\ Head(controls[t]) = control
    /\ controls' = [controls EXCEPT ![t] = Tail(@)]

Forward(t) ==
    /\ Received(t, "data")
    /\ Emit(t, "data")
    /\ UNCHANGED <<client, calls, channel, launch, running, shell, reads,
                   supervisor, connection>>

\* Mutant of OnExit: the close deadline is left to a later shutdown.
NoDeadline == "looping"

\* The data that trails the exit is given DATA_FLUSH_TIMEOUT, from the last on.
OnExit == "flushing"

NoteExit(t) ==
    /\ Received(t, "exit")
    /\ supervisor' = [supervisor EXCEPT ![t] = OnExit]
    /\ UNCHANGED <<client, calls, channel, launch, running, shell, reads,
                   seen, connection>>

\* A shutdown arms the same deadline, and the one of MAXIMUM_SHUTDOWN_TIME.
NoteShutdown(t) ==
    /\ \/ Received(t, "shutdown")
       \/ Received(t, "kill") /\ windows
    /\ supervisor' = [supervisor EXCEPT ![t] = "flushing"]
    /\ UNCHANGED <<client, calls, channel, launch, running, shell, reads,
                   seen, connection>>

\* An immediate one ends the loop at once, but not on Windows.
NoteKill(t) ==
    /\ Received(t, "kill") /\ ~ windows
    /\ supervisor' = [supervisor EXCEPT ![t] = "killing"]
    /\ UNCHANGED <<client, calls, channel, launch, running, shell, reads,
                   seen, connection>>

\* Either deadline.
FlushTimeout(t) ==
    /\ supervisor[t] = "flushing"
    /\ supervisor' = [supervisor EXCEPT ![t] = "killing"]
    /\ UNCHANGED <<client, calls, channel, launch, running, shell, reads,
                   controls, seen, connection>>

\* kill: the shell is killed if it still runs, and the exit reported ...
Kill(t) ==
    /\ supervisor[t] = "killing"
    /\ shell' = [shell EXCEPT ![t] = IF @ = "alive" THEN "exited" ELSE @]
    /\ Emit(t, "exit")
    /\ supervisor' = [supervisor EXCEPT ![t] = "forgetting"]
    /\ UNCHANGED <<client, calls, channel, launch, running, reads, controls,
                   connection>>

Forgotten(t) == registry' = registry \ {t} /\ sinks' = sinks \ {t}

\* ... the channel forgets the process and its sinks ...
Forget(t) ==
    /\ supervisor[t] = "forgetting"
    /\ Forgotten(t)
    /\ supervisor' = [supervisor EXCEPT ![t] = "disposing"]
    /\ UNCHANGED <<client, calls, launch, running, shell, reads, controls,
                   seen, connection>>

\* ... and the reader is let go of, `running` cleared and the pty closed.
Reap(t) ==
    /\ supervisor[t] = "disposing"
    /\ running' = running \ {t}
    /\ supervisor' = [supervisor EXCEPT ![t] = "reaped"]
    /\ UNCHANGED <<client, calls, channel, launch, shell, reads, controls,
                   seen, connection>>

-----------------------------------------------------------------------------
(* The connection. *)

\* Every request written before the window went has been dispatched by then.
Close ==
    /\ conn = "open"
    /\ \A t \in Term : listen[t] # "asked"
    /\ conn' = "draining"
    /\ sinks' = {}
    /\ UNCHANGED <<client, calls, registry, process, seen, closing, windows>>

InFlight(t) ==
    \/ client[t] = "creating"
    \/ input[t] = "writing"
    \/ launch[t] \notin {"none", "done", "failed"}

\* Mutant of CallsJoined: the calls are not waited for.
Undrained == TRUE

\* `while self.calls.join_next().await.is_some() {}`
CallsJoined == \A t \in Term : ~ InFlight(t)

\* shutdown_all takes the processes, asks every one of them ...
Drain ==
    /\ conn = "draining" /\ CallsJoined
    /\ conn' = "stopping"
    /\ closing' = registry
    /\ registry' = {}
    /\ UNCHANGED <<client, calls, sinks, process, seen, windows>>

Asked == closing \cap running

Stop ==
    /\ conn = "stopping"
    /\ conn' = "reaping"
    /\ controls' = [t \in Term |-> IF t \in Asked
                                   THEN Append(controls[t], "kill")
                                   ELSE controls[t]]
    /\ UNCHANGED <<client, calls, channel, launch, running, shell, reads,
                   supervisor, seen, closing, windows>>

\* Mutant of NothingToReap: one that never started is waited for too.
OnlyReaped(t) == supervisor[t] = "reaped"

NothingToReap(t) == supervisor[t] \in {"none", "reaped"}

\* ... and waits for all of them; one that never started has nothing to reap.
Reaped ==
    /\ conn = "reaping"
    /\ \A t \in closing : NothingToReap(t)
    /\ conn' = "closed"
    /\ UNCHANGED <<client, calls, channel, process, seen, closing, windows>>

\* PTY_SHUTDOWN has passed: the connection goes without them.
GiveUp ==
    /\ conn = "reaping"
    /\ conn' = "abandoned"
    /\ UNCHANGED <<client, calls, channel, process, seen, closing, windows>>

ClientStep(t) ==
    \/ Listen(t) \/ Start(t) \/ Started(t) \/ Exited(t)

CallStep(t) == RunCreate(t) \/ RunListen(t) \/ RunShutdown(t) \/ WriteFails(t)

LaunchStep(t) ==
    \/ Validate(t) \/ Spawn(t) \/ Store(t) \/ Announce(t) \/ Supervise(t)
    \/ Launched(t)

SupervisorStep(t) ==
    \/ Forward(t) \/ NoteExit(t) \/ NoteShutdown(t) \/ NoteKill(t)
    \/ FlushTimeout(t) \/ Kill(t) \/ Forget(t) \/ Reap(t)

Next ==
    \/ \E t \in Term :
        \/ Create(t) \/ ClientStep(t) \/ AskShutdown(t) \/ Type(t)
        \/ CallStep(t) \/ ShellReads(t)
        \/ LaunchStep(t)
        \/ Read(t) \/ Exit(t) \/ Wait(t)
        \/ SupervisorStep(t)
    \/ Close \/ Drain \/ Stop \/ Reaped \/ GiveUp

Spec == Init /\ [][Next]_vars

\* Tasks, threads and timers go on, and so does a client under way.  Nothing
\* obliges a terminal to be opened or closed, nor a shell to write, to read what
\* is typed or to exit, nor the window to go.
Fairness ==
    /\ \A t \in Term :
        /\ WF_vars(ClientStep(t))
        /\ WF_vars(CallStep(t))
        /\ WF_vars(LaunchStep(t))
        /\ WF_vars(Wait(t))
        /\ WF_vars(SupervisorStep(t))
    /\ WF_vars(Drain)
    /\ WF_vars(Stop)
    /\ WF_vars(Reaped)

FairSpec == Spec /\ Fairness

-----------------------------------------------------------------------------
(* Properties. *)

\* What the client is sent starts with `onProcessReady`, which its every write
\* waits for and which no launch loses while the window is there, and ends with
\* `onProcessExit`: three tasks and threads send it.
ReadyFirstExitLast ==
    \A t \in Term :
        /\ conn = "open" /\ launch[t] \in {"supervising", "done"} => seen[t] # << >>
        /\ \A i \in 1..Len(seen[t]) :
            /\ seen[t][i] = "ready" <=> i = 1
            /\ seen[t][i] = "exit" => i = Len(seen[t])

\* The supervisor is ending the shell, or has a kill ahead of it.
ToldToGo(t) ==
    \/ supervisor[t] \in {"flushing", "killing"}
    \/ \E i \in DOMAIN controls[t] : controls[t][i] = "kill"

\* A connection that has shut its terminals down leaves no shell behind,
\* whatever was still being launched when its window went; one that waits for
\* them, or has given up on it, has told every shell to go.
NoShellLeft ==
    /\ conn = "closed" => \A t \in Term : shell[t] # "alive"
    /\ conn \in {"reaping", "abandoned"} =>
        \A t \in Term : shell[t] = "alive" => ToldToGo(t)

\* The exit of a shell reaches the client, whichever way it came about.
ExitReported ==
    \A t \in Term :
        shell[t] = "exited" ~> (client[t] = "exited" \/ conn # "open")

\* A shutdown that finds its process running ends the shell, unless the `input`
\* it is queued behind is never read.
RunningIsKilled ==
    \A t \in Term :
        (ending[t] = "asked" /\ t \in running)
            ~> (shell[t] # "alive" \/ input[t] = "writing")

\* A window that has gone is done with its terminals in the end, unless one of
\* its shells does not read what was typed to it.
CloseCompletes ==
    conn = "draining" ~>
        \/ conn \in {"closed", "abandoned"}
        \/ \E t \in Term : input[t] = "writing" /\ shell[t] = "alive"

\* A terminal ends on both sides: its exit is reported, a shutdown of a running
\* one kills it, and a window that goes is done with it (supervise and kill,
\* process.rs:937; shutdown_all, registry.rs:63).
TerminalsEnd == ExitReported /\ RunningIsKilled /\ CloseCompletes

\* terminal.ts:827: shutdown(immediate) "the process will be killed immediately,
\* otherwise the process will be given some time" - also one being launched.
\* The code does not keep this, and no run asks for it: `shutdown` returns while
\* `running` is not set (process.rs:589), and the launch goes on.
ShutdownKills ==
    \A t \in Term : ending[t] = "asked" ~> [](shell[t] # "alive")

=============================================================================
