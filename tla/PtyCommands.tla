---------------------------- MODULE PtyCommands ----------------------------
(***************************************************************************)
(* FlowControl with what lies around it: a shell behind a terminal device  *)
(* whose two buffers are finite, and the queue of TauriTerminalProcess,    *)
(* which sends a command once the one before it has been answered.         *)
(* Acknowledgements wait their turn in that queue behind everything the    *)
(* user has typed, and an `input` is answered when the shell's side of the *)
(* device has taken it all.                                                *)
(*                                                                         *)
(* Commands that do not touch the window or the device (resize, signals,   *)
(* property updates) are answered at once and are left out.                *)
(***************************************************************************)
EXTENDS FlowThresholds, FiniteSets, SequencesExt

CONSTANTS
    DeviceSize,     \* the characters the device holds in each direction
    Output,         \* what the shell has to write
    InputSize,      \* the characters of one `input` command
    MaxInputs       \* the bound on the commands the user types

ASSUME DeviceAssumption ==
    /\ DeviceSize \in Nat \ {0} /\ Output \in Nat
    /\ InputSize \in Nat \ {0} /\ MaxInputs \in Nat

VARIABLES
    unacknowledged, paused, disposed,   \* FlowState
    reader,     \* where the reader thread is in its loop
    sent,       \* characters counted and not parsed by the client yet
    unsent,     \* AckDataBufferer::_unsentCharCount
    replays,    \* clearUnacknowledgedChars calls made
    queue,      \* TauriTerminalProcess::_queue, the command on its way first
    written,    \* what the device has taken of the `input` on its way
    typed,      \* `input` commands made
    told,       \* the supervisor has been told to shut the process down
    due,        \* characters the shell has still to write
    output,     \* characters in the device, from the shell
    pending     \* characters in the device, to the shell

flow == <<unacknowledged, paused, disposed>>
device == <<due, output, pending>>
commands == <<queue, written, typed, replays>>
commandVars == <<flow, reader, sent, unsent, commands, told, device>>

Command == {"ack", "clear", "input", "shutdown"}

Count(command) == Cardinality({i \in 1..Len(queue) : queue[i] = command})

\* What is promised of the window: the queue carries the calls.
Flow == INSTANCE FlowControl WITH
    acking <- AckSize * Count("ack"),
    clearing <- Count("clear")

CommandsTypeOK ==
    /\ Flow!TypeOK
    /\ queue \in Seq(Command)
    /\ written \in 0..InputSize
    /\ typed \in 0..MaxInputs
    /\ told \in BOOLEAN
    /\ due \in 0..Output
    /\ output \in 0..DeviceSize
    /\ pending \in 0..DeviceSize
    \* Only the `input` at the head of the queue is partly written.
    /\ written > 0 => queue # << >> /\ Head(queue) = "input"
    \* Only the supervisor disposes of the process, once it has been told to.
    /\ disposed => told

CommandsInit ==
    /\ queue = << >>
    /\ Flow!Init
    /\ written = 0
    /\ typed = 0
    /\ told = FALSE
    /\ due = Output
    /\ output = 0
    /\ pending = 0

-----------------------------------------------------------------------------
(* The shell writes what it has to, and blocks in the write while the       *)
(* device is full.  It reads its input when it likes.                       *)

ShellWrites ==
    /\ ~ disposed /\ due > 0 /\ output < DeviceSize
    /\ due' = due - 1
    /\ output' = output + 1
    /\ UNCHANGED <<flow, reader, sent, unsent, commands, told, pending>>

ShellTakes ==
    /\ ~ disposed /\ pending > 0
    /\ pending' = pending - 1
    /\ UNCHANGED <<flow, reader, sent, unsent, commands, told, due, output>>

-----------------------------------------------------------------------------
(* The reader thread. *)

WaitUntilResumed ==
    /\ UNCHANGED <<queue, written, typed, told, device>>
    /\ Flow!WaitUntilResumed

Data(count) ==
    /\ reader = "reading" /\ count <= output
    /\ Flow!OnData(count)
    /\ sent' = sent + count
    /\ output' = output - count
    /\ reader' = "waiting"
    /\ UNCHANGED <<unsent, commands, told, due, pending>>

\* The read fails once the device is closed.
EndOfData ==
    /\ reader = "reading" /\ disposed
    /\ reader' = "stopped"
    /\ UNCHANGED <<flow, sent, unsent, commands, told, device>>

-----------------------------------------------------------------------------
(* The client. *)

Queue(command) == queue' = Append(queue, command)

\* Mutant of Acks: a whole AckSize is acknowledged though it is kept, too.
EveryWhole(count) == count \div AckSize

\* Mutant of Acks: the last acknowledgement of a large chunk is not sent.
LastAckLost(count) ==
    LET acks == (count - Flow!Leftover(count)) \div AckSize
    IN  IF acks > 1 THEN acks - 1 ELSE acks

\* As many acknowledgements as there are whole AckSizes, less the last.
Acks(count) == (count - Flow!Leftover(count)) \div AckSize

Parse(count) ==
    /\ count <= sent
    /\ sent' = sent - count
    /\ unsent' = Flow!Leftover(unsent + count)
    /\ queue' = queue \o [i \in 1..Acks(unsent + count) |-> "ack"]
    /\ UNCHANGED <<flow, reader, written, typed, replays, told, device>>

TypeInput ==
    /\ typed < MaxInputs
    /\ typed' = typed + 1
    /\ Queue("input")
    /\ UNCHANGED <<flow, reader, sent, unsent, written, replays, told, device>>

Replay ==
    /\ replays < MaxReplays
    /\ replays' = replays + 1
    /\ Queue("clear")
    /\ UNCHANGED <<flow, reader, sent, unsent, written, typed, told, device>>

\* The user closes the terminal.
QueueShutdown ==
    /\ "shutdown" \notin ToSet(queue) /\ ~ disposed
    /\ Queue("shutdown")
    /\ UNCHANGED <<flow, reader, sent, unsent, written, typed, replays, told, device>>

-----------------------------------------------------------------------------
(* The command on its way.  Once the process is gone every one fails, which *)
(* is logged, and the next is sent.                                         *)

Answered(command) ==
    /\ queue # << >> /\ Head(queue) = command
    /\ queue' = Tail(queue)

Acknowledge ==
    /\ Answered("ack")
    /\ IF disposed THEN UNCHANGED flow ELSE Flow!AcknowledgeData(AckSize)
    /\ UNCHANGED <<reader, sent, unsent, written, typed, replays, told, device>>

Clear ==
    /\ Answered("clear")
    /\ IF disposed THEN UNCHANGED flow ELSE Flow!ClearUnacknowledged
    /\ UNCHANGED <<reader, sent, unsent, written, typed, replays, told, device>>

\* `write_all` hands the device what it has room for, and blocks.
Write ==
    /\ queue # << >> /\ Head(queue) = "input" /\ ~ disposed
    /\ written < InputSize /\ pending < DeviceSize
    /\ written' = written + 1
    /\ pending' = pending + 1
    /\ UNCHANGED <<flow, reader, sent, unsent, queue, typed, replays, told, due, output>>

\* Mutant of Written: the flush waits for the shell to have read it all.
Drained ==
    /\ Answered("input")
    /\ (written = InputSize /\ pending = 0) \/ disposed
    /\ written' = 0
    /\ UNCHANGED <<flow, reader, sent, unsent, typed, replays, told, device>>

Written ==
    /\ Answered("input")
    /\ written = InputSize \/ disposed
    /\ written' = 0
    /\ UNCHANGED <<flow, reader, sent, unsent, typed, replays, told, device>>

\* The process only tells its supervisor; the client is answered at once.
Shutdown ==
    /\ Answered("shutdown")
    /\ told' = TRUE
    /\ UNCHANGED <<flow, reader, sent, unsent, written, typed, replays, device>>

\* The supervisor's `kill`, after the flush it allows for: the window is
\* disposed, and the process is out of the registry.
SupervisorKills ==
    /\ told /\ ~ disposed
    /\ Flow!DisposeFlow
    /\ UNCHANGED <<reader, sent, unsent, commands, told, device>>

CommandsNext ==
    \/ ShellWrites \/ ShellTakes
    \/ WaitUntilResumed \/ EndOfData
    \/ \E count \in 1..ReadSize : Data(count)
    \/ \E count \in 1..sent : Parse(count)
    \/ TypeInput \/ Replay \/ QueueShutdown
    \/ Acknowledge \/ Clear \/ Write \/ Written \/ Shutdown \/ SupervisorKills

CommandsSpec == CommandsInit /\ [][CommandsNext]_commandVars

\* The shell writes, and reads at the latest when it has nothing left to write;
\* the reader thread, the client's parser, its queue and the supervisor go on.
\* What the user does is up to the user.
CommandsFairness ==
    /\ WF_commandVars(ShellWrites) /\ WF_commandVars(due = 0 /\ ShellTakes)
    /\ WF_commandVars(WaitUntilResumed) /\ WF_commandVars(EndOfData)
    /\ WF_commandVars(\E count \in 1..ReadSize : Data(count))
    /\ WF_commandVars(\E count \in 1..sent : Parse(count))
    /\ WF_commandVars(Acknowledge \/ Clear \/ Write \/ Written \/ Shutdown)
    /\ WF_commandVars(SupervisorKills)

CommandsFairSpec == CommandsSpec /\ CommandsFairness

-----------------------------------------------------------------------------
(* Properties. *)

\* The queue carries acknowledgements and replays as FlowControl asks for:
\* what is proved of the window there holds here.
ImplementsFlow == Flow!Spec

\* The bounds on the window and on the client's lag, for the window whose
\* acknowledgements wait in the queue behind an `input` (_send,
\* tauriTerminalProcess.ts:213).
QueueMemoryBounded == Flow!MemoryBounded

\* A paused terminal whose queue has nothing left for the window is stranded by a
\* leftover of one whole AckSize, and by nothing else the queue does (ack,
\* terminalProcessManager.ts:750).
QueueStrandedOnlyByFullAck == Flow!StrandedOnlyByFullAck

\* A reader that is parked when the supervisor kills its process is let go of
\* (dispose, flow.rs:109).
QueueReaderReleased == Flow!ReaderReleased

\* The command on its way is an `input` that the shell does not take, because it
\* is blocked itself, writing to a device that nobody reads until an
\* acknowledgement behind the `input` has arrived.
Stalemate ==
    /\ queue # << >> /\ Head(queue) = "input" /\ written < InputSize
    /\ pending = DeviceSize /\ due > 0 /\ output = DeviceSize
    /\ paused /\ reader = "waiting"

\* Nothing is on its way, and what the bufferer keeps is all that is counted.
Stranded ==
    /\ Flow!Held /\ Flow!Quiet
    /\ unsent = AckSize /\ unacknowledged = unsent

\* All the shell writes reaches the client, through every pause on the way,
\* unless it comes to one of the two.
OutputArrives ==
    <>[](\/ disposed \/ Stalemate \/ Stranded
         \/ due = 0 /\ output = 0 /\ sent = 0)

\* terminal.ts:827: a terminal that is shut down is killed, unless the command
\* never leaves the queue.
ShutdownArrives == ("shutdown" \in ToSet(queue)) ~> (disposed \/ []Stalemate)

\* The one queue can come to a stop in two ways only, both with the reader
\* parked: the bufferer keeps the very acknowledgement that would resume it, or
\* the shell and the client wait for each other, because the acknowledgements
\* are behind an `input` that is larger than the device has room for (_send,
\* tauriTerminalProcess.ts:213; input, process.rs:515).  Otherwise what the shell
\* writes and what the client commands both get through.
QueueDelivers == OutputArrives /\ ShutdownArrives

=============================================================================
