---------------------------- MODULE FlowControl ----------------------------
(***************************************************************************)
(* The window of unacknowledged characters of one terminal: the counter    *)
(* and the pause of `FlowControl` (tscode-pty/src/flow.rs), the thread     *)
(* that reads the pty (`spawn_reader`, process.rs) and the client's        *)
(* `AckDataBufferer` (terminalProcessManager.ts), which acknowledges what  *)
(* it has parsed in whole AckSizes and keeps the rest.                     *)
(*                                                                         *)
(* Everything is counted in UTF-16 code units, as the code does.  A read   *)
(* that completes no character counts nothing and is not a step.  The way  *)
(* an acknowledgement takes is only a number of characters here;           *)
(* PtyCommands has the client's queue of commands in its place.            *)
(***************************************************************************)
EXTENDS FlowThresholds

VARIABLES
    unacknowledged, \* FlowState::unacknowledged
    paused,         \* FlowState::paused
    disposed,       \* FlowState::disposed
    reader,         \* where the reader thread is in its loop
    sent,           \* characters counted and not parsed by the client yet
    unsent,         \* AckDataBufferer::_unsentCharCount
    acking,         \* characters acknowledged, the acks still on their way
    clearing,       \* clearUnacknowledgedChars calls on their way
    replays         \* how many the client has made

flow == <<unacknowledged, paused, disposed>>
client == <<unsent, acking, clearing, replays>>
vars == <<flow, reader, sent, client>>

TypeOK ==
    /\ unacknowledged \in Nat
    /\ paused \in BOOLEAN
    /\ disposed \in BOOLEAN
    /\ reader \in {"waiting", "reading", "stopped"}
    /\ sent \in Nat
    /\ unsent \in 0..AckSize
    /\ acking \in Nat
    /\ clearing \in 0..MaxReplays
    /\ replays \in 0..MaxReplays

Init ==
    /\ unacknowledged = 0
    /\ paused = FALSE
    /\ disposed = FALSE
    /\ reader = "waiting"
    /\ sent = 0
    /\ unsent = 0
    /\ acking = 0
    /\ clearing = 0
    /\ replays = 0

-----------------------------------------------------------------------------
(* The methods of FlowControl, each under its mutex. *)

\* Mutant of OnData: the pause is taken for each read on its own.
PausedByRead(count) ==
    /\ unacknowledged' = unacknowledged + count
    /\ paused' = (paused \/ count > High)
    /\ UNCHANGED disposed

\* Mutant of OnData: the read that crosses the watermark is not counted.
CrossingUncounted(count) ==
    /\ unacknowledged' = IF unacknowledged + count > High
                         THEN unacknowledged ELSE unacknowledged + count
    /\ paused' = (paused \/ unacknowledged + count > High)
    /\ UNCHANGED disposed

OnData(count) ==
    /\ unacknowledged' = unacknowledged + count
    /\ paused' = (paused \/ unacknowledged' > High)
    /\ UNCHANGED disposed

\* Mutant of AcknowledgeData: a resume only when everything is acknowledged.
ResumedAtZero(count) ==
    /\ unacknowledged' = IF count > unacknowledged THEN 0
                                                   ELSE unacknowledged - count
    /\ paused' = (paused /\ unacknowledged' > 0)
    /\ UNCHANGED disposed

AcknowledgeData(count) ==
    /\ unacknowledged' = IF count > unacknowledged THEN 0
                                                   ELSE unacknowledged - count
    /\ paused' = (paused /\ ~ (unacknowledged' < Low))
    /\ UNCHANGED disposed

ClearUnacknowledged ==
    /\ unacknowledged' = 0
    /\ paused' = FALSE
    /\ UNCHANGED disposed

DisposeFlow ==
    /\ disposed' = TRUE
    /\ paused' = FALSE
    /\ UNCHANGED unacknowledged

-----------------------------------------------------------------------------
(* The reader thread. *)

\* Mutant of WaitUntilResumed: only a resume wakes the thread.
ResumeOnly ==
    /\ reader = "waiting"
    /\ ~ paused
    /\ reader' = IF disposed THEN "stopped" ELSE "reading"
    /\ UNCHANGED <<flow, sent, client>>

\* wait_until_resumed: it blocks while paused, and ends the thread once disposed.
WaitUntilResumed ==
    /\ reader = "waiting"
    /\ ~ paused \/ disposed
    /\ reader' = IF disposed THEN "stopped" ELSE "reading"
    /\ UNCHANGED <<flow, sent, client>>

\* One read is counted, and only then handed to the supervisor, which sends it
\* to the client: no acknowledgement of it can come before it is counted.
Data(count) ==
    /\ reader = "reading"
    /\ OnData(count)
    /\ sent' = sent + count
    /\ reader' = "waiting"
    /\ UNCHANGED client

\* The read fails or ends, or the supervisor no longer takes what was read.
EndOfData ==
    /\ reader = "reading"
    /\ reader' = "stopped"
    /\ UNCHANGED <<flow, sent, client>>

-----------------------------------------------------------------------------
(* The client. *)

\* Mutant of Leftover: an `if` in place of the `while`.
OnceOnly(count) == IF count > AckSize THEN count - AckSize ELSE count

\* What `while (unsent > AckSize) unsent -= AckSize` leaves: never nothing.
Leftover(count) == IF count = 0 THEN 0 ELSE ((count - 1) % AckSize) + 1

\* xterm has parsed some of what was sent, and the AckDataBufferer takes it up.
Parse(count) ==
    /\ count <= sent
    /\ sent' = sent - count
    /\ unsent' = Leftover(unsent + count)
    /\ acking' = acking + (unsent + count) - Leftover(unsent + count)
    /\ UNCHANGED <<flow, reader, clearing, replays>>

\* triggerReplay: the client asks for the count to be forgotten.
Replay ==
    /\ replays < MaxReplays
    /\ replays' = replays + 1
    /\ clearing' = clearing + 1
    /\ UNCHANGED <<flow, reader, sent, unsent, acking>>

-----------------------------------------------------------------------------
(* The calls of the client arrive, and the process goes. *)

\* A process that is gone is out of the registry: the call fails, nothing more.
Acknowledge ==
    /\ acking >= AckSize
    /\ acking' = acking - AckSize
    /\ IF disposed THEN UNCHANGED flow ELSE AcknowledgeData(AckSize)
    /\ UNCHANGED <<reader, sent, unsent, clearing, replays>>

Clear ==
    /\ clearing > 0
    /\ clearing' = clearing - 1
    /\ IF disposed THEN UNCHANGED flow ELSE ClearUnacknowledged
    /\ UNCHANGED <<reader, sent, unsent, acking, replays>>

\* The supervisor's `kill` takes the process out of the registry and disposes.
Dispose ==
    /\ ~ disposed
    /\ DisposeFlow
    /\ UNCHANGED <<reader, sent, client>>

Next ==
    \/ WaitUntilResumed
    \/ \E count \in 1..ReadSize : Data(count)
    \/ EndOfData
    \/ \E count \in 1..sent : Parse(count)
    \/ Replay
    \/ Acknowledge
    \/ Clear
    \/ Dispose

Spec == Init /\ [][Next]_vars

\* The thread runs, the client parses what it has and its calls arrive; nothing
\* obliges the child to write or the terminal to go.
Fairness ==
    /\ WF_vars(WaitUntilResumed)
    /\ WF_vars(\E count \in 1..sent : Parse(count))
    /\ WF_vars(Acknowledge)
    /\ WF_vars(Clear)

FairSpec == Spec /\ Fairness

-----------------------------------------------------------------------------
(* Properties. *)

\* A pause of a process that is still there: a disposed one is not waited for.
Held == paused /\ ~ disposed

\* The count never runs ahead of what the client has still to acknowledge: a
\* pause always rests on characters someone can acknowledge, also after a
\* replay has forgotten some of them and their acks still come (saturating_sub).
NeverOverCounted == ~ disposed => unacknowledged <= sent + unsent + acking

\* The window is bounded: one read beyond the high watermark at most, though
\* the check comes after the read and not before it.
WindowBounded == ~ disposed => unacknowledged <= High + ReadSize

\* Nor does the client lag further behind than the window, and once more for
\* each replay: a replay forgets what is under way, it does not take it back,
\* and the acks that still come for it let in as much again.
LagBounded ==
    ~ disposed =>
        sent + unsent + acking
            <= unacknowledged + (replays - clearing) * (High + ReadSize)

\* What the backend counts and what the client holds are both bounded.
MemoryBounded == WindowBounded /\ LagBounded

\* Nothing is left to be parsed, acknowledged or cleared.
Quiet == sent = 0 /\ acking = 0 /\ clearing = 0

\* flow.rs, `the_ack_size_can_never_strand_a_paused_terminal`: a paused
\* terminal has something under way that can resume it.  The test compares the
\* two constants only, and with AckSize = Low, as in types.rs, the code does not
\* keep it: the resume and the bufferer's `while` are both strict.
NeverStranded == Held => ~ Quiet

\* What exactly can go wrong, and only when the two are equal, as they are in types.rs:
\* only a leftover of one whole AckSize, which the bufferer's strict comparison
\* keeps, holds the terminal paused.
StrandedOnlyByFullAck == (Held /\ Quiet) => (unsent = AckSize /\ AckSize = Low)

\* A reader that is parked when its process goes is let go of (`dispose`).
ReaderReleased == disposed ~> (reader # "waiting")

=============================================================================
