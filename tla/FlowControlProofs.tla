------------------------- MODULE FlowControlProofs -------------------------
(***************************************************************************)
(* Proofs about FlowControl for every choice of thresholds.  The           *)
(* strengthening ties the pause to the two watermarks, and the reader to   *)
(* the pause it has waited for: the window is only bounded because a       *)
(* thread that has come to its read found the terminal not paused.         *)
(***************************************************************************)
EXTENDS FlowControl, TLAPS

\* A resume is not missed: what is paused is at the low watermark or above it.
PausedAboveLow == Held => unacknowledged >= Low

\* A pause is not missed either.
UnpausedBelowHigh == ~ disposed /\ ~ paused => unacknowledged <= High

\* Only the reader pauses, so a reader that has waited is not paused again.
ReaderResumed == reader = "reading" /\ ~ disposed => ~ paused

Window ==
    /\ TypeOK
    /\ clearing <= replays
    /\ NeverOverCounted
    /\ WindowBounded
    /\ PausedAboveLow
    /\ UnpausedBelowHigh
    /\ ReaderResumed

IInv == Window /\ LagBounded

-----------------------------------------------------------------------------

\* The bufferer keeps at most one AckSize, and no more than it was given: the
\* `while` of `ack` ends at or below AckSize.
LEMMA LeftoverBounds ==
    ASSUME NEW count \in Nat
    PROVE  /\ Leftover(count) \in 0..AckSize
           /\ Leftover(count) <= count
<1>1. CASE count = 0
    BY <1>1, ThresholdAssumption DEF Leftover
<1>2. CASE count # 0
    <2> DEFINE rest == (count - 1) % AckSize
    <2>1. count - 1 \in Nat /\ AckSize \in Nat \ {0}
        BY <1>2, ThresholdAssumption
    <2>2. rest \in 0..(AckSize - 1) /\ rest <= count - 1
        BY <2>1
    <2>3. Leftover(count) = rest + 1
        BY <1>2 DEF Leftover
    <2> QED  BY <2>1, <2>2, <2>3
<1> QED  BY <1>1, <1>2

\* One replay more allows one window more.
LEMMA OneMore ==
    ASSUME NEW n \in Nat
    PROVE  (n + 1) * (High + ReadSize) = n * (High + ReadSize) + High + ReadSize
BY ThresholdAssumption, ReadSizeAssumption

LEMMA InitHolds == Init => IInv
<1> SUFFICES ASSUME Init
             PROVE  IInv
    OBVIOUS
<1>1. Window
    <2>1. paused \in BOOLEAN /\ disposed \in BOOLEAN
        BY DEF Init
    <2>2. TypeOK
        BY <2>1, ThresholdAssumption, MaxReplaysAssumption DEF Init, TypeOK
    <2>3. /\ NeverOverCounted /\ WindowBounded /\ PausedAboveLow
          /\ UnpausedBelowHigh /\ ReaderResumed
        BY ThresholdAssumption, ReadSizeAssumption
           DEF Init, NeverOverCounted, WindowBounded, PausedAboveLow,
               UnpausedBelowHigh, ReaderResumed, Held
    <2> QED  BY <2>2, <2>3 DEF Init, Window
<1>2. LagBounded
    <2>1. 0 * (High + ReadSize) = 0
        BY ThresholdAssumption, ReadSizeAssumption
    <2> QED  BY <2>1 DEF Init, LagBounded
<1> QED  BY <1>1, <1>2 DEF IInv

\* Every step keeps the strengthening.  LagBounded is kept apart from the
\* other parts: it is the only one with a product in it.
LEMMA StepHolds == IInv /\ [Next]_vars => IInv'
<1> SUFFICES ASSUME IInv, [Next]_vars
             PROVE  IInv'
    OBVIOUS
<1> DEFINE allowed == (replays - clearing) * (High + ReadSize)
<1>0. allowed \in Int /\ replays - clearing \in Nat
    BY ThresholdAssumption, ReadSizeAssumption, MaxReplaysAssumption DEF IInv, Window, TypeOK
<1>1. CASE WaitUntilResumed
    BY <1>1, ThresholdAssumption, ReadSizeAssumption
       DEF WaitUntilResumed, IInv, Window, TypeOK, NeverOverCounted, WindowBounded,
           LagBounded, PausedAboveLow, UnpausedBelowHigh, ReaderResumed, Held,
           flow, client
<1>2. ASSUME NEW count \in 1..ReadSize, Data(count)
      PROVE  IInv'
    <2>1. LagBounded'
        BY <1>0, <1>2, ReadSizeAssumption
           DEF Data, OnData, IInv, Window, TypeOK, LagBounded, client
    <2>2. /\ count \in Nat /\ count <= ReadSize
          /\ unacknowledged' = unacknowledged + count
          /\ sent' = sent + count
          /\ reader = "reading" /\ reader' = "waiting"
          /\ UNCHANGED <<disposed, unsent, acking, clearing, replays>>
        BY <1>2, ReadSizeAssumption DEF Data, OnData, client
    <2>3. /\ paused' \in BOOLEAN
          /\ paused' <=> paused \/ unacknowledged' > High
        BY <1>2 DEF Data, OnData
    <2>4. TypeOK'
        BY <2>2, <2>3 DEF IInv, Window, TypeOK
    <2>5. (NeverOverCounted /\ WindowBounded /\ ReaderResumed)'
        BY <2>2, ThresholdAssumption, ReadSizeAssumption
           DEF IInv, Window, TypeOK, NeverOverCounted, WindowBounded,
               UnpausedBelowHigh, ReaderResumed
    <2>6. (PausedAboveLow /\ UnpausedBelowHigh)'
        BY <2>2, <2>3, ThresholdAssumption, ReadSizeAssumption
           DEF IInv, Window, TypeOK, PausedAboveLow, UnpausedBelowHigh, Held
    <2>7. Window'
        BY <2>2, <2>4, <2>5, <2>6 DEF IInv, Window
    <2> QED  BY <2>1, <2>7 DEF IInv
<1>3. CASE EndOfData
    BY <1>3 DEF EndOfData, IInv, Window, TypeOK, NeverOverCounted, WindowBounded,
        LagBounded, PausedAboveLow, UnpausedBelowHigh, ReaderResumed, Held,
        flow, client
<1>4. ASSUME NEW count \in 1..sent, Parse(count)
      PROVE  IInv'
    <2> DEFINE left == Leftover(unsent + count)
    <2>1. count \in Nat /\ unsent \in Nat /\ unsent + count \in Nat
        BY <1>4, ThresholdAssumption DEF IInv, Window, TypeOK
    <2>2. left \in 0..AckSize /\ left <= unsent + count
        BY <2>1, LeftoverBounds
    <2>3. /\ sent' = sent - count
          /\ unsent' = left
          /\ acking' = acking + (unsent + count) - left
          /\ UNCHANGED <<unacknowledged, paused, disposed, reader, clearing, replays>>
        BY <1>4 DEF Parse, flow
    <2> HIDE DEF left
    <2>4. LagBounded'
        BY <1>0, <2>1, <2>2, <2>3, ThresholdAssumption DEF IInv, Window, TypeOK, LagBounded
    <2>5. Window'
        BY <1>4, <2>1, <2>2, <2>3, ThresholdAssumption
           DEF IInv, Window, TypeOK, NeverOverCounted, WindowBounded, PausedAboveLow,
               UnpausedBelowHigh, ReaderResumed, Held
    <2> QED  BY <2>4, <2>5 DEF IInv
<1>5. CASE Replay
    <2>1. replays' - clearing' = replays - clearing
        BY <1>5, MaxReplaysAssumption DEF Replay, IInv, Window, TypeOK
    <2>2. LagBounded'
        BY <1>5, <2>1 DEF Replay, IInv, LagBounded, flow
    <2>3. Window'
        BY <1>5, MaxReplaysAssumption
           DEF Replay, IInv, Window, TypeOK, NeverOverCounted, WindowBounded,
               PausedAboveLow, UnpausedBelowHigh, ReaderResumed, Held, flow
    <2> QED  BY <2>2, <2>3 DEF IInv
<1>6. CASE Acknowledge
    <2>1. LagBounded'
        BY <1>0, <1>6, ThresholdAssumption
           DEF Acknowledge, AcknowledgeData, IInv, Window, TypeOK, LagBounded, flow
    <2>2. Window'
        BY <1>6, ThresholdAssumption, ReadSizeAssumption
           DEF Acknowledge, AcknowledgeData, IInv, Window, TypeOK, NeverOverCounted,
               WindowBounded, PausedAboveLow, UnpausedBelowHigh, ReaderResumed,
               Held, flow
    <2> QED  BY <2>1, <2>2 DEF IInv
<1>7. CASE Clear
    <2>1. replays' - clearing' = (replays - clearing) + 1
        BY <1>7, MaxReplaysAssumption DEF Clear, IInv, Window, TypeOK
    <2>2. (replays' - clearing') * (High + ReadSize) = allowed + High + ReadSize
        BY <1>0, <2>1, OneMore
    <2>3. LagBounded'
        BY <1>0, <1>7, <2>2, ThresholdAssumption, ReadSizeAssumption
           DEF Clear, ClearUnacknowledged, IInv, Window, TypeOK, LagBounded,
               WindowBounded, flow
    <2>4. Window'
        <3>1. CASE disposed
            BY <1>7, <3>1, MaxReplaysAssumption
               DEF Clear, IInv, Window, TypeOK, NeverOverCounted, WindowBounded,
                   PausedAboveLow, UnpausedBelowHigh, ReaderResumed, Held, flow
        <3>2. CASE ~ disposed
            <4>1. /\ unacknowledged' = 0 /\ paused' = FALSE
                  /\ clearing' = clearing - 1 /\ clearing > 0
                  /\ UNCHANGED <<disposed, reader, sent, unsent, acking, replays>>
                BY <1>7, <3>2 DEF Clear, ClearUnacknowledged
            <4>2. /\ clearing' \in 0..MaxReplays /\ clearing' <= replays'
                  /\ unacknowledged' \in Nat
                BY <4>1, MaxReplaysAssumption DEF IInv, Window, TypeOK
            <4>3. paused' \in BOOLEAN
                BY <4>1
            <4>4. TypeOK'
                BY <4>1, <4>2, <4>3 DEF IInv, Window, TypeOK
            <4> QED
                BY <4>1, <4>2, <4>4, ThresholdAssumption, ReadSizeAssumption
                   DEF IInv, Window, TypeOK, NeverOverCounted, WindowBounded,
                       PausedAboveLow, UnpausedBelowHigh, ReaderResumed, Held
        <3> QED  BY <3>1, <3>2
    <2> QED  BY <2>3, <2>4 DEF IInv
<1>8. CASE Dispose
    BY <1>8 DEF Dispose, DisposeFlow, IInv, Window, TypeOK, NeverOverCounted,
        WindowBounded, LagBounded, PausedAboveLow, UnpausedBelowHigh,
        ReaderResumed, Held, client
<1>9. CASE UNCHANGED vars
    BY <1>9 DEF vars, IInv, Window, TypeOK, NeverOverCounted, WindowBounded,
        LagBounded, PausedAboveLow, UnpausedBelowHigh, ReaderResumed, Held,
        flow, client
<1> QED
    BY <1>1, <1>2, <1>3, <1>4, <1>5, <1>6, <1>7, <1>8, <1>9 DEF Next

-----------------------------------------------------------------------------

\* The window, its reader and its client, whatever the thresholds.
THEOREM Invariant == Spec => []IInv
<1>1. Init => IInv
    BY InitHolds
<1>2. IInv /\ [Next]_vars => IInv'
    BY StepHolds
<1> QED  BY <1>1, <1>2, PTL DEF Spec

\* One read beyond the high watermark at most: the pause of `on_data` comes in
\* time though it is checked after the read.
THEOREM WindowHolds == Spec => []WindowBounded
<1>1. IInv => WindowBounded
    BY DEF IInv, Window
<1> QED  BY <1>1, Invariant, PTL

\* What the client has still to parse and acknowledge is bounded by the window,
\* and by one window more for each replay.
THEOREM LagHolds == Spec => []LagBounded
<1>1. IInv => LagBounded
    BY DEF IInv, Window
<1> QED  BY <1>1, Invariant, PTL

\* Neither side of the connection holds more than the constants allow.
THEOREM MemoryHolds == Spec => []MemoryBounded
<1> QED  BY WindowHolds, LagHolds, PTL DEF MemoryBounded

\* A paused terminal with nothing under way holds exactly the characters the
\* bufferer keeps, and those are as many as the low watermark.
LEMMA StrandedBound == IInv => StrandedOnlyByFullAck
<1> SUFFICES ASSUME IInv, Held, Quiet
             PROVE  unsent = AckSize /\ AckSize = Low
    BY DEF StrandedOnlyByFullAck
<1>1. unacknowledged >= Low /\ unacknowledged <= unsent
    BY DEF IInv, Window, TypeOK, PausedAboveLow, NeverOverCounted, Held, Quiet
<1> QED  BY <1>1, ThresholdAssumption DEF IInv, Window, TypeOK

\* Nothing else strands a terminal, whatever the thresholds of types.rs are.
THEOREM OnlyAFullAckStrands == Spec => []StrandedOnlyByFullAck
<1> QED  BY StrandedBound, Invariant, PTL

=============================================================================
