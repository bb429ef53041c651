--------------------------- MODULE FlowThresholds ---------------------------
(***************************************************************************)
(* The constants of the window of one terminal: `flow_control`             *)
(* (tscode-pty/src/types.rs), and the size of a read (process.rs).         *)
(***************************************************************************)
EXTENDS Integers

CONSTANTS
    High,       \* HIGH_WATERMARK_CHARS
    Low,        \* LOW_WATERMARK_CHARS
    AckSize,    \* CHAR_COUNT_ACK_SIZE
    ReadSize,   \* the most characters one read decodes to
    MaxReplays  \* the bound on the replays the client asks for

\* CHAR_COUNT_ACK_SIZE <= LOW_WATERMARK_CHARS is what flow.rs tests.  In
\* types.rs the two are equal.
ASSUME ThresholdAssumption ==
    /\ AckSize \in Nat \ {0} /\ Low \in Nat /\ High \in Nat
    /\ AckSize <= Low /\ Low <= High
ASSUME ReadSizeAssumption == ReadSize \in Nat \ {0}
ASSUME MaxReplaysAssumption == MaxReplays \in Nat

=============================================================================
