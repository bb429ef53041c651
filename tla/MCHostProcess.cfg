SPECIFICATION HostFairSpec
CONSTANTS
    Call <- MCCall
    FollowUp <- MCFollowUp
    NoCall = "none"
INVARIANTS NoCallHangs NoAnswerLost
PROPERTIES StopEnds
CHECK_DEADLOCK FALSE
