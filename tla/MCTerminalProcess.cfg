CONSTANTS
  Term = {t1}
  MaxData = 2
SPECIFICATION FairSpec
INVARIANTS
  TypeOK
  ReadyFirstExitLast
  NoShellLeft
PROPERTIES
  TerminalsEnd
CHECK_DEADLOCK FALSE
