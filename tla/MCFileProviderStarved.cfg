CONSTANTS
  o1 = o1
  o2 = o2
  o3 = o3
  c1 = c1
  c2 = c2
  Op = {o1, o2, o3}
  Conn = {c1, c2}
  Closing = {c1}
  File = {1, 3}
  Jobs <- CloneOntoStream
  WriteRetries = 0
  None = None
SPECIFICATION FairSpec
PROPERTIES
  OtherWindowsServed
CHECK_DEADLOCK FALSE
