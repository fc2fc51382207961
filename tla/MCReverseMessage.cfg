\* A desktop registers while a failed call still waits for its own socket to close.
CONSTANTS
  c1 = c1
  c2 = c2
  s1 = s1
  s2 = s2
  s3 = s3
  context = context
  edit = edit
  Calls = {c1, c2}
  Sockets = {s1, s2, s3}
  Tools = {context, edit}
  Context = context
  Unknown = Unknown
  ToolOf <- Edits
  NoCall = NoCall
  NoSocket = NoSocket
SPECIFICATION Spec
INVARIANTS FailureIsExplained
CHECK_DEADLOCK FALSE
