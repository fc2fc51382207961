\* A call left over from one desktop closes the next one, whose registration arrives late.
CONSTANTS
  c1 = c1
  c2 = c2
  s1 = s1
  s2 = s2
  s3 = s3
  context = context
  edit = edit
  Calls = {c1, c2}
  Sockets = {s1, s2, s3}
  Tools = {context, edit}
  Context = context
  Unknown = Unknown
  ToolOf <- Edits
  NoCall = NoCall
  NoSocket = NoSocket
SPECIFICATION Spec
INVARIANTS SentOnlyIfRegistered
CHECK_DEADLOCK FALSE
