\* Two calls and two desktops: a call left over from one, and the other one's call.
CONSTANTS
  c1 = c1
  c2 = c2
  s1 = s1
  s2 = s2
  s3 = s3
  context = context
  edit = edit
  Calls = {c1, c2}
  Sockets = {s1, s2}
  Tools = {context, edit}
  Context = context
  Unknown = Unknown
  ToolOf <- Edits
  NoCall = NoCall
  NoSocket = NoSocket
SPECIFICATION FairSpec
INVARIANTS OneCallAtATime WaitsOnLiveSocket UnresolvedCallsLeaveTheirSocket OccupiedIsServed
PROPERTIES ResolvedOnce ForwardingSpec DesktopSpec EveryCallEnds ServesEnd
CHECK_DEADLOCK FALSE
