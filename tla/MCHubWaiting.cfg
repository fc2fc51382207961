\* A desktop connection is closed before the HTTP one where a request waits.
CONSTANTS
  h1 = h1
  h2 = h2
  d1 = d1
  c1 = c1
  c2 = c2
  c3 = c3
  s1 = s1
  s2 = s2
  NoSocket = NoSocket
  NoConnection = NoConnection
  Order <- DesktopFirst
  Desktops = {d1}
  Calls = {c1, c2}
  UpstreamOf <- OnHttp
  Sockets = {s1}
SPECIFICATION Spec
INVARIANTS WaitingAreSkipped
CHECK_DEADLOCK FALSE
