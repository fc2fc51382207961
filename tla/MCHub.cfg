\* A desktop connection between two HTTP ones, two calls of the last, one of the desktop.
CONSTANTS
  h1 = h1
  h2 = h2
  d1 = d1
  c1 = c1
  c2 = c2
  c3 = c3
  s1 = s1
  s2 = s2
  NoSocket = NoSocket
  NoConnection = NoConnection
  Order <- InTheMiddle
  Desktops = {d1}
  Calls = {c1, c2, c3}
  UpstreamOf <- OnBoth
  Sockets = {s1}
SPECIFICATION FairSpec
INVARIANTS DesktopsDetached NoOwnerInEndedGroup
PROPERTIES OwnedSpec DesktopSpec ShutdownEnds EveryCallEnds
CHECK_DEADLOCK FALSE
