\* A response that starts after the DELETE of its session binds the session again.
CONSTANTS
  a1 = a1
  a2 = a2
  a3 = a3
  a4 = a4
  b1 = b1
  x1 = x1
  s1 = s1
  s2 = s2
  clientA = clientA
  clientB = clientB
  stranger = stranger
  Requests = {a1, a2, a3, a4, b1, x1}
  Ids = {s1, s2}
  Credentials = {clientA, clientB}
  CredentialOf <- Owners
  MaxSessions = 1
  NoBinding = NoBinding
  NoId = NoId
SPECIFICATION Spec
INVARIANTS DeletedIsUnbound
CHECK_DEADLOCK FALSE
