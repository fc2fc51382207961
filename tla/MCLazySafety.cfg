\* Three calls, one of them signed; a buffer of one, so that a sender can block while
\* another request is buffered and the owner works on the third.
CONSTANTS
  c1 = c1
  c2 = c2
  c3 = c3
  Calls = {c1, c2, c3}
  Signed = {c1}
  Capacity = 1
  NoCall = NoCall
SPECIFICATION Spec
SYMMETRY Symmetry
INVARIANTS TypeOK InOrderAtMostOnce OneSession ConnectedIsLive NoLostRequest AnswerIsOwn
PROPERTIES DispatchChecked ForwardingSpec OwnedSpec
CHECK_DEADLOCK FALSE
