\* Two calls and a buffer of one: both in the stream, or one with the owner.
CONSTANTS
  c1 = c1
  c2 = c2
  c3 = c3
  Calls = {c1, c2}
  Signed = {c1}
  Capacity = 1
  NoCall = NoCall
SPECIFICATION FairSpec
PROPERTIES EveryCallAnswered OwnerEnds
CHECK_DEADLOCK FALSE
