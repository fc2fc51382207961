\* Four variables, three tokens, lists of up to two entries and one that is too long.
CONSTANTS
  shared = shared
  a = a
  b = b
  odd = odd
  x = x
  y = y
  bad = bad
  t1 = t1
  t2 = t2
  t3 = t3
  Names = {shared, a, b, odd}
  TokenName = shared
  GoodNames = {shared, a, b}
  Unset = Unset
  Texts = {t1, t2, t3, Unset}
  GoodTokens = {t1, t2, t3}
  Subjects = {x, y, bad}
  GoodSubjects = {x, y}
  Anonymous = Anonymous
  Nobody = Nobody
  MaxClients = 2
  Files <- MCFiles
SPECIFICATION Spec
SYMMETRY Symmetry
INVARIANTS IdentityIsConfigured KeysApart SoundIsAccepted
CHECK_DEADLOCK FALSE
