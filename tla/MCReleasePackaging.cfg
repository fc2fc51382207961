\* Two platforms, three revisions of which two have the release at hand, two contents.
CONSTANTS
  image = image
  a = a
  b = b
  flatImage = flatImage
  flatFile = flatFile
  r1 = r1
  r2 = r2
  r3 = r3
  v1 = v1
  v2 = v2
  Platforms = {amd64, arm64}
  Logical = {image, a, b}
  Refs = {image, a}
  FlatNames = {flatImage, flatFile}
  Flat <- MCFlat
  Digests = {d1, d2}
  Revisions = {r1, r2, r3}
  Releases = {v1, v2}
  ReleaseOf <- MCReleaseOf
  Head = r1
  Cut = Cut
  NoRun = NoRun
  MaxTouches = 2
  NoFlat = NoFlat
SPECIFICATION Spec
SYMMETRY Symmetry
INVARIANTS PublishedIsGenuine PackagedIsAccepted
CHECK_DEADLOCK FALSE
