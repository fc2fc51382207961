\* Fifteen deployments, seven routes to check, nine listings of one upstream and two of
\* another; a listing has at most four tools, a contract three, and a name three parts.
CONSTANTS
  s1 = s1
  s2 = s2
  u1 = u1
  u2 = u2
  MaxTools = 4
  MaxName = 3
  MaxContract = 3
  StatusSchema = s1
  NoUrl = NoUrl
  NoNamespace = NoNamespace
  Deployments <- SomeDeployments
  CheckRoutes <- SomeRoutes
  Urls = {u1, u2}
  ListingsOf <- SomeListings
  Unreachable = Unreachable
SPECIFICATION Spec
INVARIANTS MatchedIsAccepted FaithfulPairMatches PublicNamesAreDistinct
