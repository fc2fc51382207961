---------------------------- MODULE CatalogCheck ----------------------------
(***************************************************************************)
(* The acceptance check of a deployed route (catalog_check.py) while the   *)
(* Hub restarts with other files and the upstreams are redeployed: a       *)
(* process of two awaits, a listing of the upstream and then one of the    *)
(* Hub, each over a session of its own, that ends in a receipt.            *)
(***************************************************************************)
EXTENDS HubCatalog

CONSTANTS Deployments, \* the sequences of files the Hub may start with
          CheckRoutes, \* the configurations the check may be given
          Urls,        \* the upstreams
          ListingsOf,  \* what each upstream may list
          Unreachable  \* an upstream or a Hub that does not answer

IsConfig(c) ==
  /\ c.namespace \in STRING /\ c.namespace # NoNamespace
  /\ c.url \in Urls \cup {NoUrl}
  /\ DOMAIN c.tools = 1..Len(c.tools) /\ Len(c.tools) \in Nat
  /\ \A t \in Tools(c) : t.name \in Seq(STRING) /\ t.name # <<>>

ASSUME CheckAssumption ==
  /\ \A f \in Deployments : /\ IsFiniteSet(DOMAIN f)
                            /\ \A i \in DOMAIN f : IsConfig(f[i].config)
  /\ \A c \in CheckRoutes : IsConfig(c)
  /\ \A u \in Urls : \A l \in ListingsOf[u] : IsFiniteSet(DOMAIN l.tools)
  /\ Len(StatusName) <= MaxName

VARIABLES
  files,     \* the files the Hub started with last
  hub,       \* the configurations of its registry, or Unreachable
  upstream,  \* what each upstream lists at present
  pc,        \* where the check is
  route,     \* the configuration it checks
  direct,    \* the contract of the upstream
  receipt,   \* the status of its receipt
  listed,    \* history: the upstream's listing, as the check received it
  served     \* history: the registry of the Hub when the check listed it

world == <<files, hub, upstream>>
check == <<pc, route, direct, receipt, listed, served>>
vars == <<world, check>>

\* "refused" and "unavailable" are both status error in the receipt: something
\* it read is not acceptable, or the session failed or the deadline passed.
Receipts == {"none", "matched", "mismatch", "refused", "unavailable"}

Init ==
  /\ files = <<>> /\ hub = Unreachable
  /\ upstream = [u \in Urls |-> Unreachable]
  /\ pc = "idle" /\ route \in CheckRoutes
  /\ direct = <<>> /\ receipt = "none"
  /\ listed = Unreachable /\ served = Unreachable

-----------------------------------------------------------------------------
(* A start of the Hub reads the files once; files it refuses leave it down. *)
Start ==
  /\ hub = Unreachable
  /\ files' \in Deployments
  /\ hub' = IF LoadsCatalog(files') THEN Configs(files') ELSE Unreachable
  /\ UNCHANGED <<upstream, check>>

Stop ==
  /\ hub # Unreachable /\ hub' = Unreachable
  /\ UNCHANGED <<files, upstream, check>>

Redeploy(u) ==
  /\ \E l \in ListingsOf[u] \cup {Unreachable} : upstream' = [upstream EXCEPT ![u] = l]
  /\ UNCHANGED <<files, hub, check>>

-----------------------------------------------------------------------------
Finish(status) ==
  /\ pc' = "done" /\ receipt' = status

\* A plausible defect: the receipt of an earlier check is not cleared.
FaultyBegin ==
  /\ pc \in {"idle", "done"}
  /\ route' \in CheckRoutes /\ Validates(route') /\ CanBeChecked(route')
  /\ direct' = <<>> /\ listed' = Unreachable /\ served' = Unreachable
  /\ pc' = "listing upstream" /\ UNCHANGED <<world, receipt>>

Begin ==
  /\ pc \in {"idle", "done"}
  /\ route' \in CheckRoutes
  /\ direct' = <<>> /\ listed' = Unreachable /\ served' = Unreachable
  /\ IF Validates(route') /\ CanBeChecked(route')
     THEN pc' = "listing upstream" /\ receipt' = "none"
     ELSE Finish("refused")
  /\ UNCHANGED world

ListUpstream ==
  /\ pc = "listing upstream" /\ upstream[route.url] # Unreachable
  /\ listed' = upstream[route.url]
  /\ IF IsEvidence(listed', NoNamespace)
     THEN /\ pc' = "listing hub" /\ receipt' = "none"
          /\ direct' = Contract(listed', NoNamespace)
     ELSE Finish("refused") /\ direct' = <<>>
  /\ UNCHANGED <<world, route, served>>

Verdict(expected, throughHub) ==
  IF Matches(expected, direct) /\ Matches(expected, throughHub) THEN "matched" ELSE "mismatch"

ListHub ==
  /\ pc = "listing hub" /\ hub # Unreachable
  /\ served' = hub
  /\ LET listing == HubListing(hub) IN
       IF IsEvidence(listing, route.namespace)
       THEN Finish(Verdict(Expected(route), Contract(listing, route.namespace)))
       ELSE Finish("refused")
  /\ UNCHANGED <<world, route, direct, listed>>

\* A session fails at any await, or the total deadline passes.
Fail ==
  /\ pc \in {"listing upstream", "listing hub"}
  /\ Finish("unavailable")
  /\ UNCHANGED <<world, route, direct, listed, served>>

Next ==
  \/ Start \/ Stop \/ \E u \in Urls : Redeploy(u)
  \/ Begin \/ ListUpstream \/ ListHub \/ Fail

Spec == Init /\ [][Next]_vars

-----------------------------------------------------------------------------
FilesAreDeployed == files \in Deployments \cup {<<>>}

(* Every variable has the values the code can give it, and only a check    *)
(* that is done has a receipt, of its own route.                           *)
TypeOK ==
  /\ FilesAreDeployed
  /\ hub \in {Configs(f) : f \in Deployments} \cup {Unreachable}
  /\ DOMAIN upstream = Urls
  /\ \A u \in Urls : upstream[u] \in ListingsOf[u] \cup {Unreachable}
  /\ pc \in {"idle", "listing upstream", "listing hub", "done"}
  /\ route \in CheckRoutes /\ receipt \in Receipts
  /\ pc = "done" <=> receipt # "none"
  /\ served \in {Configs(f) : f \in Deployments} \cup {Unreachable}

(* A matched receipt is evidence for the calls of clients: the Hub served  *)
(* the namespace from a configuration whose connection accepts the listing *)
(* the check received, although the connection compares it by other code,  *)
(* and the listing had no tool besides.  (catalog_check._contract and      *)
(* _comparison against LazyConnection._check_catalog.)  The namespace      *)
(* "hub" is excepted: the Hub's own tool is listed in it, and would pass   *)
(* for a tool of a route that no Hub serves.                               *)
MatchedIsAccepted ==
  receipt = "matched" /\ route.namespace # "hub" =>
    /\ {t.name : t \in Range(listed.tools)} = ToolNames(route)
    /\ \E c \in served : c.namespace = route.namespace /\ Accepts(c, listed)

WithinLimits(configs) ==
  /\ \A e \in Entries(configs) : Len(NameOf(e)) <= MaxName
  /\ Cardinality(Entries(configs)) < MaxTools

(* The check does not raise a false alarm: when the Hub serves the route   *)
(* that is checked, with any other upstreams beside it, and the upstream   *)
(* listed that route's tools and no others, the receipt is matched.  The   *)
(* tools' public names lose exactly the prefix they were given.  It does   *)
(* not hold for the namespace "hub", which the Hub's own tool is in.       *)
FaithfulPairMatches ==
  ( /\ pc = "done" /\ receipt # "unavailable" /\ served # Unreachable
    /\ route.namespace # "hub" /\ WithinLimits(served)
    /\ \E c \in served : c.namespace = route.namespace /\ Expected(c) = Expected(route)
    /\ Accepts(route, listed) /\ Cardinality(DOMAIN listed.tools) = Len(route.tools) )
  => receipt = "matched"

(* A public name can only be refused for being reserved: the names that    *)
(* load_upstreams keeps apart cannot meet again with their namespaces in   *)
(* front, so that a name leads to one upstream.  (Catalog.__init__.)       *)
PublicNamesAreDistinct ==
  LoadsUpstreams(files) =>
    BuildsCatalog(Configs(files)) \/ TakesReserved(Configs(files))

-----------------------------------------------------------------------------
(* Why MatchedIsAccepted holds: the Hub serves what it could load, and the *)
(* check keeps the contract of evidence about a route it may check.        *)
HubIsLoaded ==
  hub # Unreachable => \E f \in Deployments : LoadsCatalog(f) /\ hub = Configs(f)

ContractIsEvidence ==
  /\ pc \in {"listing upstream", "listing hub"} => CanBeChecked(route)
  /\ pc = "listing hub" => /\ IsEvidence(listed, NoNamespace)
                           /\ direct = Contract(listed, NoNamespace)

IInv ==
  /\ route \in CheckRoutes
  /\ HubIsLoaded /\ ContractIsEvidence /\ MatchedIsAccepted
=============================================================================
