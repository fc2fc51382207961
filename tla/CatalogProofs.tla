---------------------------- MODULE CatalogProofs ----------------------------
(* Theorems about HubCatalog and CatalogCheck, for any deployments, routes *)
(* and listings.                                                           *)
EXTENDS CatalogCheck, SequenceTheorems, FiniteSetTheorems, TLAPS

-----------------------------------------------------------------------------
(* Public names.                                                           *)

(* The head of a public name is the namespace, the rest is the tool's name. *)
LEMMA PublicNameParts ==
  ASSUME NEW c, NEW t \in Tools(c), IsConfig(c)
  PROVE  /\ PublicName(c, t) \in Seq(STRING) /\ Len(PublicName(c, t)) > 1
         /\ Head(PublicName(c, t)) = c.namespace
         /\ Tail(PublicName(c, t)) = t.name
<1> DEFINE ns == c.namespace
           n == t.name
<1>1. ns \in STRING /\ n \in Seq(STRING) /\ n # <<>>
  BY DEF IsConfig
<1>2. <<ns>> \in Seq(STRING) /\ Len(<<ns>>) = 1
  BY <1>1
<1>3. Len(n) \in Nat /\ Len(n) > 0
  BY <1>1
<1>4. /\ <<ns>> \o n \in Seq(STRING)
      /\ Len(<<ns>> \o n) = 1 + Len(n)
      /\ (<<ns>> \o n)[1] = ns
      /\ \A i \in 1 .. Len(n) : (<<ns>> \o n)[i + 1] = n[i]
  BY <1>1, <1>2, <1>3
<1>5. Tail(<<ns>> \o n) = n
  <2>1. Tail(<<ns>> \o n) \in Seq(STRING) /\ Len(Tail(<<ns>> \o n)) = Len(n)
    BY <1>3, <1>4
  <2>2. \A i \in 1 .. Len(n) : Tail(<<ns>> \o n)[i] = n[i]
    BY <1>3, <1>4
  <2> QED  BY <1>1, <2>1, <2>2, SeqEqual
<1> QED  BY <1>3, <1>4, <1>5 DEF PublicName

(* What load_upstreams keeps apart, Catalog.__init__ finds distinct: it can *)
(* refuse a name only for being reserved.                                   *)
LEMMA DistinctNames ==
  ASSUME NEW f, \A i \in DOMAIN f : IsConfig(f[i].config), LoadsUpstreams(f)
  PROVE  BuildsCatalog(Configs(f)) \/ TakesReserved(Configs(f))
<1> SUFFICES ASSUME NEW d \in Entries(Configs(f)), NEW e \in Entries(Configs(f)),
                    NameOf(d) = NameOf(e)
             PROVE  d = e
  BY DEF BuildsCatalog
<1>1. PICK i \in Taken(f) : \E s \in Tools(f[i].config) : d = <<f[i].config, s>>
  BY DEF Entries, Configs
<1>2. PICK j \in Taken(f) : \E t \in Tools(f[j].config) : e = <<f[j].config, t>>
  BY DEF Entries, Configs
<1>a. PICK s \in Tools(f[i].config) : d = <<f[i].config, s>>
  BY <1>1
<1>b. PICK t \in Tools(f[j].config) : e = <<f[j].config, t>>
  BY <1>2
<1>3. PublicName(f[i].config, s) = PublicName(f[j].config, t)
  BY <1>a, <1>b DEF NameOf
<1>4. IsConfig(f[i].config) /\ IsConfig(f[j].config)
  BY DEF Taken
<1>5. f[i].config.namespace = f[j].config.namespace /\ s.name = t.name
  BY <1>3, <1>4, PublicNameParts
<1>6. i = j
  BY <1>5 DEF LoadsUpstreams
<1>7. IsInjective([k \in DOMAIN f[i].config.tools |-> f[i].config.tools[k].name])
  BY DEF LoadsUpstreams, Validates, Taken
<1>8. s = t
  <2> DEFINE tools == f[i].config.tools
  <2>1. PICK k \in DOMAIN tools : s = tools[k]
    BY DEF Tools, Range
  <2>2. PICK l \in DOMAIN tools : t = tools[l]
    BY <1>6 DEF Tools, Range
  <2>3. k = l
    BY <1>5, <1>7, <2>1, <2>2 DEF IsInjective
  <2> QED  BY <2>1, <2>2, <2>3
<1> QED  BY <1>a, <1>b, <1>6, <1>8

(* Whatever files the Hub starts with: a public name leads to one upstream, *)
(* and Catalog.__init__ refuses names only for being the Hub's own.         *)
THEOREM PublicNames == Spec => []PublicNamesAreDistinct
<1>1. Init => FilesAreDeployed
  BY DEF Init, FilesAreDeployed
<1>2. FilesAreDeployed /\ [Next]_vars => FilesAreDeployed'
  BY DEF Next, vars, world, check, Start, Stop, Redeploy, Begin, ListUpstream, ListHub, Fail,
         FilesAreDeployed
<1>3. FilesAreDeployed => PublicNamesAreDistinct
  BY CheckAssumption, DistinctNames DEF PublicNamesAreDistinct, FilesAreDeployed
<1> QED  BY <1>1, <1>2, <1>3, PTL DEF Spec
-----------------------------------------------------------------------------
(* Contracts.                                                              *)

(* Each name of a contract has the terms of a tool that has this name.     *)
LEMMA TermsFrom ==
  ASSUME NEW tools, NEW ns, NEW n \in DOMAIN TermsOf(tools, ns)
  PROVE  \E t \in tools : LocalName(t.name, ns) = n /\ TermsOf(tools, ns)[n] = Terms(t)
<1>1. n \in {LocalName(t.name, ns) : t \in tools}
  BY DEF TermsOf
<1>2. TermsOf(tools, ns)[n] = Terms(CHOOSE t \in tools : LocalName(t.name, ns) = n)
  BY <1>1 DEF TermsOf
<1>3. \E t \in tools : LocalName(t.name, ns) = n
  BY <1>1
<1> QED  BY <1>2, <1>3

(* Each tool of a contract's set has a name in it.                         *)
LEMMA TermsName ==
  ASSUME NEW tools, NEW ns, NEW t \in tools
  PROVE  LocalName(t.name, ns) \in DOMAIN TermsOf(tools, ns)
BY DEF TermsOf

(* Stated defaults change nothing: hints are completed once.               *)
LEMMA HintsOnce ==
  ASSUME NEW h
  PROVE  Hints(Hints(h)) = Hints(h)
<1> DEFINE D == DOMAIN h \cup DOMAIN DefaultHints
<1>1. Hints(h) = [x \in D |-> IF x \in DOMAIN h THEN h[x] ELSE DefaultHints[x]]
  BY DEF Hints
<1>2. DOMAIN Hints(h) = D
  BY <1>1
<1>3. Hints(Hints(h)) = [x \in D |-> Hints(h)[x]]
  <2>1. D \cup DOMAIN DefaultHints = D
    OBVIOUS
  <2>2. Hints(Hints(h)) = [x \in D |-> IF x \in D THEN Hints(h)[x] ELSE DefaultHints[x]]
    BY <1>2, <2>1 DEF Hints
  <2> QED  BY <2>2
<1> QED  BY <1>1, <1>3

(* What the Hub lists in a namespace other than its own are the tools of   *)
(* the one configuration that has the namespace.                           *)
LEMMA ServedByConfig ==
  ASSUME NEW f, \A i \in DOMAIN f : IsConfig(f[i].config), LoadsCatalog(f),
         NEW ns, ns # "hub", ns # NoNamespace,
         NEW u \in Selected(HubListing(Configs(f)), ns)
  PROVE  \E c \in Configs(f) : \E t \in Tools(c) :
           /\ c.namespace = ns
           /\ LocalName(u.name, ns) = t.name
           /\ Terms(u) = Terms(t)
<1> DEFINE configs == Configs(f)
           catalog == Catalog(configs)
<1>1. PICK n \in {StatusName} \cup DOMAIN catalog :
        u = IF n = StatusName THEN StatusTool ELSE Published(n, catalog[n])
  BY DEF Selected, HubListing, Range
<1>2. InNamespace(u.name, ns)
  BY DEF Selected
<1>3. Head(u.name) = ns
  BY <1>2 DEF InNamespace
<1>4. n # StatusName
  <2>1. Head(StatusName) = "hub"
    BY DEF StatusName
  <2> QED  BY <1>1, <1>3, <2>1 DEF StatusTool
<1>5. u = Published(n, catalog[n]) /\ n \in DOMAIN catalog
  BY <1>1, <1>4
<1>6. catalog[n] \in Entries(configs) /\ NameOf(catalog[n]) = n
  <2>1. \E e \in Entries(configs) : NameOf(e) = n
    BY <1>5 DEF Catalog
  <2>2. catalog[n] = CHOOSE e \in Entries(configs) : NameOf(e) = n
    BY <1>5 DEF Catalog
  <2> QED  BY <2>1, <2>2
<1>7. PICK c \in configs : \E t \in Tools(c) : catalog[n] = <<c, t>>
  BY <1>6 DEF Entries
<1>8. PICK t \in Tools(c) : catalog[n] = <<c, t>>
  BY <1>7
<1>9. u.name = PublicName(c, t) /\ u.schema = t.schema /\ u.hints = Hints(t.hints)
  BY <1>5, <1>6, <1>8 DEF Published, NameOf
<1>10. IsConfig(c)
  BY DEF Configs, Taken
<1>11. c.namespace = ns /\ LocalName(u.name, ns) = t.name
  BY <1>3, <1>9, <1>10, PublicNameParts DEF LocalName
<1>12. Terms(u) = Terms(t)
  BY <1>9, HintsOnce DEF Terms
<1> QED  BY <1>11, <1>12

(* And each tool of a configuration is listed in its namespace.            *)
LEMMA ConfigIsServed ==
  ASSUME NEW f, \A i \in DOMAIN f : IsConfig(f[i].config), LoadsCatalog(f),
         NEW c \in Configs(f), NEW t \in Tools(c)
  PROVE  \E u \in Selected(HubListing(Configs(f)), c.namespace) :
           /\ LocalName(u.name, c.namespace) = t.name
           /\ Terms(u) = Terms(t)
<1> DEFINE configs == Configs(f)
           catalog == Catalog(configs)
           n == PublicName(c, t)
           u == Published(n, <<c, t>>)
<1>1. IsConfig(c)
  BY DEF Configs, Taken
<1>2. <<c, t>> \in Entries(configs) /\ NameOf(<<c, t>>) = n
  BY DEF Entries, NameOf
<1>3. n \in DOMAIN catalog
  BY <1>2 DEF Catalog
<1>4. catalog[n] = <<c, t>>
  <2>1. catalog[n] = CHOOSE e \in Entries(configs) : NameOf(e) = n
    BY <1>3 DEF Catalog
  <2>2. \A e \in Entries(configs) : NameOf(e) = n => e = <<c, t>>
    BY <1>2 DEF LoadsCatalog, BuildsCatalog
  <2> QED  BY <1>2, <2>1, <2>2
<1>5. n # StatusName
  BY <1>2 DEF LoadsCatalog, BuildsCatalog, TakesReserved
<1>6. u \in Range(HubListing(configs).tools)
  <2> DEFINE names == {StatusName} \cup DOMAIN catalog
             list == [m \in names |-> IF m = StatusName THEN StatusTool
                                      ELSE Published(m, catalog[m])]
  <2>1. HubListing(configs).tools = list
    BY DEF HubListing
  <2>2. n \in names /\ list[n] = u
    BY <1>3, <1>4, <1>5
  <2> QED  BY <2>1, <2>2 DEF Range
<1>7. u.name = n /\ u.schema = t.schema /\ u.hints = Hints(t.hints)
  BY DEF Published
<1>8. Len(n) > 1 /\ Head(n) = c.namespace /\ Tail(n) = t.name
  BY <1>1, PublicNameParts
<1>9. u \in Selected(HubListing(configs), c.namespace)
  BY <1>6, <1>7, <1>8 DEF Selected, InNamespace
<1>10. LocalName(u.name, c.namespace) = t.name
  BY <1>1, <1>7, <1>8 DEF LocalName, IsConfig
<1>11. Terms(u) = Terms(t)
  BY <1>7, HintsOnce DEF Terms
<1> QED  BY <1>9, <1>10, <1>11
LEMMA MatchesIsEquality ==
  ASSUME NEW e, NEW a, Matches(e, a)
  PROVE  DOMAIN e = DOMAIN a /\ \A n \in DOMAIN e : e[n] = a[n]
<1>1. Changed(e, a) = {} /\ Missing(e, a) = {} /\ Additional(e, a) = {}
  BY DEF Matches
<1>2. DOMAIN e = DOMAIN a
  BY <1>1 DEF Missing, Additional
<1> QED  BY <1>1, <1>2 DEF Changed

(* The two comparisons agree: what the acceptance check matches, directly  *)
(* and through the Hub, the connection of the Hub accepts.                 *)
LEMMA MatchedPairIsAccepted ==
  ASSUME NEW f, \A i \in DOMAIN f : IsConfig(f[i].config), LoadsCatalog(f),
         NEW r, IsConfig(r), r.namespace # "hub", Tools(r) # {},
         NEW l, IsEvidence(l, NoNamespace),
         Matches(Expected(r), Contract(l, NoNamespace)),
         Matches(Expected(r), Contract(HubListing(Configs(f)), r.namespace))
  PROVE  /\ {t.name : t \in Range(l.tools)} = ToolNames(r)
         /\ \E c \in Configs(f) : c.namespace = r.namespace /\ Accepts(c, l)
<1> DEFINE ns == r.namespace
           hubTools == Selected(HubListing(Configs(f)), ns)
           expected == TermsOf(Tools(r), NoNamespace)
           throughHub == TermsOf(hubTools, ns)
           upstreamTools == TermsOf(Range(l.tools), NoNamespace)
<1>1. Selected(l, NoNamespace) = Range(l.tools)
  BY DEF Selected, InNamespace
<1>2. DOMAIN expected = DOMAIN upstreamTools /\ DOMAIN expected = DOMAIN throughHub
  BY <1>1, MatchesIsEquality DEF Expected, Contract
<1>3. \A n \in DOMAIN expected : expected[n] = upstreamTools[n] /\ expected[n] = throughHub[n]
  BY <1>1, MatchesIsEquality DEF Expected, Contract
<1>4. DOMAIN expected = ToolNames(r)
  BY DEF TermsOf, LocalName, ToolNames
<1>5. DOMAIN upstreamTools = {t.name : t \in Range(l.tools)}
  BY DEF TermsOf, LocalName
<1>6. PICK c \in Configs(f) : c.namespace = ns
  <2>1. PICK n : n \in DOMAIN throughHub
    BY <1>2, <1>4 DEF ToolNames
  <2>2. PICK u \in hubTools : LocalName(u.name, ns) = n
    BY <2>1, TermsFrom
  <2>3. ns # NoNamespace
    BY DEF IsConfig
  <2> QED  BY <2>2, <2>3, ServedByConfig
<1>7. ASSUME NEW t \in Tools(c)
      PROVE  \E v \in Range(l.tools) :
               /\ v.name = t.name /\ v.schema = t.schema
               /\ ValidHints(v.hints) /\ Hints(v.hints) = Hints(t.hints)
  <2>1. PICK u \in hubTools : LocalName(u.name, ns) = t.name
    BY <1>6, ConfigIsServed
  <2>2. t.name \in DOMAIN throughHub
    BY <2>1, TermsName
  <2>3. throughHub[t.name] = Terms(t)
    <3>1. PICK w \in hubTools : LocalName(w.name, ns) = t.name /\ throughHub[t.name] = Terms(w)
      BY <2>2, TermsFrom
    <3>2. PICK d \in Configs(f) : \E s \in Tools(d) :
            d.namespace = ns /\ LocalName(w.name, ns) = s.name /\ Terms(w) = Terms(s)
      BY ServedByConfig DEF IsConfig
    <3>3. PICK s \in Tools(d) : s.name = t.name /\ Terms(w) = Terms(s)
      BY <3>1, <3>2
    <3>4. <<d, s>> = <<c, t>>
      <4>1. <<d, s>> \in Entries(Configs(f)) /\ <<c, t>> \in Entries(Configs(f))
        BY DEF Entries
      <4>2. NameOf(<<d, s>>) = NameOf(<<c, t>>)
        BY <1>6, <3>2, <3>3 DEF NameOf, PublicName
      <4> QED  BY <4>1, <4>2 DEF LoadsCatalog, BuildsCatalog
    <3> QED  BY <3>1, <3>3, <3>4
  <2>4. PICK v \in Range(l.tools) :
          LocalName(v.name, NoNamespace) = t.name /\ upstreamTools[t.name] = Terms(v)
    <3>1. t.name \in DOMAIN upstreamTools
      BY <1>2, <2>2
    <3> QED  BY <3>1, TermsFrom
  <2>5. Terms(v) = Terms(t)
    BY <1>2, <1>3, <2>2, <2>3, <2>4
  <2>6. v.name = t.name /\ v.schema = t.schema /\ Hints(v.hints) = Hints(t.hints)
    BY <2>4, <2>5 DEF LocalName, Terms
  <2>7. ValidHints(v.hints)
    BY <1>1 DEF IsEvidence
  <2> QED  BY <2>6, <2>7
<1>8. Accepts(c, l)
  BY <1>7 DEF Accepts, IsEvidence
<1> QED  BY <1>2, <1>4, <1>5, <1>6, <1>8

-----------------------------------------------------------------------------
(* The check.                                                              *)

LEMMA IInvInit == Init => IInv
BY DEF Init, IInv, HubIsLoaded, ContractIsEvidence, MatchedIsAccepted

LEMMA IInvStep == IInv /\ [Next]_vars => IInv'
<1> SUFFICES ASSUME IInv, [Next]_vars PROVE IInv'
  OBVIOUS
<1> USE DEF IInv
<1>1. CASE Start
  <2>1. HubIsLoaded'
    BY <1>1 DEF Start, HubIsLoaded
  <2> QED  BY <1>1, <2>1 DEF Start, check, ContractIsEvidence, MatchedIsAccepted
<1>2. CASE Stop
  BY <1>2 DEF Stop, check, HubIsLoaded, ContractIsEvidence, MatchedIsAccepted
<1>3. ASSUME NEW u \in Urls, Redeploy(u) PROVE IInv'
  BY <1>3 DEF Redeploy, check, HubIsLoaded, ContractIsEvidence, MatchedIsAccepted
<1>4. CASE Begin
  BY <1>4 DEF Begin, Finish, world, HubIsLoaded, ContractIsEvidence, MatchedIsAccepted
<1>5. CASE ListUpstream
  BY <1>5 DEF ListUpstream, Finish, world, HubIsLoaded, ContractIsEvidence, MatchedIsAccepted
<1>6. CASE ListHub
  <2>1. UNCHANGED <<files, hub, upstream, route, direct, listed>> /\ pc' = "done" /\ served' = hub
    BY <1>6 DEF ListHub, Finish, world
  <2>2. HubIsLoaded' /\ ContractIsEvidence'
    BY <2>1 DEF HubIsLoaded, ContractIsEvidence
  <2>3. ASSUME receipt' = "matched", route.namespace # "hub"
        PROVE  /\ {t.name : t \in Range(listed.tools)} = ToolNames(route)
               /\ \E c \in hub : c.namespace = route.namespace /\ Accepts(c, listed)
    <3>1. PICK f \in Deployments : LoadsCatalog(f) /\ hub = Configs(f)
      BY <1>6 DEF ListHub, HubIsLoaded
    <3>2. pc = "listing hub" /\ CanBeChecked(route)
      BY <1>6 DEF ListHub, ContractIsEvidence
    <3>3. IsEvidence(listed, NoNamespace) /\ direct = Contract(listed, NoNamespace)
      BY <3>2 DEF ContractIsEvidence
    <3>4. /\ Matches(Expected(route), direct)
          /\ Matches(Expected(route), Contract(HubListing(hub), route.namespace))
      BY <1>6, <2>3 DEF ListHub, Finish, Verdict
    <3>5. Tools(route) # {}
      BY <3>2 DEF CanBeChecked
    <3>6. IsConfig(route) /\ \A i \in DOMAIN f : IsConfig(f[i].config)
      BY CheckAssumption
    <3> QED  BY <2>3, <3>1, <3>3, <3>4, <3>5, <3>6, MatchedPairIsAccepted
  <2>4. MatchedIsAccepted'
    BY <2>1, <2>3 DEF MatchedIsAccepted
  <2> QED  BY <2>1, <2>2, <2>4
<1>7. CASE Fail
  BY <1>7 DEF Fail, Finish, world, HubIsLoaded, ContractIsEvidence, MatchedIsAccepted
<1>8. CASE UNCHANGED vars
  BY <1>8 DEF vars, world, check, HubIsLoaded, ContractIsEvidence, MatchedIsAccepted
<1> QED  BY <1>1, <1>2, <1>3, <1>4, <1>5, <1>6, <1>7, <1>8 DEF Next

(* However the Hub and the upstreams change while the check runs: what it  *)
(* reports as matched is a listing of the upstream that the connection of  *)
(* the Hub it listed would accept.                                         *)
THEOREM Evidence == Spec => []MatchedIsAccepted
<1>1. IInv => MatchedIsAccepted
  BY DEF IInv
<1> QED  BY IInvInit, IInvStep, <1>1, PTL DEF Spec

-----------------------------------------------------------------------------
(* Finite sets.                                                            *)

(* What a function makes of a finite set.                                  *)
LEMMA ImageFinite ==
  ASSUME NEW S, IsFiniteSet(S), NEW T, NEW g \in [S -> T],
         \A y \in T : \E x \in S : g[x] = y
  PROVE  /\ IsFiniteSet(T)
         /\ Cardinality(T) <= Cardinality(S)
         /\ (\A x, y \in S : g[x] = g[y] => x = y) => Cardinality(T) = Cardinality(S)
<1>1. g \in Surjection(S, T)
  BY DEF Surjection
<1>2. (\A x, y \in S : g[x] = g[y] => x = y) => g \in Injection(S, T)
  BY DEF Injection, IsInjective
<1> QED  BY <1>1, <1>2, FS_Surjection

(* A deployment has finitely many tools.                                   *)
LEMMA EntriesFinite ==
  ASSUME NEW f, IsFiniteSet(DOMAIN f), \A i \in DOMAIN f : IsConfig(f[i].config)
  PROVE  IsFiniteSet(Entries(Configs(f)))
<1> DEFINE toolsOf(c) == {<<c, t>> : t \in Tools(c)}
<1>1. IsFiniteSet(Configs(f))
  <2> DEFINE g == [i \in Taken(f) |-> f[i].config]
  <2>1. IsFiniteSet(Taken(f))
    BY FS_Subset DEF Taken
  <2>2. g \in [Taken(f) -> Configs(f)] /\ \A y \in Configs(f) : \E x \in Taken(f) : g[x] = y
    BY DEF Configs
  <2> HIDE DEF g
  <2> QED  BY <2>1, <2>2, ImageFinite
<1>2. ASSUME NEW c \in Configs(f) PROVE IsFiniteSet(toolsOf(c))
  <2> DEFINE g == [i \in DOMAIN c.tools |-> <<c, c.tools[i]>>]
  <2>1. IsFiniteSet(DOMAIN c.tools)
    <3>1. IsConfig(c)
      BY DEF Configs, Taken
    <3> QED  BY <3>1, FS_Interval DEF IsConfig
  <2>2. /\ g \in [DOMAIN c.tools -> toolsOf(c)]
        /\ \A y \in toolsOf(c) : \E x \in DOMAIN c.tools : g[x] = y
    BY DEF Tools, Range
  <2> HIDE DEF g, toolsOf
  <2> QED  BY <2>1, <2>2, ImageFinite
<1>3. IsFiniteSet({toolsOf(c) : c \in Configs(f)})
  <2> DEFINE g == [c \in Configs(f) |-> toolsOf(c)]
         T == {toolsOf(c) : c \in Configs(f)}
  <2>1. g \in [Configs(f) -> T] /\ \A y \in T : \E x \in Configs(f) : g[x] = y
    OBVIOUS
  <2> HIDE DEF g, toolsOf
  <2> QED  BY <1>1, <2>1, ImageFinite
<1>4. Entries(Configs(f)) = UNION {toolsOf(c) : c \in Configs(f)}
  BY DEF Entries
<1> DEFINE T == {toolsOf(c) : c \in Configs(f)}
<1>5. \A S \in T : IsFiniteSet(S)
  BY <1>2
<1> HIDE DEF toolsOf, T
<1>6. IsFiniteSet(UNION T)
  BY <1>3, <1>5, FS_UNION DEF T
<1> QED  BY <1>4, <1>6 DEF T

-----------------------------------------------------------------------------
(* No false alarm.                                                         *)

LEMMA EqualMatches == ASSUME NEW e, NEW a, e = a PROVE Matches(e, a)
BY DEF Matches, Changed, Missing, Additional

(* Contracts with the same names and terms are the same.                   *)
LEMMA SameTerms ==
  ASSUME NEW S, NEW m, NEW T, NEW n, DOMAIN TermsOf(S, m) = DOMAIN TermsOf(T, n),
         \A x \in DOMAIN TermsOf(S, m) : TermsOf(S, m)[x] = TermsOf(T, n)[x]
  PROVE  TermsOf(S, m) = TermsOf(T, n)
BY DEF TermsOf

(* Through the Hub, the contract of a namespace is the one configured.     *)
LEMMA ContractServed ==
  ASSUME NEW f, \A i \in DOMAIN f : IsConfig(f[i].config), LoadsCatalog(f),
         NEW c \in Configs(f), c.namespace # "hub"
  PROVE  Contract(HubListing(Configs(f)), c.namespace) = Expected(c)
<1> DEFINE ns == c.namespace
           hubTools == Selected(HubListing(Configs(f)), ns)
<1>1. IsConfig(c)
  BY DEF Configs, Taken
<1>2. ASSUME NEW u \in hubTools
      PROVE  \E t \in Tools(c) : LocalName(u.name, ns) = t.name /\ Terms(u) = Terms(t)
  <2>1. PICK d \in Configs(f) : \E t \in Tools(d) :
          /\ d.namespace = ns /\ LocalName(u.name, ns) = t.name /\ Terms(u) = Terms(t)
    BY <1>1, ServedByConfig DEF IsConfig
  <2>2. d = c
    BY <2>1 DEF Configs, LoadsCatalog, LoadsUpstreams
  <2> QED  BY <2>1, <2>2
<1>3. ASSUME NEW s \in Tools(c), NEW t \in Tools(c), s.name = t.name PROVE s = t
  <2>1. <<c, s>> \in Entries(Configs(f)) /\ <<c, t>> \in Entries(Configs(f))
    BY DEF Entries
  <2>2. NameOf(<<c, s>>) = NameOf(<<c, t>>)
    BY <1>3 DEF NameOf, PublicName
  <2> QED  BY <2>1, <2>2 DEF LoadsCatalog, BuildsCatalog
<1>4. DOMAIN TermsOf(hubTools, ns) = DOMAIN TermsOf(Tools(c), NoNamespace)
  <2>1. DOMAIN TermsOf(Tools(c), NoNamespace) = ToolNames(c)
    BY DEF TermsOf, LocalName, ToolNames
  <2>2. DOMAIN TermsOf(hubTools, ns) \subseteq ToolNames(c)
    BY <1>2, TermsFrom DEF ToolNames
  <2>3. ToolNames(c) \subseteq DOMAIN TermsOf(hubTools, ns)
    BY ConfigIsServed, TermsName DEF ToolNames
  <2> QED  BY <2>1, <2>2, <2>3
<1>5. ASSUME NEW n \in DOMAIN TermsOf(hubTools, ns)
      PROVE  TermsOf(hubTools, ns)[n] = TermsOf(Tools(c), NoNamespace)[n]
  <2>1. PICK u \in hubTools : LocalName(u.name, ns) = n /\ TermsOf(hubTools, ns)[n] = Terms(u)
    BY TermsFrom
  <2>2. PICK s \in Tools(c) : LocalName(u.name, ns) = s.name /\ Terms(u) = Terms(s)
    BY <1>2
  <2>3. PICK t \in Tools(c) : LocalName(t.name, NoNamespace) = n
                              /\ TermsOf(Tools(c), NoNamespace)[n] = Terms(t)
    BY <1>4, TermsFrom
  <2>4. s = t
    BY <1>3, <2>1, <2>2, <2>3 DEF LocalName
  <2> QED  BY <2>1, <2>2, <2>3, <2>4
<1> QED  BY <1>4, <1>5, SameTerms DEF Contract, Expected

(* A listing that is accepted and no longer than the route has its contract. *)
LEMMA ContractListed ==
  ASSUME NEW r, IsConfig(r), Validates(r),
         NEW l, Accepts(r, l), IsFiniteSet(DOMAIN l.tools),
         Cardinality(DOMAIN l.tools) = Len(r.tools)
  PROVE  Contract(l, NoNamespace) = Expected(r)
<1> DEFINE listedTools == Range(l.tools)
           names == {u.name : u \in listedTools}
           listedName == [i \in DOMAIN l.tools |-> l.tools[i].name]
           routeName == [i \in DOMAIN r.tools |-> r.tools[i].name]
<1>1. Contract(l, NoNamespace) = TermsOf(listedTools, NoNamespace)
  <2>1. Selected(l, NoNamespace) = listedTools
    BY DEF Selected, InNamespace
  <2> QED  BY <2>1 DEF Contract
<1>2. ToolNames(r) \subseteq names
  BY DEF Accepts, ToolNames
<1>3. Cardinality(names) = Len(r.tools) /\ IsFiniteSet(names)
  <2>1. /\ listedName \in [DOMAIN l.tools -> names]
        /\ \A y \in names : \E x \in DOMAIN l.tools : listedName[x] = y
    BY DEF Range
  <2>2. \A x, y \in DOMAIN l.tools : listedName[x] = listedName[y] => x = y
    BY DEF Accepts, Unambiguous
  <2> HIDE DEF listedName, names
  <2> QED  BY <2>1, <2>2, ImageFinite
<1>4. Cardinality(ToolNames(r)) = Len(r.tools)
  <2>1. /\ routeName \in [DOMAIN r.tools -> ToolNames(r)]
        /\ \A y \in ToolNames(r) : \E x \in DOMAIN r.tools : routeName[x] = y
    BY DEF ToolNames, Tools, Range
  <2>2. \A x, y \in DOMAIN r.tools : routeName[x] = routeName[y] => x = y
    BY DEF Validates, IsInjective
  <2>3. IsFiniteSet(DOMAIN r.tools) /\ Cardinality(DOMAIN r.tools) = Len(r.tools)
    BY FS_Interval DEF IsConfig
  <2> HIDE DEF routeName
  <2> QED  BY <2>1, <2>2, <2>3, ImageFinite
<1>5. names = ToolNames(r)
  BY <1>2, <1>3, <1>4, FS_Subset
<1>6. DOMAIN TermsOf(listedTools, NoNamespace) = DOMAIN TermsOf(Tools(r), NoNamespace)
  BY <1>5 DEF TermsOf, LocalName, ToolNames
<1>7. ASSUME NEW n \in DOMAIN TermsOf(listedTools, NoNamespace)
      PROVE  TermsOf(listedTools, NoNamespace)[n] = TermsOf(Tools(r), NoNamespace)[n]
  <2>1. PICK u \in listedTools : LocalName(u.name, NoNamespace) = n
                                 /\ TermsOf(listedTools, NoNamespace)[n] = Terms(u)
    BY TermsFrom
  <2>2. PICK t \in Tools(r) : LocalName(t.name, NoNamespace) = n
                              /\ TermsOf(Tools(r), NoNamespace)[n] = Terms(t)
    BY <1>6, TermsFrom
  <2>3. PICK v \in listedTools :
          v.name = t.name /\ v.schema = t.schema /\ Hints(v.hints) = Hints(t.hints)
    BY DEF Accepts
  <2>4. v = u
    BY <2>1, <2>2, <2>3 DEF Accepts, Unambiguous, LocalName, Range
  <2> QED  BY <2>1, <2>2, <2>3, <2>4 DEF Terms
<1> QED  BY <1>1, <1>6, <1>7, SameTerms DEF Expected

(* What the Hub lists within the limits is evidence of each of its namespaces. *)
LEMMA HubEvidence ==
  ASSUME NEW f, IsFiniteSet(DOMAIN f), \A i \in DOMAIN f : IsConfig(f[i].config),
         LoadsCatalog(f), WithinLimits(Configs(f)),
         NEW c \in Configs(f), c.namespace # "hub", Fits(Expected(c)),
         Len(StatusName) <= MaxName
  PROVE  IsEvidence(HubListing(Configs(f)), c.namespace)
<1> DEFINE configs == Configs(f)
           catalog == Catalog(configs)
           names == {StatusName} \cup DOMAIN catalog
           list == [n \in names |-> IF n = StatusName THEN StatusTool
                                    ELSE Published(n, catalog[n])]
<1>1. HubListing(configs) = [more |-> FALSE, tools |-> list]
  BY DEF HubListing
<1>2. \A n \in names : list[n].name = n
  BY DEF StatusTool, Published
<1>3. Cardinality(names) <= MaxTools
  <2> DEFINE g == [e \in Entries(configs) |-> NameOf(e)]
  <2>1. IsFiniteSet(Entries(configs))
    BY EntriesFinite
  <2>2. /\ g \in [Entries(configs) -> DOMAIN catalog]
        /\ \A y \in DOMAIN catalog : \E x \in Entries(configs) : g[x] = y
    BY DEF Catalog
  <2>3. IsFiniteSet(DOMAIN catalog)
        /\ Cardinality(DOMAIN catalog) <= Cardinality(Entries(configs))
    <3> HIDE DEF g, catalog, configs
    <3> QED  BY <2>1, <2>2, ImageFinite
  <2>4. Cardinality(Entries(configs)) < MaxTools
    BY DEF WithinLimits
  <2>5. Cardinality(names) <= Cardinality(DOMAIN catalog) + 1
        /\ Cardinality(names) \in Nat
    <3>1. IsFiniteSet(DOMAIN catalog \cup {StatusName})
          /\ Cardinality(DOMAIN catalog \cup {StatusName})
               = IF StatusName \in DOMAIN catalog THEN Cardinality(DOMAIN catalog)
                 ELSE Cardinality(DOMAIN catalog) + 1
      BY <2>3, FS_AddElement
    <3>2. names = DOMAIN catalog \cup {StatusName}
      OBVIOUS
    <3>3. Cardinality(DOMAIN catalog) \in Nat
      BY <2>3, FS_CardinalityType
    <3> HIDE DEF names, catalog
    <3> QED  BY <3>1, <3>2, <3>3
  <2>6. Cardinality(DOMAIN catalog) \in Nat /\ Cardinality(Entries(configs)) \in Nat
    BY <2>1, <2>3, FS_CardinalityType
  <2> HIDE DEF names, catalog, configs
  <2> QED  BY <2>3, <2>4, <2>5, <2>6, CatalogAssumption
<1>4. \A n \in names : Len(n) <= MaxName
  BY DEF Catalog, WithinLimits
<1>5. Unambiguous(HubListing(configs))
  <2> HIDE DEF names, catalog, configs
  <2>1. \A i, j \in names : list[i].name = list[j].name => i = j
    BY <1>2
  <2>2. HubListing(configs).tools = list /\ DOMAIN list = names
    BY <1>1
  <2> HIDE DEF list
  <2> QED  BY <2>1, <2>2 DEF Unambiguous
<1>6. \A u \in Range(list) : ValidHints(u.hints)
  <2> SUFFICES ASSUME NEW n \in names PROVE ValidHints(list[n].hints)
    BY DEF Range
  <2>1. CASE n = StatusName
    BY <2>1 DEF StatusTool, ValidHints, HintNames
  <2>2. CASE n # StatusName
    <3>1. catalog[n] \in Entries(configs)
      <4>1. \E e \in Entries(configs) : NameOf(e) = n
        BY <2>2 DEF Catalog
      <4>2. catalog[n] = CHOOSE e \in Entries(configs) : NameOf(e) = n
        BY <2>2 DEF Catalog
      <4> QED  BY <4>1, <4>2
    <3>2. PICK d \in configs : \E t \in Tools(d) : catalog[n] = <<d, t>>
      BY <3>1 DEF Entries
    <3>3. PICK t \in Tools(d) : catalog[n] = <<d, t>>
      BY <3>2
    <3>4. ValidHints(t.hints)
      BY DEF Configs, Taken, LoadsCatalog, LoadsUpstreams, Validates
    <3>5. list[n].hints = Hints(t.hints)
      BY <2>2, <3>3 DEF Published
    <3>6. DOMAIN DefaultHints \subseteq HintNames
      BY DEF DefaultHints, HintNames
    <3> QED  BY <3>4, <3>5, <3>6 DEF ValidHints, Hints
  <2> QED  BY <2>1, <2>2
<1>7. Fits(Contract(HubListing(configs), c.namespace))
  BY ContractServed
<1> QED
  <2>1. \A t \in Range(list) : Len(t.name) <= MaxName
    BY <1>2, <1>4 DEF Range
  <2>2. HubListing(configs).tools = list /\ HubListing(configs).more = FALSE
        /\ DOMAIN list = names
    BY <1>1
  <2> HIDE DEF list, configs, catalog, names
  <2>3. \A t \in Selected(HubListing(configs), c.namespace) : ValidHints(t.hints)
    BY <1>6, <2>2 DEF Selected
  <2>4. IsEvidence(HubListing(configs), c.namespace)
    BY <1>3, <1>5, <1>7, <2>1, <2>2, <2>3 DEF IsEvidence
  <2> QED  BY <2>4 DEF configs

(* The variables keep their types, for any deployments, routes, listings.  *)
THEOREM TypeCorrect == Spec => []TypeOK
<1>1. Init => TypeOK
  BY DEF Init, TypeOK, FilesAreDeployed, Receipts
<1>2. TypeOK /\ [Next]_vars => TypeOK'
  <2> SUFFICES ASSUME TypeOK, [Next]_vars PROVE TypeOK'
    OBVIOUS
  <2> USE DEF FilesAreDeployed, Receipts
  <2>1. CASE Start \/ Stop
    BY <2>1 DEF Start, Stop, TypeOK, check
  <2>2. ASSUME NEW u \in Urls, Redeploy(u) PROVE TypeOK'
    <3>1. \A v \in Urls : upstream'[v] \in ListingsOf[v] \cup {Unreachable}
      BY <2>2 DEF Redeploy, TypeOK
    <3> QED  BY <2>2, <3>1 DEF Redeploy, TypeOK, check
  <2>3. CASE Begin
    BY <2>3 DEF Begin, Finish, TypeOK, world
  <2>4. CASE ListUpstream
    BY <2>4 DEF ListUpstream, Finish, TypeOK, world
  <2>5. CASE ListHub
    BY <2>5 DEF ListHub, Finish, Verdict, TypeOK, world
  <2>6. CASE Fail
    BY <2>6 DEF Fail, Finish, TypeOK, world
  <2>7. CASE UNCHANGED vars
    BY <2>7 DEF TypeOK, vars, world, check
  <2> QED  BY <2>1, <2>2, <2>3, <2>4, <2>5, <2>6, <2>7 DEF Next
<1> QED  BY <1>1, <1>2, PTL DEF Spec

-----------------------------------------------------------------------------
(* What a check that was not refused has read, and what it makes of it.    *)

ReadInv ==
  /\ pc \in {"listing upstream", "listing hub"} =>
       Validates(route) /\ served = Unreachable
  /\ pc = "listing hub" => IsFiniteSet(DOMAIN listed.tools)

Settled ==
  served # Unreachable =>
    /\ Validates(route) /\ CanBeChecked(route)
    /\ IsFiniteSet(DOMAIN listed.tools) /\ direct = Contract(listed, NoNamespace)
    /\ \E f \in Deployments : LoadsCatalog(f) /\ served = Configs(f)
    /\ receipt = IF IsEvidence(HubListing(served), route.namespace)
                 THEN Verdict(Expected(route), Contract(HubListing(served), route.namespace))
                 ELSE "refused"

FaithInv == IInv /\ TypeOK /\ ReadInv /\ Settled

LEMMA SettledStays ==
  ASSUME Settled, UNCHANGED <<route, direct, receipt, listed, served>>
  PROVE  Settled'
BY DEF Settled, Verdict

LEMMA ReadStep ==
  ASSUME FaithInv, [Next]_vars
  PROVE  ReadInv' /\ Settled'
<1> USE DEF FaithInv
<1>1. CASE UNCHANGED check
  BY <1>1, SettledStays DEF check, ReadInv
<1>2. CASE Begin
  BY <1>2 DEF Begin, Finish, ReadInv, Settled
<1>3. CASE ListUpstream
  <2>1. pc = "listing upstream" /\ listed' = upstream[route.url]
        /\ listed' # Unreachable /\ UNCHANGED <<route, served>>
        /\ pc' \in {"listing hub", "done"}
    BY <1>3 DEF ListUpstream, Finish
  <2>2. route.url \in Urls
    BY <2>1, CheckAssumption DEF ReadInv, IInv, ContractIsEvidence, CanBeChecked, Validates,
      IsConfig
  <2>3. IsFiniteSet(DOMAIN listed'.tools)
    BY <2>1, <2>2, CheckAssumption DEF TypeOK
  <2> QED  BY <2>1, <2>3 DEF ReadInv, Settled
<1>4. CASE ListHub
  <2>1. /\ pc = "listing hub" /\ hub # Unreachable /\ served' = hub /\ pc' = "done"
        /\ UNCHANGED <<route, direct, listed>>
        /\ receipt' = IF IsEvidence(HubListing(hub), route.namespace)
                      THEN Verdict(Expected(route), Contract(HubListing(hub), route.namespace))
                      ELSE "refused"
    BY <1>4 DEF ListHub, Finish
  <2>2. CanBeChecked(route) /\ direct = Contract(listed, NoNamespace)
        /\ \E f \in Deployments : LoadsCatalog(f) /\ hub = Configs(f)
    BY <2>1 DEF IInv, ContractIsEvidence, HubIsLoaded
  <2> QED  BY <2>1, <2>2 DEF ReadInv, Settled, Verdict
<1>5. CASE Fail
  BY <1>5 DEF Fail, Finish, ReadInv, Settled
<1> QED
  BY <1>1, <1>2, <1>3, <1>4, <1>5 DEF Next, vars, Start, Stop, Redeploy

(* No false alarm, for any deployments, routes and listings, however they  *)
(* change during the check: of a Hub that serves the route and an upstream *)
(* that lists it and no more, the receipt is matched.                      *)
THEOREM NoFalseAlarm == Spec => []FaithfulPairMatches
<1>1. FaithInv => FaithfulPairMatches
  <2> SUFFICES ASSUME FaithInv,
                      pc = "done", receipt # "unavailable", served # Unreachable,
                      route.namespace # "hub", WithinLimits(served),
                      NEW c \in served, c.namespace = route.namespace,
                      Expected(c) = Expected(route),
                      Accepts(route, listed),
                      Cardinality(DOMAIN listed.tools) = Len(route.tools)
               PROVE  receipt = "matched"
    BY DEF FaithfulPairMatches
  <2>1. /\ Validates(route) /\ CanBeChecked(route)
        /\ IsFiniteSet(DOMAIN listed.tools) /\ direct = Contract(listed, NoNamespace)
    BY DEF FaithInv, Settled
  <2>2. PICK f \in Deployments : LoadsCatalog(f) /\ served = Configs(f)
    BY DEF FaithInv, Settled
  <2>3. IsFiniteSet(DOMAIN f) /\ (\A i \in DOMAIN f : IsConfig(f[i].config))
        /\ IsConfig(route) /\ Len(StatusName) <= MaxName
    BY CheckAssumption DEF FaithInv, IInv
  <2>4. direct = Expected(route)
    BY <2>1, <2>3, ContractListed
  <2>5. Contract(HubListing(served), route.namespace) = Expected(route)
    BY <2>2, <2>3, ContractServed
  <2>6. IsEvidence(HubListing(served), route.namespace)
    <3>1. Fits(Expected(c))
      BY <2>1 DEF CanBeChecked
    <3> QED  BY <2>2, <2>3, <3>1, HubEvidence
  <2>7. receipt = Verdict(Expected(route), Contract(HubListing(served), route.namespace))
    BY <2>6 DEF FaithInv, Settled
  <2> QED  BY <2>4, <2>5, <2>7, EqualMatches DEF Verdict
<1>2. Init => ReadInv /\ Settled
  BY DEF Init, ReadInv, Settled
<1>3. IInv /\ TypeOK /\ (ReadInv /\ Settled) /\ [Next]_vars => (ReadInv /\ Settled)'
  BY ReadStep DEF FaithInv
<1>4. IInv /\ TypeOK /\ (ReadInv /\ Settled) => FaithfulPairMatches
  BY <1>1 DEF FaithInv
<1> QED  BY IInvInit, IInvStep, <1>2, <1>3, <1>4, TypeCorrect, PTL DEF Spec
=============================================================================
