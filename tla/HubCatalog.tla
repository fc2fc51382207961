----------------------------- MODULE HubCatalog -----------------------------
(***************************************************************************)
(* The catalog of the Hub and its two comparisons with an upstream: how    *)
(* config.py turns the files of a deployment into the public tools, what   *)
(* server.py lists of them, what a connection accepts of its upstream      *)
(* (upstream.py) and what the acceptance check takes for evidence          *)
(* (catalog_check.py).  Definitions only; CatalogCheck runs them.          *)
(*                                                                         *)
(* A name is the sequence of its parts between dots; a namespace is one    *)
(* part, since its pattern has no dot.  A schema is a value that is only   *)
(* compared.  The hints of a tool are a function whose domain is the hints *)
(* that it states; a value of a wrong type counts as an unknown hint.  A   *)
(* tools/list answer is a family of tools under any indices and whether it *)
(* has a next cursor.                                                      *)
(*                                                                         *)
(* Operators named Faulty... are plausible defects: nothing uses them,     *)
(* they serve to test that the properties notice.                          *)
(***************************************************************************)
EXTENDS Naturals, Sequences, FiniteSets, Functions

CONSTANTS MaxTools,     \* 512 in the code
          MaxName,      \* the parts of the longest name; 128 characters in the code
          MaxContract,  \* the tools of the largest contract; 1 MiB of JSON in the code
          StatusSchema, \* the input schema of the Hub's own tool
          NoUrl, NoNamespace

ASSUME CatalogAssumption ==
  MaxTools \in Nat /\ MaxName \in Nat /\ MaxContract \in Nat

-----------------------------------------------------------------------------
(* Hints: CatalogAnnotations gives the omitted ones the defaults of MCP.   *)
HintNames == {"readOnlyHint", "destructiveHint", "openWorldHint", "idempotentHint", "title"}

DefaultHints == [readOnlyHint |-> FALSE, destructiveHint |-> TRUE, openWorldHint |-> TRUE]

ValidHints(stated) == DOMAIN stated \subseteq HintNames

Hints(stated) ==
  [h \in DOMAIN stated \cup DOMAIN DefaultHints |->
     IF h \in DOMAIN stated THEN stated[h] ELSE DefaultHints[h]]

Tools(config) == Range(config.tools)
ToolNames(config) == {t.name : t \in Tools(config)}

-----------------------------------------------------------------------------
(* Loading: any file that is not skipped must be valid, a disabled one too. *)
Validates(config) ==
  /\ config.signed => config.namespace = "generation" /\ config.transport = "http"
  /\ config.transport = "http" => config.url # NoUrl
  /\ config.transport = "reverse" => /\ config.url = NoUrl /\ config.credential
                                     /\ <<"mcp", "context">> \in ToolNames(config)
  /\ \A t \in Tools(config) : ValidHints(t.hints)
  /\ IsInjective([i \in DOMAIN config.tools |-> config.tools[i].name])

Taken(files) == {i \in DOMAIN files : ~files[i].skipped /\ files[i].config.enabled}

\* A plausible defect: the namespaces of two files are not compared.
FaultyLoadsUpstreams(files) ==
  /\ \A i \in DOMAIN files : ~files[i].skipped => Validates(files[i].config)
  /\ \A i, j \in Taken(files) : i # j => files[i].config.id # files[j].config.id

LoadsUpstreams(files) ==
  /\ \A i \in DOMAIN files : ~files[i].skipped => Validates(files[i].config)
  /\ \A i, j \in Taken(files) :
       i # j => /\ files[i].config.id # files[j].config.id
                /\ files[i].config.namespace # files[j].config.namespace

Configs(files) == {files[i].config : i \in Taken(files)}

PublicName(config, tool) == <<config.namespace>> \o tool.name

\* An entry of the catalog: a configuration and one of its tools.
Entries(configs) == UNION {{<<c, t>> : t \in Tools(c)} : c \in configs}
NameOf(entry) == PublicName(entry[1], entry[2])

StatusName == <<"hub", "upstreams", "list">>

TakesReserved(configs) == \E e \in Entries(configs) : NameOf(e) = StatusName

BuildsCatalog(configs) ==
  /\ \A e, f \in Entries(configs) : NameOf(e) = NameOf(f) => e = f
  /\ ~TakesReserved(configs)

\* Catalog.tools: the entry of each public name.
Catalog(configs) ==
  [n \in {NameOf(e) : e \in Entries(configs)} |->
     CHOOSE e \in Entries(configs) : NameOf(e) = n]

LoadsCatalog(files) == LoadsUpstreams(files) /\ BuildsCatalog(Configs(files))

-----------------------------------------------------------------------------
(* What the Hub lists, and what a connection accepts.                      *)
StatusTool ==
  [name |-> StatusName, schema |-> StatusSchema,
   hints |-> [readOnlyHint |-> TRUE, destructiveHint |-> FALSE,
              openWorldHint |-> FALSE, idempotentHint |-> TRUE]]

Published(name, entry) ==
  [name |-> name, schema |-> entry[2].schema, hints |-> Hints(entry[2].hints)]

HubListing(configs) ==
  LET catalog == Catalog(configs)
  IN [more |-> FALSE,
      tools |-> [n \in {StatusName} \cup DOMAIN catalog |->
                   IF n = StatusName THEN StatusTool ELSE Published(n, catalog[n])]]

Unambiguous(listing) ==
  \A i, j \in DOMAIN listing.tools : listing.tools[i].name = listing.tools[j].name => i = j

\* The upstream may have more tools than the configuration, none different.
Accepts(config, listing) ==
  /\ ~listing.more /\ Unambiguous(listing)
  /\ \A t \in Tools(config) : \E u \in Range(listing.tools) :
       /\ u.name = t.name /\ u.schema = t.schema
       /\ ValidHints(u.hints) /\ Hints(u.hints) = Hints(t.hints)

-----------------------------------------------------------------------------
(* The acceptance check: contracts of listings, and their comparison.      *)
\* A plausible defect: the namespace is looked for anywhere in the name.
FaultyInNamespace(name, namespace) ==
  namespace = NoNamespace \/ \E i \in DOMAIN name : name[i] = namespace

InNamespace(name, namespace) ==
  namespace = NoNamespace \/ (Len(name) > 1 /\ Head(name) = namespace)

LocalName(name, namespace) == IF namespace = NoNamespace THEN name ELSE Tail(name)

Terms(tool) == [schema |-> tool.schema, hints |-> Hints(tool.hints)]

\* The terms of each tool of a set, under its name in the namespace.
TermsOf(tools, namespace) ==
  [n \in {LocalName(t.name, namespace) : t \in tools} |->
     Terms(CHOOSE t \in tools : LocalName(t.name, namespace) = n)]

Fits(contract) == Cardinality(DOMAIN contract) <= MaxContract

Selected(listing, namespace) ==
  {t \in Range(listing.tools) : InNamespace(t.name, namespace)}

Contract(listing, namespace) == TermsOf(Selected(listing, namespace), namespace)

\* _contract raises for any other listing: it is no evidence of anything.
IsEvidence(listing, namespace) ==
  /\ ~listing.more
  /\ Cardinality(DOMAIN listing.tools) <= MaxTools
  /\ \A t \in Range(listing.tools) : Len(t.name) <= MaxName
  /\ Unambiguous(listing)
  /\ \A t \in Selected(listing, namespace) : ValidHints(t.hints)
  /\ Fits(Contract(listing, namespace))

Expected(config) == TermsOf(Tools(config), NoNamespace)

Changed(expected, actual) ==
  {n \in DOMAIN expected \cap DOMAIN actual : expected[n] # actual[n]}
Missing(expected, actual) == DOMAIN expected \ DOMAIN actual
Additional(expected, actual) == DOMAIN actual \ DOMAIN expected

\* A plausible defect: only the tools that are expected are compared.
FaultyMatches(expected, actual) ==
  Changed(expected, actual) \cup Missing(expected, actual) = {}

Matches(expected, actual) ==
  Changed(expected, actual) \cup Missing(expected, actual) \cup Additional(expected, actual) = {}

\* check_pair is for an enabled HTTP route with tools, and not too many.
CanBeChecked(config) ==
  /\ config.enabled /\ config.transport = "http" /\ Tools(config) # {}
  /\ Len(config.tools) <= MaxTools
  /\ Fits(Expected(config))
=============================================================================
