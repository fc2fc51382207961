# Verification of the FLAMORIS MCP Hub

TLA+ specifications of the Hub in `src/`, TLC configurations that check them on
small instances, and proofs for every instance that TLAPS checks. Paths below are
those of the repository; line numbers refer to `src/src/flamoris_mcp_hub/`.

1. [The system](#1-the-system)
2. [Modules](#2-modules)
3. [Runs: what is checked](#3-runs-what-is-checked)
4. [Bounds and fairness](#4-bounds-and-fairness)
5. [Theorems: what is proved](#5-theorems-what-is-proved)
6. [Where the code and its documentation disagree](#6-where-the-code-and-its-documentation-disagree)
7. [What is not modelled](#7-what-is-not-modelled)
8. [Plan](#8-plan)

## 1. The system

The Hub is one Python process with one event loop. Clients speak MCP over HTTP to
it; it publishes a static catalog of tools read from YAML, and forwards each call
to the upstream that has the tool: either an MCP server the Hub connects to
(streamable HTTP) or a desktop application that connects to the Hub (WebSocket).

```
 client --HTTP--> DesktopGateway --> BearerAuth --> MCP server (SDK) --> on_call_tool
                        |                                                    |
                        | WebSocket                              UpstreamRegistry.call_public_tool
                        v                                          /                    \
                 ReverseConnection <----------------------------- +      LazyConnection --HTTP--> upstream
                        ^                                                 (one owner task)
                     desktop
```

### Components

| Component | State | Operations | Interacts with | Hard behaviours |
|---|---|---|---|---|
| **LazyConnection** (`upstream.py` 39-236) | memory stream of 16 requests, `_started`, `_closing`, `connected`, `last_error`, `catalog_mismatch`; the owner's session and exit stack; each `_Request` | `call_tool`, `close`, the owner task, `_close_stack`, `_check_catalog` | callers through the stream and the reply events; the SDK's session | callers cancelled at any await, a full stream, failures at each of the steps that open a session, a call whose outcome is unknown, shutdown with requests queued |
| **ReverseConnection** (`reverse.py` 33-163) | `_socket`, `connected`, `_available`, `_pending`, `_closing`, `last_error`, `catalog_mismatch` | `call_tool`, `serve`, `_disconnect`, `close` | tasks of calls and of sockets share the attributes; the desktop | every await is a place where another desktop comes or goes, a call times out, or shutdown begins |
| **BearerAuth** (`auth.py` 93-206) | table of session bindings, counts of requests in flight, count of sessions being established | `__call__`, `bound_send` | wraps the MCP application | requests on one session end in any order; expiry, deletion and capacity meanwhile |
| **Catalog** (`config.py`, `server.py` 58-72) | fixed after start | `load_upstreams`, `Catalog`, `on_list_tools` | read by all others | names that collide across files; omitted hints |
| **Catalog acceptance check** (`catalog_check.py`) | one command: contract of the upstream, receipt | `check_pair`, `_contract`, `_comparison` | lists the upstream, then the Hub | two awaits between which both may change; a second implementation of what the connection compares |
| **UpstreamRegistry, lifespan** (`upstream.py` 239-290, `server.py`, `runtime.py`) | task group, connections, the holder of the registry | `run`, `call_public_tool`, `status` | starts and closes all connections | connections closed one after the other while calls and desktops arrive; calls that outlive `run()` |
| **DesktopGateway** (`reverse.py` 166-209) | none | `__call__` | hands sockets to `serve` | a registry that is going away |
| **Configured clients** (`auth.py` 24-124, `server.py` 146-177) | the list of credentials | `client_token`, `configured_clients`, the constructor of `BearerAuth` | give BearerAuth its credentials | subjects, credentials and references that collide; the environment changes between the reads |
| **Provenance signer** (`provenance.py`) | key | `metadata` | called by the owner before a call | a request that cannot be signed is not sent; its key must not be a client's credential |
| **Updater owner** (`updater.py`) | none | `inspect_domain` | loads the catalog | - |
| **Release packaging** (`scripts/package_updater_release.py`) | directories of assets | `package`, `combine` | build machines only | names that collide, copying that fails halfway, joining two platforms |
| **Release verification** (`scripts/verify_updater_catalog.py`) | none | `main` | drives an external installer | - |

### What makes each component correct

* *A connection, of either kind:* a call reaches the upstream at most once and
  never after its caller has gone or has an answer; one call at a time; a caller
  told that its call was not made can rely on it; every caller is answered. This
  is stated once, in `CallForwarding`.
* *LazyConnection:* calls in order of arrival; contexts of one session at most; no
  request lost; a call only on the session whose catalog was just listed and matched.
* *ReverseConnection:* a late answer is never taken for that of another call; a
  connected desktop is never displaced; a dead one never keeps its place.
* *BearerAuth:* the table stays within its capacity; the counters that keep a
  binding or reserve a place are exact; a request only holds bindings of its own
  credential; a live binding is lost to nothing but its own deletion.
* *Catalog and check:* a public name leads to one upstream; what the check reports
  as matched is what the Hub's connection accepts, and a pair that agrees is not
  reported as a mismatch.
* *Registry, lifespan and gateway:* one owner for each HTTP connection, never in a
  task group that has ended; a stopped Hub has closed every connection and has
  no desktop; the stop comes, and every call ends, whatever arrives meanwhile.
* *Configured clients and signer:* a credential identifies the one client it was
  configured for; no signing key is a credential; what the documentation asks of a
  clients file is exactly what is accepted.
* *Release packaging:* what `package` lets through `combine` does not refuse, and what it left
  in part is refused. Between the two, files may be lost, added or altered: with a catalog that is as
  packaged go its payloads as packaged, and with all catalogs and manifests as
  packaged nothing else is published. `combine` promises no more than that (section 7).

## 2. Modules

| Module | Models | Kind |
|---|---|---|
| `CallForwarding` | what a connection promises its callers | abstract specification |
| `OwnedConnection` | what the registry relies on of an HTTP connection and its owner | abstract specification |
| `DesktopConnection` | what the registry relies on of a desktop connection and its socket | abstract specification |
| `LazyConnection` | `upstream.py`, `LazyConnection` | state machine, implements `CallForwarding` and `OwnedConnection` |
| `ReverseConnection` | `reverse.py`, `ReverseConnection` | state machine, implements `CallForwarding` and `DesktopConnection` |
| `BearerAuth` | `auth.py`, `BearerAuth` | state machine |
| `HubCatalog` | `config.py`, `_check_catalog`, `on_list_tools`, `_contract`, `_comparison` | definitions |
| `CatalogCheck` | `catalog_check.py` beside restarts of the Hub | state machine over `HubCatalog` |
| `HubLifecycle` | `runtime_lifespan`, `start_registry`, `UpstreamRegistry.run`, `call_public_tool`, `DesktopGateway`, with all connections | composition; each HTTP connection implements `OwnedConnection`, each desktop connection `DesktopConnection` |
| `ConfiguredClients` | `auth.py` 24-124 and the checks of `server.py` at the start | state machine |
| `ReleasePackaging` | `scripts/package_updater_release.py` | state machine |
| `LazyConnectionProofs`, `LazyAnswerProofs`, `ReverseConnectionProofs`, `BearerAuthProofs`, `CatalogProofs`, `HubLifecycleProofs`, `ConfiguredClientsProofs`, `ReleasePackagingProofs` | | theorems |
| `MC...` | | constants for TLC |

Operators named `Faulty...` are plausible defects of the definition they stand
before. No specification uses them; substituted for that definition, each makes a
property fail, which shows that the property depends on the code.

### LazyConnection

An action is what a task does between two awaits. `ownerPc` is the await the owner
is at, `pc[c]` the one of the caller of request `c`.

| Code | Model |
|---|---|
| `call_tool` 90-98 | `Call`, `CallRefused`, `CallBroken`: lock, closing check, start of the owner, and `send`. anyio 4 suspends in `send` only when the buffer is full, by which time the item is with the waiting senders. So nothing runs between the check of `_closing` and the enqueuing, and the handler of `ClosedResourceError` (105), which refuses a call before anything of it is sent, is not reached. This is a property of anyio, not of the code here; if `send` did suspend first, such a call would end as `CallRefused` does |
| 99-110 | `Return` with `Verdict`; `CancelCall`; `SendBroken` |
| `close` | `Close`; a waiting owner wakes up |
| the stream | `queue`: the first `Capacity` elements are its buffer, the rest blocked senders; `Withdraw` takes a blocked sender's item back, a buffered one stays and is skipped by the owner |
| 159-164 | `Receive`, `Block`, `EndOfStream`, `Enter`, `Skip` |
| 165-193 | `Relisted`, `ListFailed`, `Reopen`, `Connected`, `Aborted`; `stack` is the set of sessions whose contexts are entered |
| 194-219 | `Dispatch`: from the answer of `tools/list` to the call there is no await |
| 220-233 | `Answered`, `CallFailed`, `Dropped`, `Finish` |
| 234-236, `_close_stack` | `Exit`, `CloseStack` |
| cancellation of `run()`'s task group | `CancelGroup`, at any time: if a scope around `run()` is cancelled, the first `close()` that awaits raises (257-258) and later connections lose their owner without ever being closed. `OwnerCancelled`: not while `_close_stack` is shielded. A call that comes afterwards is not refused by `_closing`; it finds the stream without a receiver (`CallBroken`) |

`_check_catalog` is here the verdict `valid` on a listing; what it compares is
`Accepts` of `HubCatalog`. The signer is the choice to refuse a call of `Signed`.

### ReverseConnection

`callPc[c]` and `servePc[s]` are the awaits of a call and of the `serve` of a
socket. `_disconnect` clears the attributes and fails the pending future before it
awaits the closing of the socket (`Disconnect`), so what follows is a state of its
own (`failing`, `cancelling`, `closing`) in which everyone else runs. An await on a
socket that another task began to close may still succeed; one begun later raises.
Messages are abstracted to whether they are valid, a registration to the tools it
offers, its permission and which schemas differ.

### BearerAuth

A request is three steps: `__call__` up to the application (`Resume`, `Establish`,
`Forbidden`, `Unavailable`, `Unauthorized`), the start of the response in
`bound_send` (`RespondPlain`, `RespondBound`, `RespondNew`, `Fails`), and the
`finally` clause (`Finish`). The application answers with any id, or none, at any time, or never;
after a response that `bound_send` refused (`Fails`) it may try another, an error response for
example. At most one response is sent, as ASGI has it. The SDK's session manager is
one of these behaviours. A binding object is named
by the request that created it and can outlive its place in the table. The clock is
the set of bindings past `idle_until` (`Idle`).

### HubCatalog and CatalogCheck

A name is the sequence of its parts between dots and a namespace a single part,
as its pattern has no dot; a schema is an opaque value; stated hints are a function
whose domain says which are stated. `LoadsUpstreams` and `BuildsCatalog` are the
checks of `load_upstreams` and `Catalog.__init__`, `HubListing` is `on_list_tools`,
`Accepts` is `_check_catalog`, `IsEvidence` and `Contract` are `_contract`, `Matches`
is `_comparison`. `CatalogCheck` runs `check_pair` (`Begin`, `ListUpstream`,
`ListHub`, `Fail`) while the Hub starts and stops with other files and upstreams are
redeployed. `listed` and `served` record what the check saw; they are history and
no action reads them.

### HubLifecycle, OwnedConnection and DesktopConnection

The composition. A connection in full has too many states to put beside others,
so the two kinds enter as what matters to the registry. `OwnedConnection`
says it for HTTP: the first accepted call starts the only owner, and the owner ends when the connection is
closed and every accepted call dealt with, or when it is cancelled. `LazyConnection` is shown to
implement it, and so is each HTTP connection of `HubLifecycle` (`OwnedSpec` in both).

`DesktopConnection` says it for a desktop: one socket at a time, which nobody takes away and
which none follows once the connection is closed; calls only through that socket, one at a time;
and whoever gives the socket up, be it a call that fails, the desktop that leaves or `close()`,
settles the call that waits for its answer. `ReverseConnection` implements it, and so does each
desktop connection of `HubLifecycle` (`DesktopSpec` in both). A registration may complete late, for
a socket that is no longer current, and say "connected" then: the abstract specification has that
step, as the code does (section 6, 1). So it does not promise that `connected` implies a socket,
and `call_tool` must ask for both, which its action `Call` does.

| Code | Model |
|---|---|
| `runtime_lifespan`, `start_registry` | `StartFails`, `Start`; `holder` is what the gateway looks up |
| `run`, 245-260 | `EndBody`, `CloseNext`, `Exit`. `CloseOn` goes through the connections in the order of the catalog to the next `close()` that awaits: an HTTP connection always does, a desktop connection if it has a socket. In a cancelled scope that await raises, and the connections after it are not closed |
| `call_public_tool` | `CallTurnedAway`, `CallNotRunning`, `CallEnters`, `CallDesktop` |
| `call_tool` of an HTTP connection | `CallLocked` (everything under the lock, which contains no await), `CallMade`, `CallAnswered`, `CallLeaves`, `OwnerEnds` |
| `call_tool` of a desktop connection | `CallDesktop`, `CallAnswered`, `CallDrops` |
| `DesktopGateway`, `serve` | `Arrives` (the gateway's checks and the beginning of `serve` have no await between them), `Registers`, `Leaves` |

Calls and sockets are tasks of the server and may outlive `run()`; whether they do
depends on how the process is stopped, and the model allows both.

### ConfiguredClients

A variable of the environment, an entry of the clients file and a signing secret are members of
small sets; a credential is an opaque text that stands for its digest. The stages are those of
`create_app` and the lifespan: `ReadToken`, `ReadFile`, an iteration of `configured_clients` at a
time (`ReadEntry`), `Secure`, an iteration of the constructor of `BearerAuth` at a time (`AddCredential`),
and `StartRegistry`, where the `.env` file is read again and may set what was unset.
`Identify` is the lookup in `__call__`, whose loop does not stop at its first match.

### ReleasePackaging

An asset is its directory, its name, whether it is a link, and its contents, a
digest or the record that a catalog or a manifest is. `Package` makes a platform's directory, which
must not exist (`dirs`), with all of `Whole`, or one of the `Parts` if copying fails: any of the payloads
but one, all of them, or the catalog too, with the next file missing or cut off, and so also nothing.
`made` records what was packaged completely; it is history, which no action reads.

`Tamper` stands for the way of the directories from two build machines to a third: it alters the
contents of any file in any field the code reads or writes (`RecipeEdits`, `ManifestEdits`), cuts it
off, loses it, copies it, makes it a link or adds a file of another kind, one thing at a time, again
and again. `tests/test_updater_release.py` does four of these, the publishing workflow's upload and
download of artifacts could do the others. `Combine` publishes if `Acceptable`, whose conjuncts
are the checks of `combine` in their order; `output` is what it copies. The rest of a
recipe (`application`, the image's id, the wheels' digests) is bound like its references, by the
same values, and compared by no check; the reference digests `bound` stand for it.

## 3. Runs: what is checked

| Run | Instance | States | Shows |
|---|---|---|---|
| `lazy_safety` | 3 calls, buffer of 1 | 623,810 | `InOrderAtMostOnce`, `OneSession`, `ConnectedIsLive`, `NoLostRequest`, `AnswerIsOwn`, `DispatchChecked`; `ForwardingSpec` and `OwnedSpec`: it implements `CallForwarding` and `OwnedConnection` |
| `lazy_liveness` | 2 calls | 18,798 | `EveryCallAnswered`, `OwnerEnds` |
| `reverse_safety` | 2 calls, 2 sockets, 2 tools | 42,728 | `OneCallAtATime`, `WaitsOnLiveSocket`, `UnresolvedCallsLeaveTheirSocket`, `OccupiedIsServed`, `ResolvedOnce`; `ForwardingSpec` and `DesktopSpec`: it implements `CallForwarding` and `DesktopConnection`; `EveryCallEnds`, `ServesEnd` |
| `bearer_safety` | 4 requests of one client, 1 of another, 1 stranger; 2 ids; table of 1 | 62,460 | `TableFits`, `CountersAreExact`, `PlacesKept`, `SameCredential`, `LiveBindingsStay` |
| `catalog_check` | 15 deployments, 7 routes, 9 and 2 listings | 139,920 | `MatchedIsAccepted`, `FaithfulPairMatches`, `PublicNamesAreDistinct` |
| `hub` | an HTTP connection, a desktop, another HTTP connection, in this order; 3 calls, 1 socket | 65,789 | `DesktopsDetached`, `NoOwnerInEndedGroup`, `OwnedSpec`, `DesktopSpec`; `ShutdownEnds`, `EveryCallEnds` |
| `clients` | 4 variables with 4 values, files of up to 2 entries and one of 3 | 144,256 | `IdentityIsConfigured`, `KeysApart`, `SoundIsAccepted` |
| `release` | 2 platforms, 3 files of which 2 collide, 3 revisions, 2 digests, 2 changes | 602,566 | `PublishedIsGenuine`, `PackagedIsAccepted` |
| `reverse_permission`, `reverse_message`, `bearer_delete`, `hub_waiting` | as above, the `reverse_` ones with 3 sockets | - | the four disagreements of section 6 |

`lazy_safety` and `bearer_safety` also check one type invariant each; those of
`ReverseConnection`, `CatalogCheck` and `HubLifecycle` are proved. State counts of runs with symmetry are of orbits.

`CHECK_DEADLOCK FALSE` is set where the system really comes to rest: all calls of
the instance made and answered, all requests served, the Hub started or stopped, the release
assembled. `catalog_check` never rests and is checked for deadlock.

Some properties deserve a word:

* `NoLostRequest` ties a waiting caller to its request's place: in the stream or
  with the owner until it is replied to, across blocked senders, withdrawal,
  shutdown and every error path.
* `AnswerIsOwn` says when `call_tool` may run into its assertion (109) or a
  `BrokenResourceError` it does not handle: only once the task group is cancelled.
* `UnresolvedCallsLeaveTheirSocket` is why a late answer cannot be mistaken for
  that of the next call, although answers are matched by id on whatever socket is
  current: every call that is not resolved loses its socket first.
* `CountersAreExact` relates the integers the code increments and decrements on
  every path of a request to the sets of requests they stand for.
* `MatchedIsAccepted` relates two comparisons written separately (`_comparison` over
  two listings of the check, `_check_catalog` over one of the connection) and two
  configurations (the file given to the check, the one the Hub loaded). It excepts the
  namespace `hub`: the Hub's own `hub.upstreams.list` is listed there, so such a
  route always has an additional tool, and a file that configures exactly that tool
  would match although no Hub loads it.
* `FaithfulPairMatches` is its converse: given agreement, no false mismatch.
* `ResolvedOnce` is what keeps a late or second answer, through a socket that was
  detached, from touching a future that is done, where `set_result` would raise.
* `PlacesKept`: a request admitted within the limit may still find the table full
  when its session is to be bound (503 after the upstream answered), but only because a
  session was bound again after its deletion; without one, the reserved place is there.
* `DesktopsDetached` and `NoOwnerInEndedGroup` except a closing that was cut short (`how
  = "cut"`): when the scope around `run()` is cancelled, the first `close()` that awaits raises, the
  connections after it never learn of the shutdown, and `_group` stays set.
* `OwnedSpec` of the run `hub` is a property of several tasks: the first calls that queue for the
  lock, the loop that closes other connections, and the owner that may end only
  after the last of them.
* `DesktopSpec` of the run `hub` ties what desktops, calls and the loop that closes do to a
  connection to one socket's life there: a desktop that gets in behind the loop, or one whose
  call is left waiting when the loop takes its socket, is a step that it does not have.
* `EveryCallEnds` of the run `hub` excepts calls of a cancelled task group: their
  callers are told by their own cancellation.
* `SoundIsAccepted` holds the checks spread over two functions and two loops against one
  declarative statement of the documented conditions, in both directions.
* `PackagedIsAccepted` relates two procedures that never meet: what `package` writes, or leaves
  unfinished, on two machines against what `combine` refuses, in both directions.
* `PublishedIsGenuine` says what `combine` detects of any change on the way, and no more. It publishes
  altered catalogs, manifests, and payloads altered together with their catalog, if they contradict
  nothing: the run reaches such outputs. What binds the payloads is the catalog, so a genuine
  catalog brings its genuine payloads; the manifests bind the two platforms to one
  revision; and only the set `expected` of names keeps other files out.

## 4. Bounds and fairness

*Buffer of 1 for 16 in `LazyConnection`.* What differs by size is only whether a
sender blocks, and with three calls there is one with the owner, one buffered and
one blocked. A longer queue repeats these roles; that types hold for any size is proved.

*Two calls and two sockets,* three where a defect needs them. A defect of a shared
attribute needs a stale task, a current one and a newcomer: a call left from the
first desktop, the second desktop it disconnects, the third that connects meanwhile. The runs
`reverse_permission` and `reverse_message` have three. The properties that hold are
checked with two, together with liveness, and proved for any number. Sockets are
used up, calls too; both are the model's only counters.

*A table of one place, four requests of one client.* One establishes, one resumes,
one deletes, one more is in flight or arrives for the freed place. Capacity and
counters are proved for all sizes.

*Catalogs.* Each listing differs from its route in one respect (order, stated
defaults, an extra tool, one missing, a schema, a duplicate, unknown hints, more
tools than a contract may have, a partial answer), each deployment is refused for one reason or accepted; names
with a dot that begin like another namespace are among the tools. `MaxTools` 4, `MaxName` 3
parts and `MaxContract` 3 tools stand for 512 tools, 128 characters and 1 MiB, and
are each exceeded by some input.

*Three connections.* `run()` closes them in order, so the interesting places are
before, at and after a close that awaits: an HTTP connection first, a desktop between,
an HTTP connection that is closed late. Each has one call; the proofs are for any order, calls and sockets.

*Clients.* Two entries can agree in their subject, their reference or their credential, and
each with the shared token; `MaxClients` 2 for 64 is exceeded by one file. Any set of variables may be
named as signing secrets, and the environment at the second read is any extension of the first.

*Releases.* Two platforms, as the code names; two revisions of one version and one of
another; an image and a file that every recipe refers to, and a file whose flattened name is the
image's, so that some packages are refused and some have more files than others. Two digests: as packaged, or
not. `MaxTouches` 2 is the least with which a payload can change together with its catalog, or with a
second file that would hide the change; the theorems hold for any number. What is cut off is
not JSON, which leaves out a cut just before the final newline.

*Fairness, LazyConnection:* weak fairness of the owner's steps together and of
each caller's return. The event loop runs every task that is ready. Awaits on the
upstream end because the HTTP client has timeouts of 30 s, 300 s for a read
(`_http_client`), and a failure is one of the outcomes. Nothing is assumed of which
outcome, of callers arriving, or of cancellation.

*Fairness, ReverseConnection:* weak fairness of each call's progress (5 s for a send,
125 s for an answer, 5 s for the closing of a socket, by `wait_for`), and of a `serve` only when the Hub has
closed its socket. Nothing is assumed of a connected desktop: it may be silent for ever.

*Fairness, HubLifecycle:* weak fairness of the shutdown's next step, of each owner's end
once it is possible, and of each call's progress. That a call ends is, for its
connection, what the two runs above show; that an owner ends once it may is `OwnerEnds` of
`lazy_liveness`. Nothing is assumed of the body of `run()`, which may last for ever,
of desktops or of sockets.

*BearerAuth, CatalogCheck, ConfiguredClients, ReleasePackaging:* safety only. The
application may never return; the check ends by `fail_after`, which a fairness assumption would
merely restate; the last two are sequential programs without loops that could go on.

## 5. Theorems: what is proved

All for arbitrary values of the constants, under the assumptions named in the
modules, which TLC evaluates for each instance.

| Theorem | States | From |
|---|---|---|
| `LazyConnectionProofs!TypeCorrect` | `[]TypeOK` | `TypeOK /\ OwnerInv`: a request is at hand in exactly the states in which an action indexes a function with it |
| `LazyConnectionProofs!SingleSession`, `!LiveConnection` | `[]OneSession`, `[]ConnectedIsLive` | `SessionInv` |
| `LazyConnectionProofs!InOrder` | `[]InOrderAtMostOnce` | `OrderInv` |
| `LazyConnectionProofs!CheckedDispatch` | `DispatchChecked`, an action property | `SessionInv`, and that a cancelled caller marked its request |
| `LazyAnswerProofs!NoRequestLost`, `!OwnAnswer` | `[]NoLostRequest`, `[]AnswerIsOwn` | `OrderInv`, `AnswerInv`, `CloseInv` |
| `LazyAnswerProofs!Implements` | `ForwardingSpec`: `LazyConnection` implements `CallForwarding` | all of the above |
| `LazyAnswerProofs!OwnedImplements` | `OwnedSpec`: it implements `OwnedConnection` | `NoLostRequest` and `CloseInv` |
| `ReverseConnectionProofs!TypeCorrect`, `!OneAtATime`, `!LiveSocket`, `!UnresolvedLeave`, `!Occupation` | `[]TypeOK`, `[]OneCallAtATime`, `[]WaitsOnLiveSocket`, `[]UnresolvedCallsLeaveTheirSocket`, `[]OccupiedIsServed` | `IInv` below |
| `ReverseConnectionProofs!Resolved` | `ResolvedOnce`, an action property | `IInv` |
| `ReverseConnectionProofs!Implements` | `ForwardingSpec`: `ReverseConnection` implements `CallForwarding` | `IInv` |
| `ReverseConnectionProofs!DesktopImplements` | `DesktopSpec`: it implements `DesktopConnection` | `IInv` |
| `ReverseConnectionProofs!CurrentGrants` | `[]SentOnlyIfRegistered`, if each registration completes while its socket is current (`RegistersWhileCurrent`) | `IInv /\ GrantInv`: the available tools are registered by the current socket |
| `BearerAuthProofs!TypeCorrect`, `!ExactCounters` | `[]TypeOK`, `[](TypeOK /\ CountersAreExact)` | `IInv` below |
| `BearerAuthProofs!Capacity` | `[]TableFits` | `IInv` |
| `BearerAuthProofs!Places` | `[]PlacesKept` | `PlaceInv`: `IInv`, and whose request a binding of the table stems from |
| `BearerAuthProofs!OwnBindings` | `[]SameCredential` | `IInv` |
| `BearerAuthProofs!LiveBindings` | `LiveBindingsStay`, an action property | `IInv` |
| `BearerAuthProofs!OnlyDeletedReturn` | a session that a request which came with it has bound again is one that a DELETE named | `RebindInv` |
| `CatalogProofs!TypeCorrect` | `[]TypeOK` | what a configuration publishes is finite |
| `CatalogProofs!PublicNames` | `[]PublicNamesAreDistinct` | head and tail of a public name |
| `CatalogProofs!Evidence` | `[]MatchedIsAccepted` | `CatalogCheck!IInv` |
| `CatalogProofs!NoFalseAlarm` | `[]FaithfulPairMatches` | `ReadInv` and the lemmas on contracts |
| `HubLifecycleProofs!NoneInactive`, `!Detached` | `[]NoOwnerInEndedGroup`, `[]DesktopsDetached` | `IInv` below |
| `HubLifecycleProofs!TypeCorrect` | `[]TypeOK` | itself |
| `HubLifecycleProofs!OwnersImplement` | `OwnedSpec`: every HTTP connection is an `OwnedConnection` | `IInv` |
| `HubLifecycleProofs!DesktopsImplement` | `DesktopSpec`: every desktop connection is a `DesktopConnection` | `IInv`, with `TargetInv` and `QueueInv` |
| `HubLifecycleProofs!FirstSkips`, `!AloneSkips` | a request that waits when the shutdown begins is not sent if its connection is the first of the catalog; with one connection, `[]WaitingAreSkipped` | `WaitInv`: `IInv`, and that the end of `run()` reaches the first connection without an await |
| `ConfiguredClientsProofs!SeparateKeys`, `!Identification`, `!Acceptance` | `[]KeysApart`, `[]IdentityIsConfigured`, `[]SoundIsAccepted` | `IInv` below |
| `ReleasePackagingProofs!GenuinePublished`, `!PackagedAccepted` | `[]PublishedIsGenuine`, `[]PackagedIsAccepted` | `IInv` below |

*LazyConnection.* The properties are not inductive. `OneSession` says nothing of the
owner's position inside an iteration, so `SessionInv` names, for each `ownerPc`, the session, the open
contexts and what is reported; each action is then a walk from one line of it to
another. `InOrderAtMostOnce` speaks of calls made only; `OrderInv` extends the order of tickets
through the request at hand to the stream, so that the call to be made is
younger than those made, and a request occurs in one place (`Apart`). That, in
turn, is why a sender that takes its item along leaves no second copy
(`WithdrawnRange`), why a finished request has not been called unless it says so
(`AnswerInv`), and why an owner that finds the stream closed and empty leaves nobody
waiting (`NoLostRequest`; by `CloseInv` a caller that comes later is refused by `_closing`, or the group
is cancelled). The refinement
mapping sends a call to what its caller has been told, the calls made to a set, and the call
awaited to `inflight`: the owner's writes to a request are stutters, and what they mean becomes
visible when `call_tool` returns, in a state where `AnswerInv` says what was sent.

*ReverseConnection.* `_pending` is set by one task and reset by others, so `OneCallAtATime`
alone says too little of a call that awaits the closing of its socket. `IInv` adds
what each await of a call means for the attributes: `CallsInv` and `TakenInv` (who has the connection
and whether its future is done), `LeftInv` (a call that ended without an answer has left a
socket that is no longer current), `SentInv`, and for sockets `ServedInv` (the current
one is being served) and `FreshInv` (one that has not arrived is nowhere). `_disconnect` occurs in
five actions and is treated once (`DisconnectInv`). The refinement maps `inflight` to
the call whose future is pending; that it is at most one is `OneCallAtATime`. For
`DesktopConnection` a call is "called" while its future is pending and settled from then on, so
`_disconnect`, in whichever action, is `GiveUp`; that no future is pending after it
(`DisconnectFutures`) is `WaitsOnLiveSocket` once more. `CurrentGrants` has a hypothesis on
purpose: `RegistersWhileCurrent` is the check that `serve` leaves out after its await (section
6, 1), and with it the documented property holds, so nothing else is missing.

*HubLifecycle.* `NoOwnerInEndedGroup` follows from `ClosingInv`, that the connections up
to position `closed` shut down, and `PhaseInv`, that `closed` has reached the end before
the group is joined unless the closing was cut short. `DesktopsDetached` also needs that no socket attaches to a
connection that shuts down (`ClosedDetached`), which is why `close()` sets `_closing` before it
awaits anything. For `OwnedSpec` every action of the Hub is a step of each
connection's `OwnedConnection` or a stutter, one lemma for each kind of action. For
`DesktopSpec` likewise; there a step must also be invisible to every other desktop connection:
`TargetInv` says which connection a socket came to (none, for one that was turned away), and
`QueueInv` that a desktop's call never waits in an owner's stream, from where it could
be made without looking at the socket. `FirstSkips` marks out the disagreement 4 of
section 6: the documented word on shutdown holds of the first connection of the catalog,
because `run()` closes that one before its first await, and so of a Hub with one upstream.

*ConfiguredClients.* `IInv` follows the stages: what `clients` holds is a prefix of the
entries (`ReadInv`), pairwise apart (`ApartInv`), `credentials` is the shared token and a prefix of
`clients` (`CredentialsInv`), and keys are outside both (`KeysInv`). A credential then has one
position, so taking the last match and taking the first are the same.

*BearerAuth.* `TypeOK` is not inductive: `pendingSessions' = pendingSessions - 1`
stays a natural number only because the counter is exact, and it is exact only
because a request that is new holds nothing. Hence `IInv == TypeOK /\
CountersAreExact /\ NewHoldsNothing`. Each action adds or removes at most one
request from one set of holders and from the set of those establishing, and the cardinality
lemmas (`CountOneMore`, `CountOneLess`) turn this into the code's `+ 1` and `- 1`.
`Capacity` needs no reasoning about reservations: the check in `bound_send` (`Conflict`) alone
bounds the table, whatever the application answers. `LiveBindings` uses exactness once
more: a binding held by a request in flight has a count above zero, so pruning passes over it.
For the same reason a request in flight finds its session bound to what it holds until a DELETE
of it has come (`KeptInv`), so `OnlyDeletedReturn`: the disagreement 3 of section 6 needs a
DELETE, and a session that expired or made room never comes back.

*Catalog.* A public name determines its namespace and its tool because the
namespace is one part (`PublicNameParts`), so uniqueness of namespaces and of names within a
file suffices (`DistinctNames`); the duplicate check of `Catalog.__init__` is a
second line of defence that cannot fire after `load_upstreams`. For `Evidence`, what the Hub
lists in a namespace are exactly the tools of the configuration that has it
(`ServedByConfig`, `ConfigIsServed`), completing hints twice changes nothing
(`HintsOnce`), and equal contracts give, name by name, a listed tool with the
terms of the configured one (`MatchedPairIsAccepted`).

For `NoFalseAlarm`, conversely, the tools that the Hub lists for a namespace are the
entries of its configuration and nothing else, so both contracts are finite, have the same names
and the same terms (`ContractListed`, `ContractServed`, `HubEvidence`).

*ReleasePackaging.* `IInv` keeps `made` well typed (`MadeInv`) and says what is in the directories
while nothing has touched them, and of the output that it is `Checked`. Untouched, a platform has no
directory, or one of the `Parts`, or exactly `Whole` (`Packaged`). A part is never acceptable, because
the manifest is written last and one that is cut off cannot be read (`ManifestIsLast`), so
accepted directories are complete and of one revision (`AcceptedIsMatching`). Conversely, flattened
names that do not collide are injective (`EachPayload`), so there is one asset to each download, and
two directories of one revision pass every check (`MatchingIsAccepted`). The two together are
`PackagedIsAccepted`.

After a change nothing is known of the directories, and nothing need be: `Checked` is what
`combine`'s checks mean for the files it copies, whatever directories they come from
(`AcceptedIsChecked`), so the proof does not depend on what `Tamper` can do, only on its leaving
`made` and `output` alone (`TouchStep`). `PublishedIsGenuine` follows from `Checked` and
`MadeInv`: the downloads of a genuine catalog name the payloads of its directory with their digests
(`CatalogBringsPayloads`); two genuine manifests, which may not differ in their revision, and a genuine
catalog, of the release at hand, make the packages match (`GenuineIsMatching`); and the
names that all catalogs together allow are then taken (`GenuineIsAll`).

*Model-checked only.* Liveness (`EveryCallAnswered`, `OwnerEnds`, `EveryCallEnds` of both
modules, `ServesEnd`, `ShutdownEnds`), since the prover does not reason about `ENABLED`. Every
invariant, action property and refinement of a passing run is proved.

## 6. Where the code and its documentation disagree

Each is a run expected to end in a violation, whose trace is the scenario.

1. **Late registration grants its tools to another desktop** (`reverse.py` 132,
   `SentOnlyIfRegistered`). `serve` assigns `_available` after awaiting the
   registration without asking whether its socket is still current. A call left from an
   earlier desktop may have closed that socket and a new desktop may be connected; its
   tools are then those of the old registration, and a call it did not register is sent
   to it. `README.md` 470: "Read-only connections omit mutations and reject direct attempts."
   In the same way `connected` is set (135) for a socket that is gone.
2. **A failed call may not say so** (`reverse.py` 84, `FailureIsExplained`). `call_tool` raises
   with `last_error` as it is after an await; a registration has reset it meanwhile.
   `tests/test_reverse.py` 121 expects "not retried".
3. **A deleted session comes back** (`auth.py` 189, `DeletedIsUnbound`). A response that
   starts after the DELETE of its session binds the id again until it expires.
   `tests/test_provenance.py` 249 asserts an empty table after such a deletion, in
   the one order of responses it tries.
4. **A waiting request is sent after the shutdown began** (`upstream.py` 257, `WaitingAreSkipped`).
   `run()` closes the connections one after the other and awaits each, a desktop's for up to
   5 s. A later HTTP connection does not know of the shutdown until its turn,
   and its owner goes on sending what waits. `README.md` 321: "Cancelled requests and requests
   still waiting when shutdown begins are skipped before dispatch".

## 7. What is not modelled

* The MCP SDK, anyio, Starlette and uvicorn, except for what the code's awaits can observe:
  listings and calls that answer, fail or take for ever up to a timeout; the order and cancellation of stream
  operations; sockets that break. It is assumed that the SDK's transport contexts
  do not cancel the owner task themselves.
* How the server stops: callers and sockets may or may not outlive `run()`, and the
  task group may be cancelled with callers still waiting. Both are allowed at any time, which is
  more than one way of deploying the Hub can show.
* HTTP and JSON parsing, YAML, JSON Schema, patterns of single fields, the MAC and the
  canonical JSON of provenance: data that no property tells apart.
* `on_call_tool`'s validation of arguments and its translation of exceptions: a function of one call.
* The gateway's inspection of headers and its comparison of the secret: whether the handshake is in order.
* The envelope of the provenance signer: the time and the nonce it draws, and the MAC.
* `SHA256SUMS`, which both operations of the packaging compute from what they have just written, and
  the parsing of the recipe. `combine` neither reserves the names `catalog.json` and
  `SHA256SUMS` nor compares the candidates' revision with that of its own checkout; the model
  follows it in the second, and has no asset of these names.
* What `combine` does not compare, and the model therefore publishes: everything in a candidate manifest
  but `source_revision` (its list of files and digests too), the `application`, image id,
  wheels and reference digests of a recipe, and a payload that is altered together with its digest in the
  catalog. `PublishedIsGenuine` says what can be relied on all the same.
* A change of the upstream or the Hub between the two listings of the catalog check, or
  after them. The check holds two snapshots taken one after the other and never looks again
  (`catalog_check.py` 139), so it cannot notice, and no property says that it does: `MatchedIsAccepted` and
  `FaithfulPairMatches` speak of the listings it recorded. What a call relies on is the comparison that
  the connection makes itself when it opens a session (`DispatchChecked`).
* `updater.py`, `scripts/verify_updater_catalog.py`: adapters of an external library and
  an external installer without state of their own.
* `accept` and the ready message of `serve`, awaited without a timeout (`reverse.py` 134): a peer that
  does not read holds the connection until the WebSocket server's ping timeout ends it, which is
  outside this code. `ServesEnd` therefore speaks of closed connections only.
* The process itself: nothing is persisted, so a crash is a fresh `Init`.

## 8. Plan

Done, in the order of importance: `CallForwarding`, `LazyConnection`, `ReverseConnection`,
`BearerAuth`, `HubCatalog` and `CatalogCheck`, `OwnedConnection`, `DesktopConnection` and
`HubLifecycle`, `ConfiguredClients`, `ReleasePackaging`, with the theorems of section 5.

Left, in this order:

1. The provenance signer's envelope, once per call, over the time and nonce it draws.
2. For the disagreement 2 of section 6, which statement about `last_error` does hold, as
   `CurrentGrants`, `OnlyDeletedReturn` and `FirstSkips` say it for the others.
