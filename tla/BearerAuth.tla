----------------------------- MODULE BearerAuth -----------------------------
(***************************************************************************)
(* BearerAuth of auth.py: the HTTP ingress admits a request that has a     *)
(* configured credential, binds each MCP session to the credential that    *)
(* established it, and bounds the table of these bindings.                 *)
(*                                                                         *)
(* A request is three steps: what __call__ does before it awaits the       *)
(* application, the response start that the application sends through      *)
(* bound_send, and the finally clause.  Requests interleave between them.  *)
(* The application starts at most one response that is sent, with any      *)
(* session id or none; after one that bound_send refuses it may try        *)
(* another.                                                                *)
(*                                                                         *)
(* A binding is an object that can outlive its place in the table, so it   *)
(* is named by the request that created it.  Of the clock there is only    *)
(* what the code compares: which bindings are past their idle_until.       *)
(*                                                                         *)
(* Operators named Faulty... are plausible defects: the specification does *)
(* not use them, they serve to test that the properties notice.            *)
(***************************************************************************)
EXTENDS Naturals, FiniteSets

CONSTANTS Requests,      \* the HTTP requests
          Ids,           \* the session ids
          Credentials,   \* the digests of the configured credentials
          CredentialOf,  \* the digest of the credential each request supplies
          MaxSessions,   \* 10000 in the code
          NoBinding, NoId

ASSUME AuthAssumption ==
  /\ MaxSessions \in Nat /\ IsFiniteSet(Requests) /\ IsFiniteSet(Ids)
  /\ NoBinding \notin Requests /\ NoId \notin Ids

VARIABLES
  sessions,        \* _sessions: the binding of each id, or NoBinding
  pendingSessions, \* _pending_sessions
  active,          \* each binding's count of the requests in flight
  idle,            \* the bindings whose idle_until has passed
  pc,              \* where each request is
  header,          \* the session id each request came with, or NoId
  deleting,        \* the requests whose method is DELETE
  held             \* held_binding of each request

requestVars == <<pc, header, deleting>>
vars == <<sessions, pendingSessions, active, idle, requestVars, held>>

RequestStates == {"new",
                  "admitted",     \* in the application, which has sent no response start
                  "responded",    \* in the application, which has
                  "failed",       \* in the application, and bound_send has raised
                  "done",
                  "unauthorized", \* 401
                  "forbidden",    \* 403
                  "unavailable"}  \* 503

\* No response of the request has been sent.
Unanswered(r) == pc[r] \in {"admitted", "failed"}

InFlight(r) == pc[r] \in {"admitted", "responded", "failed"}

Init ==
  /\ sessions = [i \in Ids |-> NoBinding]
  /\ pendingSessions = 0
  /\ active = [b \in Requests |-> 0] /\ idle = {}
  /\ pc = [r \in Requests |-> "new"]
  /\ header = [r \in Requests |-> NoId] /\ deleting = {}
  /\ held = [r \in Requests |-> NoBinding]
-----------------------------------------------------------------------------
\* The ids that a table binds.
Bound(table) == {i \in Ids : table[i] # NoBinding}

FaultyExpired(b) == b \in idle

\* Only a binding without requests in flight expires.
Expired(b) == b # NoBinding /\ active[b] = 0 /\ b \in idle

\* The table that every authenticated request starts from.
Pruned == [i \in Ids |-> IF Expired(sessions[i]) THEN NoBinding ELSE sessions[i]]

Refuse(r, status) == /\ pc' = [pc EXCEPT ![r] = status]
                     /\ UNCHANGED <<pendingSessions, active, idle, header, deleting, held>>

\* No configured credential: nothing happens to the table.
Unauthorized(r) ==
  /\ pc[r] = "new" /\ CredentialOf[r] \notin Credentials
  /\ Refuse(r, "unauthorized") /\ UNCHANGED sessions

Authenticated(r) == pc[r] = "new" /\ CredentialOf[r] \in Credentials

FaultyOwns(r, b) == b # NoBinding

Owns(r, b) == b # NoBinding /\ CredentialOf[b] = CredentialOf[r]

\* The request's session is not bound, or not to this credential.
Forbidden(r) == \E b \in {NoBinding} \cup {Pruned[i] : i \in Ids} :
  /\ Authenticated(r)
  /\ ~Owns(r, b)
  /\ sessions' = Pruned /\ Refuse(r, "forbidden")

\* The request names a session bound to its credential, and holds the binding.
Resume(r) == \E i \in Ids :
  /\ Authenticated(r)
  /\ Owns(r, Pruned[i])
  /\ sessions' = Pruned
  /\ pc' = [pc EXCEPT ![r] = "admitted"]
  /\ header' = [header EXCEPT ![r] = i]
  /\ deleting' \in {deleting, deleting \cup {r}}
  /\ held' = [held EXCEPT ![r] = Pruned[i]]
  /\ active' = [active EXCEPT ![Pruned[i]] = @ + 1]
  /\ UNCHANGED <<pendingSessions, idle>>

FaultyFull == Cardinality(Bound(Pruned)) >= MaxSessions

\* Neither the sessions nor those being established leave room for another.
Full == Cardinality(Bound(Pruned)) + pendingSessions >= MaxSessions

Unavailable(r) ==
  /\ Authenticated(r) /\ Full
  /\ sessions' = Pruned /\ Refuse(r, "unavailable")

\* A request without a session may establish one.
Establish(r) ==
  /\ Authenticated(r) /\ ~Full
  /\ sessions' = Pruned
  /\ pc' = [pc EXCEPT ![r] = "admitted"]
  /\ pendingSessions' = pendingSessions + 1
  /\ UNCHANGED <<active, idle, header, deleting, held>>
-----------------------------------------------------------------------------
(* bound_send, for the start of a response.                                *)

Respond(r) == Unanswered(r) /\ pc' = [pc EXCEPT ![r] = "responded"]

FaultyConflict(r, i) ==
  \/ sessions[i] # NoBinding /\ ~Owns(r, sessions[i])
  \/ header[r] \notin {NoId, i}

\* An id of another credential, an id other than the request's, a table that is full.
Conflict(r, i) ==
  \/ sessions[i] # NoBinding /\ ~Owns(r, sessions[i])
  \/ header[r] \notin {NoId, i}
  \/ sessions[i] = NoBinding /\ Cardinality(Bound(sessions)) >= MaxSessions

\* RuntimeError: the response is not sent.  The application may answer with another, an
\* error response for example.
Fails(r) == \E i \in Ids :
  /\ Unanswered(r) /\ Conflict(r, i)
  /\ pc' = [pc EXCEPT ![r] = "failed"]
  /\ UNCHANGED <<sessions, pendingSessions, active, idle, header, deleting, held>>

FaultyHold(r, b) == held' = [held EXCEPT ![r] = b] /\ active' = [active EXCEPT ![b] = @ + 1]

\* A request that holds no binding yet holds the one of its response.
Hold(r, b) ==
  \/ /\ held[r] = NoBinding
     /\ held' = [held EXCEPT ![r] = b] /\ active' = [active EXCEPT ![b] = @ + 1]
  \/ held[r] # NoBinding /\ UNCHANGED <<held, active>>

\* The table after a response that has left it as table, if deleted says that the
\* session of the request was deleted.
AfterDelete(r, table, deleted) ==
  [i \in Ids |-> IF deleted /\ i = header[r] THEN NoBinding ELSE table[i]]

\* A response without a session id.
RespondPlain(r) == \E ok \in BOOLEAN :
  /\ Respond(r)
  /\ sessions' = AfterDelete(r, sessions, ok /\ r \in deleting)
  /\ UNCHANGED <<pendingSessions, active, idle, header, deleting, held>>

\* A response with the id of a session that is bound.
RespondBound(r) == \E i \in Ids, ok \in BOOLEAN :
  /\ Respond(r) /\ ~Conflict(r, i) /\ sessions[i] # NoBinding
  /\ Hold(r, sessions[i])
  /\ sessions' = AfterDelete(r, sessions, ok /\ r \in deleting)
  /\ UNCHANGED <<pendingSessions, idle, header, deleting>>

\* A response with the id of a session that is not: a new one, or one that was deleted
\* while this request was in the application.
RespondNew(r) == \E i \in Ids, ok \in BOOLEAN :
  /\ Respond(r) /\ ~Conflict(r, i) /\ sessions[i] = NoBinding
  /\ Hold(r, r)
  /\ sessions' = AfterDelete(r, [sessions EXCEPT ![i] = r], ok /\ r \in deleting)
  /\ UNCHANGED <<pendingSessions, idle, header, deleting>>
-----------------------------------------------------------------------------
FaultyRelease(r) == pendingSessions' = pendingSessions - 1

\* The place that was kept for the session of a request without one.
Release(r) == IF header[r] = NoId
              THEN pendingSessions' = pendingSessions - 1 ELSE UNCHANGED pendingSessions

\* The application returns, raises or is cancelled, whether it has responded or not.
Finish(r) ==
  /\ InFlight(r)
  /\ pc' = [pc EXCEPT ![r] = "done"]
  /\ \/ /\ held[r] = NoBinding /\ UNCHANGED <<active, idle>>
     \/ /\ held[r] # NoBinding
        /\ active' = [active EXCEPT ![held[r]] = @ - 1]
        /\ idle' = idle \ {held[r]}
  /\ Release(r)
  /\ UNCHANGED <<sessions, header, deleting, held>>

\* Time passes: a binding is past its idle_until.  In flight this changes nothing.
Idle(b) ==
  /\ b \notin idle /\ \E i \in Ids : sessions[i] = b
  /\ idle' = idle \cup {b}
  /\ UNCHANGED <<sessions, pendingSessions, active, requestVars, held>>
-----------------------------------------------------------------------------
RequestStep(r) ==
  \/ Unauthorized(r) \/ Forbidden(r) \/ Resume(r) \/ Unavailable(r) \/ Establish(r)
  \/ Fails(r) \/ RespondPlain(r) \/ RespondBound(r) \/ RespondNew(r) \/ Finish(r)

Next == \E r \in Requests : RequestStep(r) \/ Idle(r)

Spec == Init /\ [][Next]_vars
-----------------------------------------------------------------------------
\* The types of the table, its bindings and the requests.
TypeOK ==
  /\ sessions \in [Ids -> Requests \cup {NoBinding}]
  /\ pendingSessions \in Nat
  /\ active \in [Requests -> Nat] /\ idle \subseteq Requests
  /\ pc \in [Requests -> RequestStates]
  /\ header \in [Requests -> Ids \cup {NoId}] /\ deleting \subseteq Requests
  /\ held \in [Requests -> Requests \cup {NoBinding}]

\* "The binding table allows at most 10,000 sessions", even when a request in flight
\* binds again a session whose place was given away.
TableFits == Cardinality(Bound(sessions)) <= MaxSessions

\* The requests in flight that hold a binding, and those that may establish a session.
Holders(b) == {r \in Requests : InFlight(r) /\ held[r] = b}
Establishing == {r \in Requests : InFlight(r) /\ header[r] = NoId}

\* The counters that keep a binding alive and a place reserved are exact: each counts
\* the requests in flight it stands for, whatever becomes of the responses, so none is
\* ever kept for good or given up too early.
CountersAreExact ==
  /\ \A b \in Requests : active[b] = Cardinality(Holders(b))
  /\ pendingSessions = Cardinality(Establishing)

\* A request that was admitted to establish a session has its place, until its response:
\* only a session that was bound again after its deletion can take it away.
PlacesKept ==
  Cardinality({r \in Establishing : held[r] = NoBinding})
    + Cardinality({i \in Bound(sessions) : header[sessions[i]] = NoId}) <= MaxSessions

\* "A session established by one credential cannot be reused by another": the binding that
\* a request holds, from its session id or from its response, has the request's credential.
SameCredential ==
  \A r \in Requests : held[r] # NoBinding => CredentialOf[held[r]] = CredentialOf[r]

\* "It does not discard live bindings": a binding held by a request in flight leaves the
\* table only by the response to a DELETE of that very session, never to admit another
\* session and never by getting old.
LiveBindingsStay ==
  [][\A i \in Ids, r \in Requests :
       InFlight(r) /\ held[r] # NoBinding /\ sessions[i] = held[r] /\ sessions'[i] # held[r] =>
         \E d \in deleting : header[d] = i /\ Unanswered(d) /\ pc'[d] = "responded"]_vars

\* A request that was not admitted has no session and no binding: with the two above, the
\* strengthening that makes the counters inductive.
NewHoldsNothing ==
  \A r \in Requests : pc[r] = "new" => header[r] = NoId /\ held[r] = NoBinding

IInv == TypeOK /\ CountersAreExact /\ NewHoldsNothing
-----------------------------------------------------------------------------
(* What a test says, and the code does not do.                             *)

\* test_provenance.py, delete_while_active: once a session was deleted and the requests
\* on it have ended, it has no binding.  A request that came with a session finds it
\* unbound only after a DELETE, so a binding such a request created is one too many.
DeletedIsUnbound ==
  (\A r \in Requests : ~InFlight(r)) =>
    \A i \in Ids : sessions[i] # NoBinding => header[sessions[i]] = NoId
=============================================================================
