--------------------------- MODULE LazyConnection ---------------------------
(***************************************************************************)
(* LazyConnection of upstream.py: callers put requests into a memory       *)
(* stream; one owner task takes them out one at a time, makes sure that    *)
(* the upstream session is alive and serves the configured catalog, and    *)
(* only then makes the call.                                               *)
(*                                                                         *)
(* The tasks run on one event loop, so an action is what a task does       *)
(* between two awaits; every await at which another task can run is a      *)
(* value of ownerPc or pc.                                                 *)
(*                                                                         *)
(* The stream is anyio's.  Its buffer and its waiting senders are one      *)
(* FIFO here, queue: the first Capacity elements are buffered, the others  *)
(* belong to senders still blocked in send().  anyio moves the oldest      *)
(* waiting sender into the buffer in the step that takes an element out,   *)
(* so the two are never out of order and never leave a gap.                *)
(*                                                                         *)
(* Operators named Faulty... are plausible defects: the specification does *)
(* not use them, they serve to test that the properties notice.            *)
(***************************************************************************)
EXTENDS Naturals, Sequences, FiniteSets

CONSTANTS Calls,     \* the invocations of call_tool on this connection
          Signed,    \* those with a signer and an identity, whose metadata is signed
          Capacity,  \* the size of the stream's buffer: 16 in the code
          NoCall     \* no invocation

ASSUME CapacityAssumption == Capacity \in Nat \ {0}
ASSUME CallsAssumption == Signed \subseteq Calls /\ NoCall \notin Calls

VARIABLES
  pc,               \* where each caller is
  ticket, arrived,  \* the place of each call in the order of arrival, and the last one
  reply, cancelled, error, result,          \* the fields of each call's _Request
  queue,            \* the requests in the stream, waiting senders included
  closing,          \* _closing, and the stream's send end is closed
  groupCancelled,   \* the registry's task group was cancelled
  ownerPc, cur,     \* where the owner task is, and the request it works on
  session,          \* the owner's session: 0 is None
  stack, opened,    \* the sessions entered and not yet left, and the last one entered
  listed,           \* the owner's latest answer of tools/list
  connected, last_error, catalog_mismatch,  \* what the status tool reports
  sent              \* the calls for which a tools/call request was made, in order

callerVars == <<pc, ticket, arrived>>
requestVars == <<reply, cancelled, error, result>>
streamVars == <<queue, closing, groupCancelled>>
ownerVars == <<ownerPc, cur>>
sessionVars == <<session, stack, opened>>
checkVars == <<listed, catalog_mismatch, connected>>
vars == <<callerVars, requestVars, streamVars, ownerVars, sessionVars, checkVars,
          last_error, sent>>

Errors == {"none",         \* no exception
           "shutdown",     \* RuntimeError: the connection is shutting down
           "unavailable",  \* ConnectionError: no session could be opened
           "mismatch",     \* LookupError: catalog mismatch
           "ambiguous"}    \* ConnectionError: call failed; not retried

CallerStates == {"idle", "waiting",
                 "returned",   \* with the upstream's result
                 "raised",     \* with request.error
                 "asserted",   \* with AssertionError
                 "broken",     \* with BrokenResourceError
                 "refused",    \* with RuntimeError, at once
                 "cancelled"}

OwnerStates == {"unstarted",
                "receive",  \* about to take a request
                "blocked",  \* waiting for one
                "entry",    \* has one
                "relist",   \* awaits tools/list on the session it has
                "reopen",   \* awaits the closing of a session that failed to list
                "connect",  \* awaits the opening of a session, and its tools/list
                "abort",    \* awaits the closing of a session that failed to open
                "call",     \* awaits tools/call
                "drop",     \* awaits the closing of a session whose call failed
                "exit",     \* awaits the closing of everything
                "done"}

Results == {"none", "result", "unsupported"}

Init ==
  /\ pc = [c \in Calls |-> "idle"]
  /\ ticket = [c \in Calls |-> 0] /\ arrived = 0
  /\ reply = [c \in Calls |-> FALSE] /\ cancelled = [c \in Calls |-> FALSE]
  /\ error = [c \in Calls |-> "none"] /\ result = [c \in Calls |-> "none"]
  /\ queue = <<>> /\ sent = <<>>
  /\ closing = FALSE /\ groupCancelled = FALSE
  /\ ownerPc = "unstarted" /\ cur = NoCall
  /\ session = 0 /\ stack = {} /\ opened = 0
  /\ listed = [call |-> NoCall, session |-> 0, valid |-> FALSE]
  /\ connected = FALSE /\ last_error = "none" /\ catalog_mismatch = FALSE
-----------------------------------------------------------------------------
(* The caller's side: call_tool and close.                                 *)

\* The sender of c is still blocked in send(): the buffer was full.
Blocked(c) == \E i \in 1..Len(queue) : i > Capacity /\ queue[i] = c

\* The queue without its i-th element.
Without(i) == [k \in 1..Len(queue) - 1 |-> IF k < i THEN queue[k] ELSE queue[k + 1]]

\* A blocked sender that goes away takes its item along; a buffered request stays.
Withdraw(c) ==
  IF Blocked(c)
  THEN \E i \in 1..Len(queue) : i > Capacity /\ queue[i] = c /\ queue' = Without(i)
  ELSE UNCHANGED queue

\* call_tool of a connection that shuts down raises before it sends anything.
CallRefused(c) ==
  /\ pc[c] = "idle" /\ closing
  /\ pc' = [pc EXCEPT ![c] = "refused"]
  /\ UNCHANGED <<ticket, arrived, requestVars, streamVars, ownerVars, sessionVars, checkVars,
                 last_error, sent>>

\* The owner has left its loop, and with it closed the receive end of the stream.
Deaf == ownerPc \in {"exit", "done"}

\* call_tool starts the owner if need be and sends the request: straight to the owner
\* if it waits for one and is not being cancelled, else into the stream.  send() has
\* no await before the request is in the stream, so close() cannot come in between.
Call(c) ==
  /\ pc[c] = "idle" /\ ~closing /\ ~Deaf
  /\ pc' = [pc EXCEPT ![c] = "waiting"]
  /\ arrived' = arrived + 1 /\ ticket' = [ticket EXCEPT ![c] = arrived + 1]
  /\ LET handed == ownerPc = "blocked" /\ ~groupCancelled IN
     \/ /\ handed
        /\ ownerPc' = "entry" /\ cur' = c
        /\ UNCHANGED queue
     \/ /\ ~handed
        /\ queue' = Append(queue, c)
        /\ ownerPc' = IF ownerPc = "unstarted" THEN "receive" ELSE ownerPc
        /\ UNCHANGED cur
  /\ UNCHANGED <<requestVars, closing, groupCancelled, sessionVars, checkVars, last_error, sent>>

\* A connection whose owner was cancelled, but which nobody has closed: send() raises
\* BrokenResourceError.
CallBroken(c) ==
  /\ pc[c] = "idle" /\ ~closing /\ Deaf
  /\ pc' = [pc EXCEPT ![c] = "broken"]
  /\ UNCHANGED <<ticket, arrived, requestVars, streamVars, ownerVars, sessionVars, checkVars,
                 last_error, sent>>

FaultyRaise(c) == IF error[c] # "none" THEN error[c] ELSE "returned"

FaultyVerdict(c) == IF result[c] # "none" THEN "returned" ELSE "raised"

\* What call_tool makes of a request whose reply event is set.
Verdict(c) == IF error[c] # "none" THEN "raised"
              ELSE IF result[c] # "none" THEN "returned" ELSE "asserted"

Return(c) ==
  /\ pc[c] = "waiting" /\ reply[c]
  /\ pc' = [pc EXCEPT ![c] = Verdict(c)]
  /\ UNCHANGED <<ticket, arrived, requestVars, streamVars, ownerVars, sessionVars, checkVars,
                 last_error, sent>>

\* The caller's task is cancelled in send() or in reply.wait().
CancelCall(c) ==
  /\ pc[c] = "waiting"
  /\ pc' = [pc EXCEPT ![c] = "cancelled"]
  /\ cancelled' = [cancelled EXCEPT ![c] = TRUE]
  /\ Withdraw(c)
  /\ UNCHANGED <<ticket, arrived, reply, error, result, closing, groupCancelled, ownerVars,
                 sessionVars, checkVars, last_error, sent>>

\* A sender still blocked when the receive end is closed gets BrokenResourceError.
SendBroken(c) ==
  /\ pc[c] = "waiting" /\ Blocked(c) /\ Deaf
  /\ pc' = [pc EXCEPT ![c] = "broken"]
  /\ Withdraw(c)
  /\ UNCHANGED <<ticket, arrived, requestVars, closing, groupCancelled, ownerVars, sessionVars,
                 checkVars, last_error, sent>>

FaultyWake == UNCHANGED ownerPc

\* An owner waiting for a request wakes up and finds the stream closed.
Wake == ownerPc' = IF ownerPc = "blocked" THEN "receive" ELSE ownerPc

\* close().
Close ==
  /\ ~closing
  /\ closing' = TRUE
  /\ Wake
  /\ UNCHANGED <<callerVars, requestVars, queue, groupCancelled, cur, sessionVars, checkVars,
                 last_error, sent>>

\* The task group of UpstreamRegistry.run() cancels the owners: because the body of
\* run() raised, once the connections are closed, or because a scope around run() was
\* cancelled.  Then the first close() that awaits raises and later connections are
\* never closed.
CancelGroup ==
  /\ ~groupCancelled
  /\ groupCancelled' = TRUE
  /\ UNCHANGED <<callerVars, requestVars, queue, closing, ownerVars, sessionVars, checkVars,
                 last_error, sent>>
-----------------------------------------------------------------------------
(* The owner's side: _run_owner.                                           *)

FaultyFinish(err, res) ==
  /\ reply' = [reply EXCEPT ![cur] = (err = "none")]
  /\ error' = [error EXCEPT ![cur] = err]
  /\ result' = [result EXCEPT ![cur] = res]
  /\ UNCHANGED cancelled
  /\ cur' = NoCall
  /\ ownerPc' = "receive"

\* The end of an iteration: the except clause records the error and the finally
\* clause sets the reply.
Finish(err, res) ==
  /\ reply' = [reply EXCEPT ![cur] = TRUE]
  /\ error' = [error EXCEPT ![cur] = err]
  /\ result' = [result EXCEPT ![cur] = res]
  /\ UNCHANGED cancelled
  /\ cur' = NoCall
  /\ ownerPc' = "receive"

FinishWithError(err) == Finish(err, result[cur]) /\ last_error' = err

\* "continue": the caller is gone.
Skip == Finish("none", "none") /\ UNCHANGED last_error

FaultyAfterClose == stack

\* _close_stack leaves every context of the stack; what that raises is only logged.
AfterClose == {}

CloseStack == session' = 0 /\ stack' = AfterClose

\* Enter the contexts of a new session; others is what the stack still holds.
OpenSession(others) == /\ ownerPc' = "connect"
                       /\ opened' = opened + 1
                       /\ stack' = others \cup {opened + 1}

\* The owner takes the oldest request.
Receive ==
  /\ ownerPc = "receive" /\ queue # <<>> /\ ~groupCancelled
  /\ cur' = Head(queue) /\ queue' = Tail(queue)
  /\ ownerPc' = "entry"
  /\ UNCHANGED <<callerVars, requestVars, closing, groupCancelled, sessionVars, checkVars,
                 last_error, sent>>

\* There is none and the stream is open.
Block ==
  /\ ownerPc = "receive" /\ queue = <<>> /\ ~closing
  /\ ownerPc' = "blocked"
  /\ UNCHANGED <<callerVars, requestVars, streamVars, cur, sessionVars, checkVars, last_error,
                 sent>>

FaultyDrained == closing

Drained == closing /\ queue = <<>>

\* There is none and never will be: the loop ends and the receive end is closed.
EndOfStream ==
  /\ ownerPc = "receive" /\ Drained
  /\ ownerPc' = "exit" /\ connected' = FALSE
  /\ UNCHANGED <<callerVars, requestVars, streamVars, cur, sessionVars, listed,
                 catalog_mismatch, last_error, sent>>

\* First, a connection that shuts down and a caller that is gone; then the session.
Enter ==
  /\ ownerPc = "entry"
  /\ \/ closing /\ FinishWithError("shutdown") /\ UNCHANGED sessionVars
     \/ ~closing /\ cancelled[cur] /\ Skip /\ UNCHANGED sessionVars
     \/ /\ ~closing /\ ~cancelled[cur]
        /\ \/ session # 0 /\ ownerPc' = "relist" /\ UNCHANGED <<stack, opened>>
           \/ session = 0 /\ OpenSession(stack)
        /\ UNCHANGED <<requestVars, cur, session, last_error>>
  /\ UNCHANGED <<callerVars, streamVars, checkVars, sent>>

FaultyMayDispatch == TRUE

\* The checks that follow the await of tools/list, with no await before the call.
MayDispatch == ~closing /\ ~cancelled[cur]

\* With the answer of tools/list on session s, which leaves connected as up:
\* _check_catalog, the checks after it, and the call, unless the signer refuses.
Dispatch(s, valid, up) ==
  /\ listed' = [call |-> cur, session |-> s, valid |-> valid]
  /\ catalog_mismatch' = ~valid
  /\ \/ /\ ~valid
        /\ FinishWithError("mismatch") /\ connected' = up /\ UNCHANGED sent
     \/ /\ valid /\ ~MayDispatch /\ closing
        /\ FinishWithError("shutdown") /\ connected' = up /\ UNCHANGED sent
     \/ /\ valid /\ ~MayDispatch /\ ~closing
        /\ Skip /\ connected' = up /\ UNCHANGED sent
     \/ /\ valid /\ MayDispatch
        /\ ownerPc' = "call" /\ sent' = Append(sent, cur)
        /\ connected' = up /\ UNCHANGED <<requestVars, cur, last_error>>
     \/ /\ valid /\ MayDispatch /\ cur \in Signed
        /\ ownerPc' = "drop" /\ connected' = FALSE
        /\ UNCHANGED <<requestVars, cur, last_error, sent>>

\* tools/list answers on the session the owner has.
Relisted == \E valid \in BOOLEAN :
  /\ ownerPc = "relist"
  /\ Dispatch(session, valid, connected)
  /\ UNCHANGED <<callerVars, streamVars, sessionVars>>

\* initialize and tools/list answer on a new session.
Connected == \E valid \in BOOLEAN :
  /\ ownerPc = "connect"
  /\ session' = opened
  /\ Dispatch(opened, valid, TRUE)
  /\ UNCHANGED <<callerVars, streamVars, stack, opened>>

FaultyLost(state) == ownerPc' = state /\ UNCHANGED connected

\* An exception of the session: the owner goes on to close it.
Lost(state) == ownerPc' = state /\ connected' = FALSE

\* tools/list, or the opening of a session, fails.
ListFailed ==
  /\ \/ ownerPc = "relist" /\ Lost("reopen")
     \/ ownerPc = "connect" /\ Lost("abort")
  /\ UNCHANGED <<callerVars, requestVars, streamVars, cur, sessionVars, listed,
                 catalog_mismatch, last_error, sent>>

\* The session that failed to list is closed; the owner opens another.
Reopen ==
  /\ ownerPc = "reopen"
  /\ session' = 0 /\ OpenSession(AfterClose)
  /\ UNCHANGED <<callerVars, requestVars, streamVars, cur, checkVars, last_error, sent>>

\* The session that failed to open is closed.
Aborted ==
  /\ ownerPc = "abort"
  /\ CloseStack /\ FinishWithError("unavailable")
  /\ UNCHANGED <<callerVars, streamVars, opened, checkVars, sent>>

\* tools/call answers with a result.
Answered ==
  /\ ownerPc = "call"
  /\ Finish("none", "result") /\ last_error' = "none"
  /\ UNCHANGED <<callerVars, streamVars, sessionVars, checkVars, sent>>

\* tools/call answers with something that is not a result, or fails.
CallFailed == \E res \in {"none", "unsupported"} :
  /\ ownerPc = "call"
  /\ result' = [result EXCEPT ![cur] = res] /\ UNCHANGED <<reply, cancelled, error>>
  /\ Lost("drop")
  /\ UNCHANGED <<callerVars, streamVars, cur, sessionVars, listed, catalog_mismatch,
                 last_error, sent>>

FaultyDropped ==
  /\ ownerPc = "drop"
  /\ session' = 0 /\ OpenSession(AfterClose)
  /\ UNCHANGED <<callerVars, requestVars, streamVars, cur, checkVars, last_error, sent>>

\* The session whose call failed is closed; the call is not repeated.
Dropped ==
  /\ ownerPc = "drop"
  /\ CloseStack /\ FinishWithError("ambiguous")
  /\ UNCHANGED <<callerVars, streamVars, opened, checkVars, sent>>

\* The task group cancels the owner at an await.  The finally clause sets the reply
\* of the request at hand, if any, with neither a result nor an error.  _close_stack
\* is shielded, so reopen, abort, drop and exit are not interrupted.
OwnerCancelled ==
  /\ groupCancelled
  /\ ownerPc \in {"receive", "blocked", "relist", "connect", "call"}
  /\ ownerPc' = "exit" /\ cur' = NoCall /\ connected' = FALSE
  /\ reply' = [c \in Calls |-> reply[c] \/ c = cur] /\ UNCHANGED <<cancelled, error, result>>
  /\ UNCHANGED <<callerVars, streamVars, sessionVars, listed, catalog_mismatch, last_error,
                 sent>>

\* The outer finally clause closes what is open.
Exit ==
  /\ ownerPc = "exit"
  /\ CloseStack /\ ownerPc' = "done"
  /\ UNCHANGED <<callerVars, requestVars, streamVars, cur, opened, checkVars, last_error, sent>>
-----------------------------------------------------------------------------
OwnerStep == \/ Receive \/ Block \/ EndOfStream \/ Enter \/ Relisted \/ Connected
             \/ ListFailed \/ Reopen \/ Aborted \/ Answered \/ CallFailed \/ Dropped
             \/ OwnerCancelled \/ Exit

CallerStep(c) == \/ CallRefused(c) \/ Call(c) \/ CallBroken(c) \/ Return(c)
                 \/ CancelCall(c) \/ SendBroken(c)

Next == (\E c \in Calls : CallerStep(c)) \/ Close \/ CancelGroup \/ OwnerStep

Spec == Init /\ [][Next]_vars

\* The event loop runs every task that can run.  The upstream answers every request
\* or the HTTP client's timeouts (30 s, 300 s for a read) make it fail.
Fairness == /\ WF_vars(OwnerStep)
            /\ \A c \in Calls : WF_vars(Return(c)) /\ WF_vars(SendBroken(c))

FairSpec == Spec /\ Fairness
-----------------------------------------------------------------------------
Listing == [call : Calls \cup {NoCall}, session : Nat, valid : BOOLEAN]

\* The types of the variables of the connection, its owner and its callers.
TypeOK ==
  /\ pc \in [Calls -> CallerStates]
  /\ ticket \in [Calls -> Nat] /\ arrived \in Nat
  /\ reply \in [Calls -> BOOLEAN] /\ cancelled \in [Calls -> BOOLEAN]
  /\ error \in [Calls -> Errors] /\ result \in [Calls -> Results]
  /\ queue \in Seq(Calls) /\ sent \in Seq(Calls)
  /\ closing \in BOOLEAN /\ groupCancelled \in BOOLEAN
  /\ ownerPc \in OwnerStates /\ cur \in Calls \cup {NoCall}
  /\ session \in Nat /\ stack \subseteq Nat /\ opened \in Nat
  /\ listed \in Listing
  /\ connected \in BOOLEAN /\ last_error \in Errors /\ catalog_mismatch \in BOOLEAN

\* The calls are made in the order in which their requests were accepted, and no call
\* is made twice: "Never replay a call whose outcome may be ambiguous".
InOrderAtMostOnce ==
  \A i, j \in 1..Len(sent) : i < j => ticket[sent[i]] < ticket[sent[j]]

\* The owner never holds contexts of two sessions: whatever fails, it leaves the old
\* ones before it enters new ones, keeps none it does not use, and ends with none.
OneSession ==
  /\ \A s, t \in stack : s = t
  /\ ownerPc \in {"receive", "blocked", "entry", "relist", "call"} =>
       stack = {s \in {session} : s # 0}
  /\ ownerPc \in {"unstarted", "done"} => stack = {}

\* What the status tool reports as connected is the session the owner has: open while
\* it says so, and said so whenever the owner waits for its next request.
ConnectedIsLive ==
  /\ connected => session # 0 /\ session \in stack
  /\ ownerPc \in {"receive", "blocked"} => (connected <=> session # 0)

\* A request whose caller waits is with the owner or in the stream until it is replied
\* to, and an owner that leaves its loop on its own leaves no request behind.
NoLostRequest ==
  \A c \in Calls : pc[c] = "waiting" /\ ~reply[c] =>
    /\ cur = c \/ \E i \in 1..Len(queue) : queue[i] = c
    /\ ownerPc \in {"exit", "done"} => groupCancelled

\* A result is returned only by a call that was made and answered with a result, and
\* as long as the task group is not cancelled every other call gets an exception
\* that says why.
AnswerIsOwn ==
  \A c \in Calls :
    /\ pc[c] = "returned" => /\ result[c] = "result"
                             /\ \E i \in 1..Len(sent) : sent[i] = c
    /\ pc[c] \in {"asserted", "broken"} => groupCancelled

\* A call is made only on the live session whose catalog was listed for this very
\* request and matched, of a connection that is not closing, for a caller that has not
\* been cancelled in the meantime.
DispatchChecked ==
  [][sent' # sent =>
       LET c == sent'[Len(sent')] IN
       /\ ~closing /\ pc[c] # "cancelled"
       /\ listed' = [call |-> c, session |-> session', valid |-> TRUE]
       /\ session' \in stack']_vars

-----------------------------------------------------------------------------
(* Why the invariants above hold: their inductive strengthening.           *)

Range1(s) == {s[i] : i \in 1..Len(s)}

\* The owner has a request exactly while it works on one.
OwnerInv ==
  /\ cur # NoCall <=> ownerPc \in {"entry", "relist", "reopen", "connect", "abort", "call",
                                   "drop"}
  /\ ownerPc = "blocked" => queue = <<>> \/ groupCancelled
  /\ closing => ownerPc # "blocked"

\* Tickets grow from the calls already made, to the request at hand, to the queue.
OrderInv ==
  /\ \A c \in Calls : pc[c] = "idle" => /\ c # cur
                                        /\ c \notin Range1(queue) /\ c \notin Range1(sent)
  /\ \A c \in Calls : ticket[c] <= arrived
  /\ \A i, j \in 1..Len(queue) : i < j => ticket[queue[i]] < ticket[queue[j]]
  /\ \A i \in 1..Len(queue) : cur # NoCall => ticket[cur] < ticket[queue[i]]
  /\ \A i \in 1..Len(sent), j \in 1..Len(queue) : ticket[sent[i]] < ticket[queue[j]]
  /\ \A i \in 1..Len(sent) : ownerPc \in {"entry", "relist", "reopen", "connect", "abort"} =>
       ticket[sent[i]] < ticket[cur]

\* Which session the owner has, and which contexts are open, wherever it is.
SessionInv ==
  /\ ownerPc \in {"unstarted", "done"} => session = 0 /\ stack = {} /\ ~connected
  /\ ownerPc \in {"receive", "blocked", "entry"} =>
       \/ session = 0 /\ stack = {} /\ ~connected
       \/ session # 0 /\ stack = {session} /\ connected
  /\ ownerPc \in {"relist", "call"} => session # 0 /\ stack = {session} /\ connected
  /\ ownerPc \in {"reopen", "drop"} => session # 0 /\ stack = {session} /\ ~connected
  /\ ownerPc \in {"connect", "abort"} =>
       session = 0 /\ opened # 0 /\ stack = {opened} /\ ~connected
  /\ ownerPc = "exit" => ~connected /\ \A s, t \in stack : s = t

\* A request with the owner or in the stream is not answered yet, a result or an error
\* belongs to a call that has one, and an error other than "ambiguous" to a call that was
\* not made.
AnswerInv ==
  \A c \in Calls :
    /\ pc[c] = "idle" => ~reply[c] /\ ~cancelled[c]
    /\ c = cur /\ ownerPc = "call" => c \in Range1(sent) /\ result[c] = "none"
    /\ c = cur \/ c \in Range1(queue) => ~reply[c] /\ pc[c] \in {"waiting", "cancelled"}
    /\ pc[c] \notin {"idle", "refused"} => (pc[c] = "cancelled" <=> cancelled[c])
    /\ error[c] # "none" => reply[c]
    /\ error[c] \in {"shutdown", "unavailable", "mismatch"} => c \notin Range1(sent)
    /\ result[c] # "none" => c \in Range1(sent)
    /\ reply[c] /\ result[c] = "unsupported" => error[c] # "none"
    /\ reply[c] /\ error[c] = "none" /\ result[c] = "none" => cancelled[c] \/ groupCancelled

\* The owner leaves its loop only if it is cancelled or after close().
CloseInv == Deaf => closing \/ groupCancelled

IInv == OwnerInv /\ OrderInv /\ SessionInv /\ AnswerInv /\ CloseInv
-----------------------------------------------------------------------------
\* Each call as its caller sees it.
OutcomeOf(c) ==
  CASE pc[c] = "idle" -> "none"
    [] pc[c] = "waiting" -> "pending"
    [] pc[c] = "returned" -> "ok"
    [] pc[c] \in {"refused", "broken"} -> "refused"
    [] pc[c] = "cancelled" -> "abandoned"
    [] pc[c] = "asserted" -> "failed"
    [] pc[c] = "raised" -> IF error[c] = "ambiguous" THEN "failed" ELSE "refused"

Forwarding == INSTANCE CallForwarding
  WITH outcome <- [c \in Calls |-> OutcomeOf(c)],
       sent <- {c \in Calls : \E i \in 1..Len(sent) : sent[i] = c},
       inflight <- IF ownerPc = "call" THEN cur ELSE NoCall

\* The connection is a CallForwarding: at most one call in flight, none made for a
\* caller that has gone or has been answered, and a call refused as shutting down,
\* unavailable or mismatched was not made.
ForwardingSpec == Forwarding!Spec

\* Each call as the owner's task group sees it.
StageOf(c) ==
  CASE pc[c] = "idle" -> "idle"
    [] pc[c] \in {"refused", "cancelled", "broken"} -> "gone"
    [] pc[c] = "waiting" /\ ~reply[c] -> "waiting"
    [] OTHER -> "answered"

Owned == INSTANCE OwnedConnection
  WITH caller <- [c \in Calls |-> StageOf(c)],
       owner <- CASE ownerPc = "unstarted" -> "none" [] ownerPc = "done" -> "ended"
                  [] OTHER -> "running",
       owners <- IF ownerPc = "unstarted" THEN 0 ELSE 1,
       cut <- groupCancelled

\* The connection is what the registry relies on: one owner, which ends once the
\* connection is closed, and by then has dealt with every call it accepted.
OwnedSpec == Owned!Spec

\* Every caller gets an answer, if the task group is not cancelled.
EveryCallAnswered ==
  \A c \in Calls : pc[c] = "waiting" ~> pc[c] # "waiting" \/ groupCancelled

\* Once close() was called the owner comes to an end and leaves its session.
OwnerEnds == closing ~> ownerPc \in {"unstarted", "done"}
=============================================================================
