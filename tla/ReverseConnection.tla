-------------------------- MODULE ReverseConnection --------------------------
(***************************************************************************)
(* ReverseConnection of reverse.py: a desktop connects to the Hub with a   *)
(* WebSocket, registers the tools its current permission allows, and then  *)
(* answers one call at a time.                                             *)
(*                                                                         *)
(* Three kinds of tasks share the attributes of the connection: one        *)
(* call_tool for each call, one serve for each WebSocket, and close().     *)
(* They run on one event loop, so an action is what a task does between    *)
(* two awaits that can suspend it.  An await on a socket may still succeed *)
(* after another task has begun to close that socket (what it waits for    *)
(* was already on the way), but an await begun after that raises.          *)
(*                                                                         *)
(* Operators named Faulty... are plausible defects: the specification does *)
(* not use them, they serve to test that the properties notice.            *)
(***************************************************************************)
EXTENDS Naturals, FiniteSets

CONSTANTS Calls,     \* the invocations of call_tool on this connection
          Sockets,   \* the WebSockets that authenticated for this upstream
          Tools,     \* the configured tools
          Context,   \* the tool mcp.context, which every desktop must register
          Unknown,   \* a tool that is not configured
          ToolOf,    \* the tool of each call
          NoCall, NoSocket

ASSUME ReverseAssumption ==
  /\ Context \in Tools /\ Unknown \notin Tools /\ ToolOf \in [Calls -> Tools]
  /\ NoCall \notin Calls /\ NoSocket \notin Sockets

VARIABLES
  socket, connected, available, pending, closing,  \* the attributes of the connection;
  last_error, catalog_mismatch,                    \* pending is the call, or NoCall
  callPc, callSocket, future,   \* each call: where it is, the socket it took, its future,
  told,                         \* and the last_error that its ConnectionError quotes
  servePc,                      \* where each serve is
  closed,                       \* the sockets that the Hub has begun to close
  registered,                   \* the tools each socket has registered
  sent                          \* the calls whose message was sent

statusVars == <<last_error, catalog_mismatch>>
callVars == <<callPc, callSocket, told, sent>>
serveVars == <<servePc, registered>>
vars == <<socket, connected, available, pending, closing, statusVars, callVars, future,
          serveVars, closed>>

CallStates == {"idle", "sending",  \* awaits send_text, at most 5 s
               "waiting",          \* awaits the future, at most 125 s
               "failing",          \* awaits the closing of the socket, then ConnectionError
               "cancelling",       \* the same, then CancelledError
               "returned", "failed", "cancelled",
               "refused"}          \* offline, busy, or not permitted

Active == {"sending", "waiting", "failing", "cancelling"}

ServeStates == {"new", "rejected",
                "hello",    \* awaits accept and the registration
                "ready",    \* awaits the sending of the ready message
                "loop",     \* awaits an answer
                "closing",  \* awaits the closing of the socket
                "ended"}

Init ==
  /\ socket = NoSocket /\ connected = FALSE /\ available = {} /\ pending = NoCall
  /\ closing = FALSE /\ last_error = "none" /\ catalog_mismatch = FALSE
  /\ callPc = [c \in Calls |-> "idle"]
  /\ callSocket = [c \in Calls |-> NoSocket]
  /\ future = [c \in Calls |-> "none"] /\ told = [c \in Calls |-> "none"]
  /\ servePc = [s \in Sockets |-> "new"]
  /\ closed = {} /\ registered = [s \in Sockets |-> {}] /\ sent = {}

\* The exception that _disconnect gives to a call that still waits.
FailPending(f) ==
  [c \in Calls |-> IF c = pending /\ f[c] = "pending" THEN "failed" ELSE f[c]]

FaultyDisconnect(f) ==
  /\ socket' = NoSocket /\ connected' = FALSE /\ available' = {}
  /\ UNCHANGED closed
  /\ future' = FailPending(f)

\* _disconnect up to its await; f is the futures before.
Disconnect(f) ==
  /\ socket' = NoSocket /\ connected' = FALSE /\ available' = {}
  /\ closed' = closed \cup ({socket} \ {NoSocket})
  /\ future' = FailPending(f)
-----------------------------------------------------------------------------
(* call_tool                                                               *)

FaultyRefuses(c) == ~connected \/ socket = NoSocket \/ closing \/ ToolOf[c] \notin available

\* Offline, not permitted, busy.
Refuses(c) == \/ ~connected \/ socket = NoSocket \/ closing
              \/ ToolOf[c] \notin available
              \/ pending # NoCall

CallRefused(c) ==
  /\ callPc[c] = "idle" /\ Refuses(c)
  /\ callPc' = [callPc EXCEPT ![c] = "refused"]
  /\ UNCHANGED <<socket, connected, available, pending, closing, statusVars, callSocket,
                 told, sent, future, serveVars, closed>>

\* The message is sent through the socket that is current now.
Call(c) ==
  /\ callPc[c] = "idle" /\ ~Refuses(c)
  /\ pending' = c
  /\ callSocket' = [callSocket EXCEPT ![c] = socket]
  /\ future' = [future EXCEPT ![c] = "pending"]
  /\ sent' = sent \cup {c}
  /\ callPc' = [callPc EXCEPT ![c] = "sending"]
  /\ UNCHANGED <<socket, connected, available, closing, statusVars, told, serveVars, closed>>

\* A message over MAX_BYTES is not sent, but it disconnects the desktop too.
CallTooLarge(c) ==
  /\ callPc[c] = "idle" /\ ~Refuses(c)
  /\ pending' = c
  /\ callSocket' = [callSocket EXCEPT ![c] = socket]
  /\ last_error' = "call failed"
  /\ Disconnect([future EXCEPT ![c] = "failed"])
  /\ callPc' = [callPc EXCEPT ![c] = "failing"]
  /\ UNCHANGED <<closing, catalog_mismatch, told, sent, serveVars>>

CallSent(c) ==
  /\ callPc[c] = "sending"
  /\ callPc' = [callPc EXCEPT ![c] = "waiting"]
  /\ UNCHANGED <<socket, connected, available, pending, closing, statusVars, callSocket,
                 told, sent, future, serveVars, closed>>

\* The future has the result, and the finally clause frees the connection.
CallReturns(c) ==
  /\ callPc[c] = "waiting" /\ future[c] = "result"
  /\ callPc' = [callPc EXCEPT ![c] = "returned"]
  /\ pending' = NoCall
  /\ UNCHANGED <<socket, connected, available, closing, statusVars, callSocket, told, sent,
                 future, serveVars, closed>>

FaultyAfterFailure == UNCHANGED <<socket, connected, available, closed>>
                      /\ future' = FailPending(future)

\* "Close/cancel; never resend it": whatever socket is current is closed.
AfterFailure == Disconnect(future)

FaultyMayFail(c) == callPc[c] = "sending" \/ (callPc[c] = "waiting" /\ future[c] = "failed")

\* A send and an answer are awaited for 5 and for 125 seconds.
MayFail(c) == callPc[c] \in {"sending", "waiting"}

\* A send that fails or times out, an exception of the future, a timeout or a
\* cancellation.  With no socket to close, the call ends in the same step.
CallFails(c) == \E how \in {"failing", "cancelling"} :
  /\ MayFail(c)
  /\ last_error' = "call failed"
  /\ AfterFailure
  /\ \/ /\ socket # NoSocket
        /\ callPc' = [callPc EXCEPT ![c] = how]
        /\ UNCHANGED <<pending, told>>
     \/ /\ socket = NoSocket
        /\ callPc' = [callPc EXCEPT ![c] = IF how = "failing" THEN "failed" ELSE "cancelled"]
        /\ told' = [told EXCEPT ![c] = last_error']
        /\ pending' = NoCall
  /\ UNCHANGED <<closing, catalog_mismatch, callSocket, sent, serveVars>>

\* The socket is closed, or 5 s have passed: the exception quotes what last_error is by
\* then.  Or the task is cancelled during the await.
CallEnds(c) ==
  /\ \/ /\ callPc[c] = "failing"
        /\ callPc' = [callPc EXCEPT ![c] = "failed"]
        /\ told' = [told EXCEPT ![c] = last_error]
     \/ /\ callPc[c] \in {"failing", "cancelling"}
        /\ callPc' = [callPc EXCEPT ![c] = "cancelled"]
        /\ UNCHANGED told
  /\ pending' = NoCall
  /\ UNCHANGED <<socket, connected, available, closing, statusVars, callSocket, sent, future,
                 serveVars, closed>>
-----------------------------------------------------------------------------
(* serve                                                                   *)

FaultyOccupied == closing

Occupied == closing \/ socket # NoSocket

\* "No takeover of a live instance."
ServeRejects(s) ==
  /\ servePc[s] = "new" /\ Occupied
  /\ servePc' = [servePc EXCEPT ![s] = "rejected"]
  /\ UNCHANGED <<socket, connected, available, pending, closing, statusVars, callVars, future,
                 registered, closed>>

ServeStarts(s) ==
  /\ servePc[s] = "new" /\ ~Occupied
  /\ socket' = s
  /\ servePc' = [servePc EXCEPT ![s] = "hello"]
  /\ UNCHANGED <<connected, available, pending, closing, statusVars, callVars, future,
                 registered, closed>>

FaultyDetach(s) == /\ servePc' = [servePc EXCEPT ![s] = "ended"]
                   /\ UNCHANGED <<socket, connected, available, closed, future>>

\* The finally clause: serve disconnects its own socket, not a later one.
Detach(s) ==
  \/ /\ socket = s
     /\ Disconnect(future)
     /\ servePc' = [servePc EXCEPT ![s] = "closing"]
  \/ /\ socket # s
     /\ servePc' = [servePc EXCEPT ![s] = "ended"]
     /\ UNCHANGED <<socket, connected, available, closed, future>>

Leave(s) == last_error' = "desktop disconnected" /\ Detach(s)

\* A registration offers tools, some with a schema that is not the configured one.
Hello == [permission : {"edit", "readOnly"}, tools : SUBSET (Tools \cup {Unknown}),
          changed : SUBSET Tools]

Mismatch(h) == \/ h.tools \cap h.changed # {}
               \/ h.permission = "edit" /\ ~(Tools \subseteq h.tools)

FaultyGranted(h) == h.tools

\* Only configured tools become available.
Granted(h) == h.tools \cap Tools

\* The registration is valid: the tools are available, and the ready message goes out
\* unless the socket was closed during the await.
Registers(s) == \E h \in Hello :
  /\ servePc[s] = "hello"
  /\ ~Mismatch(h) /\ Context \in h.tools
  /\ available' = Granted(h)
  /\ registered' = [registered EXCEPT ![s] = Granted(h)]
  /\ catalog_mismatch' = FALSE
  /\ \/ /\ s \notin closed
        /\ last_error' = "none"
        /\ servePc' = [servePc EXCEPT ![s] = "ready"]
     \/ /\ s \in closed
        /\ last_error' = "desktop disconnected"
        /\ servePc' = [servePc EXCEPT ![s] = "ended"]
  /\ UNCHANGED <<socket, connected, closed, future, pending, closing, callVars>>

\* No accept, no registration in 10 s, an invalid one, or one that does not match.
RegistrationFails(s) ==
  /\ servePc[s] = "hello"
  /\ \E m \in {catalog_mismatch, TRUE} : catalog_mismatch' = m
  /\ Leave(s)
  /\ UNCHANGED <<pending, closing, callVars, registered>>

\* The ready message is sent.  The loop goes on to the next await, which raises if the
\* socket was closed meanwhile, or ends if the connection shuts down.
Ready(s) ==
  /\ servePc[s] = "ready"
  /\ connected' = TRUE
  /\ \/ /\ ~closing /\ s \notin closed
        /\ servePc' = [servePc EXCEPT ![s] = "loop"] /\ UNCHANGED last_error
     \/ /\ closing \/ s \in closed
        /\ servePc' = [servePc EXCEPT ![s] = "ended"]
        /\ last_error' = IF closing THEN last_error ELSE "desktop disconnected"
  /\ UNCHANGED <<socket, available, pending, closing, catalog_mismatch, callVars, future,
                 registered, closed>>

\* The connection breaks, or an answer is not that of the call that waits.
Breaks(s) ==
  /\ servePc[s] \in {"ready", "loop"}
  /\ Leave(s)
  /\ UNCHANGED <<pending, closing, catalog_mismatch, callVars, registered>>

FaultyAwaited(s) == pending \in sent /\ callSocket[pending] = s

\* The call that waits was sent through this socket, and has no outcome yet.
Awaited(s) == pending \in sent /\ callSocket[pending] = s /\ future[pending] = "pending"

\* Its answer.
Answers(s) ==
  /\ servePc[s] = "loop" /\ Awaited(s)
  /\ future' = [future EXCEPT ![pending] = "result"]
  /\ UNCHANGED <<socket, connected, available, pending, closing, statusVars, callVars,
                 serveVars, closed>>

ServeEnds(s) ==
  /\ servePc[s] = "closing"
  /\ servePc' = [servePc EXCEPT ![s] = "ended"]
  /\ UNCHANGED <<socket, connected, available, pending, closing, statusVars, callVars, future,
                 registered, closed>>

\* close(), up to its await.
Close ==
  /\ ~closing
  /\ closing' = TRUE
  /\ Disconnect(future)
  /\ UNCHANGED <<pending, statusVars, callVars, serveVars>>
-----------------------------------------------------------------------------
CallProgress(c) == CallSent(c) \/ CallReturns(c) \/ CallFails(c) \/ CallEnds(c)

CallStep(c) == CallRefused(c) \/ Call(c) \/ CallTooLarge(c) \/ CallProgress(c)

ServeProgress(s) == \/ Registers(s) \/ RegistrationFails(s) \/ Ready(s) \/ Breaks(s)
                    \/ Answers(s) \/ ServeEnds(s)

ServeStep(s) == ServeRejects(s) \/ ServeStarts(s) \/ ServeProgress(s)

Next == (\E c \in Calls : CallStep(c)) \/ (\E s \in Sockets : ServeStep(s)) \/ Close

Spec == Init /\ [][Next]_vars

\* Every await of a call has a timeout, and an await on a socket that the Hub has closed
\* comes to an end.
Fairness == /\ \A c \in Calls : WF_vars(CallProgress(c))
            /\ \A s \in Sockets : WF_vars(s \in closed /\ ServeProgress(s))

FairSpec == Spec /\ Fairness
-----------------------------------------------------------------------------
LastErrors == {"none", "call failed", "desktop disconnected"}

\* The types of the variables of the connection, its calls and its sockets.
TypeOK ==
  /\ socket \in Sockets \cup {NoSocket} /\ connected \in BOOLEAN /\ available \subseteq Tools
  /\ pending \in Calls \cup {NoCall} /\ closing \in BOOLEAN
  /\ last_error \in LastErrors /\ catalog_mismatch \in BOOLEAN
  /\ callPc \in [Calls -> CallStates]
  /\ callSocket \in [Calls -> Sockets \cup {NoSocket}]
  /\ future \in [Calls -> {"none", "pending", "result", "failed"}]
  /\ told \in [Calls -> LastErrors]
  /\ servePc \in [Sockets -> ServeStates]
  /\ closed \subseteq Sockets /\ registered \in [Sockets -> SUBSET Tools]
  /\ sent \subseteq Calls

\* The connection works on one call at a time, and knows which: a call that ends frees
\* it for the next one, and no call frees it for another.
OneCallAtATime == \A c \in Calls : pending = c <=> callPc[c] \in Active

\* A call waits for an answer only while the socket it was sent through is the current
\* one: whoever detaches that socket fails the call.
WaitsOnLiveSocket ==
  \A c \in Calls : future[c] = "pending" => /\ pending = c
                                            /\ callSocket[c] = socket /\ socket # NoSocket
                                            /\ ~closing

\* "A response may have been lost after commit": a call whose outcome is unknown never
\* shares its socket with a later call, whose answer it could be mistaken for.
UnresolvedCallsLeaveTheirSocket ==
  \A c \in sent : callSocket[c] = socket =>
    callPc[c] = "returned" \/ (pending = c /\ future[c] \in {"pending", "result"})

\* A socket occupies the connection only as long as its serve listens to it, and none
\* does once the connection is closed: a dead desktop does not keep a new one out.
OccupiedIsServed ==
  socket # NoSocket => /\ servePc[socket] \in {"hello", "ready", "loop"}
                       /\ socket \notin closed /\ ~closing

\* The future of a call is resolved once: no late or second answer, through whatever
\* socket, and no disconnection changes an outcome that its caller may have seen.
ResolvedOnce ==
  [][\A c \in Calls : future[c] \in {"result", "failed"} => future'[c] = future[c]]_future

\* Each call as its caller sees it.
OutcomeOf(c) ==
  CASE callPc[c] = "idle" -> "none"
    [] callPc[c] \in Active -> "pending"
    [] callPc[c] = "returned" -> "ok"
    [] callPc[c] = "cancelled" -> "abandoned"
    [] OTHER -> callPc[c]

Forwarding == INSTANCE CallForwarding
  WITH outcome <- [c \in Calls |-> OutcomeOf(c)],
       inflight <- IF \E c \in sent : future[c] = "pending"
                   THEN CHOOSE c \in sent : future[c] = "pending" ELSE NoCall

\* The connection is a CallForwarding: at most one call in flight, none sent twice or
\* after its caller has an answer, and a call refused as offline, busy or not permitted
\* was not sent.
ForwardingSpec == Forwarding!Spec

\* Each call and each socket as the registry sees them.
CallerOf(c) == CASE callPc[c] = "idle" -> "idle"
                 [] future[c] = "pending" -> "called"
                 [] OTHER -> "done"

ServingOf(s) == CASE servePc[s] \in {"new", "rejected"} -> "new"
                  [] servePc[s] \in {"hello", "ready"} -> "hello"
                  [] servePc[s] = "loop" -> "ready"
                  [] OTHER -> "left"

Desktop == INSTANCE DesktopConnection
  WITH caller <- [c \in Calls |-> CallerOf(c)], serving <- [s \in Sockets |-> ServingOf(s)]

\* The connection is a DesktopConnection: nobody takes its socket, none is attached once
\* it is closed, and no call waits for an answer when its socket is given up.
DesktopSpec == Desktop!Spec

\* Every call ends: answered, failed, refused or cancelled.
EveryCallEnds == \A c \in Calls : callPc[c] \in Active ~> callPc[c] \notin Active

\* Once the connection is closed every serve comes to an end.
ServesEnd ==
  closing ~> \A s \in Sockets : servePc[s] \in {"new", "rejected", "ended"}
-----------------------------------------------------------------------------
(* What the documentation and the tests say, and the code does not do.     *)

\* README, Desktop connectors: read-only connections reject direct attempts; a call goes
\* only to a desktop that has registered its tool.
SentOnlyIfRegistered ==
  \A c \in sent : ToolOf[c] \in registered[callSocket[c]]

\* A failed call tells its caller that its outcome is unknown and that it is not retried.
FailureIsExplained == \A c \in Calls : callPc[c] = "failed" => told[c] = "call failed"
=============================================================================
