--------------------------- MODULE CallForwarding ---------------------------
(***************************************************************************)
(* What one upstream connection of the Hub promises to the callers of its  *)
(* call_tool, whatever the transport.  The two transports, LazyConnection  *)
(* (streamable HTTP, upstream.py) and ReverseConnection (desktop           *)
(* WebSocket, reverse.py), are shown to implement it.                      *)
(*                                                                         *)
(*  - a call is handed to the upstream at most once, and only while its    *)
(*    caller is still waiting: never after it was given up or answered;    *)
(*  - an upstream has at most one call in flight;                          *)
(*  - "ok" is answered only to a call that was handed over, and "refused"  *)
(*    only to one that was not and never will be, so that repeating a      *)
(*    refused call is safe; "failed" leaves the outcome open.              *)
(***************************************************************************)
CONSTANTS Calls,    \* the invocations of call_tool on this connection
          NoCall    \* no invocation

VARIABLES outcome,  \* what each caller knows of its call
          sent,     \* the calls handed to the upstream
          inflight  \* the call the upstream is working on

forwardingVars == <<outcome, sent, inflight>>

Outcomes == {"none", "pending", "ok", "refused", "failed", "abandoned"}

TypeOK == /\ outcome \in [Calls -> Outcomes]
          /\ sent \subseteq Calls
          /\ inflight \in Calls \cup {NoCall}

Init == /\ outcome = [c \in Calls |-> "none"]
        /\ sent = {}
        /\ inflight = NoCall

\* The caller invokes call_tool.  It may be refused on the spot.
Submit(c) == /\ outcome[c] = "none"
             /\ \E o \in {"pending", "refused"} : outcome' = [outcome EXCEPT ![c] = o]
             /\ UNCHANGED <<sent, inflight>>

\* The connection hands the call to the upstream, perhaps as it is submitted.
Send(c) == /\ outcome[c] \in {"none", "pending"}
           /\ c \notin sent
           /\ inflight = NoCall
           /\ outcome' = [outcome EXCEPT ![c] = "pending"]
           /\ sent' = sent \cup {c}
           /\ inflight' = c

\* The upstream is done with the call in flight, or the connection has given
\* it up.
Settle(c) == /\ inflight = c
             /\ inflight' = NoCall
             /\ UNCHANGED <<outcome, sent>>

\* The caller is given the upstream's result.
Succeed(c) == /\ outcome[c] = "pending"
              /\ c \in sent
              /\ inflight # c
              /\ outcome' = [outcome EXCEPT ![c] = "ok"]
              /\ UNCHANGED <<sent, inflight>>

\* The caller is told that its call was not made.
Refuse(c) == /\ outcome[c] = "pending"
             /\ c \notin sent
             /\ outcome' = [outcome EXCEPT ![c] = "refused"]
             /\ UNCHANGED <<sent, inflight>>

\* The caller is told that its call failed and will not be repeated.
Fail(c) == /\ outcome[c] = "pending"
           /\ outcome' = [outcome EXCEPT ![c] = "failed"]
           /\ UNCHANGED <<sent, inflight>>

\* The caller gives up waiting (its task is cancelled).
Abandon(c) == /\ outcome[c] = "pending"
              /\ outcome' = [outcome EXCEPT ![c] = "abandoned"]
              /\ UNCHANGED <<sent, inflight>>

Next == \E c \in Calls : \/ Submit(c) \/ Send(c) \/ Settle(c) \/ Succeed(c)
                         \/ Refuse(c) \/ Fail(c) \/ Abandon(c)

Spec == Init /\ [][Next]_forwardingVars
=============================================================================
