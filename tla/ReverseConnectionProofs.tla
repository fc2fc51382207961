----------------------- MODULE ReverseConnectionProofs -----------------------
(* What holds of ReverseConnection for any calls, desktops and tools, and  *)
(* that it implements CallForwarding.                                      *)
EXTENDS ReverseConnection, TLAPS

\* A call that was not accepted has no future and was not sent; an accepted one has both a
\* future and a socket that it took.
TakenInv ==
  \A c \in Calls :
    /\ callPc[c] \in {"idle", "refused"} => future[c] = "none" /\ c \notin sent
    /\ callPc[c] \notin {"idle", "refused"} =>
         future[c] # "none" /\ callSocket[c] \in Sockets

\* The socket it took is one that a serve has begun with.
ServedInv ==
  \A c \in Calls : callSocket[c] \in Sockets =>
    servePc[callSocket[c]] \notin {"new", "rejected"}

\* A call that has failed has left its socket, for good.
LeftInv ==
  \A c \in Calls : callPc[c] \in {"failing", "cancelling", "failed", "cancelled"} =>
    callSocket[c] # socket

SentInv == \A c \in Calls : future[c] \in {"pending", "result"} => c \in sent

\* Nobody has closed the socket of a serve that is still to begin.
FreshInv == \A s \in Sockets : servePc[s] \in {"new", "rejected"} => s \notin closed

CallsInv == TakenInv /\ LeftInv /\ SentInv

IInv == /\ TypeOK /\ OneCallAtATime /\ WaitsOnLiveSocket
        /\ UnresolvedCallsLeaveTheirSocket /\ OccupiedIsServed
        /\ CallsInv /\ ServedInv /\ FreshInv

\* What the proofs of the other parts need of the types.
LEMMA Types ==
  ASSUME TypeOK
  PROVE  /\ socket \in Sockets \cup {NoSocket} /\ pending \in Calls \cup {NoCall}
         /\ closing \in BOOLEAN
         /\ callPc \in [Calls -> CallStates]
         /\ callSocket \in [Calls -> Sockets \cup {NoSocket}]
         /\ future \in [Calls -> {"none", "pending", "result", "failed"}]
         /\ servePc \in [Sockets -> ServeStates]
         /\ closed \subseteq Sockets /\ sent \subseteq Calls
BY DEF TypeOK
-----------------------------------------------------------------------------
(* Types.                                                                  *)

LEMMA DisconnectTypes ==
  ASSUME TypeOK, NEW f \in [Calls -> {"none", "pending", "result", "failed"}], Disconnect(f)
  PROVE  /\ socket' \in Sockets \cup {NoSocket} /\ connected' \in BOOLEAN
         /\ available' \subseteq Tools /\ closed' \subseteq Sockets
         /\ future' \in [Calls -> {"none", "pending", "result", "failed"}]
BY DEF TypeOK, Disconnect, FailPending

LEMMA TypeCall ==
  ASSUME TypeOK, NEW c \in Calls, CallStep(c)
  PROVE  TypeOK'
<1> USE DEF statusVars, serveVars
<1> DEFINE Futures == [Calls -> {"none", "pending", "result", "failed"}]
<1>1. CASE CallRefused(c) \/ CallSent(c) \/ CallReturns(c)
  BY <1>1 DEF TypeOK, CallStates, CallRefused, CallSent, CallReturns
<1>2. CASE Call(c)
  BY <1>2 DEF TypeOK, CallStates, Call
<1>3. CASE CallTooLarge(c)
  <2>1. [future EXCEPT ![c] = "failed"] \in Futures
    BY DEF TypeOK
  <2> QED
    BY <1>3, <2>1, DisconnectTypes DEF TypeOK, CallStates, LastErrors, CallTooLarge
<1>4. CASE CallFails(c)
  <2>1. /\ socket' \in Sockets \cup {NoSocket} /\ connected' \in BOOLEAN
        /\ available' \subseteq Tools /\ closed' \subseteq Sockets /\ future' \in Futures
    BY <1>4, DisconnectTypes DEF CallFails, AfterFailure, TypeOK
  <2>2. last_error' \in LastErrors /\ pending' \in Calls \cup {NoCall}
    BY <1>4 DEF CallFails, LastErrors, TypeOK
  <2>3. callPc' \in [Calls -> CallStates]
    BY <1>4 DEF CallFails, CallStates, TypeOK
  <2>4. told' \in [Calls -> LastErrors]
    BY <1>4, <2>2 DEF CallFails, TypeOK
  <2> QED
    BY <1>4, <2>1, <2>2, <2>3, <2>4 DEF CallFails, TypeOK
<1>5. CASE CallEnds(c)
  <2>1. callPc' \in [Calls -> CallStates]
    BY <1>5 DEF CallEnds, CallStates, TypeOK
  <2>2. told' \in [Calls -> LastErrors] /\ pending' \in Calls \cup {NoCall}
    BY <1>5 DEF CallEnds, TypeOK
  <2> QED
    BY <1>5, <2>1, <2>2 DEF CallEnds, TypeOK
<1> QED
  BY <1>1, <1>2, <1>3, <1>4, <1>5 DEF CallStep, CallProgress

LEMMA TypeServe ==
  ASSUME TypeOK, NEW s \in Sockets, ServeStep(s)
  PROVE  TypeOK'
<1> USE DEF statusVars, callVars
<1>1. servePc' \in [Sockets -> ServeStates] /\ last_error' \in LastErrors
  <2>1. CASE ServeRejects(s) \/ ServeStarts(s) \/ Ready(s) \/ Answers(s) \/ ServeEnds(s)
    BY <2>1 DEF TypeOK, ServeStates, LastErrors, ServeRejects, ServeStarts, Ready, Answers,
       ServeEnds, serveVars
  <2>2. CASE Registers(s)
    BY <2>2 DEF TypeOK, ServeStates, LastErrors, Registers
  <2>3. CASE RegistrationFails(s) \/ Breaks(s)
    BY <2>3 DEF TypeOK, ServeStates, LastErrors, RegistrationFails, Breaks, Leave, Detach
  <2> QED
    BY <2>1, <2>2, <2>3 DEF ServeStep, ServeProgress
<1>2. CASE ServeRejects(s) \/ ServeStarts(s) \/ Ready(s) \/ ServeEnds(s)
  BY <1>1, <1>2 DEF TypeOK, ServeRejects, ServeStarts, Ready, ServeEnds
<1>3. CASE Answers(s)
  BY <1>1, <1>3 DEF TypeOK, Answers, Awaited, serveVars
<1>4. CASE Registers(s)
  <2>1. PICK h \in Hello : /\ available' = Granted(h)
                           /\ registered' = [registered EXCEPT ![s] = Granted(h)]
    BY <1>4 DEF Registers
  <2>2. Granted(h) \subseteq Tools
    BY DEF Granted
  <2>3. available' \subseteq Tools /\ registered' \in [Sockets -> SUBSET Tools]
    BY <2>1, <2>2 DEF TypeOK
  <2> QED
    BY <1>1, <1>4, <2>3 DEF TypeOK, Registers
<1>5. CASE RegistrationFails(s) \/ Breaks(s)
  <2>1. \/ UNCHANGED <<socket, connected, available, closed, future>>
        \/ Disconnect(future)
    BY <1>5 DEF RegistrationFails, Breaks, Leave, Detach
  <2>2. /\ socket' \in Sockets \cup {NoSocket} /\ connected' \in BOOLEAN
        /\ available' \subseteq Tools /\ closed' \subseteq Sockets
        /\ future' \in [Calls -> {"none", "pending", "result", "failed"}]
    BY <2>1, DisconnectTypes DEF TypeOK
  <2>3. UNCHANGED <<pending, closing, callVars, registered>> /\ catalog_mismatch' \in BOOLEAN
    BY <1>5 DEF RegistrationFails, Breaks, TypeOK
  <2> QED
    BY <1>1, <2>2, <2>3 DEF TypeOK
<1> QED
  BY <1>2, <1>3, <1>4, <1>5 DEF ServeStep, ServeProgress

LEMMA TypeStep == TypeOK /\ [Next]_vars => TypeOK'
<1> SUFFICES ASSUME TypeOK, [Next]_vars PROVE TypeOK'
  OBVIOUS
<1>1. CASE Close
  BY <1>1, DisconnectTypes DEF TypeOK, Close, statusVars, callVars, serveVars
<1>2. CASE UNCHANGED vars
  BY <1>2 DEF TypeOK, vars, statusVars, callVars, serveVars
<1> QED
  BY <1>1, <1>2, TypeCall, TypeServe DEF Next
-----------------------------------------------------------------------------
(* The attributes that calls and desktops share.                           *)

\* A disconnection fails the call that waits, and leaves other outcomes alone.
LEMMA DisconnectFutures ==
  ASSUME TypeOK, WaitsOnLiveSocket, Disconnect(future)
  PROVE  /\ socket' = NoSocket
         /\ \A c \in Calls : future'[c] = IF future[c] = "pending" THEN "failed" ELSE future[c]
BY DEF TypeOK, WaitsOnLiveSocket, Disconnect, FailPending

\* A serve that has begun neither becomes new again nor is rejected, and its socket may
\* then be closed.
LEMMA ServedKept ==
  ASSUME TypeOK, ServedInv, FreshInv, OccupiedIsServed, callSocket' = callSocket,
         \A t \in Sockets : servePc'[t] \in {"new", "rejected"} =>
                              servePc[t] \in {"new", "rejected"},
         closed' \subseteq closed \cup {socket}
  PROVE  ServedInv' /\ FreshInv'
<1>1. ServedInv'
  <2> SUFFICES ASSUME NEW c \in Calls, callSocket[c] \in Sockets
               PROVE  servePc'[callSocket[c]] \notin {"new", "rejected"}
    BY DEF ServedInv
  <2> QED
    BY DEF ServedInv
<1>2. FreshInv'
  <2> SUFFICES ASSUME NEW t \in Sockets, servePc'[t] \in {"new", "rejected"}
               PROVE  t \notin closed'
    BY DEF FreshInv
  <2>1. t # socket
    BY ReverseAssumption DEF OccupiedIsServed
  <2> QED
    BY <2>1 DEF FreshInv
<1> QED
  BY <1>1, <1>2

\* Whoever disconnects, the invariant holds as soon as its own call and serve agree.
LEMMA DisconnectInv ==
  ASSUME IInv, TypeOK', Disconnect(future), UNCHANGED <<callPc, callSocket, sent, pending>>,
         \A t \in Sockets : servePc'[t] \in {"new", "rejected"} =>
                              servePc[t] \in {"new", "rejected"}
  PROVE  IInv'
<1>1. /\ socket' = NoSocket
      /\ \A c \in Calls : future'[c] = IF future[c] = "pending" THEN "failed" ELSE future[c]
  BY DisconnectFutures DEF IInv
<1>2. OneCallAtATime' /\ WaitsOnLiveSocket' /\ OccupiedIsServed'
  BY <1>1 DEF IInv, OneCallAtATime, WaitsOnLiveSocket, OccupiedIsServed
<1>3. \A c \in Calls : callPc[c] \notin {"idle", "refused"} => callSocket[c] # NoSocket
  BY ReverseAssumption DEF IInv, CallsInv, TakenInv
<1>4. UnresolvedCallsLeaveTheirSocket'
  BY <1>1, <1>3 DEF IInv, TypeOK, CallsInv, TakenInv, UnresolvedCallsLeaveTheirSocket
<1>5. CallsInv'
  BY <1>1, <1>3 DEF IInv, CallsInv, TakenInv, LeftInv, SentInv
<1>6. ServedInv' /\ FreshInv'
  BY ServedKept DEF IInv, Disconnect
<1> QED
  BY <1>2, <1>4, <1>5, <1>6 DEF IInv

\* A step of a serve that leaves the attributes alone.
LEMMA ListenInv ==
  ASSUME IInv, TypeOK', UNCHANGED <<socket, pending, closing, closed, future, callVars>>,
         NEW s \in Sockets, NEW x, servePc' = [servePc EXCEPT ![s] = x],
         x \in {"new", "rejected"} => servePc[s] \in {"new", "rejected"},
         s = socket => x \in {"hello", "ready", "loop"}
  PROVE  IInv'
<1>1. \A t \in Sockets : servePc'[t] = IF t = s THEN x ELSE servePc[t]
  BY DEF IInv, TypeOK
<1>2. OneCallAtATime' /\ WaitsOnLiveSocket' /\ UnresolvedCallsLeaveTheirSocket' /\ CallsInv'
  BY DEF callVars, IInv, OneCallAtATime, WaitsOnLiveSocket, UnresolvedCallsLeaveTheirSocket,
     CallsInv, TakenInv, LeftInv, SentInv
<1>3. OccupiedIsServed'
  BY <1>1, Types DEF IInv, OccupiedIsServed
<1>4. ServedInv' /\ FreshInv'
  BY <1>1, ServedKept DEF callVars, IInv
<1> QED
  BY <1>2, <1>3, <1>4 DEF IInv

LEMMA InvServe ==
  ASSUME IInv, TypeOK', NEW s \in Sockets, ServeStep(s)
  PROVE  IInv'
<1>1. CASE ServeRejects(s)
  <2>1. s # socket
    BY <1>1, ReverseAssumption DEF ServeRejects, IInv, OccupiedIsServed
  <2> QED
    BY <1>1, <2>1, ListenInv DEF ServeRejects
<1>2. CASE ServeStarts(s)
  <2>1. /\ socket = NoSocket /\ socket' = s /\ ~closing /\ closing' = closing
        /\ closed' = closed /\ s \notin closed /\ servePc' = [servePc EXCEPT ![s] = "hello"]
        /\ UNCHANGED <<pending, future, callVars>>
    BY <1>2 DEF ServeStarts, Occupied, IInv, FreshInv
  <2>2. \A c \in Calls : callSocket[c] # s
    BY <1>2 DEF ServeStarts, IInv, ServedInv
  <2>3. OneCallAtATime' /\ WaitsOnLiveSocket'
    BY <2>1 DEF callVars, IInv, OneCallAtATime, WaitsOnLiveSocket
  <2>4. UnresolvedCallsLeaveTheirSocket' /\ CallsInv'
    BY <2>1, <2>2, Types DEF callVars, IInv, UnresolvedCallsLeaveTheirSocket, CallsInv,
       TakenInv, LeftInv, SentInv
  <2>5. OccupiedIsServed'
    BY <2>1, Types DEF IInv, OccupiedIsServed
  <2>6. ServedInv' /\ FreshInv'
    BY <2>1, Types, ServedKept DEF callVars, IInv
  <2> QED
    BY <2>3, <2>4, <2>5, <2>6 DEF IInv
<1>3. CASE Registers(s)
  <2>1. PICK x \in {"ready", "ended"} :
          /\ servePc' = [servePc EXCEPT ![s] = x] /\ (x = "ended" => s \in closed)
    BY <1>3 DEF Registers
  <2>2. s = socket => x = "ready"
    BY <2>1, ReverseAssumption DEF IInv, OccupiedIsServed
  <2>3. UNCHANGED <<socket, pending, closing, closed, future, callVars>>
    BY <1>3 DEF Registers
  <2> QED
    BY <2>1, <2>2, <2>3, ListenInv
<1>4. CASE RegistrationFails(s) \/ Breaks(s)
  <2>1. Detach(s) /\ UNCHANGED <<pending, closing, callVars>>
    BY <1>4 DEF RegistrationFails, Breaks, Leave
  <2>2. CASE socket = s
    <3>1. Disconnect(future) /\ servePc' = [servePc EXCEPT ![s] = "closing"]
      BY <2>1, <2>2 DEF Detach
    <3> QED
      BY <2>1, <3>1, Types, DisconnectInv DEF callVars, IInv
  <2>3. CASE socket # s
    <3>1. /\ UNCHANGED <<socket, closed, future>>
          /\ servePc' = [servePc EXCEPT ![s] = "ended"]
      BY <2>1, <2>3 DEF Detach
    <3> QED
      BY <2>1, <2>3, <3>1, ListenInv
  <2> QED
    BY <2>2, <2>3
<1>5. CASE Ready(s)
  <2>1. PICK x \in {"loop", "ended"} :
          /\ servePc' = [servePc EXCEPT ![s] = x] /\ (x = "ended" => closing \/ s \in closed)
    BY <1>5 DEF Ready
  <2>2. s = socket => x = "loop"
    BY <2>1, ReverseAssumption DEF IInv, OccupiedIsServed
  <2>3. UNCHANGED <<socket, pending, closing, closed, future, callVars>>
    BY <1>5 DEF Ready
  <2> QED
    BY <2>1, <2>2, <2>3, ListenInv
<1>6. CASE Answers(s)
  <2>1. /\ pending \in Calls /\ future[pending] = "pending" /\ pending \in sent
        /\ future' = [future EXCEPT ![pending] = "result"]
        /\ UNCHANGED <<socket, pending, closing, closed, callVars, servePc>>
    BY <1>6 DEF Answers, Awaited, IInv, TypeOK, serveVars
  <2>2. OneCallAtATime' /\ WaitsOnLiveSocket' /\ OccupiedIsServed' /\ ServedInv' /\ FreshInv'
    BY <2>1, Types DEF callVars, IInv, OneCallAtATime, WaitsOnLiveSocket, OccupiedIsServed,
       ServedInv, FreshInv
  <2>3. UnresolvedCallsLeaveTheirSocket' /\ CallsInv'
    BY <2>1, Types DEF callVars, IInv, UnresolvedCallsLeaveTheirSocket, CallsInv, TakenInv,
       LeftInv, SentInv
  <2> QED
    BY <2>2, <2>3 DEF IInv
<1>7. CASE ServeEnds(s)
  <2>1. s # socket
    BY <1>7, ReverseAssumption DEF ServeEnds, IInv, OccupiedIsServed
  <2> QED
    BY <1>7, <2>1, ListenInv DEF ServeEnds
<1> QED
  BY <1>1, <1>2, <1>3, <1>4, <1>5, <1>6, <1>7 DEF ServeStep, ServeProgress

\* A step of a call that leaves the sockets alone.
LEMMA ServedInCall ==
  ASSUME IInv, UNCHANGED <<socket, closing, closed, servePc>>, callSocket' = callSocket
  PROVE  OccupiedIsServed' /\ ServedInv' /\ FreshInv'
BY DEF IInv, OccupiedIsServed, ServedInv, FreshInv

LEMMA InvCallMade ==
  ASSUME IInv, NEW c \in Calls, Call(c) \/ CallTooLarge(c)
  PROVE  IInv'
<1>1. /\ callPc[c] = "idle" /\ pending = NoCall /\ pending' = c
      /\ socket \in Sockets /\ ~closing /\ closing' = closing /\ servePc' = servePc
      /\ callSocket' = [callSocket EXCEPT ![c] = socket]
      /\ future[c] = "none" /\ c \notin sent
  BY Types DEF IInv, CallsInv, TakenInv, Call, CallTooLarge, Refuses, serveVars
<1>2. \A d \in Calls : callPc[d] \notin Active /\ future[d] # "pending"
  BY <1>1, ReverseAssumption DEF IInv, OneCallAtATime, WaitsOnLiveSocket
<1>3. servePc[socket] \notin {"new", "rejected"}
  BY <1>1, ReverseAssumption DEF IInv, OccupiedIsServed
<1>4. ServedInv'
  BY <1>1, <1>3, Types DEF IInv, ServedInv
<1>5. TypeOK'
  BY TypeCall DEF IInv, CallStep
<1>6. CASE Call(c)
  <2>1. /\ callPc' = [callPc EXCEPT ![c] = "sending"] /\ sent' = sent \cup {c}
        /\ future' = [future EXCEPT ![c] = "pending"] /\ UNCHANGED <<socket, closed>>
    BY <1>6 DEF Call
  <2>2. OneCallAtATime'
    BY <1>1, <1>2, <2>1, Types DEF IInv, OneCallAtATime, Active
  <2>3. WaitsOnLiveSocket'
    BY <1>1, <1>2, <2>1, Types, ReverseAssumption DEF IInv, WaitsOnLiveSocket
  <2>4. \A d \in Calls : d # c =>
          /\ callPc'[d] = callPc[d] /\ callSocket'[d] = callSocket[d]
          /\ future'[d] = future[d] /\ (d \in sent' <=> d \in sent)
    BY <1>1, <2>1, Types DEF IInv
  <2>5. /\ callPc'[c] = "sending" /\ callSocket'[c] = socket /\ future'[c] = "pending"
        /\ c \in sent'
    BY <1>1, <2>1, Types DEF IInv
  <2>6. \A d \in Calls : d # c /\ d \in sent /\ callSocket[d] = socket =>
          callPc[d] = "returned"
    BY <1>1, ReverseAssumption DEF IInv, UnresolvedCallsLeaveTheirSocket
  <2>7. UnresolvedCallsLeaveTheirSocket'
    BY <1>1, <2>1, <2>4, <2>5, <2>6, Types DEF IInv, UnresolvedCallsLeaveTheirSocket
  <2>8. CallsInv'
    BY <1>1, <2>1, <2>4, <2>5, Types DEF IInv, CallsInv, TakenInv, LeftInv, SentInv
  <2>9. OccupiedIsServed' /\ FreshInv'
    BY <1>1, <2>1 DEF IInv, OccupiedIsServed, FreshInv
  <2> QED
    BY <1>4, <1>5, <2>2, <2>3, <2>7, <2>8, <2>9 DEF IInv
<1>7. CASE CallTooLarge(c)
  <2>1. /\ callPc' = [callPc EXCEPT ![c] = "failing"] /\ sent' = sent /\ socket' = NoSocket
        /\ closed' = closed \cup ({socket} \ {NoSocket})
        /\ Disconnect([future EXCEPT ![c] = "failed"])
    BY <1>7 DEF CallTooLarge, Disconnect
  <2>2. \A d \in Calls : future'[d] = IF d = c THEN "failed" ELSE future[d]
    BY <1>1, <2>1, Types, ReverseAssumption DEF IInv, Disconnect, FailPending
  <2>3. OneCallAtATime'
    BY <1>1, <1>2, <2>1, Types DEF IInv, OneCallAtATime, Active
  <2>4. WaitsOnLiveSocket' /\ OccupiedIsServed'
    BY <1>2, <2>1, <2>2 DEF WaitsOnLiveSocket, OccupiedIsServed
  <2>5. \A d \in Calls : d # c => callPc'[d] = callPc[d] /\ callSocket'[d] = callSocket[d]
    BY <1>1, <2>1, Types DEF IInv
  <2>6. callPc'[c] = "failing" /\ callSocket'[c] = socket
    BY <1>1, <2>1, Types DEF IInv
  <2>7. CallsInv'
    BY <1>1, <2>1, <2>2, <2>5, <2>6, ReverseAssumption
    DEF IInv, CallsInv, TakenInv, LeftInv, SentInv
  <2>8. UnresolvedCallsLeaveTheirSocket'
    BY <1>1, <2>1, <2>5, Types, ReverseAssumption
    DEF IInv, CallsInv, TakenInv, UnresolvedCallsLeaveTheirSocket
  <2>9. FreshInv'
    BY <1>1, <1>3, <2>1 DEF IInv, FreshInv
  <2> QED
    BY <1>4, <1>5, <2>3, <2>4, <2>7, <2>8, <2>9 DEF IInv
<1> QED
  BY <1>6, <1>7

LEMMA InvCall ==
  ASSUME IInv, NEW c \in Calls, CallStep(c)
  PROVE  IInv'
<1> USE DEF statusVars, serveVars
<1>0. TypeOK'
  BY TypeCall DEF IInv
<1>1. CASE CallRefused(c) \/ CallSent(c) \/ CallReturns(c) \/ CallEnds(c)
  <2>1. /\ UNCHANGED <<socket, closing, closed, servePc, callSocket, future, sent>>
        /\ \A d \in Calls : d # c => callPc'[d] = callPc[d]
    BY <1>1, Types DEF IInv, CallRefused, CallSent, CallReturns, CallEnds
  <2>2. \/ callPc[c] = "idle" /\ callPc'[c] = "refused" /\ pending' = pending
        \/ callPc[c] = "sending" /\ callPc'[c] = "waiting" /\ pending' = pending
        \/ /\ callPc[c] = "waiting" /\ callPc'[c] = "returned" /\ pending' = NoCall
           /\ future[c] = "result"
        \/ /\ callPc[c] \in {"failing", "cancelling"}
           /\ callPc'[c] \in {"failed", "cancelled"} /\ pending' = NoCall
    BY <1>1, Types DEF IInv, CallRefused, CallSent, CallReturns, CallEnds
  <2>3. callPc[c] \in Active => pending = c
    BY DEF IInv, OneCallAtATime
  <2>4. OneCallAtATime'
    BY <2>1, <2>2, <2>3, ReverseAssumption DEF IInv, OneCallAtATime, Active
  <2>5. CallsInv'
    BY <2>1, <2>2 DEF IInv, CallsInv, TakenInv, LeftInv, SentInv
  <2>6. WaitsOnLiveSocket'
    BY <2>1, <2>2, <2>3 DEF IInv, WaitsOnLiveSocket, CallsInv, LeftInv, Active
  <2>7. UnresolvedCallsLeaveTheirSocket'
    BY <2>1, <2>2, <2>3, Types DEF IInv, UnresolvedCallsLeaveTheirSocket, CallsInv, TakenInv,
       LeftInv, Active
  <2> QED
    BY <1>0, <2>1, <2>4, <2>5, <2>6, <2>7, ServedInCall DEF IInv
<1>2. CASE CallFails(c)
  <2>1. /\ callPc[c] \in {"sending", "waiting"} /\ Disconnect(future) /\ servePc' = servePc
        /\ UNCHANGED <<closing, callSocket, sent>>
        /\ \A d \in Calls : d # c => callPc'[d] = callPc[d]
    BY <1>2, Types DEF IInv, CallFails, MayFail, AfterFailure
  <2>2. \/ callPc'[c] \in {"failing", "cancelling"} /\ pending' = pending
        \/ callPc'[c] \in {"failed", "cancelled"} /\ pending' = NoCall
    BY <1>2, Types DEF IInv, CallFails
  <2>3. /\ socket' = NoSocket
        /\ \A d \in Calls :
             future'[d] = IF future[d] = "pending" THEN "failed" ELSE future[d]
    BY <2>1, DisconnectFutures DEF IInv
  <2>4. pending = c
    BY <2>1 DEF IInv, OneCallAtATime, Active
  <2>5. OneCallAtATime'
    BY <2>1, <2>2, <2>4, ReverseAssumption DEF IInv, OneCallAtATime, Active
  <2>6. \A d \in Calls : callPc[d] \notin {"idle", "refused"} => callSocket[d] # NoSocket
    BY ReverseAssumption DEF IInv, CallsInv, TakenInv
  <2>7. CallsInv'
    BY <2>1, <2>2, <2>3, <2>6 DEF IInv, CallsInv, TakenInv, LeftInv, SentInv
  <2>8. WaitsOnLiveSocket' /\ OccupiedIsServed'
    BY <2>3 DEF WaitsOnLiveSocket, OccupiedIsServed
  <2>9. UnresolvedCallsLeaveTheirSocket'
    BY <2>1, <2>3, <2>6, Types
    DEF IInv, CallsInv, TakenInv, UnresolvedCallsLeaveTheirSocket
  <2>10. ServedInv' /\ FreshInv'
    BY <2>1, ServedKept DEF IInv, Disconnect
  <2> QED
    BY <1>0, <2>5, <2>7, <2>8, <2>9, <2>10 DEF IInv
<1> QED
  BY <1>1, <1>2, InvCallMade DEF CallStep, CallProgress

LEMMA InvInit == Init => IInv
<1> SUFFICES ASSUME Init PROVE IInv
  OBVIOUS
<1>1. TypeOK
  BY ReverseAssumption DEF Init, TypeOK, CallStates, ServeStates, LastErrors
<1>2. OneCallAtATime /\ WaitsOnLiveSocket /\ UnresolvedCallsLeaveTheirSocket
  BY ReverseAssumption DEF Init, OneCallAtATime, WaitsOnLiveSocket, Active,
     UnresolvedCallsLeaveTheirSocket
<1>3. OccupiedIsServed /\ CallsInv /\ ServedInv /\ FreshInv
  BY ReverseAssumption DEF Init, OccupiedIsServed, CallsInv, TakenInv, LeftInv, SentInv,
     ServedInv, FreshInv
<1> QED
  BY <1>1, <1>2, <1>3 DEF IInv

LEMMA InvStep == IInv /\ [Next]_vars => IInv'
<1> SUFFICES ASSUME IInv, [Next]_vars PROVE IInv'
  OBVIOUS
<1>0. TypeOK'
  BY TypeStep DEF IInv
<1>1. CASE Close
  BY <1>0, <1>1, DisconnectInv DEF Close, callVars, serveVars
<1>2. CASE UNCHANGED vars
  BY <1>2 DEF vars, statusVars, callVars, serveVars, IInv, TypeOK, OneCallAtATime,
     WaitsOnLiveSocket, UnresolvedCallsLeaveTheirSocket, OccupiedIsServed, CallsInv, TakenInv,
     LeftInv, SentInv, ServedInv, FreshInv
<1> QED
  BY <1>0, <1>1, <1>2, InvCall, InvServe DEF Next

LEMMA InvAlways == Spec => []IInv
BY InvInit, InvStep, PTL DEF Spec

\* The variables of the connection, its calls and its sockets keep their types.
THEOREM TypeCorrect == Spec => []TypeOK
<1>1. IInv => TypeOK
  BY DEF IInv
<1> QED
  BY <1>1, InvAlways, PTL

\* However many calls and desktops come and go: the connection works on one call at a time,
\* and a call that ends frees the connection for no call but its own.
THEOREM OneAtATime == Spec => []OneCallAtATime
<1>1. IInv => OneCallAtATime
  BY DEF IInv
<1> QED
  BY <1>1, InvAlways, PTL

\* A call waits only on the socket it was sent through, while that is the current one.
THEOREM LiveSocket == Spec => []WaitsOnLiveSocket
<1>1. IInv => WaitsOnLiveSocket
  BY DEF IInv
<1> QED
  BY <1>1, InvAlways, PTL

\* No later call shares the socket of a call whose outcome is unknown.
THEOREM UnresolvedLeave == Spec => []UnresolvedCallsLeaveTheirSocket
<1>1. IInv => UnresolvedCallsLeaveTheirSocket
  BY DEF IInv
<1> QED
  BY <1>1, InvAlways, PTL

\* A socket occupies the connection only while its serve listens to it.
THEOREM Occupation == Spec => []OccupiedIsServed
<1>1. IInv => OccupiedIsServed
  BY DEF IInv
<1> QED
  BY <1>1, InvAlways, PTL

\* What each step does to the futures of the calls.
LEMMA FutureStep ==
  ASSUME IInv, [Next]_vars
  PROVE  \/ future' = future
         \/ \E c \in Calls : /\ Call(c) /\ future[c] = "none"
                             /\ future' = [future EXCEPT ![c] = "pending"]
         \/ \E c \in Calls : /\ CallTooLarge(c) /\ future[c] = "none"
                             /\ future' = [future EXCEPT ![c] = "failed"]
         \/ \E s \in Sockets : /\ Answers(s) /\ pending \in Calls /\ future[pending] = "pending"
                               /\ future' = [future EXCEPT ![pending] = "result"]
         \/ Disconnect(future)
<1>1. ASSUME NEW c \in Calls, Call(c) PROVE future[c] = "none"
  BY <1>1 DEF Call, IInv, CallsInv, TakenInv
<1>2. ASSUME NEW c \in Calls, CallTooLarge(c)
      PROVE  future[c] = "none" /\ future' = [future EXCEPT ![c] = "failed"]
  <2>1. pending = NoCall /\ future[c] = "none"
    BY <1>2 DEF CallTooLarge, Refuses, IInv, CallsInv, TakenInv
  <2>2. \A f : pending = NoCall => FailPending(f) = [d \in Calls |-> f[d]]
    BY ReverseAssumption DEF FailPending
  <2>3. [future EXCEPT ![c] = "failed"]
          = [d \in Calls |-> [future EXCEPT ![c] = "failed"][d]]
    BY Types DEF IInv
  <2> QED
    BY <1>2, <2>1, <2>2, <2>3 DEF CallTooLarge, Disconnect
<1>3. ASSUME NEW c \in Calls, CallStep(c), ~Call(c), ~CallTooLarge(c)
      PROVE  future' = future \/ Disconnect(future)
  BY <1>3 DEF CallStep, CallProgress, CallRefused, CallSent, CallReturns, CallFails,
     AfterFailure, CallEnds
<1>4. ASSUME NEW s \in Sockets, Answers(s)
      PROVE  pending \in Calls /\ future[pending] = "pending"
  BY <1>4 DEF Answers, Awaited, IInv, TypeOK
<1>5. ASSUME NEW s \in Sockets, ServeStep(s), ~Answers(s)
      PROVE  future' = future \/ Disconnect(future)
  BY <1>5 DEF ServeStep, ServeProgress, ServeRejects, ServeStarts, Registers,
     RegistrationFails, Ready, Breaks, Leave, Detach, ServeEnds
<1>6. Close => Disconnect(future)
  BY DEF Close
<1>7. UNCHANGED vars => future' = future
  BY DEF vars
<1> QED
  BY <1>1, <1>2, <1>3, <1>4, <1>5, <1>6, <1>7 DEF Next, Call, Answers

\* No late or second answer, and no disconnection, changes the outcome of a call.
THEOREM Resolved == Spec => ResolvedOnce
<1> DEFINE Once == \A c \in Calls : future[c] \in {"result", "failed"} => future'[c] = future[c]
<1>1. IInv /\ [Next]_vars => Once
  <2> SUFFICES ASSUME IInv, [Next]_vars PROVE Once
    OBVIOUS
  <2>1. Disconnect(future) => Once
    BY DisconnectFutures DEF IInv
  <2> QED
    BY <2>1, FutureStep, Types DEF IInv
<1>2. IInv /\ [Next]_vars => [Once]_future
  BY <1>1
<1> QED
  BY <1>2, InvAlways, PTL DEF Spec, ResolvedOnce
-----------------------------------------------------------------------------
(* CallForwarding.                                                         *)

Outcome == [c \in Calls |-> OutcomeOf(c)]
InFlight == IF \E c \in sent : future[c] = "pending"
            THEN CHOOSE c \in sent : future[c] = "pending" ELSE NoCall

\* The call in flight is the one that the connection works on, as long as it has no
\* outcome.
LEMMA InFlightCases ==
  ASSUME IInv
  PROVE  \/ InFlight = NoCall /\ \A c \in Calls : future[c] # "pending"
         \/ /\ InFlight \in Calls /\ InFlight = pending /\ future[pending] = "pending"
            /\ InFlight \in sent
<1>1. CASE \E c \in sent : future[c] = "pending"
  <2>1. InFlight \in sent /\ future[InFlight] = "pending"
    BY <1>1 DEF InFlight
  <2> QED
    BY <2>1, Types DEF IInv, WaitsOnLiveSocket
<1>2. CASE ~\E c \in sent : future[c] = "pending"
  BY <1>2 DEF InFlight, IInv, CallsInv, SentInv
<1> QED
  BY <1>1, <1>2

\* None is in flight when no call waits, and the only one that waits is.
LEMMA InFlightNext ==
  ASSUME sent' \subseteq Calls
  PROVE  /\ (\A c \in Calls : future'[c] # "pending") => InFlight' = NoCall
         /\ \A c \in sent' : /\ future'[c] = "pending"
                             /\ \A d \in Calls : d # c => future'[d] # "pending"
                             => InFlight' = c
<1>1. (\E d \in sent' : future'[d] = "pending") =>
        InFlight' \in sent' /\ future'[InFlight'] = "pending"
  BY DEF InFlight
<1>2. (\A c \in Calls : future'[c] # "pending") => InFlight' = NoCall
  BY DEF InFlight
<1> QED
  BY <1>1, <1>2

\* What each caller knows, case by case.
LEMMA OutcomeCases ==
  ASSUME TypeOK, NEW c \in Calls
  PROVE  /\ callPc[c] = "idle" => OutcomeOf(c) = "none"
         /\ callPc[c] \in Active => OutcomeOf(c) = "pending"
         /\ callPc[c] = "returned" => OutcomeOf(c) = "ok"
         /\ callPc[c] = "cancelled" => OutcomeOf(c) = "abandoned"
         /\ callPc[c] \in {"refused", "failed"} => OutcomeOf(c) = callPc[c]
BY DEF OutcomeOf, Active, TypeOK, CallStates

LEMMA OutcomeTold ==
  ASSUME NEW c \in Calls, \A d \in Calls : d # c => callPc'[d] = callPc[d]
  PROVE  Outcome' = [Outcome EXCEPT ![c] = OutcomeOf(c)']
<1>1. \A d \in Calls : d # c => OutcomeOf(d)' = OutcomeOf(d)
  BY DEF OutcomeOf
<1> QED
  BY <1>1 DEF Outcome

LEMMA OutcomeKept == callPc' = callPc => Outcome' = Outcome
BY DEF Outcome, OutcomeOf

\* A step of the connection is one of these steps of the specification, or none.
LEMMA ForwardingNext ==
  ASSUME NEW c \in Calls,
         \/ /\ Outcome[c] = "none"
            /\ \E o \in {"pending", "refused"} : Outcome' = [Outcome EXCEPT ![c] = o]
            /\ sent' = sent /\ InFlight' = InFlight
         \/ /\ Outcome[c] = "none" /\ c \notin sent /\ InFlight = NoCall
            /\ Outcome' = [Outcome EXCEPT ![c] = "pending"]
            /\ sent' = sent \cup {c} /\ InFlight' = c
         \/ /\ InFlight = c /\ InFlight' = NoCall
            /\ Outcome' = Outcome /\ sent' = sent
         \/ /\ Outcome[c] = "pending"
            /\ \/ c \in sent /\ InFlight # c /\ Outcome' = [Outcome EXCEPT ![c] = "ok"]
               \/ Outcome' = [Outcome EXCEPT ![c] = "failed"]
               \/ Outcome' = [Outcome EXCEPT ![c] = "abandoned"]
            /\ sent' = sent /\ InFlight' = InFlight
  PROVE  Forwarding!Next
BY DEF Forwarding!Next, Forwarding!Submit, Forwarding!Send, Forwarding!Settle,
   Forwarding!Succeed, Forwarding!Fail, Forwarding!Abandon, Outcome, InFlight

LEMMA ForwardingStutter ==
  ASSUME UNCHANGED <<Outcome, sent, InFlight>>
  PROVE  UNCHANGED Forwarding!forwardingVars
BY DEF Forwarding!forwardingVars, Outcome, InFlight

\* Whoever disconnects settles the call in flight.
LEMMA ForwardingSettled ==
  ASSUME IInv, IInv', UNCHANGED <<callPc, sent>>, \A c \in Calls : future'[c] # "pending"
  PROVE  Forwarding!Next \/ UNCHANGED Forwarding!forwardingVars
<1>1. Outcome' = Outcome
  BY OutcomeKept
<1>2. InFlight' = NoCall
  BY InFlightNext DEF IInv, TypeOK
<1>3. InFlight = NoCall \/ InFlight \in Calls
  BY InFlightCases
<1> QED
  BY <1>1, <1>2, <1>3, ForwardingNext, ForwardingStutter

LEMMA ForwardingCall ==
  ASSUME IInv, IInv', NEW c \in Calls, CallStep(c)
  PROVE  Forwarding!Next \/ UNCHANGED Forwarding!forwardingVars
<1> USE DEF statusVars, serveVars
<1>1. \A d \in Calls : d # c => callPc'[d] = callPc[d]
  BY Types DEF IInv, CallStep, CallProgress, CallRefused, Call, CallTooLarge, CallSent,
     CallReturns, CallFails, CallEnds
<1>2. Outcome' = [Outcome EXCEPT ![c] = OutcomeOf(c)'] /\ Outcome[c] = OutcomeOf(c)
  BY <1>1, OutcomeTold DEF Outcome
<1>3. /\ callPc'[c] \in Active => OutcomeOf(c)' = "pending"
      /\ callPc'[c] = "returned" => OutcomeOf(c)' = "ok"
      /\ callPc'[c] = "cancelled" => OutcomeOf(c)' = "abandoned"
      /\ callPc'[c] \in {"refused", "failed"} => OutcomeOf(c)' = callPc'[c]
  BY DEF OutcomeOf, Active
<1>4. CASE CallRefused(c)
  <2>1. /\ callPc[c] = "idle" /\ callPc'[c] = "refused" /\ sent' = sent
        /\ future' = future
    BY <1>4, Types DEF IInv, CallRefused
  <2>2. InFlight' = InFlight
    BY <2>1 DEF InFlight
  <2>3. OutcomeOf(c) = "none"
    BY <2>1, OutcomeCases DEF IInv
  <2> QED
    BY <1>2, <1>3, <2>1, <2>2, <2>3, ForwardingNext
<1>5. CASE Call(c)
  <2>1. /\ callPc[c] = "idle" /\ callPc'[c] = "sending" /\ pending = NoCall
        /\ sent' = sent \cup {c} /\ c \notin sent /\ future'[c] = "pending"
    BY <1>5, Types DEF IInv, Call, Refuses, CallsInv, TakenInv
  <2>2. InFlight = NoCall /\ \A d \in Calls : future[d] # "pending"
    BY <2>1, InFlightCases, ReverseAssumption
  <2>3. \A d \in Calls : d # c => future'[d] # "pending"
    BY <1>5, <2>2, Types DEF IInv, Call
  <2>4. InFlight' = c
    BY <2>1, <2>3, InFlightNext DEF IInv, TypeOK
  <2>5. OutcomeOf(c) = "none" /\ OutcomeOf(c)' = "pending"
    BY <1>3, <2>1, OutcomeCases DEF IInv, Active
  <2> QED
    BY <1>2, <2>1, <2>2, <2>4, <2>5, ForwardingNext
<1>6. CASE CallTooLarge(c)
  <2>1. /\ callPc[c] = "idle" /\ callPc'[c] = "failing" /\ pending = NoCall
        /\ sent' = sent /\ pending' = c /\ future'[c] # "pending"
    BY <1>6, Types, ReverseAssumption
    DEF IInv, CallTooLarge, Refuses, Disconnect, FailPending
  <2>2. InFlight = NoCall /\ InFlight' = NoCall
    <3>1. InFlight = NoCall /\ \A d \in Calls : future[d] # "pending"
      BY <2>1, InFlightCases, ReverseAssumption
    <3>2. \A d \in Calls : future'[d] # "pending"
      BY <1>6, <3>1, Types DEF IInv, CallTooLarge, Disconnect, FailPending
    <3> QED
      BY <3>1, <3>2, InFlightNext DEF IInv, TypeOK
  <2>3. OutcomeOf(c) = "none" /\ OutcomeOf(c)' = "pending"
    BY <1>3, <2>1, OutcomeCases DEF IInv, Active
  <2> QED
    BY <1>2, <2>1, <2>2, <2>3, ForwardingNext
<1>7. CASE CallSent(c)
  <2>1. /\ callPc[c] \in Active /\ callPc'[c] \in Active /\ sent' = sent /\ future' = future
    BY <1>7, Types DEF IInv, CallSent, Active
  <2>2. InFlight' = InFlight
    BY <2>1 DEF InFlight
  <2>3. Outcome' = Outcome
    BY <1>2, <1>3, <2>1, OutcomeCases DEF IInv, Outcome
  <2> QED
    BY <2>1, <2>2, <2>3, ForwardingStutter
<1>8. CASE CallReturns(c)
  <2>1. /\ callPc[c] = "waiting" /\ callPc'[c] = "returned" /\ sent' = sent
        /\ future' = future /\ future[c] = "result" /\ c \in sent
    BY <1>8, Types DEF IInv, CallReturns, CallsInv, SentInv
  <2>2. InFlight' = InFlight /\ InFlight # c
    BY <2>1, InFlightCases, ReverseAssumption DEF InFlight
  <2>3. OutcomeOf(c) = "pending"
    BY <2>1, OutcomeCases DEF IInv, Active
  <2> QED
    BY <1>2, <1>3, <2>1, <2>2, <2>3, ForwardingNext
<1>9. CASE CallFails(c)
  <2>1. /\ callPc[c] \in {"sending", "waiting"} /\ sent' = sent
        /\ Disconnect(future)
    BY <1>9 DEF CallFails, MayFail, AfterFailure
  <2>2. \A d \in Calls : future'[d] # "pending"
    BY <2>1, DisconnectFutures DEF IInv
  <2>3. InFlight' = NoCall
    BY <2>2, InFlightNext DEF IInv, TypeOK
  <2>4. OutcomeOf(c) = "pending"
    BY <2>1, OutcomeCases DEF IInv, Active
  <2>5. CASE socket # NoSocket
    <3>1. callPc'[c] \in Active
      BY <1>9, <2>5, Types DEF IInv, CallFails, Active
    <3>2. Outcome' = Outcome
      BY <1>2, <1>3, <2>4, <3>1 DEF Outcome
    <3>3. InFlight = NoCall \/ InFlight \in Calls
      BY InFlightCases
    <3> QED
      BY <2>1, <2>3, <3>2, <3>3, ForwardingNext, ForwardingStutter
  <2>6. CASE socket = NoSocket
    <3>1. callPc'[c] \in {"failed", "cancelled"}
      BY <1>9, <2>6, Types DEF IInv, CallFails
    <3>2. InFlight = NoCall
      BY <2>6, InFlightCases DEF IInv, WaitsOnLiveSocket
    <3> QED
      BY <1>2, <1>3, <2>1, <2>3, <2>4, <3>1, <3>2, ForwardingNext
  <2> QED
    BY <2>5, <2>6
<1>10. CASE CallEnds(c)
  <2>1. /\ callPc[c] \in {"failing", "cancelling"} /\ callPc'[c] \in {"failed", "cancelled"}
        /\ sent' = sent /\ future' = future
    BY <1>10, Types DEF IInv, CallEnds
  <2>2. InFlight' = InFlight
    BY <2>1 DEF InFlight
  <2>3. OutcomeOf(c) = "pending"
    BY <2>1, OutcomeCases DEF IInv, Active
  <2> QED
    BY <1>2, <1>3, <2>1, <2>2, <2>3, ForwardingNext
<1> QED
  BY <1>4, <1>5, <1>6, <1>7, <1>8, <1>9, <1>10 DEF CallStep, CallProgress

LEMMA ForwardingServe ==
  ASSUME IInv, IInv', NEW s \in Sockets, ServeStep(s)
  PROVE  Forwarding!Next \/ UNCHANGED Forwarding!forwardingVars
<1>1. UNCHANGED <<callPc, sent>>
  BY DEF ServeStep, ServeProgress, ServeRejects, ServeStarts, Registers, RegistrationFails,
     Ready, Breaks, Answers, ServeEnds, callVars
<1>2. CASE future' = future
  BY <1>1, <1>2, OutcomeKept, ForwardingStutter DEF InFlight
<1>3. CASE Disconnect(future)
  <2>1. \A c \in Calls : future'[c] # "pending"
    BY <1>3, DisconnectFutures DEF IInv
  <2> QED
    BY <1>1, <2>1, ForwardingSettled
<1>4. CASE Answers(s)
  <2>1. \A c \in Calls : future'[c] # "pending"
    BY <1>4, Types DEF Answers, Awaited, IInv, WaitsOnLiveSocket
  <2> QED
    BY <1>1, <2>1, ForwardingSettled
<1> QED
  BY <1>2, <1>3, <1>4 DEF ServeStep, ServeProgress, ServeRejects, ServeStarts, Registers,
     RegistrationFails, Ready, Breaks, Leave, Detach, ServeEnds

LEMMA ForwardingStep ==
  IInv /\ IInv' /\ [Next]_vars => [Forwarding!Next]_(Forwarding!forwardingVars)
<1> SUFFICES ASSUME IInv, IInv', [Next]_vars
             PROVE  Forwarding!Next \/ UNCHANGED Forwarding!forwardingVars
  OBVIOUS
<1>1. CASE Close
  <2>1. \A c \in Calls : future'[c] # "pending"
    BY <1>1, DisconnectFutures DEF Close, IInv
  <2> QED
    BY <1>1, <2>1, ForwardingSettled DEF Close, callVars
<1>2. CASE UNCHANGED vars
  BY <1>2, OutcomeKept, ForwardingStutter DEF vars, callVars, InFlight
<1> QED
  BY <1>1, <1>2, ForwardingCall, ForwardingServe DEF Next

LEMMA ForwardingInit == Init => Forwarding!Init
<1> SUFFICES ASSUME Init PROVE Forwarding!Init
  OBVIOUS
<1>1. \A c \in Calls : OutcomeOf(c) = "none"
  BY DEF Init, OutcomeOf, Active
<1>2. sent = {} /\ InFlight = NoCall
  BY DEF Init, InFlight
<1> QED
  BY <1>1, <1>2 DEF Forwarding!Init, Outcome, InFlight

\* The connection keeps the promise of CallForwarding, whichever desktop comes or goes
\* during whichever await: at most one call in flight, none sent twice or after its caller
\* has an answer, and a call that was refused was not sent.
THEOREM Implements == Spec => ForwardingSpec
BY ForwardingInit, InvAlways, ForwardingStep, PTL DEF Spec, ForwardingSpec, Forwarding!Spec

-----------------------------------------------------------------------------
(* DesktopConnection.                                                      *)

Caller == [c \in Calls |-> CallerOf(c)]
Serving == [s \in Sockets |-> ServingOf(s)]

\* A call waits for an answer exactly if its future is pending.
LEMMA CallerCases ==
  ASSUME IInv, NEW c \in Calls
  PROVE  /\ Caller[c] = CallerOf(c)
         /\ callPc[c] = "idle" => CallerOf(c) = "idle" /\ future[c] # "pending"
         /\ future[c] = "pending" => CallerOf(c) = "called"
         /\ callPc[c] # "idle" /\ future[c] # "pending" => CallerOf(c) = "done"
BY DEF Caller, CallerOf, IInv, CallsInv, TakenInv

\* Calls that neither begin nor get an answer are where they were.
LEMMA CallerKept ==
  ASSUME \A c \in Calls : /\ future'[c] = "pending" <=> future[c] = "pending"
                          /\ callPc'[c] = "idle" <=> callPc[c] = "idle"
  PROVE  Caller' = Caller
<1>1. \A c \in Calls : CallerOf(c)' = CallerOf(c)
  BY DEF CallerOf
<1> QED
  BY <1>1 DEF Caller

\* One call goes on, and the others stay.
LEMMA CallerMoves ==
  ASSUME NEW c \in Calls,
         \A d \in Calls : d # c => /\ future'[d] = "pending" <=> future[d] = "pending"
                                   /\ callPc'[d] = "idle" <=> callPc[d] = "idle"
  PROVE  Caller' = [Caller EXCEPT ![c] = CallerOf(c)']
<1>1. \A d \in Calls : d # c => CallerOf(d)' = CallerOf(d)
  BY DEF CallerOf
<1> QED
  BY <1>1 DEF Caller

\* No call waits for an answer once the socket is given up.
LEMMA CallerGivenUp ==
  ASSUME IInv, NEW due \in SUBSET Calls,
         \A c \in Calls : future'[c] # "pending",
         \A c \in Calls \ due : callPc'[c] = "idle" <=> callPc[c] = "idle",
         \A c \in due : callPc'[c] # "idle"
  PROVE  Caller' = [c \in Calls |-> IF c \in due \/ Caller[c] = "called"
                                    THEN "done" ELSE Caller[c]]
<1>1. ASSUME NEW c \in Calls
      PROVE  CallerOf(c)' = IF c \in due \/ Caller[c] = "called" THEN "done" ELSE Caller[c]
  <2>1. CASE callPc'[c] = "idle"
    BY <2>1, CallerCases DEF CallerOf
  <2>2. CASE callPc'[c] # "idle"
    BY <2>2, CallerCases DEF CallerOf
  <2> QED
    BY <2>1, <2>2
<1> QED
  BY <1>1 DEF Caller

LEMMA ServingKept == servePc' = servePc => Serving' = Serving
BY DEF Serving, ServingOf

LEMMA ServingMoves ==
  ASSUME TypeOK, NEW s \in Sockets, NEW x, servePc' = [servePc EXCEPT ![s] = x]
  PROVE  /\ Serving' = [Serving EXCEPT ![s] = ServingOf(s)'] /\ Serving[s] = ServingOf(s)
         /\ x \in {"new", "rejected"} => ServingOf(s)' = "new"
         /\ x \in {"hello", "ready"} => ServingOf(s)' = "hello"
         /\ x = "loop" => ServingOf(s)' = "ready"
         /\ x \in {"closing", "ended"} => ServingOf(s)' = "left"
<1>1. servePc'[s] = x /\ \A t \in Sockets : t # s => servePc'[t] = servePc[t]
  BY DEF TypeOK
<1>2. \A t \in Sockets : t # s => ServingOf(t)' = ServingOf(t)
  BY <1>1 DEF ServingOf
<1> QED
  BY <1>1, <1>2 DEF Serving, ServingOf

LEMMA DesktopStutter ==
  ASSUME UNCHANGED <<Caller, Serving, socket, connected, closing>>
  PROVE  UNCHANGED Desktop!desktopVars
BY DEF Desktop!desktopVars, Caller, Serving

\* Whoever disconnects, for a call of his or none, gives the socket up.
LEMMA DesktopGivenUp ==
  ASSUME IInv, NEW due \in SUBSET Calls, socket' = NoSocket, connected' = FALSE,
         \A c \in Calls : future'[c] # "pending",
         \A c \in Calls \ due : callPc'[c] = "idle" <=> callPc[c] = "idle",
         \A c \in due : callPc'[c] # "idle"
  PROVE  Desktop!GiveUp(due)
BY CallerGivenUp DEF Desktop!GiveUp, Caller

LEMMA DesktopCall ==
  ASSUME IInv, NEW c \in Calls, CallStep(c)
  PROVE  Desktop!Next \/ UNCHANGED Desktop!desktopVars
<1>1. \A d \in Calls : d # c => callPc'[d] = callPc[d]
  BY Types DEF IInv, CallStep, CallProgress, CallRefused, Call, CallTooLarge, CallSent,
     CallReturns, CallFails, CallEnds
<1>2. UNCHANGED <<servePc, closing>> /\ Serving' = Serving
  BY ServingKept DEF CallStep, CallProgress, CallRefused, Call, CallTooLarge, CallSent,
     CallReturns, CallFails, CallEnds, serveVars
<1>3. CASE CallRefused(c)
  <2>1. callPc[c] = "idle" /\ callPc'[c] = "refused"
        /\ UNCHANGED <<future, socket, connected, closing>>
    BY <1>3, Types DEF IInv, CallRefused
  <2>2. Caller[c] = "idle" /\ CallerOf(c)' = "done"
    BY <2>1, CallerCases DEF CallerOf
  <2>3. Caller' = [Caller EXCEPT ![c] = "done"]
    BY <1>1, <2>1, <2>2, CallerMoves
  <2>4. Desktop!Settle(c)
    BY <1>2, <2>1, <2>2, <2>3 DEF Desktop!Settle, Caller, Serving
  <2> QED
    BY <2>4 DEF Desktop!Next
<1>4. CASE Call(c)
  <2>1. /\ callPc[c] = "idle" /\ callPc'[c] = "sending" /\ pending = NoCall
        /\ future' = [future EXCEPT ![c] = "pending"]
        /\ connected /\ socket # NoSocket /\ ~closing
        /\ UNCHANGED <<socket, connected, closing>>
    BY <1>4, Types DEF IInv, Call, Refuses
  <2>2. \A d \in Calls : future[d] # "pending"
    BY <2>1, ReverseAssumption DEF IInv, WaitsOnLiveSocket
  <2>3. \A d \in Calls : Caller[d] # "called"
    <3>1. ASSUME NEW d \in Calls PROVE Caller[d] # "called"
      BY <2>2, CallerCases
    <3> QED
      BY <3>1
  <2>4. Caller[c] = "idle" /\ CallerOf(c)' = "called"
    BY <2>1, CallerCases, Types DEF CallerOf, IInv
  <2>5. Caller' = [Caller EXCEPT ![c] = "called"]
    BY <1>1, <2>1, <2>4, CallerMoves, Types DEF IInv
  <2>6. Desktop!Call(c)
    BY <1>2, <2>1, <2>3, <2>4, <2>5 DEF Desktop!Call, Caller, Serving
  <2> QED
    BY <2>6 DEF Desktop!Next
<1>5. CASE CallTooLarge(c) \/ CallFails(c)
  <2>1. socket' = NoSocket /\ connected' = FALSE /\ callPc'[c] # "idle"
    BY <1>5, Types DEF IInv, CallTooLarge, CallFails, AfterFailure, Disconnect
  <2>2. \A d \in Calls : future'[d] # "pending"
    <3>1. CASE CallFails(c)
      BY <3>1, DisconnectFutures DEF CallFails, AfterFailure, IInv
    <3>2. CASE CallTooLarge(c)
      <4>1. pending = NoCall
        BY <3>2 DEF CallTooLarge, Refuses
      <4>2. \A d \in Calls : future[d] # "pending"
        BY <4>1, ReverseAssumption DEF IInv, WaitsOnLiveSocket
      <4> QED
        BY <3>2, <4>2, Types DEF IInv, CallTooLarge, Disconnect, FailPending
    <3> QED
      BY <1>5, <3>1, <3>2
  <2>3. Desktop!GiveUp({c})
    BY <1>1, <2>1, <2>2, DesktopGivenUp
  <2>4. Desktop!Fail(c)
    BY <1>2, <2>3 DEF Desktop!Fail, Serving
  <2> QED
    BY <2>4 DEF Desktop!Next
<1>6. CASE CallSent(c) \/ CallReturns(c) \/ CallEnds(c)
  <2>1. /\ callPc[c] # "idle" /\ callPc'[c] # "idle"
        /\ UNCHANGED <<future, socket, connected, closing>>
    BY <1>6, Types DEF IInv, CallSent, CallReturns, CallEnds
  <2>2. Caller' = Caller
    BY <1>1, <2>1, CallerKept
  <2> QED
    BY <1>2, <2>1, <2>2, DesktopStutter
<1> QED
  BY <1>3, <1>4, <1>5, <1>6 DEF CallStep, CallProgress

\* The finally clause of serve.
LEMMA DesktopLeaves ==
  ASSUME IInv, NEW s \in Sockets, servePc[s] \in {"hello", "ready", "loop"}, Detach(s),
         UNCHANGED <<callPc, closing>>
  PROVE  Desktop!Next
<1>1. CASE socket = s
  <2>1. /\ Disconnect(future) /\ servePc' = [servePc EXCEPT ![s] = "closing"]
        /\ socket' = NoSocket /\ connected' = FALSE
    BY <1>1 DEF Detach, Disconnect
  <2>2. \A c \in Calls : future'[c] # "pending"
    BY <2>1, DisconnectFutures DEF IInv
  <2>3. Desktop!GiveUp({})
    BY <2>1, <2>2, DesktopGivenUp
  <2>4. Serving' = [Serving EXCEPT ![s] = "left"] /\ Serving[s] \in {"hello", "ready"}
    BY <2>1, ServingMoves DEF IInv, ServingOf
  <2>5. Desktop!Leave(s)
    BY <1>1, <2>3, <2>4 DEF Desktop!Leave, Serving
  <2> QED
    BY <2>5 DEF Desktop!Next
<1>2. CASE socket # s
  <2>1. /\ servePc' = [servePc EXCEPT ![s] = "ended"]
        /\ UNCHANGED <<socket, connected, future>>
    BY <1>2 DEF Detach
  <2>2. Serving' = [Serving EXCEPT ![s] = "left"] /\ Serving[s] \in {"hello", "ready"}
    BY <2>1, ServingMoves DEF IInv, ServingOf
  <2>3. Caller' = Caller
    BY <2>1, CallerKept
  <2>4. Desktop!Leave(s)
    BY <1>2, <2>1, <2>2, <2>3 DEF Desktop!Leave, Serving, Caller
  <2> QED
    BY <2>4 DEF Desktop!Next
<1> QED
  BY <1>1, <1>2

LEMMA DesktopServe ==
  ASSUME IInv, NEW s \in Sockets, ServeStep(s)
  PROVE  Desktop!Next \/ UNCHANGED Desktop!desktopVars
<1> USE DEF callVars
<1>1. UNCHANGED <<callPc, closing>>
  BY DEF ServeStep, ServeProgress, ServeRejects, ServeStarts, Registers, RegistrationFails,
     Ready, Breaks, Answers, ServeEnds
<1>2. TypeOK
  BY DEF IInv
<1>3. CASE ServeRejects(s) \/ ServeEnds(s)
  <2>1. PICK x \in {"rejected", "ended"} :
          /\ servePc' = [servePc EXCEPT ![s] = x]
          /\ servePc[s] = IF x = "rejected" THEN "new" ELSE "closing"
          /\ UNCHANGED <<socket, connected, future>>
    BY <1>3 DEF ServeRejects, ServeEnds
  <2>2. ServingOf(s)' = ServingOf(s)
    BY <1>2, <2>1, ServingMoves DEF ServingOf
  <2>3. Serving' = Serving
    BY <1>2, <2>1, <2>2, ServingMoves DEF Serving
  <2>4. Caller' = Caller
    BY <1>1, <2>1, CallerKept
  <2> QED
    BY <1>1, <2>1, <2>3, <2>4, DesktopStutter
<1>4. CASE ServeStarts(s)
  <2>1. /\ servePc[s] = "new" /\ ~closing /\ socket = NoSocket /\ socket' = s
        /\ servePc' = [servePc EXCEPT ![s] = "hello"] /\ UNCHANGED <<connected, future>>
    BY <1>4 DEF ServeStarts, Occupied
  <2>2. Serving[s] = "new" /\ Serving' = [Serving EXCEPT ![s] = "hello"]
    BY <1>2, <2>1, ServingMoves DEF ServingOf
  <2>3. Caller' = Caller
    BY <1>1, <2>1, CallerKept
  <2>4. Desktop!Attach(s)
    BY <1>1, <2>1, <2>2, <2>3 DEF Desktop!Attach, Serving, Caller
  <2> QED
    BY <2>4 DEF Desktop!Next
<1>5. CASE Registers(s)
  <2>1. /\ servePc[s] = "hello" /\ UNCHANGED <<socket, connected, future>>
        /\ \/ s \notin closed /\ servePc' = [servePc EXCEPT ![s] = "ready"]
           \/ s \in closed /\ servePc' = [servePc EXCEPT ![s] = "ended"]
    BY <1>5 DEF Registers
  <2>2. Caller' = Caller
    BY <1>1, <2>1, CallerKept
  <2>3. ServingOf(s) = "hello"
    BY <2>1 DEF ServingOf
  <2>4. CASE servePc' = [servePc EXCEPT ![s] = "ready"]
    <3>1. Serving' = Serving
      BY <1>2, <2>3, <2>4, ServingMoves DEF Serving
    <3> QED
      BY <1>1, <2>1, <2>2, <3>1, DesktopStutter
  <2>5. CASE s \in closed /\ servePc' = [servePc EXCEPT ![s] = "ended"]
    <3>1. Serving[s] = "hello" /\ Serving' = [Serving EXCEPT ![s] = "left"]
      BY <1>2, <2>3, <2>5, ServingMoves
    <3>2. socket # s
      BY <2>5, ReverseAssumption DEF IInv, OccupiedIsServed
    <3>3. Desktop!Leave(s)
      BY <1>1, <2>1, <2>2, <3>1, <3>2 DEF Desktop!Leave, Serving, Caller
    <3> QED
      BY <3>3 DEF Desktop!Next
  <2> QED
    BY <2>1, <2>4, <2>5
<1>6. CASE RegistrationFails(s) \/ Breaks(s)
  <2>1. servePc[s] \in {"hello", "ready", "loop"} /\ Detach(s)
    BY <1>6 DEF RegistrationFails, Breaks, Leave
  <2> QED
    BY <1>1, <2>1, DesktopLeaves
<1>7. CASE Ready(s)
  <2>1. /\ servePc[s] = "ready" /\ connected' = TRUE /\ UNCHANGED <<socket, future>>
        /\ \/ servePc' = [servePc EXCEPT ![s] = "loop"]
           \/ /\ closing \/ s \in closed
              /\ servePc' = [servePc EXCEPT ![s] = "ended"]
    BY <1>7 DEF Ready
  <2>2. Caller' = Caller
    BY <1>1, <2>1, CallerKept
  <2>3. PICK next \in {"ready", "left"} : /\ next = "left" => closing \/ s \in closed
                                          /\ Serving' = [Serving EXCEPT ![s] = next]
    BY <1>2, <2>1, ServingMoves
  <2>4. Serving[s] = "hello"
    BY <2>1 DEF Serving, ServingOf
  <2>5. next = "left" => socket # s
    BY <2>3, ReverseAssumption DEF IInv, OccupiedIsServed
  <2>6. Desktop!Register(s)
    BY <1>1, <2>1, <2>2, <2>3, <2>4, <2>5 DEF Desktop!Register, Serving, Caller
  <2> QED
    BY <2>6 DEF Desktop!Next
<1>8. CASE Answers(s)
  <2>1. /\ pending \in Calls /\ future[pending] = "pending"
        /\ future' = [future EXCEPT ![pending] = "result"]
        /\ UNCHANGED <<servePc, socket, connected>>
    BY <1>2, <1>8 DEF Answers, Awaited, serveVars, TypeOK
  <2>2. Caller[pending] = "called"
    BY <2>1, CallerCases
  <2>3. callPc[pending] # "idle"
    BY <2>1, CallerCases
  <2>4. CallerOf(pending)' = "done"
    <3>1. future'[pending] = "result" /\ pending' = pending
      BY <1>2, <1>8, <2>1, Types DEF Answers
    <3> QED
      BY <1>1, <2>3, <3>1 DEF CallerOf
  <2>5. \E c \in Calls : c = pending /\ Caller[c] = "called" /\ CallerOf(c)' = "done"
                         /\ \A d \in Calls : d # c => future'[d] = future[d]
    <3>1. pending' = pending /\ \A d \in Calls : d # pending => future'[d] = future[d]
      BY <1>2, <1>8, <2>1, Types DEF Answers
    <3>2. PICK c \in Calls : c = pending
      BY <2>1
    <3>3. CallerOf(c)' = "done"
      <4>1. future'[c] = "result"
        BY <1>2, <2>1, <3>2, Types
      <4> QED
        BY <1>1, <2>3, <3>2, <4>1 DEF CallerOf
    <3> QED
      BY <2>2, <3>1, <3>2, <3>3
  <2>6. PICK c \in Calls : /\ Caller[c] = "called" /\ CallerOf(c)' = "done"
                           /\ \A d \in Calls : d # c => future'[d] = future[d]
    BY <2>5
  <2>7. Caller' = [Caller EXCEPT ![c] = "done"]
    BY <1>1, <2>6, CallerMoves
  <2>8. Desktop!Settle(c)
    BY <1>1, <2>1, <2>6, <2>7, ServingKept DEF Desktop!Settle, Caller, Serving
  <2> QED
    BY <2>8 DEF Desktop!Next
<1> QED
  BY <1>3, <1>4, <1>5, <1>6, <1>7, <1>8 DEF ServeStep, ServeProgress

LEMMA DesktopStep == IInv /\ [Next]_vars => [Desktop!Next]_(Desktop!desktopVars)
<1> SUFFICES ASSUME IInv, [Next]_vars
             PROVE  Desktop!Next \/ UNCHANGED Desktop!desktopVars
  OBVIOUS
<1>1. CASE Close
  <2>1. /\ closing' = TRUE /\ socket' = NoSocket /\ connected' = FALSE
        /\ UNCHANGED <<callPc, servePc>> /\ \A c \in Calls : future'[c] # "pending"
    BY <1>1, DisconnectFutures DEF Close, Disconnect, IInv, callVars, serveVars
  <2>2. Desktop!GiveUp({})
    BY <2>1, DesktopGivenUp
  <2>3. Desktop!Close
    BY <2>1, <2>2, ServingKept DEF Desktop!Close, Serving
  <2> QED
    BY <2>3 DEF Desktop!Next
<1>2. CASE UNCHANGED vars
  <2>1. UNCHANGED <<socket, connected, closing, callPc, future, servePc>>
    BY <1>2 DEF vars, callVars, serveVars
  <2>2. Caller' = Caller /\ Serving' = Serving
    BY <2>1, CallerKept, ServingKept
  <2> QED
    BY <2>1, <2>2, DesktopStutter
<1> QED
  BY <1>1, <1>2, DesktopCall, DesktopServe DEF Next

LEMMA DesktopInit == Init => Desktop!Init
<1> SUFFICES ASSUME Init PROVE Desktop!Init
  OBVIOUS
<1>1. (\A c \in Calls : CallerOf(c) = "idle") /\ \A s \in Sockets : ServingOf(s) = "new"
  BY DEF Init, CallerOf, ServingOf
<1> QED
  BY <1>1 DEF Desktop!Init, Init

\* The connection keeps the promise of DesktopConnection, for any calls, sockets and tools:
\* nobody takes its socket, none is attached once it is closed, and no call waits for an answer
\* when the socket is given up.
THEOREM DesktopImplements == Spec => DesktopSpec
BY DesktopInit, InvAlways, DesktopStep, PTL DEF Spec, DesktopSpec, Desktop!Spec

-----------------------------------------------------------------------------
(* The tools that a desktop has registered.                                *)

\* What serve does not make sure of: that a registration which completes is still that of
\* the current socket.
RegistersWhileCurrent == [][\A s \in Sockets : Registers(s) => socket = s]_vars

\* The available tools are some that the current socket has registered.
GrantInv ==
  /\ socket = NoSocket => available = {}
  /\ socket # NoSocket => available \subseteq registered[socket]
  /\ \A s \in Sockets : servePc[s] \in {"new", "rejected", "hello"} => registered[s] = {}
  /\ SentOnlyIfRegistered

\* Whoever disconnects takes the tools away with the socket.
LEMMA GrantDisconnect ==
  ASSUME GrantInv, NEW f, Disconnect(f), UNCHANGED <<registered, sent, callSocket>>,
         \A s \in Sockets : servePc'[s] \in {"new", "rejected", "hello"} =>
                              servePc[s] \in {"new", "rejected", "hello"}
  PROVE  GrantInv'
BY DEF GrantInv, SentOnlyIfRegistered, Disconnect

LEMMA GrantCall ==
  ASSUME IInv, GrantInv, NEW c \in Calls, CallStep(c)
  PROVE  GrantInv'
<1> USE Types DEF IInv, serveVars
<1>1. CASE Call(c)
  <2>1. /\ socket # NoSocket /\ ToolOf[c] \in available /\ sent' = sent \cup {c}
        /\ callSocket' = [callSocket EXCEPT ![c] = socket]
        /\ UNCHANGED <<socket, available, registered, servePc>>
    BY <1>1 DEF Call, Refuses
  <2>2. SentOnlyIfRegistered'
    BY <2>1 DEF GrantInv, SentOnlyIfRegistered
  <2> QED
    BY <2>1, <2>2 DEF GrantInv
<1>2. CASE CallTooLarge(c)
  <2>1. c \notin sent /\ callSocket' = [callSocket EXCEPT ![c] = socket]
    BY <1>2 DEF CallTooLarge, CallsInv, TakenInv
  <2>2. UNCHANGED <<registered, sent, servePc>> /\ socket' = NoSocket /\ available' = {}
    BY <1>2 DEF CallTooLarge, Disconnect
  <2>3. SentOnlyIfRegistered'
    BY <2>1, <2>2 DEF GrantInv, SentOnlyIfRegistered
  <2> QED
    BY <2>2, <2>3 DEF GrantInv
<1>3. CASE CallFails(c)
  <2>1. Disconnect(future) /\ UNCHANGED <<registered, sent, callSocket, servePc>>
    BY <1>3 DEF CallFails, AfterFailure
  <2> QED
    BY <2>1, GrantDisconnect
<1>4. CASE UNCHANGED <<socket, available, registered, servePc, sent, callSocket>>
  BY <1>4 DEF GrantInv, SentOnlyIfRegistered
<1> QED
  BY <1>1, <1>2, <1>3, <1>4 DEF CallStep, CallProgress, CallRefused, CallSent, CallReturns,
    CallEnds

LEMMA GrantServe ==
  ASSUME IInv, GrantInv, NEW s \in Sockets, ServeStep(s), Registers(s) => socket = s
  PROVE  GrantInv'
<1> USE Types DEF IInv, callVars
<1>1. CASE Registers(s)
  <2>1. /\ socket = s /\ servePc[s] = "hello" /\ registered \in [Sockets -> SUBSET Tools]
        /\ UNCHANGED <<socket, sent, callSocket>>
    BY <1>1 DEF Registers, TypeOK
  <2>2. PICK x \in {"ready", "ended"} : servePc' = [servePc EXCEPT ![s] = x]
    BY <1>1 DEF Registers
  <2>3. PICK h \in Hello : /\ available' = Granted(h)
                           /\ registered' = [registered EXCEPT ![s] = Granted(h)]
    BY <1>1 DEF Registers
  <2>4. \A t \in Sockets : servePc'[t] \in {"new", "rejected", "hello"} => registered'[t] = {}
    BY <2>1, <2>2, <2>3 DEF GrantInv
  <2>5. \A c \in sent : callSocket[c] # s
    BY <2>1 DEF GrantInv, SentOnlyIfRegistered
  <2>6. SentOnlyIfRegistered'
    BY <2>1, <2>3, <2>5 DEF GrantInv, SentOnlyIfRegistered, CallsInv, TakenInv
  <2> QED
    BY <2>1, <2>3, <2>4, <2>6, ReverseAssumption DEF GrantInv
<1>2. CASE RegistrationFails(s) \/ Breaks(s)
  <2>1. Detach(s) /\ UNCHANGED <<registered, sent, callSocket>>
    BY <1>2 DEF RegistrationFails, Breaks, Leave
  <2>2. \A t \in Sockets : servePc'[t] \in {"new", "rejected", "hello"} =>
                             servePc[t] \in {"new", "rejected", "hello"}
    BY <2>1 DEF Detach
  <2>3. CASE Disconnect(future)
    BY <2>1, <2>2, <2>3, GrantDisconnect
  <2>4. CASE UNCHANGED <<socket, available>>
    BY <2>1, <2>2, <2>4 DEF GrantInv, SentOnlyIfRegistered
  <2> QED
    BY <2>1, <2>3, <2>4 DEF Detach
<1>3. CASE ServeStarts(s)
  <2>1. /\ socket = NoSocket /\ UNCHANGED <<available, registered, sent, callSocket>>
        /\ servePc[s] = "new" /\ servePc' = [servePc EXCEPT ![s] = "hello"]
    BY <1>3 DEF ServeStarts, Occupied
  <2>2. available' = {}
    BY <2>1 DEF GrantInv
  <2> QED
    BY <2>1, <2>2 DEF GrantInv, SentOnlyIfRegistered
<1>4. CASE ServeRejects(s) \/ Ready(s) \/ Answers(s) \/ ServeEnds(s)
  <2>1. UNCHANGED <<socket, available, registered, sent, callSocket>>
        /\ \A t \in Sockets : servePc'[t] \in {"new", "rejected", "hello"} =>
                                servePc[t] \in {"new", "rejected", "hello"}
    BY <1>4 DEF ServeRejects, Ready, Answers, ServeEnds, serveVars
  <2> QED
    BY <2>1 DEF GrantInv, SentOnlyIfRegistered
<1> QED
  BY <1>1, <1>2, <1>3, <1>4 DEF ServeStep, ServeProgress

LEMMA GrantStep ==
  IInv /\ GrantInv /\ [Next]_vars /\ [\A s \in Sockets : Registers(s) => socket = s]_vars
    => GrantInv'
<1> SUFFICES ASSUME IInv, GrantInv, [Next]_vars,
                    [\A s \in Sockets : Registers(s) => socket = s]_vars
             PROVE  GrantInv'
  OBVIOUS
<1>1. CASE UNCHANGED vars
  BY <1>1 DEF vars, serveVars, callVars, GrantInv, SentOnlyIfRegistered
<1>2. CASE Close
  <2>1. Disconnect(future) /\ UNCHANGED <<servePc, registered, sent, callSocket>>
    BY <1>2 DEF Close, callVars, serveVars
  <2> QED
    BY <2>1, GrantDisconnect
<1>3. CASE ~UNCHANGED vars
  BY <1>2, <1>3, GrantCall, GrantServe DEF Next
<1> QED
  BY <1>1, <1>3

\* The word of the README that the run reverse_permission refutes fails by nothing else
\* than a registration that completes late: as long as each completes while its socket is
\* current, a call only goes to a desktop that has registered its tool.
THEOREM CurrentGrants == Spec /\ RegistersWhileCurrent => []SentOnlyIfRegistered
<1>1. Init => GrantInv
  BY DEF Init, GrantInv, SentOnlyIfRegistered
<1>2. GrantInv => SentOnlyIfRegistered
  BY DEF GrantInv
<1> QED
  BY <1>1, <1>2, InvAlways, GrantStep, PTL DEF Spec, RegistersWhileCurrent
=============================================================================
