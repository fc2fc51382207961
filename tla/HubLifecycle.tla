---------------------------- MODULE HubLifecycle ----------------------------
(***************************************************************************)
(* The Hub from start to stop: runtime_lifespan of server.py, the registry *)
(* and its run() of upstream.py, and the gateway of reverse.py, with the   *)
(* connections they start, feed and close.                                 *)
(*                                                                         *)
(* run() is a task group around the life of the Hub: the owners of the     *)
(* HTTP connections are its children, while the calls and the desktops'    *)
(* sockets are tasks of the server, which may outlive it.  An action is    *)
(* what a task does between two awaits.                                    *)
(*                                                                         *)
(* Of an HTTP connection the model keeps what OwnedConnection says, and    *)
(* when a call is made; of a desktop connection which socket it has and    *)
(* whether it is connected.  LazyConnection and ReverseConnection have the *)
(* rest.                                                                   *)
(*                                                                         *)
(* Operators named Faulty... are plausible defects: the specification does *)
(* not use them, they serve to test that the properties notice.            *)
(***************************************************************************)
EXTENDS Naturals, Sequences, FiniteSets

CONSTANTS Order,       \* the connections in the order of the catalog
          Desktops,    \* those that wait for a desktop; the others are HTTP
          Calls,       \* the invocations of on_call_tool
          UpstreamOf,  \* the connection whose tool each of them names
          Sockets,     \* the WebSockets that reach the gateway
          NoSocket, NoConnection

Connections == {Order[i] : i \in 1..Len(Order)}

Http == Connections \ Desktops

ASSUME LifecycleAssumption ==
  /\ Order \in Seq(Connections)
  /\ \A i, j \in 1..Len(Order) : Order[i] = Order[j] => i = j
  /\ Desktops \subseteq Connections /\ NoConnection \notin Connections
  /\ UpstreamOf \in [Calls -> Connections]
  /\ NoSocket \notin Sockets

VARIABLES
  phase,      \* where runtime_lifespan is
  how,        \* how the body of run() ended
  closed,     \* how many connections run() has begun to close
  group,      \* _group is set
  holder,     \* the gateway finds the registry
  closing,    \* _closing of each connection
  owner,      \* the owner of each HTTP connection
  started,    \* how many owners it was given
  callPc,     \* where each call is
  sent,       \* the calls made to their upstream
  stranded,   \* those that waited for their turn when run() began to end
  socket,     \* the socket of each desktop connection, and whether it says so
  connected,
  servePc,    \* where each socket is, and the connection it came to
  target

runVars == <<phase, how, closed, group, holder>>
ownerVars == <<owner, started>>
callVars == <<callPc, sent>>
desktopVars == <<socket, connected>>
serveVars == <<servePc, target>>
vars == <<runVars, closing, ownerVars, callVars, stranded, desktopVars, serveVars>>

Phases == {"down",
           "failed",   \* the start was refused
           "up",       \* the body of run() runs
           "closing",  \* its finally clause closes the connections
           "joining",  \* the task group waits for the owners
           "stopped"}

Endings == {"none",
            "normal",
            "error",   \* with an exception
            "cut"}     \* a cancelled scope: every await in it raises

CallStates == {"idle",
               "locking",     \* waits for the start lock of its connection
               "waiting",     \* its request is in the stream
               "called",      \* its upstream works on it
               "answered",
               "turnedAway",  \* with an error result, by on_call_tool or the connection
               "raised",      \* RuntimeError: the registry or the connection has shut down
               "inactive",    \* RuntimeError of start_soon: the task group has ended
               "gone"}        \* cancelled, or its stream is broken

ServeStates == {"new", "rejected", "hello", "ready", "left"}

Init ==
  /\ phase = "down" /\ how = "none" /\ closed = 0 /\ group = FALSE /\ holder = FALSE
  /\ closing = [k \in Connections |-> FALSE]
  /\ owner = [k \in Http |-> "none"] /\ started = [k \in Http |-> 0]
  /\ callPc = [c \in Calls |-> "idle"] /\ sent = {} /\ stranded = {}
  /\ socket = [k \in Desktops |-> NoSocket] /\ connected = [k \in Desktops |-> FALSE]
  /\ servePc = [s \in Sockets |-> "new"] /\ target = [s \in Sockets |-> NoConnection]
-----------------------------------------------------------------------------
(* Start and stop.                                                         *)

\* The boot is refused, the catalog is invalid, or a signing secret is a client's token.
StartFails ==
  /\ phase = "down"
  /\ phase' = "failed"
  /\ UNCHANGED <<how, closed, group, holder, closing, ownerVars, callVars, stranded,
                 desktopVars, serveVars>>

\* With no await from the holder to the yield of run().
Start ==
  /\ phase = "down"
  /\ phase' = "up" /\ holder' = TRUE /\ group' = TRUE
  /\ UNCHANGED <<how, closed, closing, ownerVars, callVars, stranded, desktopVars, serveVars>>

\* close() of k awaits: the stream's aclose() always does, a socket if there is one.
CloseAwaits(k) == k \in Desktops => socket[k] # NoSocket

FaultyClosedNow(i, j) == {Order[n] : n \in i + 1..j - 1}

\* The connections from the one after position i to the one at j.
ClosedNow(i, j) == {Order[n] : n \in i + 1..j}

\* _disconnect up to its await, for every connection of D: the calls whose answer is due
\* from the socket are failed.
Detach(D) ==
  /\ socket' = [k \in Desktops |-> IF k \in D THEN NoSocket ELSE socket[k]]
  /\ connected' = [k \in Desktops |-> connected[k] /\ k \notin D]
  /\ callPc' = [c \in Calls |-> IF UpstreamOf[c] \in D /\ callPc[c] = "called"
                                THEN "answered" ELSE callPc[c]]

\* The loop of the finally clause goes on to its next await or to its end.  In a cancelled
\* scope the await raises: what follows in the loop, and after it, does not happen.
CloseOn == \E upTo \in closed..Len(Order) :
  LET awaits == upTo > closed /\ CloseAwaits(Order[upTo])
  IN /\ \A n \in closed + 1..upTo - 1 : ~CloseAwaits(Order[n])
     /\ awaits \/ upTo = Len(Order)
     /\ closed' = upTo
     /\ closing' = [k \in Connections |-> closing[k] \/ k \in ClosedNow(closed, upTo)]
     /\ Detach(Desktops \cap ClosedNow(closed, upTo))
     /\ phase' = IF ~awaits \/ how' = "cut" THEN "joining" ELSE "closing"
     /\ group' = awaits

\* The body of run() ends.
EndBody == \E h \in Endings \ {"none"} :
  /\ phase = "up"
  /\ how' = h /\ CloseOn
  /\ stranded' = {c \in Calls : callPc[c] = "waiting"}
  /\ UNCHANGED <<holder, ownerVars, sent, serveVars>>

\* A connection has closed.
CloseNext ==
  /\ phase = "closing"
  /\ how' = how /\ CloseOn
  /\ UNCHANGED <<holder, ownerVars, sent, stranded, serveVars>>

\* The task group cancels its tasks when its body raised, and with a scope around it.
GroupCancelled == how = "cut" \/ (how = "error" /\ phase \in {"joining", "stopped"})

\* run() ends when the last task of its group has.
Exit ==
  /\ phase = "joining" /\ \A k \in Http : owner[k] # "running"
  /\ phase' = "stopped" /\ holder' = FALSE
  /\ UNCHANGED <<how, closed, group, closing, ownerVars, callVars, stranded, desktopVars,
                 serveVars>>
-----------------------------------------------------------------------------
(* A call of a tool.                                                       *)

\* Calls are handled once the lifespan has yielded the registry, to the end and beyond.
Serving == phase \in {"up", "closing", "joining", "stopped"}

\* An unknown tool, invalid arguments, or the guard of call_public_tool.
CallTurnedAway(c) ==
  /\ callPc[c] = "idle" /\ Serving
  /\ callPc' = [callPc EXCEPT ![c] = "turnedAway"]
  /\ UNCHANGED <<runVars, closing, ownerVars, sent, stranded, desktopVars, serveVars>>

\* call_public_tool finds no group.
CallNotRunning(c) ==
  /\ callPc[c] = "idle" /\ Serving /\ ~group
  /\ callPc' = [callPc EXCEPT ![c] = "raised"]
  /\ UNCHANGED <<runVars, closing, ownerVars, sent, stranded, desktopVars, serveVars>>

\* It hands the group to an HTTP connection, which takes its lock first.
CallEnters(c) ==
  /\ callPc[c] = "idle" /\ Serving /\ group /\ UpstreamOf[c] \in Http
  /\ callPc' = [callPc EXCEPT ![c] = "locking"]
  /\ UNCHANGED <<runVars, closing, ownerVars, sent, stranded, desktopVars, serveVars>>

FaultyShutsDown(k) == FALSE

ShutsDown(k) == closing[k]

FaultyIsFirst(k) == TRUE

\* The connection has no owner yet.
IsFirst(k) == owner[k] = "none"

\* With the lock: no await from here to the stream.  The lock itself has no variable: what
\* it protects has no await either.
CallLocked(c) ==
  /\ callPc[c] = "locking"
  /\ LET k == UpstreamOf[c] IN
     \/ /\ ShutsDown(k)
        /\ callPc' = [callPc EXCEPT ![c] = "raised"] /\ UNCHANGED ownerVars
     \/ /\ ~ShutsDown(k) /\ IsFirst(k) /\ phase = "stopped"
        /\ callPc' = [callPc EXCEPT ![c] = "inactive"] /\ UNCHANGED ownerVars
     \/ /\ ~ShutsDown(k) /\ IsFirst(k) /\ phase # "stopped"
        /\ owner' = [owner EXCEPT ![k] = "running"]
        /\ started' = [started EXCEPT ![k] = @ + 1]
        /\ callPc' = [callPc EXCEPT ![c] = "waiting"]
     \/ /\ ~ShutsDown(k) /\ ~IsFirst(k)
        /\ callPc' = [callPc EXCEPT ![c] = IF owner[k] = "ended" THEN "gone" ELSE "waiting"]
        /\ UNCHANGED ownerVars
  /\ UNCHANGED <<runVars, closing, sent, stranded, desktopVars, serveVars>>

\* The owner does not make a call on a connection that shuts down.
MayMake(k) == ~closing[k]

CallMade(c) ==
  /\ callPc[c] = "waiting" /\ owner[UpstreamOf[c]] = "running" /\ MayMake(UpstreamOf[c])
  /\ callPc' = [callPc EXCEPT ![c] = "called"] /\ sent' = sent \cup {c}
  /\ UNCHANGED <<runVars, closing, ownerVars, stranded, desktopVars, serveVars>>

\* A result, or an error that says why there is none.
CallAnswered(c) ==
  /\ \/ callPc[c] = "waiting" /\ owner[UpstreamOf[c]] = "running"
     \/ callPc[c] = "called" /\ UpstreamOf[c] \in Http /\ owner[UpstreamOf[c]] = "running"
     \/ callPc[c] = "called" /\ UpstreamOf[c] \in Desktops
  /\ callPc' = [callPc EXCEPT ![c] = "answered"]
  /\ UNCHANGED <<runVars, closing, ownerVars, sent, stranded, desktopVars, serveVars>>

\* The caller is cancelled, or finds that a cancelled owner has left its stream.
CallLeaves(c) ==
  /\ callPc[c] \in {"locking", "waiting", "called"} /\ UpstreamOf[c] \in Http
  /\ callPc' = [callPc EXCEPT ![c] = "gone"]
  /\ UNCHANGED <<runVars, closing, ownerVars, sent, stranded, desktopVars, serveVars>>

FaultyDrained(k) == TRUE

\* The owner of k has no request left to deal with.
Drained(k) == \A c \in Calls : UpstreamOf[c] = k => callPc[c] \notin {"waiting", "called"}

\* The owner finds its stream closed and empty, or is cancelled.
OwnerEnds(k) ==
  /\ owner[k] = "running"
  /\ (closing[k] /\ Drained(k)) \/ GroupCancelled
  /\ owner' = [owner EXCEPT ![k] = "ended"]
  /\ UNCHANGED <<runVars, closing, started, callVars, stranded, desktopVars, serveVars>>

\* A desktop that is offline, or busy, is not called.
Offline(k) == \/ ~connected[k] \/ socket[k] = NoSocket \/ closing[k]
              \/ \E c \in Calls : UpstreamOf[c] = k /\ callPc[c] = "called"

CallDesktop(c) ==
  /\ callPc[c] = "idle" /\ Serving /\ group /\ UpstreamOf[c] \in Desktops
  /\ \/ /\ Offline(UpstreamOf[c])
        /\ callPc' = [callPc EXCEPT ![c] = "turnedAway"] /\ UNCHANGED sent
     \/ /\ ~Offline(UpstreamOf[c])
        /\ callPc' = [callPc EXCEPT ![c] = "called"] /\ sent' = sent \cup {c}
  /\ UNCHANGED <<runVars, closing, ownerVars, stranded, desktopVars, serveVars>>

\* A call that fails, times out or is cancelled closes whatever socket is current.
CallDrops(c) ==
  /\ callPc[c] = "called" /\ UpstreamOf[c] \in Desktops
  /\ Detach({UpstreamOf[c]})
  /\ UNCHANGED <<runVars, closing, ownerVars, sent, stranded, serveVars>>
-----------------------------------------------------------------------------
(* A desktop's WebSocket.                                                  *)

\* What the gateway looks at: the connection that the path names, and whether the headers
\* are in order: one allowed host, no origin, and one authorization with the secret that
\* the environment has for the connection, if that one is long enough.
Handshake == [path : Connections \cup {NoConnection}, headers : BOOLEAN]

Admits(h) == holder /\ h.path \in Desktops /\ h.headers

FaultyOccupied(k) == socket[k] # NoSocket

Occupied(k) == closing[k] \/ socket[k] # NoSocket

\* The gateway and the beginning of serve, with no await between them.
Arrives(s) == \E h \in Handshake :
  /\ servePc[s] = "new" /\ phase # "down"
  /\ LET ok == Admits(h) /\ ~Occupied(h.path) IN
     \/ /\ ok
        /\ socket' = [socket EXCEPT ![h.path] = s]
        /\ servePc' = [servePc EXCEPT ![s] = "hello"]
        /\ target' = [target EXCEPT ![s] = h.path]
     \/ /\ ~ok
        /\ servePc' = [servePc EXCEPT ![s] = "rejected"]
        /\ UNCHANGED <<socket, target>>
  /\ UNCHANGED <<runVars, closing, ownerVars, callVars, stranded, connected>>

\* The registration is complete, whatever has become of the socket meanwhile.
Registers(s) ==
  /\ servePc[s] = "hello"
  /\ servePc' = [servePc EXCEPT ![s] = "ready"]
  /\ connected' = [connected EXCEPT ![target[s]] = TRUE]
  /\ UNCHANGED <<runVars, closing, ownerVars, callVars, stranded, socket, target>>

\* The socket breaks, or is closed: serve detaches it if it is still the current one.
Leaves(s) ==
  /\ servePc[s] \in {"hello", "ready"}
  /\ servePc' = [servePc EXCEPT ![s] = "left"]
  /\ \/ socket[target[s]] = s /\ Detach({target[s]})
     \/ socket[target[s]] # s /\ UNCHANGED <<desktopVars, callPc>>
  /\ UNCHANGED <<runVars, closing, ownerVars, sent, stranded, target>>
-----------------------------------------------------------------------------
Shutdown == CloseNext \/ Exit

CallProgress(c) == CallLocked(c) \/ CallAnswered(c)

CallStep(c) == \/ CallTurnedAway(c) \/ CallNotRunning(c) \/ CallEnters(c) \/ CallDesktop(c)
               \/ CallMade(c) \/ CallLeaves(c) \/ CallDrops(c) \/ CallProgress(c)

Next == \/ StartFails \/ Start \/ EndBody \/ Shutdown
        \/ \E c \in Calls : CallStep(c)
        \/ \E k \in Http : OwnerEnds(k)
        \/ \E s \in Sockets : Arrives(s) \/ Registers(s) \/ Leaves(s)

Spec == Init /\ [][Next]_vars

\* The event loop runs every task that can run, and whatever a call awaits ends by a timeout.
Fairness == /\ WF_vars(Shutdown)
            /\ \A k \in Http : WF_vars(OwnerEnds(k))
            /\ \A c \in Calls : WF_vars(CallProgress(c))

FairSpec == Spec /\ Fairness
-----------------------------------------------------------------------------
\* The types of the variables of the Hub, its connections, calls and sockets.
TypeOK ==
  /\ phase \in Phases /\ how \in Endings /\ closed \in 0..Len(Order)
  /\ group \in BOOLEAN /\ holder \in BOOLEAN
  /\ closing \in [Connections -> BOOLEAN]
  /\ owner \in [Http -> {"none", "running", "ended"}] /\ started \in [Http -> Nat]
  /\ callPc \in [Calls -> CallStates] /\ sent \subseteq Calls /\ stranded \subseteq Calls
  /\ socket \in [Desktops -> Sockets \cup {NoSocket}] /\ connected \in [Desktops -> BOOLEAN]
  /\ servePc \in [Sockets -> ServeStates]
  /\ target \in [Sockets -> Desktops \cup {NoConnection}]

\* Unless its closing was cut short, a Hub that has stopped has closed every connection
\* and has no desktop: none connected while the connections were closed one by one.
DesktopsDetached ==
  phase = "stopped" /\ how # "cut" =>
    /\ \A k \in Connections : closing[k]
    /\ \A k \in Desktops : socket[k] = NoSocket

\* A call that waited for the lock while the Hub stopped never tries to start an owner in
\* a task group that has ended, unless the closing was cut short.
NoOwnerInEndedGroup == how # "cut" => \A c \in Calls : callPc[c] # "inactive"

CallsOf(k) == {c \in Calls : UpstreamOf[c] = k}

StageOf(c) ==
  CASE callPc[c] \in {"idle", "locking"} -> "idle"
    [] callPc[c] \in {"waiting", "called"} -> "waiting"
    [] callPc[c] = "answered" -> "answered"
    [] OTHER -> "gone"

Owned(k) == INSTANCE OwnedConnection
  WITH Calls <- CallsOf(k), caller <- [c \in CallsOf(k) |-> StageOf(c)],
       owner <- owner[k], owners <- started[k], closing <- closing[k], cut <- GroupCancelled

\* Every HTTP connection is what LazyConnection is shown to be: however the first calls
\* queue for the lock there is one owner, which ends once the connection is closed, and by
\* then has dealt with every call it accepted, those included that came while the Hub
\* closed other connections.
OwnedSpec == /\ \A k \in Http : Owned(k)!Init
             /\ [][\A k \in Http : [Owned(k)!Next]_(Owned(k)!ownedVars)]_vars

CallerOf(c) == CASE callPc[c] \in {"idle", "called"} -> callPc[c]
                 [] OTHER -> "done"

ServingOf(k, s) == IF target[s] = k THEN servePc[s] ELSE "new"

Desktop(k) == INSTANCE DesktopConnection
  WITH Calls <- CallsOf(k), caller <- [c \in CallsOf(k) |-> CallerOf(c)],
       serving <- [s \in Sockets |-> ServingOf(k, s)],
       socket <- socket[k], connected <- connected[k], closing <- closing[k]

\* Every desktop connection is what ReverseConnection is shown to be, while sockets come
\* through the gateway, calls from a registry that may be about to stop, and the loop that
\* closes the connections passes it, several of them at once or in a cancelled scope.
DesktopSpec == /\ \A k \in Desktops : Desktop(k)!Init
               /\ [][\A k \in Desktops : [Desktop(k)!Next]_(Desktop(k)!desktopVars)]_vars

\* However many connections there are and whatever they do, the Hub stops.
ShutdownEnds == phase \in {"closing", "joining"} ~> phase = "stopped"

\* Every call ends, unless its connection's owner was cancelled with the task group.
EveryCallEnds ==
  \A c \in Calls : callPc[c] \in {"locking", "waiting", "called"} ~>
    callPc[c] \notin {"locking", "waiting", "called"} \/ GroupCancelled
-----------------------------------------------------------------------------
(* What the documentation says, and the code does not do.                  *)

\* README, Lazy upstream behavior: requests still waiting when shutdown begins are skipped
\* before dispatch.
WaitingAreSkipped == how = "normal" => stranded \cap sent = {}
=============================================================================
