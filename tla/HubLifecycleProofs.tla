-------------------------- MODULE HubLifecycleProofs --------------------------
(* What holds of HubLifecycle for any catalog, calls and sockets, and that *)
(* each of its HTTP connections implements OwnedConnection, and each of    *)
(* its desktop connections DesktopConnection.                              *)
EXTENDS HubLifecycle, TLAPS

\* The connections that shut down are those that run() has begun to close.
ClosingInv == \A k \in Connections : closing[k] <=> k \in ClosedNow(0, closed)

\* How far the end of run() is.  In a cancelled scope the loop is cut short.
PhaseInv ==
  /\ phase \in {"down", "failed", "up"} <=> how = "none"
  /\ phase = "closing" => how # "cut"
  /\ phase \in {"joining", "stopped"} /\ how # "cut" => closed = Len(Order)

\* A desktop connection that shuts down has no socket, and takes none.
ClosedDetached == \A k \in Desktops : closing[k] => socket[k] = NoSocket

\* A socket that was admitted has come to a desktop connection, another one to none.
TargetInv == \A s \in Sockets :
  /\ servePc[s] \in {"hello", "ready", "left"} => target[s] \in Desktops
  /\ servePc[s] \in {"new", "rejected"} => target[s] = NoConnection

\* Only a call of an HTTP connection queues, for the lock or in the stream.
QueueInv == \A c \in Calls : callPc[c] \in {"locking", "waiting"} => UpstreamOf[c] \in Http

IInv == /\ TypeOK /\ ClosingInv /\ PhaseInv /\ ClosedDetached /\ TargetInv
        /\ NoOwnerInEndedGroup /\ QueueInv

\* What the proofs of the other parts need of the types.
LEMMA Types ==
  ASSUME TypeOK
  PROVE  /\ phase \in Phases /\ how \in Endings /\ closed \in 0..Len(Order)
         /\ closing \in [Connections -> BOOLEAN]
         /\ owner \in [Http -> {"none", "running", "ended"}] /\ started \in [Http -> Nat]
         /\ callPc \in [Calls -> CallStates]
         /\ socket \in [Desktops -> Sockets \cup {NoSocket}]
         /\ servePc \in [Sockets -> ServeStates]
         /\ target \in [Sockets -> Desktops \cup {NoConnection}]
BY DEF TypeOK

\* The sequence of the connections has a length.
LEMMA OrderLength == Len(Order) \in Nat
BY LifecycleAssumption
-----------------------------------------------------------------------------
(* The loop that closes the connections.                                   *)

LEMMA CloseLoop ==
  ASSUME closed \in 0..Len(Order), CloseOn
  PROVE  /\ closed' \in closed..Len(Order)
         /\ closing' = [k \in Connections |-> closing[k] \/ k \in ClosedNow(closed, closed')]
         /\ Detach(Desktops \cap ClosedNow(closed, closed'))
         /\ phase' \in {"closing", "joining"} /\ group' \in BOOLEAN
         /\ phase' = "closing" => how' # "cut"
         /\ phase' = "joining" /\ how' # "cut" => closed' = Len(Order)
BY OrderLength DEF CloseOn

\* One part of the order after the other.
LEMMA Parts ==
  ASSUME NEW i \in Nat, NEW j \in Nat, i <= j
  PROVE  ClosedNow(0, j) = ClosedNow(0, i) \cup ClosedNow(i, j)
BY DEF ClosedNow

LEMMA AllClosed == ClosedNow(0, Len(Order)) = Connections
BY OrderLength DEF ClosedNow, Connections
-----------------------------------------------------------------------------
(* Types.                                                                  *)

\* Detaching connections leaves the types alone.
LEMMA DetachTypes ==
  ASSUME TypeOK, NEW D, Detach(D)
  PROVE  /\ socket' \in [Desktops -> Sockets \cup {NoSocket}]
         /\ connected' \in [Desktops -> BOOLEAN]
         /\ callPc' \in [Calls -> CallStates]
BY DEF TypeOK, Detach, CallStates

LEMMA CloseTypes ==
  ASSUME TypeOK, CloseOn
  PROVE  /\ phase' \in Phases /\ closed' \in 0..Len(Order) /\ group' \in BOOLEAN
         /\ closing' \in [Connections -> BOOLEAN]
         /\ socket' \in [Desktops -> Sockets \cup {NoSocket}]
         /\ connected' \in [Desktops -> BOOLEAN]
         /\ callPc' \in [Calls -> CallStates]
<1>1. closed \in 0..Len(Order) /\ closing \in [Connections -> BOOLEAN]
  BY DEF TypeOK
<1>2. PICK D : Detach(D)
  BY <1>1, CloseLoop
<1>3. closed' \in closed..Len(Order) /\ phase' \in {"closing", "joining"}
      /\ closing' = [k \in Connections |-> closing[k] \/ k \in ClosedNow(closed, closed')]
      /\ group' \in BOOLEAN
  BY <1>1, CloseLoop
<1> QED
  BY <1>1, <1>2, <1>3, DetachTypes, OrderLength DEF Phases

LEMMA TypeRun ==
  ASSUME TypeOK, StartFails \/ Start \/ EndBody \/ Shutdown
  PROVE  TypeOK'
<1> USE DEF ownerVars, callVars, desktopVars, serveVars
<1>1. CASE StartFails \/ Start \/ Exit
  BY <1>1 DEF StartFails, Start, Exit, TypeOK, Phases
<1>2. CASE EndBody
  <2>1. CloseOn /\ how' \in Endings /\ stranded' = {c \in Calls : callPc[c] = "waiting"}
        /\ UNCHANGED <<holder, ownerVars, sent, serveVars>>
    BY <1>2 DEF EndBody
  <2> QED
    BY <2>1, CloseTypes DEF TypeOK
<1>3. CASE CloseNext
  <2>1. CloseOn /\ how' = how /\ UNCHANGED <<holder, ownerVars, sent, stranded, serveVars>>
    BY <1>3 DEF CloseNext
  <2> QED
    BY <2>1, CloseTypes DEF TypeOK
<1> QED
  BY <1>1, <1>2, <1>3 DEF Shutdown

LEMMA TypeCall ==
  ASSUME TypeOK, NEW c \in Calls, CallStep(c)
  PROVE  TypeOK'
<1> USE DEF runVars, ownerVars, callVars, desktopVars, serveVars
<1>1. CASE CallTurnedAway(c) \/ CallNotRunning(c) \/ CallEnters(c)
  BY <1>1 DEF TypeOK, CallTurnedAway, CallNotRunning, CallEnters, CallStates
<1>2. CASE CallDesktop(c)
  BY <1>2 DEF TypeOK, CallDesktop, CallStates
<1>3. CASE CallMade(c) \/ CallLeaves(c) \/ CallAnswered(c)
  BY <1>3 DEF TypeOK, CallMade, CallLeaves, CallAnswered, CallStates
<1>4. CASE CallDrops(c)
  <2>1. Detach({UpstreamOf[c]})
        /\ UNCHANGED <<runVars, closing, ownerVars, sent, stranded, serveVars>>
    BY <1>4 DEF CallDrops
  <2> QED
    BY <2>1, DetachTypes DEF TypeOK
<1>5. CASE CallLocked(c)
  <2>1. owner' \in [Http -> {"none", "running", "ended"}]
    BY <1>5 DEF TypeOK, CallLocked
  <2>2. callPc' \in [Calls -> CallStates]
    BY <1>5 DEF TypeOK, CallLocked, CallStates
  <2>3. started' \in [Http -> Nat]
    <3>1. started \in [Http -> Nat]
      BY DEF TypeOK
    <3>2. UNCHANGED started \/ started' = [started EXCEPT ![UpstreamOf[c]] = @ + 1]
      BY <1>5 DEF CallLocked
    <3> QED
      BY <3>1, <3>2
  <2> QED
    BY <1>5, <2>1, <2>2, <2>3 DEF TypeOK, CallLocked
<1> QED
  BY <1>1, <1>2, <1>3, <1>4, <1>5 DEF CallStep, CallProgress

LEMMA TypeOther ==
  ASSUME TypeOK,
         \/ \E k \in Http : OwnerEnds(k)
         \/ \E s \in Sockets : Arrives(s) \/ Registers(s) \/ Leaves(s)
         \/ UNCHANGED vars
  PROVE  TypeOK'
<1> USE DEF runVars, ownerVars, callVars, desktopVars, serveVars
<1>1. ASSUME NEW k \in Http, OwnerEnds(k) PROVE TypeOK'
  BY <1>1 DEF TypeOK, OwnerEnds
<1>2. ASSUME NEW s \in Sockets, Arrives(s) PROVE TypeOK'
  <2>1. PICK h \in Handshake :
          /\ UNCHANGED <<runVars, closing, ownerVars, callVars, stranded, connected>>
          /\ \/ /\ h.path \in Desktops
                /\ socket' = [socket EXCEPT ![h.path] = s]
                /\ servePc' = [servePc EXCEPT ![s] = "hello"]
                /\ target' = [target EXCEPT ![s] = h.path]
             \/ /\ servePc' = [servePc EXCEPT ![s] = "rejected"]
                /\ UNCHANGED <<socket, target>>
    BY <1>2 DEF Arrives, Admits
  <2> QED
    BY <2>1 DEF TypeOK, ServeStates
<1>3. ASSUME NEW s \in Sockets, Registers(s) PROVE TypeOK'
  BY <1>3 DEF TypeOK, Registers, ServeStates
<1>4. ASSUME NEW s \in Sockets, Leaves(s) PROVE TypeOK'
  <2>1. servePc' = [servePc EXCEPT ![s] = "left"]
        /\ UNCHANGED <<runVars, closing, ownerVars, sent, stranded, target>>
        /\ (Detach({target[s]}) \/ UNCHANGED <<desktopVars, callPc>>)
    BY <1>4 DEF Leaves
  <2> QED
    BY <2>1, DetachTypes DEF TypeOK, ServeStates
<1>5. CASE UNCHANGED vars
  BY <1>5 DEF TypeOK, vars
<1> QED
  BY <1>1, <1>2, <1>3, <1>4, <1>5

LEMMA TypeInit == Init => TypeOK
<1> SUFFICES ASSUME Init PROVE TypeOK
  OBVIOUS
<1>1. phase \in Phases /\ how \in Endings /\ group \in BOOLEAN /\ holder \in BOOLEAN
  BY DEF Init, Phases, Endings
<1>5. closing \in [Connections -> BOOLEAN]
  BY DEF Init
<1>6. closed \in 0..Len(Order)
  BY OrderLength DEF Init
<1>2. owner \in [Http -> {"none", "running", "ended"}] /\ started \in [Http -> Nat]
  BY DEF Init
<1>3. callPc \in [Calls -> CallStates] /\ sent \subseteq Calls /\ stranded \subseteq Calls
  BY DEF Init, CallStates
<1>4. /\ socket \in [Desktops -> Sockets \cup {NoSocket}]
      /\ connected \in [Desktops -> BOOLEAN]
      /\ servePc \in [Sockets -> ServeStates]
      /\ target \in [Sockets -> Desktops \cup {NoConnection}]
  BY DEF Init, ServeStates
<1> QED
  BY <1>1, <1>2, <1>3, <1>4, <1>5, <1>6 DEF TypeOK

LEMMA TypeStep == TypeOK /\ [Next]_vars => TypeOK'
BY TypeRun, TypeCall, TypeOther DEF Next

\* The variables of the Hub keep their types, for any catalog, calls and sockets.
THEOREM TypeCorrect == Spec => []TypeOK
BY TypeInit, TypeStep, PTL DEF Spec
-----------------------------------------------------------------------------
(* What is closed, and how far the Hub has come.                           *)

\* The parts of IInv about run().
RunInv == ClosingInv /\ PhaseInv

LEMMA RunOther ==
  ASSUME RunInv, UNCHANGED <<phase, how, closed, closing>>
  PROVE  RunInv'
BY DEF RunInv, ClosingInv, PhaseInv, ClosedNow

LEMMA RunCloses ==
  ASSUME TypeOK, RunInv, CloseOn, how' # "none"
  PROVE  RunInv'
<1>1. closed \in 0..Len(Order) /\ closing \in [Connections -> BOOLEAN]
  BY DEF TypeOK
<1>2. closed' \in closed..Len(Order)
      /\ closing' = [k \in Connections |-> closing[k] \/ k \in ClosedNow(closed, closed')]
      /\ phase' \in {"closing", "joining"}
      /\ (phase' = "closing" => how' # "cut")
      /\ (phase' = "joining" /\ how' # "cut" => closed' = Len(Order))
  BY <1>1, CloseLoop
<1>3. ClosedNow(0, closed') = ClosedNow(0, closed) \cup ClosedNow(closed, closed')
  BY <1>1, <1>2, Parts, OrderLength
<1>4. \A k \in Connections : closing'[k] <=> k \in ClosedNow(0, closed')
  BY <1>2, <1>3 DEF RunInv, ClosingInv
<1>5. ClosingInv'
  BY <1>4 DEF ClosingInv, ClosedNow
<1>6. PhaseInv'
  BY <1>2 DEF PhaseInv
<1> QED
  BY <1>5, <1>6 DEF RunInv

LEMMA RunStep ==
  ASSUME TypeOK, RunInv, [Next]_vars
  PROVE  RunInv'
<1>1. CASE StartFails \/ Start
  <2>1. phase = "down" /\ phase' \in {"failed", "up"} /\ UNCHANGED <<how, closed, closing>>
    BY <1>1 DEF StartFails, Start
  <2> QED
    BY <2>1 DEF RunInv, ClosingInv, PhaseInv, ClosedNow
<1>2. CASE EndBody
  BY <1>2, RunCloses DEF EndBody
<1>3. CASE CloseNext
  <2>1. CloseOn /\ how' = how /\ phase = "closing"
    BY <1>3 DEF CloseNext
  <2>2. how # "none"
    BY <2>1 DEF RunInv, PhaseInv
  <2> QED
    BY <2>1, <2>2, RunCloses
<1>4. CASE Exit
  <2>1. phase = "joining" /\ phase' = "stopped" /\ UNCHANGED <<how, closed, closing>>
    BY <1>4 DEF Exit
  <2> QED
    BY <2>1 DEF RunInv, ClosingInv, PhaseInv, ClosedNow
<1>5. ASSUME NEW c \in Calls, CallStep(c) PROVE RunInv'
  BY <1>5, RunOther DEF CallStep, CallProgress, CallTurnedAway, CallNotRunning, CallEnters,
    CallDesktop, CallMade, CallLeaves, CallDrops, CallLocked, CallAnswered, runVars
<1>6. ASSUME NEW k \in Http, OwnerEnds(k) PROVE RunInv'
  BY <1>6, RunOther DEF OwnerEnds, runVars
<1>7. ASSUME NEW s \in Sockets, Arrives(s) \/ Registers(s) \/ Leaves(s) PROVE RunInv'
  BY <1>7, RunOther DEF Arrives, Registers, Leaves, runVars
<1>8. CASE UNCHANGED vars
  BY <1>8, RunOther DEF vars, runVars
<1> QED
  BY <1>1, <1>2, <1>3, <1>4, <1>5, <1>6, <1>7, <1>8 DEF Next, Shutdown
-----------------------------------------------------------------------------
(* The desktops' sockets.                                                  *)

\* The parts of IInv about the sockets.
SocketInv == ClosedDetached /\ TargetInv

\* Detaching connections, among them all that shut down now, leaves none with a socket.
LEMMA DetachedStay ==
  ASSUME TypeOK, ClosedDetached, NEW D, Detach(D),
         \A k \in Desktops : closing'[k] => closing[k] \/ k \in D
  PROVE  ClosedDetached'
BY DEF ClosedDetached, Detach, TypeOK

LEMMA TargetStays == ASSUME TargetInv, UNCHANGED <<servePc, target>> PROVE TargetInv'
BY DEF TargetInv

LEMMA SocketCloses ==
  ASSUME TypeOK, SocketInv, CloseOn, UNCHANGED serveVars
  PROVE  SocketInv'
<1>1. closed \in 0..Len(Order)
  BY DEF TypeOK
<1>2. closing' = [k \in Connections |-> closing[k] \/ k \in ClosedNow(closed, closed')]
      /\ Detach(Desktops \cap ClosedNow(closed, closed'))
  BY <1>1, CloseLoop
<1>3. \A k \in Desktops :
        closing'[k] => closing[k] \/ k \in Desktops \cap ClosedNow(closed, closed')
  BY <1>2, LifecycleAssumption
<1> QED
  BY <1>2, <1>3, DetachedStay, TargetStays DEF SocketInv, serveVars

LEMMA SocketStep ==
  ASSUME TypeOK, SocketInv, [Next]_vars
  PROVE  SocketInv'
<1> USE DEF runVars, ownerVars, callVars, desktopVars, serveVars
<1>1. CASE EndBody \/ CloseNext
  BY <1>1, SocketCloses DEF EndBody, CloseNext
<1>2. ASSUME NEW s \in Sockets, Arrives(s) PROVE SocketInv'
  <2>1. PICK h \in Handshake :
          /\ servePc[s] = "new" /\ UNCHANGED closing
          /\ \/ /\ h.path \in Desktops /\ ~closing[h.path]
                /\ socket' = [socket EXCEPT ![h.path] = s]
                /\ servePc' = [servePc EXCEPT ![s] = "hello"]
                /\ target' = [target EXCEPT ![s] = h.path]
             \/ /\ servePc' = [servePc EXCEPT ![s] = "rejected"]
                /\ UNCHANGED <<socket, target>>
    BY <1>2 DEF Arrives, Admits, Occupied
  <2>2. ClosedDetached'
    BY <2>1, Types DEF SocketInv, ClosedDetached
  <2>3. TargetInv'
    BY <2>1, Types DEF SocketInv, TargetInv
  <2> QED
    BY <2>2, <2>3 DEF SocketInv
<1>3. ASSUME NEW s \in Sockets, Registers(s) PROVE SocketInv'
  BY <1>3, Types DEF Registers, SocketInv, ClosedDetached, TargetInv
<1>4. ASSUME NEW s \in Sockets, Leaves(s) PROVE SocketInv'
  <2>1. servePc[s] \in {"hello", "ready"} /\ servePc' = [servePc EXCEPT ![s] = "left"]
        /\ UNCHANGED <<target, closing>>
        /\ (Detach({target[s]}) \/ UNCHANGED socket)
    BY <1>4 DEF Leaves
  <2>2. TargetInv'
    BY <2>1, Types DEF SocketInv, TargetInv
  <2>3. ClosedDetached'
    <3>1. CASE Detach({target[s]})
      BY <2>1, <3>1, DetachedStay DEF SocketInv
    <3>2. CASE UNCHANGED socket
      BY <2>1, <3>2 DEF SocketInv, ClosedDetached
    <3> QED
      BY <2>1, <3>1, <3>2
  <2> QED
    BY <2>2, <2>3 DEF SocketInv
<1>5. ASSUME NEW c \in Calls, CallDrops(c) PROVE SocketInv'
  BY <1>5, DetachedStay, TargetStays DEF CallDrops, SocketInv
<1>6. CASE UNCHANGED <<closing, socket, serveVars>>
  BY <1>6, TargetStays DEF SocketInv, ClosedDetached
<1>7. ASSUME NEW c \in Calls, CallStep(c), ~CallDrops(c)
      PROVE  UNCHANGED <<closing, socket, serveVars>>
  BY <1>7 DEF CallStep, CallProgress, CallTurnedAway, CallNotRunning, CallEnters,
    CallDesktop, CallMade, CallLeaves, CallLocked, CallAnswered
<1>8. CASE StartFails \/ Start \/ Exit \/ (\E k \in Http : OwnerEnds(k)) \/ UNCHANGED vars
  BY <1>6, <1>8 DEF StartFails, Start, Exit, OwnerEnds, vars
<1> QED
  BY <1>1, <1>2, <1>3, <1>4, <1>5, <1>6, <1>7, <1>8 DEF Next, Shutdown
-----------------------------------------------------------------------------
(* The task group, and what follows.                                       *)

\* How the body of run() ended does not change.
LEMMA HowStays ==
  ASSUME RunInv, [Next]_vars, how # "none"
  PROVE  how' = how
<1>1. ~EndBody /\ ~StartFails /\ ~Start
  BY DEF RunInv, PhaseInv, EndBody, StartFails, Start
<1>2. ASSUME NEW c \in Calls, CallStep(c) PROVE how' = how
  BY <1>2 DEF CallStep, CallProgress, CallTurnedAway, CallNotRunning, CallEnters,
    CallDesktop, CallMade, CallLeaves, CallDrops, CallLocked, CallAnswered, runVars
<1>3. ASSUME NEW s \in Sockets, Arrives(s) \/ Registers(s) \/ Leaves(s) PROVE how' = how
  BY <1>3 DEF Arrives, Registers, Leaves, runVars
<1> QED
  BY <1>1, <1>2, <1>3 DEF Next, Shutdown, CloseNext, Exit, OwnerEnds, vars, runVars

\* Only a call with the lock, once the Hub has stopped, finds the task group ended.
LEMMA InactiveCall ==
  ASSUME TypeOK, RunInv, NEW c \in Calls, CallLocked(c), how # "cut"
  PROVE  callPc' \in [Calls -> CallStates] /\ callPc'[c] # "inactive"
<1>1. phase = "stopped" => closing[UpstreamOf[c]]
  BY AllClosed, LifecycleAssumption DEF RunInv, PhaseInv, ClosingInv
<1>2. callPc \in [Calls -> CallStates]
  BY DEF TypeOK
<1> QED
  BY <1>1, <1>2 DEF CallLocked, ShutsDown, CallStates

LEMMA InactiveStep ==
  ASSUME TypeOK, RunInv, NoOwnerInEndedGroup, [Next]_vars
  PROVE  NoOwnerInEndedGroup'
<1> SUFFICES ASSUME how' # "cut", NEW x \in Calls PROVE callPc'[x] # "inactive"
  BY DEF NoOwnerInEndedGroup
<1>1. how # "cut" /\ callPc[x] # "inactive"
  BY HowStays DEF NoOwnerInEndedGroup
<1>2. callPc \in [Calls -> CallStates]
  BY DEF TypeOK
<1>3. ASSUME NEW D, Detach(D) PROVE callPc'[x] # "inactive"
  BY <1>1, <1>3 DEF Detach
<1>4. CASE EndBody \/ CloseNext
  BY <1>3, <1>4 DEF EndBody, CloseNext, CloseOn
<1>5. ASSUME NEW c \in Calls, CallStep(c) PROVE callPc'[x] # "inactive"
  <2>1. CASE CallDrops(c)
    BY <1>3, <2>1 DEF CallDrops
  <2>2. CASE CallLocked(c)
    <3>1. callPc'[c] # "inactive"
      BY <1>1, <2>2, InactiveCall
    <3>2. \E v : callPc' = [callPc EXCEPT ![c] = v]
      BY <2>2 DEF CallLocked
    <3> QED
      BY <1>1, <1>2, <3>1, <3>2
  <2>3. CASE \E v \in CallStates \ {"inactive"} : callPc' = [callPc EXCEPT ![c] = v]
    BY <1>1, <1>2, <2>3
  <2> QED
    BY <1>5, <2>1, <2>2, <2>3 DEF CallStep, CallProgress, CallTurnedAway, CallNotRunning,
      CallEnters, CallDesktop, CallMade, CallLeaves, CallAnswered, CallStates
<1>6. ASSUME NEW s \in Sockets, Leaves(s) PROVE callPc'[x] # "inactive"
  BY <1>1, <1>3, <1>6 DEF Leaves
<1>7. CASE UNCHANGED callPc
  BY <1>1, <1>7
<1> QED
  BY <1>4, <1>5, <1>6, <1>7 DEF Next, Shutdown, StartFails, Start, Exit, OwnerEnds, Arrives,
    Registers, vars, callVars

\* A call queues as it enters, and a desktop's calls do not enter.
LEMMA QueueStep ==
  ASSUME TypeOK, QueueInv, [Next]_vars
  PROVE  QueueInv'
<1> SUFFICES ASSUME NEW x \in Calls, callPc'[x] \in {"locking", "waiting"}
             PROVE  UpstreamOf[x] \in Http
  BY DEF QueueInv
<1>1. callPc[x] \in {"locking", "waiting"} => UpstreamOf[x] \in Http
  BY DEF QueueInv
<1>2. callPc \in [Calls -> CallStates]
  BY DEF TypeOK
<1>3. ASSUME NEW D, Detach(D) PROVE callPc[x] \in {"locking", "waiting"}
  BY <1>3 DEF Detach
<1>4. CASE EndBody \/ CloseNext
  BY <1>1, <1>3, <1>4 DEF EndBody, CloseNext, CloseOn
<1>5. ASSUME NEW c \in Calls, CallStep(c) PROVE UpstreamOf[x] \in Http
  <2>1. CASE CallDrops(c)
    BY <1>1, <1>3, <2>1 DEF CallDrops
  <2>2. CASE CallEnters(c) \/ CallLocked(c)
    BY <1>1, <1>2, <2>2 DEF CallEnters, CallLocked, QueueInv
  <2>3. CASE \E v \in CallStates \ {"locking", "waiting"} :
               callPc' = [callPc EXCEPT ![c] = v]
    BY <1>1, <1>2, <2>3
  <2> QED
    BY <1>5, <2>1, <2>2, <2>3 DEF CallStep, CallProgress, CallTurnedAway, CallNotRunning,
      CallDesktop, CallMade, CallLeaves, CallAnswered, CallStates
<1>6. ASSUME NEW s \in Sockets, Leaves(s) PROVE UpstreamOf[x] \in Http
  BY <1>1, <1>3, <1>6 DEF Leaves
<1>7. CASE UNCHANGED callPc
  BY <1>1, <1>7
<1> QED
  BY <1>4, <1>5, <1>6, <1>7 DEF Next, Shutdown, StartFails, Start, Exit, OwnerEnds, Arrives,
    Registers, vars, callVars

LEMMA InvInit == Init => IInv
<1> SUFFICES ASSUME Init PROVE IInv
  OBVIOUS
<1>1. ClosingInv
  BY DEF Init, ClosingInv, ClosedNow
<1>2. PhaseInv /\ TargetInv /\ ClosedDetached
  BY LifecycleAssumption DEF Init, PhaseInv, TargetInv, ClosedDetached
<1>3. NoOwnerInEndedGroup /\ QueueInv
  BY DEF Init, NoOwnerInEndedGroup, QueueInv
<1> QED
  BY <1>1, <1>2, <1>3, TypeInit DEF IInv

LEMMA InvStep == IInv /\ [Next]_vars => IInv'
BY TypeStep, RunStep, SocketStep, InactiveStep, QueueStep DEF IInv, RunInv, SocketInv

LEMMA InvAlways == Spec => []IInv
BY InvInit, InvStep, PTL DEF Spec

\* However the calls, the desktops and the closing of the connections interleave, a call
\* never tries to start an owner in the task group that has ended, unless the closing was
\* cut short: by then every connection shuts down.
THEOREM NoneInactive == Spec => []NoOwnerInEndedGroup
<1>1. IInv => NoOwnerInEndedGroup
  BY DEF IInv
<1> QED
  BY <1>1, InvAlways, PTL

\* A Hub that has stopped has closed every connection and holds no desktop's socket,
\* whoever came to connect while it closed them one by one.
THEOREM Detached == Spec => []DesktopsDetached
<1>1. IInv => DesktopsDetached
  <2> SUFFICES ASSUME IInv, phase = "stopped", how # "cut"
               PROVE  /\ \A k \in Connections : closing[k]
                      /\ \A k \in Desktops : socket[k] = NoSocket
    BY DEF DesktopsDetached
  <2>1. \A k \in Connections : closing[k]
    BY AllClosed DEF IInv, PhaseInv, ClosingInv
  <2> QED
    BY <2>1, LifecycleAssumption DEF IInv, ClosedDetached
<1> QED
  BY <1>1, InvAlways, PTL
-----------------------------------------------------------------------------
(* OwnedConnection.                                                        *)

LEMMA OwnedInit == Init => \A k \in Http : Owned(k)!Init
<1> SUFFICES ASSUME Init, NEW k \in Http PROVE Owned(k)!Init
  OBVIOUS
<1>1. \A c \in CallsOf(k) : StageOf(c) = "idle"
  BY DEF Init, StageOf, CallsOf
<1>2. owner[k] = "none" /\ started[k] = 0 /\ closing[k] = FALSE /\ GroupCancelled = FALSE
  BY LifecycleAssumption DEF Init, Http, GroupCancelled
<1> QED
  BY <1>1, <1>2 DEF Owned!Init

\* A step that the owner, the calls and the closing of k do not see.
LEMMA OwnedStutter ==
  ASSUME NEW k \in Http, \A c \in CallsOf(k) : StageOf(c)' = StageOf(c),
         owner'[k] = owner[k], started'[k] = started[k], closing'[k] = closing[k],
         GroupCancelled' = GroupCancelled
  PROVE  UNCHANGED Owned(k)!ownedVars
BY DEF Owned!ownedVars

LEMMA SameStage == ASSUME NEW c, callPc'[c] = callPc[c] PROVE StageOf(c)' = StageOf(c)
BY DEF StageOf

\* The connection of a call sees what the call does; what it says is enough for a step.
LEMMA OwnedCall ==
  ASSUME TypeOK, NEW c \in Calls, NEW k \in Http, UpstreamOf[c] = k, NEW v \in CallStates,
         callPc' = [callPc EXCEPT ![c] = v],
         closing'[k] = closing[k], GroupCancelled' = GroupCancelled,
         \/ /\ StageOf(c) = "idle" /\ v = "waiting"
            /\ ~closing[k] /\ owner[k] # "ended" /\ owner'[k] = "running"
            /\ started'[k] = IF owner[k] = "none" THEN started[k] + 1 ELSE started[k]
         \/ /\ StageOf(c) = "waiting" /\ v = "answered" /\ owner[k] = "running"
            /\ owner'[k] = owner[k] /\ started'[k] = started[k]
         \/ /\ StageOf(c) # "gone" /\ v \in {"turnedAway", "raised", "inactive", "gone"}
            /\ owner'[k] = owner[k] /\ started'[k] = started[k]
  PROVE  Owned(k)!Next
<1> DEFINE Caller == [d \in CallsOf(k) |-> StageOf(d)]
<1>1. c \in CallsOf(k) /\ CallsOf(k) \subseteq Calls
  BY DEF CallsOf
<1>2. callPc \in [Calls -> CallStates]
  BY DEF TypeOK
<1>3. ASSUME NEW d \in CallsOf(k), d # c PROVE StageOf(d)' = StageOf(d)
  BY <1>1, <1>2, <1>3 DEF StageOf
<1>4. StageOf(c)' = CASE v \in {"idle", "locking"} -> "idle"
                      [] v \in {"waiting", "called"} -> "waiting"
                      [] v = "answered" -> "answered"
                      [] OTHER -> "gone"
  BY <1>1, <1>2 DEF StageOf
<1>5. Caller[c] = StageOf(c) /\ Caller' = [Caller EXCEPT ![c] = StageOf(c)']
  BY <1>1, <1>3
<1>6. CASE v = "waiting" /\ StageOf(c) = "idle" /\ ~closing[k] /\ owner[k] # "ended"
           /\ owner'[k] = "running"
           /\ started'[k] = IF owner[k] = "none" THEN started[k] + 1 ELSE started[k]
  <2>1. Caller' = [Caller EXCEPT ![c] = "waiting"]
    BY <1>4, <1>5, <1>6
  <2>2. Owned(k)!Accept(c)
    BY <1>5, <1>6, <2>1 DEF Owned!Accept
  <2> QED
    BY <1>1, <2>2 DEF Owned!Next
<1>7. CASE v = "answered" /\ StageOf(c) = "waiting" /\ owner[k] = "running"
           /\ owner'[k] = owner[k] /\ started'[k] = started[k]
  <2>1. Caller' = [Caller EXCEPT ![c] = "answered"]
    BY <1>4, <1>5, <1>7
  <2>2. Owned(k)!Answer(c)
    BY <1>5, <1>7, <2>1 DEF Owned!Answer
  <2> QED
    BY <1>1, <2>2 DEF Owned!Next
<1>8. CASE v \in {"turnedAway", "raised", "inactive", "gone"} /\ StageOf(c) # "gone"
           /\ owner'[k] = owner[k] /\ started'[k] = started[k]
  <2>1. Caller' = [Caller EXCEPT ![c] = "gone"]
    BY <1>4, <1>5, <1>8
  <2>2. Owned(k)!Leave(c)
    BY <1>5, <1>8, <2>1 DEF Owned!Leave
  <2> QED
    BY <1>1, <2>2 DEF Owned!Next
<1> QED
  BY <1>6, <1>7, <1>8

\* The loop, and a change of the phase, only close connections and cancel the group.
LEMMA OwnedShut ==
  ASSUME NEW k \in Http, \A c \in CallsOf(k) : callPc'[c] = callPc[c],
         UNCHANGED ownerVars, closing[k] \in BOOLEAN, closing'[k] \in BOOLEAN,
         closing[k] => closing'[k], GroupCancelled => GroupCancelled'
  PROVE  Owned(k)!Next
<1>1. [c \in CallsOf(k) |-> StageOf(c)]' = [c \in CallsOf(k) |-> StageOf(c)]
  BY DEF StageOf
<1>2. closing'[k] \in {closing[k], TRUE}
  OBVIOUS
<1>3. GroupCancelled' \in {GroupCancelled, TRUE}
  BY DEF GroupCancelled
<1>4. owner'[k] = owner[k] /\ started'[k] = started[k]
  BY DEF ownerVars
<1> QED
  BY <1>1, <1>2, <1>3, <1>4 DEF Owned!Next, Owned!Shut

\* A call of another connection.
LEMMA OwnedOther ==
  ASSUME IInv, NEW k \in Http, NEW c \in Calls, CallStep(c), UpstreamOf[c] # k
  PROVE  UNCHANGED Owned(k)!ownedVars
<1> USE DEF runVars, ownerVars, callVars, desktopVars, serveVars
<1>1. callPc \in [Calls -> CallStates]
      /\ owner \in [Http -> {"none", "running", "ended"}] /\ started \in [Http -> Nat]
  BY DEF IInv, TypeOK
<1>2. ASSUME NEW d \in CallsOf(k) PROVE callPc'[d] = callPc[d]
  <2>1. d \in Calls /\ d # c /\ UpstreamOf[d] # UpstreamOf[c]
    BY <1>2 DEF CallsOf
  <2>2. CASE CallDrops(c)
    BY <1>1, <2>1, <2>2 DEF CallDrops, Detach
  <2>3. CASE UNCHANGED callPc \/ \E v : callPc' = [callPc EXCEPT ![c] = v]
    BY <1>1, <2>1, <2>3
  <2> QED
    BY <2>2, <2>3 DEF CallStep, CallProgress, CallTurnedAway, CallNotRunning, CallEnters,
      CallDesktop, CallMade, CallLeaves, CallLocked, CallAnswered
<1>3. UNCHANGED <<phase, how, closing>>
  BY DEF CallStep, CallProgress, CallTurnedAway, CallNotRunning, CallEnters, CallDesktop,
    CallMade, CallLeaves, CallDrops, CallLocked, CallAnswered
<1>4. owner'[k] = owner[k] /\ started'[k] = started[k]
  <2>1. CASE UNCHANGED ownerVars
    BY <2>1
  <2>2. CASE CallLocked(c)
    BY <1>1, <2>2 DEF CallLocked
  <2> QED
    BY <2>1, <2>2 DEF CallStep, CallProgress, CallTurnedAway, CallNotRunning, CallEnters,
      CallDesktop, CallMade, CallLeaves, CallDrops, CallAnswered
<1> QED
  BY <1>2, <1>3, <1>4, SameStage, OwnedStutter DEF GroupCancelled

\* A call of k that changes its place and nothing that OwnedConnection tells apart.
LEMMA OwnedMoves ==
  ASSUME TypeOK, NEW k \in Http, NEW c \in Calls, NEW v \in CallStates,
         callPc' = [callPc EXCEPT ![c] = v], StageOf(c)' = StageOf(c),
         UNCHANGED <<runVars, closing, ownerVars>>
  PROVE  UNCHANGED Owned(k)!ownedVars
<1>1. \A d \in CallsOf(k) : d # c => callPc'[d] = callPc[d]
  BY DEF TypeOK, CallsOf
<1>2. \A d \in CallsOf(k) : StageOf(d)' = StageOf(d)
  BY <1>1, SameStage
<1> QED
  BY <1>2, OwnedStutter DEF runVars, ownerVars, GroupCancelled

\* A call of k itself.
LEMMA OwnedOwn ==
  ASSUME IInv, NEW k \in Http, NEW c \in Calls, CallStep(c), UpstreamOf[c] = k
  PROVE  Owned(k)!Next \/ UNCHANGED Owned(k)!ownedVars
<1> USE DEF runVars, ownerVars
<1>1. TypeOK /\ k \notin Desktops
  BY DEF IInv, Http
<1>2. callPc \in [Calls -> CallStates]
      /\ owner \in [Http -> {"none", "running", "ended"}] /\ started \in [Http -> Nat]
  BY DEF IInv, TypeOK
<1>3. UNCHANGED <<phase, how, closing>> /\ GroupCancelled' = GroupCancelled
  BY DEF CallStep, CallProgress, CallTurnedAway, CallNotRunning, CallEnters, CallDesktop,
    CallMade, CallLeaves, CallDrops, CallLocked, CallAnswered, GroupCancelled
<1>4. CASE CallTurnedAway(c) \/ CallNotRunning(c) \/ CallLeaves(c)
  <2>1. PICK v \in {"turnedAway", "raised", "gone"} :
          /\ callPc' = [callPc EXCEPT ![c] = v]
          /\ callPc[c] \in {"idle", "locking", "waiting", "called"}
          /\ UNCHANGED ownerVars
    BY <1>4 DEF CallTurnedAway, CallNotRunning, CallLeaves
  <2>2. StageOf(c) # "gone" /\ v \in CallStates
    BY <2>1 DEF StageOf, CallStates
  <2> QED
    BY <1>1, <1>3, <2>1, <2>2, OwnedCall
<1>5. CASE CallEnters(c) \/ CallMade(c)
  <2>1. PICK v \in {"locking", "called"} :
          /\ callPc' = [callPc EXCEPT ![c] = v]
          /\ callPc[c] = IF v = "locking" THEN "idle" ELSE "waiting"
          /\ UNCHANGED <<runVars, closing, ownerVars>>
    BY <1>5 DEF CallEnters, CallMade
  <2>2. v \in CallStates
    BY DEF CallStates
  <2>3. StageOf(c)' = StageOf(c)
    BY <1>2, <2>1 DEF StageOf
  <2> QED
    BY <1>1, <2>1, <2>2, <2>3, OwnedMoves
<1>6. CASE CallAnswered(c)
  <2>1. callPc[c] \in {"waiting", "called"} /\ owner[k] = "running"
        /\ callPc' = [callPc EXCEPT ![c] = "answered"] /\ UNCHANGED ownerVars
    BY <1>1, <1>6 DEF CallAnswered
  <2>2. StageOf(c) = "waiting" /\ "answered" \in CallStates
    BY <2>1 DEF StageOf, CallStates
  <2> QED
    BY <1>1, <1>3, <2>1, <2>2, OwnedCall
<1>7. CASE CallLocked(c)
  <2>1. StageOf(c) = "idle"
    BY <1>7 DEF CallLocked, StageOf
  <2>2. CASE \E v \in {"raised", "inactive", "gone"} :
               callPc' = [callPc EXCEPT ![c] = v] /\ UNCHANGED ownerVars
    <3>1. PICK v \in {"raised", "inactive", "gone"} :
            callPc' = [callPc EXCEPT ![c] = v] /\ UNCHANGED ownerVars
      BY <2>2
    <3>2. v \in CallStates
      BY DEF CallStates
    <3> QED
      BY <1>1, <1>3, <2>1, <3>1, <3>2, OwnedCall
  <2>3. CASE /\ ~closing[k] /\ owner[k] # "ended"
             /\ callPc' = [callPc EXCEPT ![c] = "waiting"]
             /\ owner'[k] = "running"
             /\ started'[k] = IF owner[k] = "none" THEN started[k] + 1 ELSE started[k]
    <3>1. "waiting" \in CallStates
      BY DEF CallStates
    <3> QED
      BY <1>1, <1>3, <2>1, <2>3, <3>1, OwnedCall
  <2> QED
    BY <1>2, <1>7, <2>2, <2>3 DEF CallLocked, ShutsDown, IsFirst
<1> QED
  BY <1>1, <1>4, <1>5, <1>6, <1>7 DEF CallStep, CallProgress, CallDesktop, CallDrops

\* Detaching desktop connections is nothing to the calls of an HTTP connection.
LEMMA DetachOthers ==
  ASSUME TypeOK, NEW k \in Http, NEW D, D \subseteq Desktops, Detach(D)
  PROVE  \A c \in CallsOf(k) : callPc'[c] = callPc[c]
BY DEF TypeOK, CallsOf, Http, Detach

LEMMA OwnedRun ==
  ASSUME IInv, NEW k \in Http, StartFails \/ Start \/ EndBody \/ Shutdown
  PROVE  Owned(k)!Next \/ UNCHANGED Owned(k)!ownedVars
<1>1. k \in Connections /\ closed \in 0..Len(Order) /\ closing \in [Connections -> BOOLEAN]
  BY DEF Http, IInv, TypeOK
<1>2. CASE StartFails \/ Start \/ Exit
  <2>1. UNCHANGED <<how, closing, owner, started, callPc>>
    BY <1>2 DEF StartFails, Start, Exit, ownerVars, callVars
  <2>2. GroupCancelled' = GroupCancelled
    BY <1>2, <2>1 DEF StartFails, Start, Exit, GroupCancelled
  <2> QED
    BY <2>1, <2>2, SameStage, OwnedStutter
<1>3. CASE EndBody \/ CloseNext
  <2>1. CloseOn /\ UNCHANGED ownerVars
    BY <1>3 DEF EndBody, CloseNext
  <2>2. \A c \in CallsOf(k) : callPc'[c] = callPc[c]
    BY <1>1, <2>1, CloseLoop, DetachOthers DEF IInv
  <2>3. closing'[k] \in BOOLEAN /\ (closing[k] => closing'[k])
    BY <1>1, <2>1, CloseLoop
  <2>4. ~GroupCancelled
    BY <1>3 DEF EndBody, CloseNext, GroupCancelled, IInv, PhaseInv
  <2> QED
    BY <1>1, <2>1, <2>2, <2>3, <2>4, OwnedShut
<1> QED
  BY <1>2, <1>3 DEF Shutdown

LEMMA OwnedSockets ==
  ASSUME IInv, NEW k \in Http, NEW s \in Sockets, Arrives(s) \/ Registers(s) \/ Leaves(s)
  PROVE  UNCHANGED Owned(k)!ownedVars
<1>1. UNCHANGED <<runVars, closing, ownerVars>>
  BY DEF Arrives, Registers, Leaves
<1>2. \A c \in CallsOf(k) : callPc'[c] = callPc[c]
  <2>1. CASE Leaves(s)
    <3>1. target[s] \in Desktops
      BY <2>1 DEF Leaves, IInv, TargetInv
    <3> QED
      BY <2>1, <3>1, DetachOthers DEF Leaves, IInv
  <2> QED
    BY <2>1 DEF Arrives, Registers, callVars
<1> QED
  BY <1>1, <1>2, SameStage, OwnedStutter DEF runVars, ownerVars, GroupCancelled

LEMMA OwnedEnds ==
  ASSUME IInv, NEW k \in Http, NEW h \in Http, OwnerEnds(h)
  PROVE  Owned(k)!Next \/ UNCHANGED Owned(k)!ownedVars
<1>1. owner[h] = "running" /\ owner' = [owner EXCEPT ![h] = "ended"]
      /\ ((closing[h] /\ Drained(h)) \/ GroupCancelled)
      /\ UNCHANGED <<phase, how, closing, started, callPc>>
  BY DEF OwnerEnds, runVars, callVars
<1>2. GroupCancelled' = GroupCancelled /\ \A c \in CallsOf(k) : StageOf(c)' = StageOf(c)
  BY <1>1, SameStage DEF GroupCancelled
<1>3. CASE h # k
  BY <1>1, <1>2, <1>3, OwnedStutter DEF IInv, TypeOK
<1>4. CASE h = k
  <2>1. Drained(k) => \A c \in CallsOf(k) : StageOf(c) # "waiting"
    BY DEF Drained, CallsOf, StageOf
  <2>2. owner[k] = "running" /\ owner'[k] = "ended" /\ started'[k] = started[k]
        /\ closing'[k] = closing[k]
    BY <1>1, <1>4 DEF IInv, TypeOK
  <2>3. [c \in CallsOf(k) |-> StageOf(c)]' = [c \in CallsOf(k) |-> StageOf(c)]
    BY <1>2
  <2> QED
    BY <1>1, <1>2, <1>4, <2>1, <2>2, <2>3 DEF Owned!Next, Owned!OwnerEnds
<1> QED
  BY <1>3, <1>4

LEMMA OwnedStep ==
  IInv /\ [Next]_vars => \A k \in Http : [Owned(k)!Next]_(Owned(k)!ownedVars)
<1> SUFFICES ASSUME IInv, [Next]_vars, NEW k \in Http
             PROVE  Owned(k)!Next \/ UNCHANGED Owned(k)!ownedVars
  OBVIOUS
<1>1. CASE UNCHANGED vars
  <2>1. UNCHANGED <<phase, how, closing, owner, started, callPc>>
    BY <1>1 DEF vars, runVars, ownerVars, callVars
  <2> QED
    BY <2>1, SameStage, OwnedStutter DEF GroupCancelled
<1> QED
  BY <1>1, OwnedRun, OwnedOther, OwnedOwn, OwnedSockets, OwnedEnds DEF Next

\* Every HTTP connection implements OwnedConnection, for any catalog, calls and sockets:
\* however the first calls queue for the lock while the Hub closes other connections, one
\* owner is started, and it ends only when it has dealt with every call it accepted, or is
\* cancelled.
THEOREM OwnersImplement == Spec => OwnedSpec
<1>1. IInv /\ [Next]_vars => [\A k \in Http : [Owned(k)!Next]_(Owned(k)!ownedVars)]_vars
  BY OwnedStep
<1> QED
  BY <1>1, OwnedInit, InvAlways, PTL DEF Spec, OwnedSpec

-----------------------------------------------------------------------------
(* DesktopConnection.                                                      *)

Callers(k) == [c \in CallsOf(k) |-> CallerOf(c)]
Serves(k) == [s \in Sockets |-> ServingOf(k, s)]

LEMMA DesktopInit == Init => \A k \in Desktops : Desktop(k)!Init
<1> SUFFICES ASSUME Init, NEW k \in Desktops PROVE Desktop(k)!Init
  OBVIOUS
<1>1. k \in Connections
  BY LifecycleAssumption
<1>2. \A c \in CallsOf(k) : CallerOf(c) = "idle"
  BY DEF Init, CallerOf, CallsOf
<1>3. \A s \in Sockets : ServingOf(k, s) = "new"
  BY DEF Init, ServingOf
<1>4. socket[k] = NoSocket /\ connected[k] = FALSE /\ closing[k] = FALSE
  BY <1>1 DEF Init
<1> QED
  BY <1>2, <1>3, <1>4 DEF Desktop!Init

LEMMA CallersKept ==
  ASSUME NEW k, \A c \in CallsOf(k) : callPc'[c] = callPc[c]
  PROVE  Callers(k)' = Callers(k)
<1>1. \A c \in CallsOf(k) : CallerOf(c)' = CallerOf(c)
  BY DEF CallerOf
<1> QED
  BY <1>1 DEF Callers, CallsOf

LEMMA ServesKept ==
  ASSUME NEW k, UNCHANGED serveVars
  PROVE  Serves(k)' = Serves(k)
BY DEF Serves, ServingOf, serveVars

\* A step that the calls and the socket of k do not see.
LEMMA DesktopStutter ==
  ASSUME NEW k, Callers(k)' = Callers(k), Serves(k)' = Serves(k), socket'[k] = socket[k],
         connected'[k] = connected[k], closing'[k] = closing[k]
  PROVE  UNCHANGED Desktop(k)!desktopVars
BY DEF Desktop!desktopVars, Callers, Serves

\* A call of k goes on, and no other one.
LEMMA CallersMove ==
  ASSUME TypeOK, NEW k, NEW c \in CallsOf(k), NEW v, callPc' = [callPc EXCEPT ![c] = v]
  PROVE  /\ Callers(k)' = [Callers(k) EXCEPT ![c] = CallerOf(c)'] /\ callPc'[c] = v
         /\ Callers(k)[c] = CallerOf(c)
<1>1. c \in Calls /\ callPc \in [Calls -> CallStates]
  BY DEF CallsOf, TypeOK
<1>2. callPc'[c] = v /\ \A d \in CallsOf(k) : d # c => callPc'[d] = callPc[d]
  BY <1>1 DEF CallsOf
<1>3. \A d \in CallsOf(k) : d # c => CallerOf(d)' = CallerOf(d)
  BY <1>2 DEF CallerOf
<1> QED
  BY <1>2, <1>3 DEF Callers, CallsOf

\* Detaching k, and what else is detached with it, gives its socket up.
LEMMA DetachGivesUp ==
  ASSUME TypeOK, NEW k \in Desktops, NEW D, k \in D, Detach(D),
         NEW due \in SUBSET CallsOf(k), \A c \in due : callPc[c] = "called"
  PROVE  Desktop(k)!GiveUp(due)
<1>1. socket'[k] = NoSocket /\ connected'[k] = FALSE
  BY DEF Detach
<1>2. ASSUME NEW c \in CallsOf(k)
      PROVE  CallerOf(c)' = IF c \in due \/ Callers(k)[c] = "called"
                            THEN "done" ELSE Callers(k)[c]
  <2>1. c \in Calls /\ UpstreamOf[c] \in D /\ Callers(k)[c] = CallerOf(c)
    BY DEF CallsOf, Callers
  <2>2. callPc'[c] = IF callPc[c] = "called" THEN "answered" ELSE callPc[c]
    BY <2>1 DEF Detach
  <2>3. CASE callPc[c] = "called"
    BY <2>1, <2>2, <2>3 DEF CallerOf
  <2>4. CASE callPc[c] # "called"
    <3>1. CallerOf(c)' = CallerOf(c) /\ c \notin due /\ CallerOf(c) # "called"
      BY <2>2, <2>4 DEF CallerOf
    <3> QED
      BY <2>1, <3>1
  <2> QED
    BY <2>3, <2>4
<1>3. Callers(k)' = [c \in CallsOf(k) |-> IF c \in due \/ Callers(k)[c] = "called"
                                          THEN "done" ELSE Callers(k)[c]]
  BY <1>2 DEF Callers, CallsOf
<1> QED
  BY <1>1, <1>3 DEF Desktop!GiveUp, Callers

\* Detaching other connections is nothing to k.
LEMMA DetachElsewhere ==
  ASSUME TypeOK, NEW k \in Desktops, NEW D, k \notin D, Detach(D)
  PROVE  Callers(k)' = Callers(k) /\ socket'[k] = socket[k] /\ connected'[k] = connected[k]
<1>1. \A c \in CallsOf(k) : callPc'[c] = callPc[c]
  BY DEF CallsOf, Detach
<1>2. socket'[k] = socket[k] /\ connected'[k] = connected[k]
  BY DEF Detach, TypeOK
<1> QED
  BY <1>1, <1>2, CallersKept


\* A call of another connection.
LEMMA DesktopOther ==
  ASSUME IInv, NEW k \in Desktops, NEW c \in Calls, CallStep(c), UpstreamOf[c] # k
  PROVE  UNCHANGED Desktop(k)!desktopVars
<1> USE DEF callVars, desktopVars
<1>1. TypeOK /\ callPc \in [Calls -> CallStates]
  BY DEF IInv, TypeOK
<1>2. UNCHANGED <<closing, serveVars>>
  BY DEF CallStep, CallProgress, CallTurnedAway, CallNotRunning, CallEnters, CallDesktop,
    CallMade, CallLeaves, CallDrops, CallLocked, CallAnswered
<1>3. CASE CallDrops(c)
  BY <1>1, <1>2, <1>3, DetachElsewhere, ServesKept, DesktopStutter DEF CallDrops
<1>4. CASE UNCHANGED desktopVars /\ \E v : callPc' = [callPc EXCEPT ![c] = v]
  <2>1. \A d \in CallsOf(k) : callPc'[d] = callPc[d]
    BY <1>1, <1>4 DEF CallsOf
  <2> QED
    BY <1>2, <1>4, <2>1, CallersKept, ServesKept, DesktopStutter
<1> QED
  BY <1>3, <1>4 DEF CallStep, CallProgress, CallTurnedAway, CallNotRunning, CallEnters,
    CallDesktop, CallMade, CallLeaves, CallLocked, CallAnswered

\* A call of k itself: it is turned away, made, answered or given up.
LEMMA DesktopOwn ==
  ASSUME IInv, NEW k \in Desktops, NEW c \in Calls, CallStep(c), UpstreamOf[c] = k
  PROVE  Desktop(k)!Next
<1> USE DEF callVars, desktopVars
<1>1. TypeOK /\ k \notin Http /\ c \in CallsOf(k)
  BY DEF IInv, Http, CallsOf
<1>2. callPc[c] \notin {"locking", "waiting"}
  BY <1>1 DEF IInv, QueueInv
<1>3. UNCHANGED <<closing, serveVars>> /\ Serves(k)' = Serves(k)
  BY ServesKept DEF CallStep, CallProgress, CallTurnedAway, CallNotRunning, CallEnters,
    CallDesktop, CallMade, CallLeaves, CallDrops, CallLocked, CallAnswered
<1>4. CASE CallDrops(c)
  <2>1. {c} \in SUBSET CallsOf(k) /\ callPc[c] = "called" /\ Detach({k})
    BY <1>1, <1>4 DEF CallDrops
  <2>2. PICK D : D = {k}
    OBVIOUS
  <2>3. PICK due : due = {c}
    OBVIOUS
  <2>4. Desktop(k)!GiveUp(due)
    BY <1>1, <2>1, <2>2, <2>3, DetachGivesUp
  <2>5. Desktop(k)!Fail(c)
    BY <1>3, <2>3, <2>4 DEF Desktop!Fail, Serves
  <2> QED
    BY <1>1, <2>5 DEF Desktop!Next
<1>5. CASE /\ callPc[c] \in {"idle", "called"} /\ UNCHANGED desktopVars
           /\ \E v \in {"turnedAway", "raised", "answered"} : callPc' = [callPc EXCEPT ![c] = v]
  <2>1. PICK v \in {"turnedAway", "raised", "answered"} : callPc' = [callPc EXCEPT ![c] = v]
    BY <1>5
  <2>2. /\ Callers(k)' = [Callers(k) EXCEPT ![c] = CallerOf(c)'] /\ callPc'[c] = v
        /\ Callers(k)[c] = CallerOf(c)
    BY <1>1, <2>1, CallersMove
  <2>3. CallerOf(c)' = "done" /\ CallerOf(c) # "done"
    BY <1>5, <2>1, <2>2 DEF CallerOf
  <2>4. Desktop(k)!Settle(c)
    BY <1>3, <1>5, <2>2, <2>3 DEF Desktop!Settle, Callers, Serves
  <2> QED
    BY <1>1, <2>4 DEF Desktop!Next
<1>6. CASE CallDesktop(c) /\ ~Offline(k)
  <2>1. callPc[c] = "idle" /\ callPc' = [callPc EXCEPT ![c] = "called"]
        /\ UNCHANGED desktopVars
        /\ connected[k] /\ socket[k] # NoSocket /\ ~closing[k]
        /\ \A x \in CallsOf(k) : callPc[x] # "called"
    BY <1>6 DEF CallDesktop, Offline, CallsOf
  <2>2. PICK v \in {"called"} : callPc' = [callPc EXCEPT ![c] = v]
    BY <2>1
  <2>3. /\ Callers(k)' = [Callers(k) EXCEPT ![c] = CallerOf(c)'] /\ callPc'[c] = v
        /\ Callers(k)[c] = CallerOf(c)
    BY <1>1, <2>2, CallersMove
  <2>4. CallerOf(c)' = "called" /\ CallerOf(c) = "idle"
    BY <2>1, <2>2, <2>3 DEF CallerOf
  <2>5. \A x \in CallsOf(k) : Callers(k)[x] # "called"
    BY <2>1 DEF CallerOf, Callers
  <2>6. Desktop(k)!Call(c)
    BY <1>3, <2>1, <2>3, <2>4, <2>5 DEF Desktop!Call, Callers, Serves
  <2> QED
    BY <1>1, <2>6 DEF Desktop!Next
<1>7. CallTurnedAway(c) \/ CallNotRunning(c) \/ CallAnswered(c) \/ CallDesktop(c)
      \/ CallDrops(c)
  BY <1>1, <1>2 DEF CallStep, CallProgress, CallEnters, CallMade, CallLeaves, CallLocked
<1> QED
  BY <1>2, <1>4, <1>5, <1>6, <1>7 DEF CallTurnedAway, CallNotRunning, CallAnswered,
    CallDesktop

\* The loop closes k, or does not come to it.
LEMMA DesktopRun ==
  ASSUME IInv, NEW k \in Desktops, StartFails \/ Start \/ EndBody \/ Shutdown
  PROVE  Desktop(k)!Next \/ UNCHANGED Desktop(k)!desktopVars
<1>1. TypeOK /\ k \in Connections /\ closed \in 0..Len(Order)
      /\ closing \in [Connections -> BOOLEAN]
  BY LifecycleAssumption DEF IInv, TypeOK
<1>2. CASE StartFails \/ Start \/ Exit
  BY <1>2, CallersKept, ServesKept, DesktopStutter DEF StartFails, Start, Exit, callVars,
    desktopVars
<1>3. CASE EndBody \/ CloseNext
  <2>1. CloseOn /\ UNCHANGED serveVars
    BY <1>3 DEF EndBody, CloseNext
  <2>2. PICK D : D = Desktops \cap ClosedNow(closed, closed')
    OBVIOUS
  <2>3. Detach(D) /\ closing'[k] = (closing[k] \/ k \in D)
    BY <1>1, <2>1, <2>2, CloseLoop
  <2>4. Serves(k)' = Serves(k)
    BY <2>1, ServesKept
  <2>5. CASE k \in D
    <3>1. PICK due \in SUBSET CallsOf(k) : due = {}
      OBVIOUS
    <3>2. Desktop(k)!GiveUp(due)
      BY <1>1, <2>3, <2>5, <3>1, DetachGivesUp
    <3>3. Desktop(k)!Close
      BY <2>3, <2>4, <2>5, <3>1, <3>2 DEF Desktop!Close, Serves
    <3> QED
      BY <3>3 DEF Desktop!Next
  <2>6. CASE k \notin D
    <3>1. closing'[k] = closing[k]
      BY <1>1, <2>3, <2>6
    <3> QED
      BY <1>1, <2>3, <2>4, <2>6, <3>1, DetachElsewhere, DesktopStutter
  <2> QED
    BY <2>5, <2>6
<1> QED
  BY <1>2, <1>3 DEF Shutdown


\* The connection that the path names sees a socket arrive, and sees only its own.
LEMMA DesktopArrives ==
  ASSUME IInv, NEW k \in Desktops, NEW s \in Sockets, Arrives(s)
  PROVE  Desktop(k)!Next \/ UNCHANGED Desktop(k)!desktopVars
<1>1. /\ socket \in [Desktops -> Sockets \cup {NoSocket}] /\ target[s] = NoConnection
      /\ servePc \in [Sockets -> ServeStates] /\ servePc[s] = "new"
      /\ target \in [Sockets -> Desktops \cup {NoConnection}]
  BY DEF IInv, TypeOK, TargetInv, Arrives
<1>2. Callers(k)' = Callers(k) /\ UNCHANGED <<closing, connected>>
  BY CallersKept DEF Arrives, callVars
<1>3. ASSUME NEW t \in Sockets, t # s, servePc'[t] = servePc[t], target'[t] = target[t]
      PROVE  ServingOf(k, t)' = ServingOf(k, t)
  BY <1>3 DEF ServingOf
<1>4. ASSUME NEW d \in Desktops, ~closing[d], socket[d] = NoSocket,
             socket' = [socket EXCEPT ![d] = s],
             servePc' = [servePc EXCEPT ![s] = "hello"], target' = [target EXCEPT ![s] = d]
      PROVE  Desktop(k)!Next \/ UNCHANGED Desktop(k)!desktopVars
  <2>1. \A t \in Sockets : t # s => ServingOf(k, t)' = ServingOf(k, t)
    BY <1>1, <1>3, <1>4
  <2>2. ServingOf(k, s) = "new" /\ ServingOf(k, s)' = IF d = k THEN "hello" ELSE "new"
    BY <1>1, <1>4 DEF ServingOf
  <2>3. CASE d = k
    <3>1. Serves(k)' = [Serves(k) EXCEPT ![s] = "hello"] /\ Serves(k)[s] = "new"
      BY <2>1, <2>2, <2>3 DEF Serves
    <3>2. socket'[k] = s
      BY <1>1, <1>4, <2>3
    <3>3. Desktop(k)!Attach(s)
      BY <1>2, <1>4, <2>3, <3>1, <3>2 DEF Desktop!Attach, Callers, Serves
    <3> QED
      BY <3>3 DEF Desktop!Next
  <2>4. CASE d # k
    <3>1. Serves(k)' = Serves(k)
      BY <2>1, <2>2, <2>4 DEF Serves
    <3>2. socket'[k] = socket[k]
      BY <1>1, <1>4, <2>4
    <3> QED
      BY <1>2, <3>1, <3>2, DesktopStutter
  <2> QED
    BY <2>3, <2>4
<1>5. ASSUME servePc' = [servePc EXCEPT ![s] = "rejected"], UNCHANGED <<socket, target>>
      PROVE  UNCHANGED Desktop(k)!desktopVars
  <2>1. \A t \in Sockets : t # s => ServingOf(k, t)' = ServingOf(k, t)
    BY <1>1, <1>3, <1>5
  <2>2. ServingOf(k, s)' = ServingOf(k, s)
    BY <1>1, <1>5, LifecycleAssumption DEF ServingOf
  <2>3. Serves(k)' = Serves(k)
    BY <2>1, <2>2 DEF Serves
  <2> QED
    BY <1>2, <1>5, <2>3, DesktopStutter
<1> QED
  BY <1>4, <1>5 DEF Arrives, Admits, Occupied

\* What a socket does that was admitted is seen by the connection it came to.
LEMMA ServesMove ==
  ASSUME TypeOK, NEW k \in Desktops, NEW s \in Sockets, NEW v, target' = target,
         servePc' = [servePc EXCEPT ![s] = v]
  PROVE  /\ target[s] # k => Serves(k)' = Serves(k)
         /\ target[s] = k => /\ Serves(k)' = [Serves(k) EXCEPT ![s] = v]
                             /\ Serves(k)[s] = servePc[s]
<1>1. servePc'[s] = v /\ \A t \in Sockets : t # s => servePc'[t] = servePc[t]
  BY DEF TypeOK
<1>2. \A t \in Sockets : t # s => ServingOf(k, t)' = ServingOf(k, t)
  BY <1>1 DEF ServingOf
<1>3. target[s] # k => ServingOf(k, s)' = ServingOf(k, s)
  BY DEF ServingOf
<1>4. target[s] = k => ServingOf(k, s)' = v /\ ServingOf(k, s) = servePc[s]
  BY <1>1 DEF ServingOf
<1> QED
  BY <1>2, <1>3, <1>4 DEF Serves

LEMMA DesktopRegisters ==
  ASSUME IInv, NEW k \in Desktops, NEW s \in Sockets, Registers(s)
  PROVE  Desktop(k)!Next \/ UNCHANGED Desktop(k)!desktopVars
<1>1. TypeOK /\ connected \in [Desktops -> BOOLEAN]
  BY DEF IInv, TypeOK
<1>2. Callers(k)' = Callers(k) /\ UNCHANGED <<closing, socket, target>>
      /\ servePc[s] = "hello" /\ connected' = [connected EXCEPT ![target[s]] = TRUE]
  BY CallersKept DEF Registers, callVars
<1>3. PICK v \in {"ready"} : servePc' = [servePc EXCEPT ![s] = v]
  BY DEF Registers
<1>4. /\ target[s] # k => Serves(k)' = Serves(k)
      /\ target[s] = k => /\ Serves(k)' = [Serves(k) EXCEPT ![s] = v]
                          /\ Serves(k)[s] = servePc[s]
  BY <1>1, <1>2, <1>3, ServesMove
<1>5. CASE target[s] = k
  <2>1. connected'[k] = TRUE
    BY <1>1, <1>2, <1>5
  <2>2. Desktop(k)!Register(s)
    BY <1>2, <1>4, <1>5, <2>1 DEF Desktop!Register, Callers, Serves
  <2> QED
    BY <2>2 DEF Desktop!Next
<1>6. CASE target[s] # k
  <2>1. connected'[k] = connected[k]
    BY <1>1, <1>2, <1>6
  <2> QED
    BY <1>2, <1>4, <1>6, <2>1, DesktopStutter
<1> QED
  BY <1>5, <1>6

LEMMA DesktopLeaves ==
  ASSUME IInv, NEW k \in Desktops, NEW s \in Sockets, Leaves(s)
  PROVE  Desktop(k)!Next \/ UNCHANGED Desktop(k)!desktopVars
<1>1. TypeOK
  BY DEF IInv
<1>2. UNCHANGED <<closing, target>> /\ servePc[s] \in {"hello", "ready"}
      /\ \/ socket[target[s]] = s /\ Detach({target[s]})
         \/ socket[target[s]] # s /\ UNCHANGED <<desktopVars, callPc>>
  BY DEF Leaves
<1>3. PICK v \in {"left"} : servePc' = [servePc EXCEPT ![s] = v]
  BY DEF Leaves
<1>4. /\ target[s] # k => Serves(k)' = Serves(k)
      /\ target[s] = k => /\ Serves(k)' = [Serves(k) EXCEPT ![s] = v]
                          /\ Serves(k)[s] = servePc[s]
  BY <1>1, <1>2, <1>3, ServesMove
<1>5. PICK D : D = {target[s]}
  OBVIOUS
<1>6. CASE target[s] = k
  <2>1. CASE socket[k] = s /\ Detach(D)
    <3>1. PICK due \in SUBSET CallsOf(k) : due = {}
      OBVIOUS
    <3>2. Desktop(k)!GiveUp(due)
      BY <1>1, <1>5, <1>6, <2>1, <3>1, DetachGivesUp
    <3>3. Desktop(k)!Leave(s)
      BY <1>2, <1>4, <1>6, <2>1, <3>1, <3>2 DEF Desktop!Leave, Serves
    <3> QED
      BY <3>3 DEF Desktop!Next
  <2>2. CASE socket[k] # s /\ UNCHANGED <<desktopVars, callPc>>
    <3>1. Callers(k)' = Callers(k)
      BY <2>2, CallersKept
    <3>2. Desktop(k)!Leave(s)
      BY <1>2, <1>4, <1>6, <2>2, <3>1 DEF Desktop!Leave, Callers, Serves, desktopVars
    <3> QED
      BY <3>2 DEF Desktop!Next
  <2> QED
    BY <1>2, <1>5, <1>6, <2>1, <2>2
<1>7. CASE target[s] # k
  <2>1. CASE Detach(D)
    <3>1. k \notin D
      BY <1>5, <1>7
    <3> QED
      BY <1>1, <1>2, <1>4, <1>7, <2>1, <3>1, DetachElsewhere, DesktopStutter
  <2>2. CASE UNCHANGED <<desktopVars, callPc>>
    BY <1>2, <1>4, <1>7, <2>2, CallersKept, DesktopStutter DEF desktopVars
  <2> QED
    BY <1>2, <1>5, <2>1, <2>2
<1> QED
  BY <1>6, <1>7

LEMMA DesktopStep ==
  IInv /\ [Next]_vars => \A k \in Desktops : [Desktop(k)!Next]_(Desktop(k)!desktopVars)
<1> SUFFICES ASSUME IInv, [Next]_vars, NEW k \in Desktops
             PROVE  Desktop(k)!Next \/ UNCHANGED Desktop(k)!desktopVars
  OBVIOUS
<1>1. CASE UNCHANGED vars \/ \E h \in Http : OwnerEnds(h)
  BY <1>1, CallersKept, ServesKept, DesktopStutter DEF vars, OwnerEnds, callVars, desktopVars
<1> QED
  BY <1>1, DesktopRun, DesktopOther, DesktopOwn, DesktopArrives, DesktopRegisters,
    DesktopLeaves DEF Next

\* Every desktop connection implements DesktopConnection, for any catalog, calls and sockets:
\* whichever of several desktops come, break and are closed at once, in whatever part of
\* the shutdown, none is given a socket that came to another one, or one once it is closed,
\* and a call is settled by whoever gives up the socket that it went to.
THEOREM DesktopsImplement == Spec => DesktopSpec
<1>1. IInv /\ [Next]_vars
      => [\A k \in Desktops : [Desktop(k)!Next]_(Desktop(k)!desktopVars)]_vars
  BY DesktopStep
<1> QED
  BY <1>1, DesktopInit, InvAlways, PTL DEF Spec, DesktopSpec

-----------------------------------------------------------------------------
(* The calls that wait when the Hub begins to stop.                        *)

\* What has not left its queue has not been made.
SentInv == \A c \in Calls : callPc[c] \in {"idle", "locking", "waiting"} => c \notin sent

\* The end of run() begins with the first connection, without an await before it.
FirstInv == how # "none" => closed >= 1 \/ Len(Order) = 0

\* Of the calls that waited then, those of the first connection are not made.
StrandedInv ==
  /\ how = "none" => stranded = {}
  /\ \A c \in stranded : callPc[c] \notin {"idle", "locking"}
  /\ \A c \in stranded \cap sent : UpstreamOf[c] # Order[1]

WaitInv == IInv /\ SentInv /\ FirstInv /\ StrandedInv

LEMMA FirstCloses ==
  ASSUME WaitInv, how # "none", NEW c \in Calls, UpstreamOf[c] = Order[1]
  PROVE  closing[Order[1]]
<1>1. Order[1] \in Connections /\ closed \in 0..Len(Order)
  BY LifecycleAssumption DEF WaitInv, IInv, TypeOK
<1>2. Len(Order) # 0
  BY OrderLength, LifecycleAssumption DEF Connections
<1>3. Order[1] \in ClosedNow(0, closed)
  BY <1>1, <1>2, OrderLength DEF WaitInv, FirstInv, ClosedNow
<1> QED
  BY <1>1, <1>3 DEF WaitInv, IInv, ClosingInv

\* The loop always gets past the connection that it comes to.
LEMMA LoopAdvances ==
  ASSUME TypeOK, CloseOn
  PROVE  closed' \in Nat /\ closed' >= closed /\ (closed' >= 1 \/ Len(Order) = 0)
BY OrderLength DEF CloseOn, TypeOK

LEMMA WaitCloses ==
  ASSUME WaitInv, EndBody \/ CloseNext
  PROVE  SentInv' /\ FirstInv' /\ StrandedInv'
<1>1. CloseOn /\ UNCHANGED sent /\ TypeOK
  BY DEF EndBody, CloseNext, WaitInv, IInv
<1>2. FirstInv'
  BY <1>1, LoopAdvances DEF FirstInv
<1>3. \A c \in Calls : callPc'[c] = callPc[c] \/ (callPc[c] = "called" /\ callPc'[c] = "answered")
  BY <1>1 DEF CloseOn, Detach
<1>4. SentInv'
  BY <1>1, <1>3 DEF WaitInv, SentInv
<1>5. CASE EndBody
  <2>1. stranded' = {c \in Calls : callPc[c] = "waiting"} /\ how' # "none"
    BY <1>5 DEF EndBody
  <2> QED
    BY <1>1, <1>2, <1>3, <1>4, <2>1 DEF WaitInv, SentInv, StrandedInv
<1>6. CASE CloseNext
  <2>1. UNCHANGED <<stranded, how>> /\ stranded \subseteq Calls
    BY <1>1, <1>6 DEF CloseNext, TypeOK
  <2> QED
    BY <1>1, <1>2, <1>3, <1>4, <2>1 DEF WaitInv, StrandedInv
<1> QED
  BY <1>5, <1>6

LEMMA WaitCall ==
  ASSUME WaitInv, NEW c \in Calls, CallStep(c)
  PROVE  SentInv' /\ FirstInv' /\ StrandedInv'
<1>1. callPc \in [Calls -> CallStates] /\ stranded \subseteq Calls
  BY DEF WaitInv, IInv, TypeOK
<1>2. UNCHANGED <<how, closed, stranded, closing>> /\ FirstInv'
  BY DEF CallStep, CallProgress, CallTurnedAway, CallNotRunning, CallEnters, CallDesktop,
    CallMade, CallLeaves, CallDrops, CallLocked, CallAnswered, runVars, WaitInv, FirstInv
<1>3. CASE CallDrops(c)
  <2>1. \A d \in Calls :
          callPc'[d] = callPc[d] \/ (callPc[d] = "called" /\ callPc'[d] = "answered")
    BY <1>3 DEF CallDrops, Detach
  <2> QED
    BY <1>1, <1>2, <1>3, <2>1 DEF CallDrops, WaitInv, SentInv, StrandedInv
<1>4. CASE CallMade(c) \/ (CallDesktop(c) /\ UNCHANGED desktopVars)
  <2>1. /\ callPc'[c] \notin {"idle", "locking", "waiting"}
        /\ \A d \in Calls : d # c => callPc'[d] = callPc[d]
        /\ sent' \in {sent, sent \cup {c}}
    BY <1>1, <1>4 DEF CallMade, CallDesktop
  <2>2. SentInv'
    BY <2>1 DEF WaitInv, SentInv
  <2>3. c \in stranded /\ sent' # sent => UpstreamOf[c] # Order[1]
    <3>1. CASE CallMade(c)
      BY <3>1, FirstCloses DEF CallMade, MayMake, WaitInv, StrandedInv
    <3>2. CASE CallDesktop(c)
      BY <3>2 DEF CallDesktop, WaitInv, StrandedInv
    <3> QED
      BY <1>4, <3>1, <3>2
  <2>4. StrandedInv'
    BY <1>1, <1>2, <2>1, <2>3 DEF WaitInv, StrandedInv
  <2> QED
    BY <1>2, <2>2, <2>4
<1>5. CASE /\ UNCHANGED sent
           /\ \E v : /\ callPc' = [callPc EXCEPT ![c] = v]
                     /\ v \notin {"idle"} /\ (v = "locking" => callPc[c] = "idle")
                     /\ v = "waiting" => callPc[c] = "locking"
  <2>1. PICK v : /\ callPc' = [callPc EXCEPT ![c] = v]
                 /\ v \notin {"idle"} /\ (v = "locking" => callPc[c] = "idle")
                 /\ v = "waiting" => callPc[c] = "locking"
    BY <1>5
  <2>2. callPc'[c] = v /\ \A d \in Calls : d # c => callPc'[d] = callPc[d]
    BY <1>1, <2>1
  <2> QED
    BY <1>1, <1>2, <1>5, <2>1, <2>2 DEF WaitInv, SentInv, StrandedInv
<1> QED
  BY <1>3, <1>4, <1>5 DEF CallStep, CallProgress, CallTurnedAway, CallNotRunning, CallEnters,
    CallDesktop, CallLeaves, CallLocked, CallAnswered

LEMMA WaitStep == WaitInv /\ [Next]_vars => WaitInv'
<1> SUFFICES ASSUME WaitInv, [Next]_vars PROVE SentInv' /\ FirstInv' /\ StrandedInv'
  BY InvStep DEF WaitInv
<1> USE DEF runVars, ownerVars, callVars, serveVars
<1>1. CASE UNCHANGED <<how, closed, callPc, sent, stranded>>
  BY <1>1 DEF WaitInv, SentInv, FirstInv, StrandedInv
<1>2. ASSUME NEW s \in Sockets, Leaves(s) PROVE SentInv' /\ FirstInv' /\ StrandedInv'
  <2>1. UNCHANGED <<how, closed, sent, stranded>> /\ stranded \subseteq Calls
    BY <1>2 DEF Leaves, WaitInv, IInv, TypeOK
  <2>2. \A c \in Calls :
          callPc'[c] = callPc[c] \/ (callPc[c] = "called" /\ callPc'[c] = "answered")
    BY <1>2 DEF Leaves, Detach
  <2> QED
    BY <2>1, <2>2 DEF WaitInv, SentInv, FirstInv, StrandedInv
<1>3. CASE StartFails \/ Start \/ Exit \/ (\E k \in Http : OwnerEnds(k)) \/ UNCHANGED vars
           \/ \E s \in Sockets : Arrives(s) \/ Registers(s)
  BY <1>1, <1>3 DEF StartFails, Start, Exit, OwnerEnds, vars, Arrives, Registers
<1> QED
  BY <1>2, <1>3, WaitCloses, WaitCall DEF Next, Shutdown

LEMMA WaitInit == Init => WaitInv
BY InvInit DEF Init, WaitInv, SentInv, FirstInv, StrandedInv

\* Where the README's word on shutdown holds: a request that waits when it begins is
\* skipped, however run() ends, if its connection is the first of the catalog.  The run
\* hub_waiting shows one of a later connection that is made.
THEOREM FirstSkips == Spec => [](\A c \in stranded \cap sent : UpstreamOf[c] # Order[1])
<1>1. WaitInv => \A c \in stranded \cap sent : UpstreamOf[c] # Order[1]
  BY DEF WaitInv, StrandedInv
<1> QED
  BY <1>1, WaitInit, WaitStep, PTL DEF Spec

\* A Hub with one upstream keeps that word.
THEOREM AloneSkips == Len(Order) = 1 => (Spec => []WaitingAreSkipped)
<1> SUFFICES ASSUME Len(Order) = 1 PROVE Spec => []WaitingAreSkipped
  OBVIOUS
<1>1. WaitInv => WaitingAreSkipped
  <2> SUFFICES ASSUME WaitInv, NEW c \in stranded \cap sent PROVE FALSE
    BY DEF WaitingAreSkipped
  <2>1. c \in Calls /\ UpstreamOf[c] \in {Order[i] : i \in 1..1}
    BY LifecycleAssumption DEF WaitInv, IInv, TypeOK, Connections
  <2> QED
    BY <2>1 DEF WaitInv, StrandedInv
<1> QED
  BY <1>1, WaitInit, WaitStep, PTL DEF Spec
=============================================================================
