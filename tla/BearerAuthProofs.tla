-------------------------- MODULE BearerAuthProofs --------------------------
(* Theorems about BearerAuth, for any requests, session ids, credentials   *)
(* and size of the table.                                                  *)
EXTENDS BearerAuth, FiniteSetTheorems, TLAPS

-----------------------------------------------------------------------------
(* Sets of requests and ids are finite, and how they grow and shrink.      *)

\* Sets of requests and of ids are finite, and so are counted by natural numbers.
LEMMA FiniteParts ==
  /\ \A S \in SUBSET Requests : IsFiniteSet(S) /\ Cardinality(S) \in Nat
  /\ \A S \in SUBSET Ids : IsFiniteSet(S) /\ Cardinality(S) \in Nat
BY AuthAssumption, FS_Subset, FS_CardinalityType

\* A request counted from now on adds one.
LEMMA CountOneMore ==
  ASSUME NEW S \in SUBSET Requests, NEW r \in Requests, r \notin S
  PROVE  Cardinality(S \cup {r}) = Cardinality(S) + 1
BY FiniteParts, FS_AddElement

\* A request no longer counted takes one away, and there was one to take.
LEMMA CountOneLess ==
  ASSUME NEW S \in SUBSET Requests, NEW r \in S
  PROVE  /\ Cardinality(S \ {r}) = Cardinality(S) - 1
         /\ Cardinality(S) - 1 \in Nat /\ Cardinality(S) > 0
<1>1. Cardinality(S \ {r}) = Cardinality(S) - 1
  BY FiniteParts, FS_RemoveElement
<1>2. Cardinality(S \ {r}) \in Nat /\ Cardinality(S) \in Nat
  BY FiniteParts
<1> QED
  BY <1>1, <1>2

-----------------------------------------------------------------------------
(* The inductive invariant: types and exact counters.                      *)

\* Pruning leaves a table with fewer sessions.
LEMMA PrunedType ==
  ASSUME sessions \in [Ids -> Requests \cup {NoBinding}]
  PROVE  /\ Pruned \in [Ids -> Requests \cup {NoBinding}]
         /\ Bound(Pruned) \subseteq Bound(sessions)
BY DEF Pruned, Bound

\* Deleting leaves a table with fewer sessions.
LEMMA AfterDeleteType ==
  ASSUME NEW r \in Requests, NEW table \in [Ids -> Requests \cup {NoBinding}],
         NEW deleted \in BOOLEAN
  PROVE  /\ AfterDelete(r, table, deleted) \in [Ids -> Requests \cup {NoBinding}]
         /\ Bound(AfterDelete(r, table, deleted)) \subseteq Bound(table)
BY DEF AfterDelete, Bound

\* At the start nothing is in flight.
LEMMA IInvInit == Init => IInv
<1> SUFFICES ASSUME Init PROVE IInv
  OBVIOUS
<1>1. TypeOK
  BY DEF Init, TypeOK, RequestStates
<1>2. \A b \in Requests : Holders(b) = {}
  BY DEF Init, Holders, InFlight
<1>3. Establishing = {}
  BY DEF Init, Establishing, InFlight
<1>4. CountersAreExact
  BY <1>2, <1>3, FS_EmptySet DEF Init, CountersAreExact
<1> QED
  BY <1>1, <1>4 DEF Init, IInv, NewHoldsNothing

\* A request that is refused is counted nowhere, before and after.
LEMMA RefuseStep ==
  ASSUME IInv, NEW r \in Requests, pc[r] = "new",
         NEW status \in {"unauthorized", "forbidden", "unavailable"}, Refuse(r, status),
         sessions' \in [Ids -> Requests \cup {NoBinding}]
  PROVE  IInv'
<1> USE DEF IInv
<1>1. pc' = [pc EXCEPT ![r] = status]
      /\ pendingSessions' = pendingSessions /\ active' = active /\ idle' = idle
      /\ header' = header /\ deleting' = deleting /\ held' = held
  BY DEF Refuse
<1>2. TypeOK'
  BY <1>1 DEF TypeOK, RequestStates
<1>3. \A q \in Requests : InFlight(q)' <=> InFlight(q)
  BY <1>1 DEF InFlight, TypeOK
<1>4. Establishing' = Establishing
  BY <1>1, <1>3 DEF Establishing
<1>5. \A b \in Requests : Holders(b)' = Holders(b)
  BY <1>1, <1>3 DEF Holders
<1>6. CountersAreExact'
  BY <1>1, <1>4, <1>5 DEF CountersAreExact
<1>7. NewHoldsNothing'
  BY <1>1 DEF NewHoldsNothing, TypeOK
<1> QED
  BY <1>2, <1>6, <1>7

\* A request that resumes a session is one more holder of its binding.
LEMMA ResumeStep ==
  ASSUME IInv, NEW r \in Requests, Resume(r)
  PROVE  IInv'
<1> USE DEF IInv
<1> PICK i \in Ids :
      /\ Authenticated(r) /\ Owns(r, Pruned[i]) /\ sessions' = Pruned
      /\ pc' = [pc EXCEPT ![r] = "admitted"]
      /\ header' = [header EXCEPT ![r] = i]
      /\ deleting' \in {deleting, deleting \cup {r}}
      /\ held' = [held EXCEPT ![r] = Pruned[i]]
      /\ active' = [active EXCEPT ![Pruned[i]] = @ + 1]
      /\ pendingSessions' = pendingSessions /\ idle' = idle
  BY DEF Resume
<1> DEFINE b0 == Pruned[i]
<1>1. b0 \in Requests /\ pc[r] = "new" /\ i # NoId
  BY PrunedType, AuthAssumption DEF Owns, TypeOK, Authenticated
<1>2. header[r] = NoId /\ held[r] = NoBinding /\ ~InFlight(r)
  BY <1>1 DEF NewHoldsNothing, InFlight
<1>3. TypeOK'
  <2>1. sessions' \in [Ids -> Requests \cup {NoBinding}]
    BY PrunedType DEF TypeOK
  <2>2. active' \in [Requests -> Nat]
    BY <1>1 DEF TypeOK
  <2>3. deleting' \subseteq Requests
    BY DEF TypeOK
  <2> QED
    BY <1>1, <2>1, <2>2, <2>3 DEF TypeOK, RequestStates
<1>4. \A q \in Requests : InFlight(q)' <=> InFlight(q) \/ q = r
  BY DEF InFlight, TypeOK
<1>5. Establishing' = Establishing
  BY <1>1, <1>2, <1>4 DEF Establishing, TypeOK
<1>6. \A b \in Requests : Holders(b)' = IF b = b0 THEN Holders(b) \cup {r} ELSE Holders(b)
  BY <1>1, <1>2, <1>4 DEF Holders, TypeOK
<1>7. \A b \in Requests : r \notin Holders(b) /\ Holders(b) \in SUBSET Requests
  BY <1>2 DEF Holders
<1>8. \A b \in Requests : active'[b] = Cardinality(Holders(b)')
  BY <1>1, <1>6, <1>7, CountOneMore DEF CountersAreExact, TypeOK
<1>9. CountersAreExact'
  BY <1>5, <1>8 DEF CountersAreExact
<1>10. NewHoldsNothing'
  BY DEF NewHoldsNothing, TypeOK
<1> QED
  BY <1>3, <1>9, <1>10

\* A request that may establish a session is one more that has a place kept.
LEMMA EstablishStep ==
  ASSUME IInv, NEW r \in Requests, Establish(r)
  PROVE  IInv'
<1> USE DEF IInv
<1>1. /\ pc[r] = "new" /\ sessions' = Pruned
      /\ pc' = [pc EXCEPT ![r] = "admitted"]
      /\ pendingSessions' = pendingSessions + 1
      /\ active' = active /\ idle' = idle /\ header' = header /\ deleting' = deleting
      /\ held' = held
  BY DEF Establish, Authenticated
<1>2. header[r] = NoId /\ held[r] = NoBinding /\ ~InFlight(r)
  BY <1>1 DEF NewHoldsNothing, InFlight
<1>3. TypeOK'
  BY <1>1, PrunedType DEF TypeOK, RequestStates
<1>4. \A q \in Requests : InFlight(q)' <=> InFlight(q) \/ q = r
  BY <1>1 DEF InFlight, TypeOK
<1>5. Establishing' = Establishing \cup {r} /\ r \notin Establishing
  BY <1>1, <1>2, <1>4 DEF Establishing
<1>6. \A b \in Requests : Holders(b)' = Holders(b)
  BY <1>1, <1>2, <1>4, AuthAssumption DEF Holders
<1>7. Establishing \in SUBSET Requests
  BY DEF Establishing
<1>8. Cardinality(Establishing') = pendingSessions + 1
  BY <1>5, <1>7, CountOneMore DEF CountersAreExact
<1>9. CountersAreExact'
  BY <1>1, <1>6, <1>8 DEF CountersAreExact
<1>10. NewHoldsNothing'
  BY <1>1 DEF NewHoldsNothing, TypeOK
<1> QED
  BY <1>3, <1>9, <1>10

\* A request that stays in flight and holds what it held is counted as before.
LEMMA InFlightStep ==
  ASSUME IInv, NEW r \in Requests, pc[r] \in {"admitted", "failed"},
         NEW to \in {"responded", "failed"},
         pc' = [pc EXCEPT ![r] = to], sessions' \in [Ids -> Requests \cup {NoBinding}],
         UNCHANGED <<pendingSessions, active, idle, header, deleting, held>>
  PROVE  IInv'
<1> USE DEF IInv
<1>1. TypeOK'
  BY DEF TypeOK, RequestStates
<1>2. \A q \in Requests : InFlight(q)' <=> InFlight(q)
  BY DEF InFlight, TypeOK
<1>3. Establishing' = Establishing
  BY <1>2 DEF Establishing
<1>4. \A b \in Requests : Holders(b)' = Holders(b)
  BY <1>2 DEF Holders
<1>5. CountersAreExact'
  BY <1>3, <1>4 DEF CountersAreExact
<1>6. NewHoldsNothing'
  BY DEF NewHoldsNothing, TypeOK
<1> QED
  BY <1>1, <1>5, <1>6

\* A response with a session id makes a request that holds nothing a holder.
LEMMA HoldStep ==
  ASSUME IInv, NEW r \in Requests, NEW b0 \in Requests, Respond(r), Hold(r, b0),
         sessions' \in [Ids -> Requests \cup {NoBinding}],
         UNCHANGED <<pendingSessions, idle, header, deleting>>
  PROVE  IInv'
<1> USE DEF IInv
<1>1. pc[r] \in {"admitted", "failed"} /\ pc' = [pc EXCEPT ![r] = "responded"]
  BY DEF Respond, Unanswered
<1>2. CASE held[r] # NoBinding
  <2>1. held' = held /\ active' = active
    BY <1>2 DEF Hold
  <2> QED
    BY <1>1, <2>1, InFlightStep
<1>3. CASE held[r] = NoBinding
  <2>1. held' = [held EXCEPT ![r] = b0] /\ active' = [active EXCEPT ![b0] = @ + 1]
    BY <1>3 DEF Hold
  <2>2. active' \in [Requests -> Nat]
    BY <2>1 DEF TypeOK
  <2>3. TypeOK'
    BY <1>1, <2>1, <2>2 DEF TypeOK, RequestStates
  <2>4. \A q \in Requests : InFlight(q)' <=> InFlight(q)
    BY <1>1 DEF InFlight, TypeOK
  <2>5. Establishing' = Establishing
    BY <2>4 DEF Establishing
  <2>6. InFlight(r)
    BY <1>1 DEF InFlight
  <2>7. \A b \in Requests : Holders(b)' = IF b = b0 THEN Holders(b) \cup {r} ELSE Holders(b)
    BY <1>3, <2>1, <2>4, <2>6, AuthAssumption DEF Holders, TypeOK
  <2>8. \A b \in Requests : r \notin Holders(b) /\ Holders(b) \in SUBSET Requests
    BY <1>3, AuthAssumption DEF Holders
  <2>9. \A b \in Requests : active'[b] = Cardinality(Holders(b)')
    BY <2>1, <2>7, <2>8, CountOneMore DEF CountersAreExact, TypeOK
  <2>10. CountersAreExact'
    BY <2>5, <2>9 DEF CountersAreExact
  <2>11. NewHoldsNothing'
    BY <1>1, <2>1 DEF NewHoldsNothing, TypeOK
  <2> QED
    BY <2>3, <2>10, <2>11
<1> QED
  BY <1>2, <1>3

\* A request that ends gives back its binding and its place, each of which is counted.
LEMMA FinishStep ==
  ASSUME IInv, NEW r \in Requests, Finish(r)
  PROVE  IInv'
<1> USE DEF IInv
<1>1. /\ InFlight(r) /\ pc' = [pc EXCEPT ![r] = "done"]
      /\ sessions' = sessions /\ header' = header /\ deleting' = deleting /\ held' = held
  BY DEF Finish
<1>2. \A q \in Requests : InFlight(q)' <=> InFlight(q) /\ q # r
  BY <1>1 DEF InFlight, TypeOK
<1>3. Establishing' = Establishing \ {r} /\ Establishing \in SUBSET Requests
  BY <1>1, <1>2 DEF Establishing
<1>4. r \in Establishing <=> header[r] = NoId
  BY <1>1 DEF Establishing
<1>5. pendingSessions' = Cardinality(Establishing') /\ pendingSessions' \in Nat
  <2>1. CASE header[r] = NoId
    <3>1. pendingSessions' = pendingSessions - 1
      BY <2>1 DEF Finish, Release
    <3> QED
      BY <1>3, <1>4, <2>1, <3>1, CountOneLess DEF CountersAreExact
  <2>2. CASE header[r] # NoId
    <3>1. pendingSessions' = pendingSessions
      BY <2>2 DEF Finish, Release
    <3>2. Establishing' = Establishing
      BY <1>3, <1>4, <2>2
    <3> QED
      BY <3>1, <3>2 DEF CountersAreExact, TypeOK
  <2> QED
    BY <2>1, <2>2
<1>6. \A b \in Requests : Holders(b)' = Holders(b) \ {r} /\ Holders(b) \in SUBSET Requests
  BY <1>1, <1>2 DEF Holders
<1>7. \A b \in Requests : r \in Holders(b) <=> held[r] = b
  BY <1>1 DEF Holders
<1>8. /\ active' \in [Requests -> Nat] /\ idle' \subseteq Requests
      /\ \A b \in Requests : active'[b] = Cardinality(Holders(b)')
  <2>1. CASE held[r] = NoBinding
    <3>1. active' = active /\ idle' = idle
      BY <2>1 DEF Finish
    <3>2. \A b \in Requests : Holders(b)' = Holders(b)
      BY <1>6, <1>7, <2>1, AuthAssumption
    <3> QED
      BY <3>1, <3>2 DEF CountersAreExact, TypeOK
  <2>2. CASE held[r] # NoBinding
    <3>1. held[r] \in Requests
      BY <2>2 DEF TypeOK
    <3>2. active' = [active EXCEPT ![held[r]] = @ - 1] /\ idle' = idle \ {held[r]}
      BY <2>2 DEF Finish
    <3>3. /\ Cardinality(Holders(held[r]) \ {r}) = Cardinality(Holders(held[r])) - 1
          /\ Cardinality(Holders(held[r])) - 1 \in Nat
      <4>1. Holders(held[r]) \in SUBSET Requests /\ r \in Holders(held[r])
        BY <1>6, <1>7, <3>1
      <4> QED
        BY <4>1, CountOneLess
    <3>4. active[held[r]] - 1 = Cardinality(Holders(held[r]) \ {r})
      BY <3>1, <3>3 DEF CountersAreExact
    <3>5. \A b \in Requests : Holders(b)' = IF b = held[r] THEN Holders(held[r]) \ {r}
                                             ELSE Holders(b)
      BY <1>6, <1>7
    <3>6. active[held[r]] - 1 \in Nat
      BY <3>3, <3>4
    <3>7. \A b \in Requests : active'[b] = IF b = held[r] THEN active[held[r]] - 1
                                            ELSE active[b]
      BY <3>1, <3>2 DEF TypeOK
    <3>8. \A b \in Requests : active'[b] = Cardinality(Holders(b)')
      BY <3>4, <3>5, <3>7 DEF CountersAreExact
    <3>9. active' \in [Requests -> Nat] /\ idle' \subseteq Requests
      BY <3>2, <3>6 DEF TypeOK
    <3> QED
      BY <3>8, <3>9
  <2> QED
    BY <2>1, <2>2
<1>9. TypeOK'
  BY <1>1, <1>5, <1>8 DEF TypeOK, RequestStates
<1>10. CountersAreExact'
  BY <1>5, <1>8 DEF CountersAreExact
<1>11. NewHoldsNothing'
  BY <1>1 DEF NewHoldsNothing, TypeOK
<1> QED
  BY <1>9, <1>10, <1>11

\* A response of an admitted request, whatever its id.
LEMMA RespondStep ==
  ASSUME IInv, NEW r \in Requests, RespondPlain(r) \/ RespondBound(r) \/ RespondNew(r)
  PROVE  IInv'
<1>1. CASE RespondPlain(r)
  <2> PICK ok \in BOOLEAN :
        /\ Respond(r) /\ sessions' = AfterDelete(r, sessions, ok /\ r \in deleting)
        /\ UNCHANGED <<pendingSessions, active, idle, header, deleting, held>>
    BY <1>1 DEF RespondPlain
  <2>1. sessions' \in [Ids -> Requests \cup {NoBinding}]
    BY AfterDeleteType DEF IInv, TypeOK
  <2>2. pc[r] \in {"admitted", "failed"} /\ pc' = [pc EXCEPT ![r] = "responded"]
    BY DEF Respond, Unanswered
  <2> QED
    BY <2>1, <2>2, InFlightStep
<1>2. CASE RespondBound(r)
  <2> PICK i \in Ids, ok \in BOOLEAN :
        /\ Respond(r) /\ sessions[i] # NoBinding /\ Hold(r, sessions[i])
        /\ sessions' = AfterDelete(r, sessions, ok /\ r \in deleting)
        /\ UNCHANGED <<pendingSessions, idle, header, deleting>>
    BY <1>2 DEF RespondBound
  <2>1. sessions' \in [Ids -> Requests \cup {NoBinding}] /\ sessions[i] \in Requests
    BY AfterDeleteType DEF IInv, TypeOK
  <2> QED
    BY <2>1, HoldStep
<1>3. CASE RespondNew(r)
  <2> PICK i \in Ids, ok \in BOOLEAN :
        /\ Respond(r) /\ Hold(r, r)
        /\ sessions' = AfterDelete(r, [sessions EXCEPT ![i] = r], ok /\ r \in deleting)
        /\ UNCHANGED <<pendingSessions, idle, header, deleting>>
    BY <1>3 DEF RespondNew
  <2>1. [sessions EXCEPT ![i] = r] \in [Ids -> Requests \cup {NoBinding}]
    BY DEF IInv, TypeOK
  <2>2. sessions' \in [Ids -> Requests \cup {NoBinding}]
    BY <2>1, AfterDeleteType
  <2> QED
    BY <2>2, HoldStep
<1> QED
  BY <1>1, <1>2, <1>3

\* Every step of the ingress preserves the invariant.
LEMMA IInvStep == IInv /\ [Next]_vars => IInv'
<1> SUFFICES ASSUME IInv, [Next]_vars PROVE IInv'
  OBVIOUS
<1>1. CASE UNCHANGED vars
  BY <1>1 DEF vars, requestVars, IInv, TypeOK, CountersAreExact, NewHoldsNothing, Holders,
              Establishing, InFlight
<1>2. ASSUME NEW r \in Requests, RequestStep(r) PROVE IInv'
  <2>0. sessions \in [Ids -> Requests \cup {NoBinding}]
    BY DEF IInv, TypeOK
  <2>1. CASE Unauthorized(r)
    BY <2>0, <2>1, RefuseStep DEF Unauthorized
  <2>2. CASE Forbidden(r)
    BY <2>0, <2>2, PrunedType, RefuseStep DEF Forbidden, Authenticated
  <2>3. CASE Resume(r)
    BY <2>3, ResumeStep
  <2>4. CASE Unavailable(r)
    BY <2>0, <2>4, PrunedType, RefuseStep DEF Unavailable, Authenticated
  <2>5. CASE Establish(r)
    BY <2>5, EstablishStep
  <2>6. CASE Fails(r)
    BY <2>0, <2>6, InFlightStep DEF Fails, Unanswered
  <2>7. CASE RespondPlain(r) \/ RespondBound(r) \/ RespondNew(r)
    BY <2>7, RespondStep
  <2>8. CASE Finish(r)
    BY <2>8, FinishStep
  <2> QED
    BY <1>2, <2>1, <2>2, <2>3, <2>4, <2>5, <2>6, <2>7, <2>8 DEF RequestStep
<1>3. ASSUME NEW b \in Requests, Idle(b) PROVE IInv'
  BY <1>3 DEF Idle, requestVars, IInv, TypeOK, CountersAreExact, NewHoldsNothing, Holders,
              Establishing, InFlight
<1> QED
  BY <1>1, <1>2, <1>3 DEF Next

\* The counters of the bindings and of the places kept are exact in every behaviour,
\* and never negative.
THEOREM ExactCounters == Spec => [](TypeOK /\ CountersAreExact)
<1>1. IInv => TypeOK /\ CountersAreExact
  BY DEF IInv
<1> QED
  BY <1>1, IInvInit, IInvStep, PTL DEF Spec

\* The variables keep their types.
THEOREM TypeCorrect == Spec => []TypeOK
<1>1. IInv => TypeOK
  BY DEF IInv
<1> QED
  BY <1>1, IInvInit, IInvStep, PTL DEF Spec

-----------------------------------------------------------------------------
(* What follows from it.                                                   *)

\* A binding held by a request in flight does not expire.
LEMMA HeldIsNotPruned ==
  ASSUME IInv, NEW i \in Ids, NEW r \in Requests,
         InFlight(r), held[r] # NoBinding, sessions[i] = held[r]
  PROVE  Pruned[i] = held[r]
<1>1. held[r] \in Requests
  BY DEF IInv, TypeOK
<1>2. Holders(held[r]) \in SUBSET Requests /\ r \in Holders(held[r])
  BY DEF Holders
<1>3. active[held[r]] > 0
  BY <1>1, <1>2, CountOneLess DEF IInv, CountersAreExact
<1>4. ~Expired(held[r])
  BY <1>1, <1>3 DEF Expired, IInv, TypeOK
<1> QED
  BY <1>4 DEF Pruned

\* Bindings stay live while a request is in flight: a binding that one holds leaves the
\* table only by the response to a DELETE of its session.
THEOREM LiveBindings == Spec => LiveBindingsStay
<1> DEFINE Stays ==
      \A i \in Ids, r \in Requests :
        InFlight(r) /\ held[r] # NoBinding /\ sessions[i] = held[r] /\ sessions'[i] # held[r] =>
          \E d \in deleting : header[d] = i /\ Unanswered(d) /\ pc'[d] = "responded"
<1>1. IInv /\ [Next]_vars => [Stays]_vars
  <2> SUFFICES ASSUME IInv, Next,
                      NEW i \in Ids, NEW r \in Requests,
                      InFlight(r), held[r] # NoBinding,
                      sessions[i] = held[r], sessions'[i] # held[r]
               PROVE  \E d \in deleting : header[d] = i /\ Unanswered(d) /\ pc'[d] = "responded"
    OBVIOUS
  <2>0. sessions' # sessions /\ sessions' # Pruned
    BY HeldIsNotPruned
  <2>1. PICK d \in Requests : RequestStep(d)
    BY <2>0 DEF Next, Idle
  <2>2. RespondPlain(d) \/ RespondBound(d) \/ RespondNew(d)
    BY <2>0, <2>1 DEF RequestStep, Unauthorized, Forbidden, Resume, Unavailable, Establish, Fails,
                      Finish
  <2>3. pc[d] \in {"admitted", "failed"} /\ pc' = [pc EXCEPT ![d] = "responded"]
    BY <2>2 DEF RespondPlain, RespondBound, RespondNew, Respond, Unanswered
  <2>4. PICK table \in [Ids -> Requests \cup {NoBinding}], ok \in BOOLEAN :
          /\ sessions' = AfterDelete(d, table, ok /\ d \in deleting)
          /\ table[i] = sessions[i]
    <3>1. CASE RespondNew(d)
      <4> PICK j \in Ids, ok \in BOOLEAN :
            /\ sessions[j] = NoBinding
            /\ sessions' = AfterDelete(d, [sessions EXCEPT ![j] = d], ok /\ d \in deleting)
        BY <3>1 DEF RespondNew
      <4>1. /\ [sessions EXCEPT ![j] = d] \in [Ids -> Requests \cup {NoBinding}]
            /\ [sessions EXCEPT ![j] = d][i] = sessions[i]
        BY DEF IInv, TypeOK
      <4> QED
        BY <4>1
    <3>2. CASE RespondPlain(d) \/ RespondBound(d)
      BY <3>2 DEF RespondPlain, RespondBound, IInv, TypeOK
    <3> QED
      BY <2>2, <3>1, <3>2
  <2>5. d \in deleting /\ i = header[d]
    BY <2>4 DEF AfterDelete
  <2> QED
    BY <2>3, <2>5 DEF IInv, TypeOK, Unanswered
<1> QED
  BY <1>1, IInvInit, IInvStep, PTL DEF Spec, LiveBindingsStay

\* The table never holds more than MaxSessions sessions.
THEOREM Capacity == Spec => []TableFits
<1>1. Init => TableFits
  <2> SUFFICES ASSUME Init PROVE TableFits
    OBVIOUS
  <2>1. Bound(sessions) = {}
    BY DEF Init, Bound
  <2> QED
    BY <2>1, FS_EmptySet, AuthAssumption DEF TableFits
<1>2. IInv /\ TableFits /\ [Next]_vars => TableFits'
  <2> SUFFICES ASSUME IInv, TableFits, [Next]_vars PROVE TableFits'
    OBVIOUS
  <2>1. sessions \in [Ids -> Requests \cup {NoBinding}]
    BY DEF IInv, TypeOK
  <2>2. ASSUME Bound(sessions)' \subseteq Bound(sessions) PROVE TableFits'
    <3>1. Cardinality(Bound(sessions)') <= Cardinality(Bound(sessions))
      BY <2>2, FS_Subset, FiniteParts DEF Bound
    <3>2. Cardinality(Bound(sessions)') \in Nat /\ Cardinality(Bound(sessions)) \in Nat
      BY FiniteParts DEF Bound
    <3> QED
      BY <3>1, <3>2, AuthAssumption DEF TableFits
  <2>3. CASE sessions' \in {sessions, Pruned}
    BY <2>1, <2>2, <2>3, PrunedType DEF Bound
  <2>4. ASSUME NEW r \in Requests, RespondPlain(r) \/ RespondBound(r) PROVE TableFits'
    <3> PICK ok \in BOOLEAN : sessions' = AfterDelete(r, sessions, ok /\ r \in deleting)
      BY <2>4 DEF RespondPlain, RespondBound
    <3>1. Bound(sessions') \subseteq Bound(sessions)
      BY <2>1, AfterDeleteType
    <3> QED
      BY <2>2, <3>1 DEF Bound
  <2>5. ASSUME NEW r \in Requests, RespondNew(r) PROVE TableFits'
    <3> PICK i \in Ids, ok \in BOOLEAN :
          /\ ~Conflict(r, i) /\ sessions[i] = NoBinding
          /\ sessions' = AfterDelete(r, [sessions EXCEPT ![i] = r], ok /\ r \in deleting)
      BY <2>5 DEF RespondNew
    <3>1. ~(Cardinality(Bound(sessions)) >= MaxSessions)
      BY DEF Conflict
    <3>2. [sessions EXCEPT ![i] = r] \in [Ids -> Requests \cup {NoBinding}]
      BY <2>1
    <3>3. Bound([sessions EXCEPT ![i] = r]) \subseteq Bound(sessions) \cup {i}
      BY <2>1 DEF Bound
    <3>4. Bound(sessions)' \subseteq Bound(sessions) \cup {i}
      BY <3>2, <3>3, AfterDeleteType DEF Bound
    <3>5. IsFiniteSet(Bound(sessions)) /\ Cardinality(Bound(sessions)) \in Nat
      BY FiniteParts DEF Bound
    <3>6. /\ IsFiniteSet(Bound(sessions) \cup {i})
          /\ Cardinality(Bound(sessions) \cup {i}) <= Cardinality(Bound(sessions)) + 1
      <4>1. i \notin Bound(sessions)
        BY DEF Bound
      <4>2. Cardinality(Bound(sessions) \cup {i}) = Cardinality(Bound(sessions)) + 1
        BY <3>5, <4>1, FS_AddElement
      <4> QED
        BY <3>5, <4>2, FS_AddElement
    <3>7. /\ Cardinality(Bound(sessions)') <= Cardinality(Bound(sessions) \cup {i})
          /\ Cardinality(Bound(sessions)') \in Nat
          /\ Cardinality(Bound(sessions) \cup {i}) \in Nat
      BY <3>4, <3>6, FS_Subset, FS_CardinalityType
    <3> QED
      BY <3>1, <3>5, <3>6, <3>7, AuthAssumption DEF TableFits
  <2> QED
    BY <2>3, <2>4, <2>5 DEF Next, vars, RequestStep, Idle, Unauthorized, Forbidden, Resume,
                            Unavailable, Establish, Fails, Finish
<1> QED
  BY <1>1, <1>2, IInvInit, IInvStep, PTL DEF Spec

\* A request only ever holds a binding of its own credential.
THEOREM OwnBindings == Spec => []SameCredential
<1>1. Init => SameCredential
  BY DEF Init, SameCredential
<1>2. IInv /\ SameCredential /\ [Next]_vars => SameCredential'
  <2> SUFFICES ASSUME IInv, SameCredential, [Next]_vars PROVE SameCredential'
    OBVIOUS
  <2>1. held \in [Requests -> Requests \cup {NoBinding}]
    BY DEF IInv, TypeOK
  <2>2. CASE held' = held
    BY <2>2 DEF SameCredential
  <2>3. ASSUME NEW r \in Requests, NEW b, CredentialOf[b] = CredentialOf[r],
               held' = [held EXCEPT ![r] = b]
        PROVE  SameCredential'
    BY <2>1, <2>3 DEF SameCredential
  <2>4. ASSUME NEW r \in Requests, Resume(r) PROVE SameCredential'
    BY <2>3, <2>4 DEF Resume, Owns
  <2>5. ASSUME NEW r \in Requests, RespondBound(r) PROVE SameCredential'
    <3> PICK i \in Ids : ~Conflict(r, i) /\ sessions[i] # NoBinding /\ Hold(r, sessions[i])
      BY <2>5 DEF RespondBound
    <3>1. CredentialOf[sessions[i]] = CredentialOf[r]
      BY DEF Conflict, Owns
    <3> QED
      BY <2>2, <2>3, <3>1 DEF Hold
  <2>6. ASSUME NEW r \in Requests, RespondNew(r) PROVE SameCredential'
    BY <2>2, <2>3, <2>6 DEF RespondNew, Hold
  <2> QED
    BY <2>2, <2>4, <2>5, <2>6 DEF Next, vars, RequestStep, Idle, Unauthorized, Forbidden, Refuse,
                                  Unavailable, Establish, Fails, RespondPlain, Finish
<1> QED
  BY <1>1, <1>2, IInvInit, IInvStep, PTL DEF Spec
-----------------------------------------------------------------------------
(* The places kept for new sessions.                                       *)

\* The requests that may still establish a session, and the sessions that were established.
Unplaced == {r \in Establishing : held[r] = NoBinding}
Placed == {i \in Bound(sessions) : header[sessions[i]] = NoId}

\* A request without a session holds a binding only once it has responded.
HeldByResponse ==
  \A r \in Requests : Unanswered(r) /\ header[r] = NoId => held[r] = NoBinding

PlaceInv == IInv /\ HeldByResponse /\ PlacesKept

LEMMA PlaceCounts ==
  /\ IsFiniteSet(Unplaced) /\ Cardinality(Unplaced) \in Nat
  /\ IsFiniteSet(Placed) /\ Cardinality(Placed) \in Nat
BY FiniteParts DEF Unplaced, Placed, Establishing, Bound

LEMMA PlaceCountsNext ==
  /\ IsFiniteSet(Unplaced') /\ Cardinality(Unplaced') \in Nat
  /\ IsFiniteSet(Placed') /\ Cardinality(Placed') \in Nat
BY FiniteParts DEF Unplaced, Placed, Establishing, Bound

\* Places are given up, or left alone.
LEMMA FewerPlaces ==
  ASSUME PlacesKept, Unplaced' \subseteq Unplaced, Placed' \subseteq Placed
  PROVE  PlacesKept'
<1>1. Cardinality(Unplaced') <= Cardinality(Unplaced)
      /\ Cardinality(Placed') <= Cardinality(Placed)
  BY PlaceCounts, FS_Subset
<1>2. Cardinality(Unplaced) + Cardinality(Placed) <= MaxSessions
  BY DEF PlacesKept, Unplaced, Placed
<1>3. Cardinality(Unplaced') + Cardinality(Placed') <= MaxSessions
  BY <1>1, <1>2, PlaceCounts, PlaceCountsNext, AuthAssumption
<1> QED
  BY <1>3 DEF PlacesKept, Unplaced, Placed

\* A table with fewer sessions, and requests that keep their ids.
LEMMA PlacedStay ==
  ASSUME UNCHANGED header, \A i \in Ids : sessions'[i] \in {sessions[i], NoBinding}
  PROVE  Placed' \subseteq Placed
BY DEF Placed, Bound

\* There is room for the session of a request that is admitted without one.
LEMMA PlaceEstablish ==
  ASSUME PlaceInv, NEW r \in Requests, Establish(r)
  PROVE  PlacesKept'
<1>1. /\ pc[r] = "new" /\ ~Full /\ sessions' = Pruned
      /\ pc' = [pc EXCEPT ![r] = "admitted"] /\ UNCHANGED <<header, held>>
  BY DEF Establish, Authenticated
<1>2. Unplaced' \subseteq Unplaced \cup {r}
  BY <1>1 DEF Unplaced, Establishing, InFlight, PlaceInv, IInv, TypeOK
<1>3. Cardinality(Unplaced') <= Cardinality(Unplaced) + 1
  <2>1. r \notin Unplaced
    BY <1>1 DEF Unplaced, Establishing, InFlight
  <2>2. IsFiniteSet(Unplaced \cup {r})
        /\ Cardinality(Unplaced \cup {r}) = Cardinality(Unplaced) + 1
    BY <2>1, PlaceCounts, FS_AddElement
  <2> QED
    BY <1>2, <2>2, FS_Subset
<1>4. Cardinality(Unplaced) <= pendingSessions
  <2>1. Unplaced \subseteq Establishing /\ Establishing \in SUBSET Requests
    BY DEF Unplaced, Establishing
  <2> QED
    BY <2>1, FiniteParts, FS_Subset DEF PlaceInv, IInv, CountersAreExact
<1>5. Cardinality(Placed') <= Cardinality(Bound(Pruned))
  <2>1. Placed' \subseteq Bound(Pruned) /\ Bound(Pruned) \in SUBSET Ids
    BY <1>1 DEF Placed, Bound
  <2> QED
    BY <2>1, FiniteParts, FS_Subset
<1>6. Cardinality(Bound(Pruned)) + pendingSessions < MaxSessions
  <2>1. Cardinality(Bound(Pruned)) \in Nat /\ pendingSessions \in Nat
    BY FiniteParts DEF Bound, PlaceInv, IInv, TypeOK
  <2> QED
    BY <1>1, <2>1, AuthAssumption DEF Full
<1>7. Cardinality(Bound(Pruned)) \in Nat /\ pendingSessions \in Nat
  BY FiniteParts DEF Bound, PlaceInv, IInv, TypeOK
<1>8. Cardinality(Unplaced') + Cardinality(Placed') <= MaxSessions
  BY <1>3, <1>4, <1>5, <1>6, <1>7, PlaceCounts, PlaceCountsNext, AuthAssumption
<1> QED
  BY <1>8 DEF PlacesKept, Unplaced, Placed

\* A request with a place puts its session there.
LEMMA PlaceTaken ==
  ASSUME PlaceInv, NEW r \in Requests, RespondNew(r), header[r] = NoId
  PROVE  PlacesKept'
<1>1. PICK i \in Ids, ok \in BOOLEAN :
        /\ pc[r] \in {"admitted", "failed"} /\ pc' = [pc EXCEPT ![r] = "responded"]
        /\ sessions[i] = NoBinding /\ Hold(r, r) /\ UNCHANGED header
        /\ sessions' = AfterDelete(r, [sessions EXCEPT ![i] = r], ok /\ r \in deleting)
  BY DEF RespondNew, Respond, Unanswered
<1>2. held[r] = NoBinding /\ held' = [held EXCEPT ![r] = r]
  BY <1>1 DEF Hold, PlaceInv, HeldByResponse, Unanswered
<1>3. r \in Unplaced /\ Unplaced' \subseteq Unplaced \ {r}
  <2>1. r # NoBinding
    BY AuthAssumption
  <2> QED
    BY <1>1, <1>2, <2>1 DEF Unplaced, Establishing, InFlight, PlaceInv, IInv, TypeOK
<1>4. Cardinality(Unplaced') <= Cardinality(Unplaced) - 1
  <2>1. IsFiniteSet(Unplaced \ {r})
        /\ Cardinality(Unplaced \ {r}) = Cardinality(Unplaced) - 1
    BY <1>3, PlaceCounts, FS_RemoveElement
  <2> QED
    BY <1>3, <2>1, FS_Subset
<1>5. Placed' \subseteq Placed \cup {i}
  <2>1. \A j \in Ids : j # i => sessions'[j] \in {sessions[j], NoBinding}
    BY <1>1 DEF AfterDelete, PlaceInv, IInv, TypeOK
  <2> QED
    BY <1>1, <2>1 DEF Placed, Bound
<1>6. Cardinality(Placed') <= Cardinality(Placed) + 1
  <2>1. i \notin Placed
    BY <1>1 DEF Placed, Bound
  <2>2. IsFiniteSet(Placed \cup {i})
        /\ Cardinality(Placed \cup {i}) = Cardinality(Placed) + 1
    BY <2>1, PlaceCounts, FS_AddElement
  <2> QED
    BY <1>5, <2>2, FS_Subset
<1>7. Cardinality(Unplaced) + Cardinality(Placed) <= MaxSessions
  BY DEF PlaceInv, PlacesKept, Unplaced, Placed
<1>8. Cardinality(Unplaced') + Cardinality(Placed') <= MaxSessions
  BY <1>4, <1>6, <1>7, PlaceCounts, PlaceCountsNext, AuthAssumption
<1> QED
  BY <1>8 DEF PlacesKept, Unplaced, Placed

\* A response of a request that had a session, or an answer without a new one.
LEMMA PlaceRespond ==
  ASSUME PlaceInv, NEW r \in Requests,
         RespondPlain(r) \/ RespondBound(r) \/ (RespondNew(r) /\ header[r] # NoId)
  PROVE  PlacesKept'
<1>1. /\ pc[r] \in {"admitted", "failed"} /\ pc' = [pc EXCEPT ![r] = "responded"]
      /\ UNCHANGED header
      /\ UNCHANGED held \/ (held[r] = NoBinding /\ \E b : held' = [held EXCEPT ![r] = b])
  BY DEF RespondPlain, RespondBound, RespondNew, Respond, Unanswered, Hold
<1>2. Unplaced' \subseteq Unplaced
  BY <1>1 DEF Unplaced, Establishing, InFlight, PlaceInv, IInv, TypeOK
<1>3. Placed' \subseteq Placed
  <2>1. CASE RespondPlain(r) \/ RespondBound(r)
    <3>1. \A i \in Ids : sessions'[i] \in {sessions[i], NoBinding}
      BY <2>1 DEF RespondPlain, RespondBound, AfterDelete
    <3> QED
      BY <1>1, <3>1, PlacedStay
  <2>2. CASE RespondNew(r) /\ header[r] # NoId
    <3>1. PICK i \in Ids, ok \in BOOLEAN :
            sessions' = AfterDelete(r, [sessions EXCEPT ![i] = r], ok /\ r \in deleting)
      BY <2>2 DEF RespondNew
    <3>2. \A j \in Ids : sessions'[j] \in {sessions[j], NoBinding, r}
      BY <3>1 DEF AfterDelete, PlaceInv, IInv, TypeOK
    <3> QED
      BY <1>1, <2>2, <3>2 DEF Placed, Bound
  <2> QED
    BY <2>1, <2>2
<1> QED
  BY <1>2, <1>3, FewerPlaces DEF PlaceInv

LEMMA PlaceOther ==
  ASSUME PlaceInv, NEW r \in Requests,
         \/ Unauthorized(r) \/ Forbidden(r) \/ Resume(r) \/ Unavailable(r) \/ Fails(r)
         \/ Finish(r) \/ Idle(r)
  PROVE  PlacesKept'
<1>1. \A i \in Ids : sessions'[i] \in {sessions[i], NoBinding}
  <2>1. \A i \in Ids : Pruned[i] \in {sessions[i], NoBinding}
    BY DEF Pruned
  <2>2. sessions' \in {sessions, Pruned}
    BY DEF Unauthorized, Forbidden, Resume, Unavailable, Fails, Finish, Idle
  <2> QED
    BY <2>1, <2>2
<1>2. CASE Resume(r)
  <2>1. PICK i \in Ids : /\ pc[r] = "new" /\ pc' = [pc EXCEPT ![r] = "admitted"]
                         /\ header' = [header EXCEPT ![r] = i]
                         /\ held' = [held EXCEPT ![r] = Pruned[i]]
    BY <1>2 DEF Resume, Authenticated
  <2>2. i # NoId
    BY AuthAssumption
  <2>3. Unplaced' \subseteq Unplaced
    BY <2>1, <2>2 DEF Unplaced, Establishing, InFlight, PlaceInv, IInv, TypeOK
  <2>4. Placed' \subseteq Placed
    BY <1>1, <2>1, <2>2 DEF Placed, Bound, PlaceInv, IInv, TypeOK
  <2> QED
    BY <2>3, <2>4, FewerPlaces DEF PlaceInv
<1>3. CASE ~Resume(r)
  <2>1. /\ UNCHANGED <<header, held>>
        /\ \/ UNCHANGED pc
           \/ \E status \in {"unauthorized", "forbidden", "unavailable", "done"} :
                pc' = [pc EXCEPT ![r] = status]
           \/ pc[r] \in {"admitted", "failed"} /\ pc' = [pc EXCEPT ![r] = "failed"]
    BY <1>3 DEF Unauthorized, Forbidden, Unavailable, Fails, Unanswered, Finish, Idle, Refuse,
                requestVars
  <2>2. Unplaced' \subseteq Unplaced
    BY <2>1 DEF Unplaced, Establishing, InFlight, PlaceInv, IInv, TypeOK
  <2>3. Placed' \subseteq Placed
    BY <1>1, <2>1, PlacedStay
  <2> QED
    BY <2>2, <2>3, FewerPlaces DEF PlaceInv
<1> QED
  BY <1>2, <1>3

LEMMA HeldByResponseStep == IInv /\ HeldByResponse /\ [Next]_vars => HeldByResponse'
<1> SUFFICES ASSUME IInv, HeldByResponse, [Next]_vars, NEW q \in Requests,
                    Unanswered(q)', header'[q] = NoId
             PROVE  held'[q] = NoBinding
  BY DEF HeldByResponse
<1> USE DEF IInv, TypeOK
<1>1. ASSUME NEW r \in Requests, Establish(r) PROVE held'[q] = NoBinding
  BY <1>1 DEF Establish, Authenticated, NewHoldsNothing, HeldByResponse, Unanswered
<1>2. ASSUME NEW r \in Requests, Resume(r) PROVE held'[q] = NoBinding
  BY <1>2, AuthAssumption DEF Resume, HeldByResponse, Unanswered
<1>3. ASSUME NEW r \in Requests, RespondPlain(r) \/ RespondBound(r) \/ RespondNew(r)
      PROVE  held'[q] = NoBinding
  <2>1. pc' = [pc EXCEPT ![r] = "responded"] /\ header' = header
    BY <1>3 DEF RespondPlain, RespondBound, RespondNew, Respond
  <2>2. held' = held \/ \E b : held' = [held EXCEPT ![r] = b]
    BY <1>3 DEF RespondPlain, RespondBound, RespondNew, Hold
  <2>3. q # r /\ Unanswered(q)
    BY <2>1 DEF Unanswered
  <2> QED
    BY <2>1, <2>2, <2>3 DEF HeldByResponse
<1>4. ASSUME NEW r \in Requests,
             Unauthorized(r) \/ Forbidden(r) \/ Unavailable(r) \/ Fails(r) \/ Finish(r)
      PROVE  held'[q] = NoBinding
  <2>1. UNCHANGED <<header, held>>
    BY <1>4 DEF Unauthorized, Forbidden, Unavailable, Fails, Finish, Refuse
  <2>2. \/ pc' = [pc EXCEPT ![r] = "failed"] /\ Unanswered(r)
        \/ \E to \in {"unauthorized", "forbidden", "unavailable", "done"} :
             pc' = [pc EXCEPT ![r] = to]
    BY <1>4 DEF Unauthorized, Forbidden, Unavailable, Fails, Finish, Refuse
  <2>3. Unanswered(q)
    BY <2>2 DEF Unanswered
  <2> QED
    BY <2>1, <2>3 DEF HeldByResponse
<1>5. CASE UNCHANGED <<pc, header, held>>
  BY <1>5 DEF HeldByResponse, Unanswered
<1> QED
  BY <1>1, <1>2, <1>3, <1>4, <1>5 DEF Next, RequestStep, Idle, vars, requestVars

\* A request that was admitted to establish a session has its place until its response,
\* for any table and any requests, though the table may be refilled meanwhile by sessions
\* that were deleted.
THEOREM Places == Spec => []PlacesKept
<1>1. Init => PlaceInv
  <2> SUFFICES ASSUME Init PROVE PlaceInv
    OBVIOUS
  <2>1. Unplaced = {} /\ Placed = {}
    BY DEF Init, Unplaced, Placed, Establishing, InFlight, Bound
  <2>2. PlacesKept
    BY <2>1, FS_EmptySet, AuthAssumption DEF PlacesKept, Unplaced, Placed
  <2>3. HeldByResponse
    BY DEF Init, HeldByResponse, Unanswered
  <2> QED
    BY <2>2, <2>3, IInvInit DEF PlaceInv
<1>2. PlaceInv /\ [Next]_vars => PlaceInv'
  <2> SUFFICES ASSUME PlaceInv, [Next]_vars PROVE PlacesKept'
    BY IInvStep, HeldByResponseStep DEF PlaceInv
  <2>1. CASE UNCHANGED vars
    BY <2>1 DEF vars, requestVars, PlaceInv, PlacesKept, Establishing, InFlight, Bound
  <2> QED
    BY <2>1, PlaceEstablish, PlaceTaken, PlaceRespond, PlaceOther DEF Next, RequestStep
<1>3. PlaceInv => PlacesKept
  BY DEF PlaceInv
<1> QED
  BY <1>1, <1>2, <1>3, PTL DEF Spec

-----------------------------------------------------------------------------
(* The sessions that come back.                                            *)

\* A DELETE of the session was admitted.
DeleteCame(i) == \E d \in deleting : header[d] = i

\* A request that has a session is past its admission, as is the one that bound the session.
AdmittedInv ==
  /\ \A d \in deleting : pc[d] # "new"
  /\ \A i \in Ids : sessions[i] # NoBinding => pc[sessions[i]] # "new"

\* As long as no DELETE came, the session of a request in flight is bound as it found it.
KeptInv ==
  \A r \in Requests, i \in Ids : InFlight(r) /\ header[r] = i =>
    held[r] # NoBinding /\ (sessions[i] = held[r] \/ DeleteCame(i))

\* A session that a request which came with it has bound is one that a DELETE named.
ReboundInv ==
  \A i \in Ids : sessions[i] # NoBinding /\ header[sessions[i]] # NoId => DeleteCame(i)

RebindInv == IInv /\ AdmittedInv /\ KeptInv /\ ReboundInv

LEMMA RebindTypes ==
  ASSUME IInv
  PROVE  /\ sessions \in [Ids -> Requests \cup {NoBinding}]
         /\ pc \in [Requests -> RequestStates] /\ deleting \subseteq Requests
         /\ header \in [Requests -> Ids \cup {NoId}]
         /\ held \in [Requests -> Requests \cup {NoBinding}]
BY DEF IInv, TypeOK

\* A DELETE stays one: requests that were admitted keep what they came with.
LEMMA DeletesStay ==
  ASSUME deleting \subseteq deleting', \A d \in deleting : header'[d] = header[d], NEW i,
         DeleteCame(i)
  PROVE  DeleteCame(i)'
BY DEF DeleteCame

\* Requests that get no session, and the passing of time, leave the invariant as it is.
LEMMA RebindSame ==
  ASSUME RebindInv, UNCHANGED <<sessions, header, deleting>>,
         \A r \in Requests : InFlight(r)' => InFlight(r) /\ held'[r] = held[r],
         \A r \in Requests : pc[r] # "new" => pc'[r] # "new"
  PROVE  AdmittedInv' /\ KeptInv' /\ ReboundInv'
<1>1. \A i : DeleteCame(i)' = DeleteCame(i)
  BY DEF DeleteCame
<1>2. AdmittedInv'
  BY RebindTypes DEF RebindInv, AdmittedInv
<1>3. KeptInv'
  BY <1>1 DEF RebindInv, KeptInv
<1>4. ReboundInv'
  BY <1>1 DEF RebindInv, ReboundInv
<1> QED
  BY <1>2, <1>3, <1>4

\* Pruning passes over what a request in flight holds, so a request admitted with or
\* without a session finds the invariant again.
LEMMA RebindPrune ==
  ASSUME RebindInv, NEW r \in Requests, pc[r] = "new", sessions' = Pruned,
         NEW x, pc' = [pc EXCEPT ![r] = x], x # "new",
         deleting \subseteq deleting', deleting' \subseteq deleting \cup {r},
         \A q \in Requests : q # r => header'[q] = header[q] /\ held'[q] = held[q],
         InFlight(r)' /\ header'[r] \in Ids =>
           held'[r] # NoBinding /\ Pruned[header'[r]] = held'[r]
  PROVE  AdmittedInv' /\ KeptInv' /\ ReboundInv'
<1> USE RebindTypes DEF RebindInv
<1>1. \A d \in deleting : d # r /\ d \in Requests
  BY DEF AdmittedInv
<1>2. \A i : DeleteCame(i) => DeleteCame(i)'
  BY <1>1, DeletesStay
<1>3. \A i \in Ids : sessions'[i] # NoBinding =>
        sessions'[i] = sessions[i] /\ sessions[i] # r /\ sessions[i] \in Requests
  BY DEF Pruned, AdmittedInv
<1>4. pc'[r] # "new" /\ \A q \in Requests : q # r => pc'[q] = pc[q]
  OBVIOUS
<1>5. AdmittedInv'
  BY <1>1, <1>3, <1>4 DEF AdmittedInv
<1>6. KeptInv'
  <2> SUFFICES ASSUME NEW q \in Requests, NEW i \in Ids, InFlight(q)', header'[q] = i
               PROVE  held'[q] # NoBinding /\ (sessions'[i] = held'[q] \/ DeleteCame(i)')
    BY DEF KeptInv
  <2>1. CASE q = r
    BY <2>1
  <2>2. CASE q # r
    <3>1. InFlight(q) /\ header[q] = i /\ held'[q] = held[q]
      BY <1>4, <2>2 DEF InFlight
    <3>2. held[q] # NoBinding /\ (sessions[i] = held[q] \/ DeleteCame(i))
      BY <3>1 DEF KeptInv
    <3>3. sessions[i] = held[q] => Pruned[i] = held[q]
      BY <3>1, <3>2, HeldIsNotPruned
    <3> QED
      BY <1>2, <3>1, <3>2, <3>3
  <2> QED
    BY <2>1, <2>2
<1>7. ReboundInv'
  <2> SUFFICES ASSUME NEW i \in Ids, sessions'[i] # NoBinding, header'[sessions'[i]] # NoId
               PROVE  DeleteCame(i)'
    BY DEF ReboundInv
  <2>1. sessions[i] # NoBinding /\ header[sessions[i]] # NoId
    BY <1>3
  <2> QED
    BY <1>2, <2>1 DEF ReboundInv
<1> QED
  BY <1>5, <1>6, <1>7

\* A response takes an id from the table only by a DELETE, and adds one only for a new
\* session or one that a DELETE has named.
LEMMA RebindRespond ==
  ASSUME RebindInv, NEW r \in Requests, Respond(r), NEW i \in Ids, NEW b \in Requests \cup {NoBinding},
         \/ b = sessions[i]
         \/ b = r /\ sessions[i] = NoBinding /\ header[r] \in {NoId, i},
         NEW deleted \in BOOLEAN, deleted => r \in deleting,
         sessions' = AfterDelete(r, [sessions EXCEPT ![i] = b], deleted),
         UNCHANGED <<header, deleting>>,
         \A q \in Requests : held'[q] = held[q] \/ (q = r /\ held[q] = NoBinding)
  PROVE  AdmittedInv' /\ KeptInv' /\ ReboundInv'
<1> USE RebindTypes DEF RebindInv
<1>1. pc[r] \in {"admitted", "failed"} /\ pc' = [pc EXCEPT ![r] = "responded"]
  BY DEF Respond, Unanswered
<1>2. /\ \A q \in Requests : pc[q] # "new" => pc'[q] # "new"
      /\ \A q \in Requests : InFlight(q)' => InFlight(q)
      /\ InFlight(r) /\ pc[r] # "new"
  BY <1>1 DEF InFlight
<1>3. \A j : DeleteCame(j)' = DeleteCame(j)
  BY DEF DeleteCame
<1>4. \A j \in Ids : \/ sessions'[j] = sessions[j]
                     \/ j = i /\ sessions'[j] = r /\ sessions[j] = NoBinding /\ header[r] \in {NoId, i}
                     \/ sessions'[j] = NoBinding /\ DeleteCame(j)
  BY DEF AfterDelete, DeleteCame
<1>5. AdmittedInv'
  BY <1>2, <1>4 DEF AdmittedInv
<1>6. KeptInv'
  <2> SUFFICES ASSUME NEW q \in Requests, NEW j \in Ids, InFlight(q)', header[q] = j
               PROVE  held'[q] # NoBinding /\ (sessions'[j] = held'[q] \/ DeleteCame(j))
    BY <1>3 DEF KeptInv
  <2>1. InFlight(q) /\ held[q] # NoBinding /\ (sessions[j] = held[q] \/ DeleteCame(j))
    BY <1>2 DEF KeptInv
  <2>2. held'[q] = held[q]
    BY <2>1
  <2> QED
    BY <1>4, <2>1, <2>2
<1>7. ReboundInv'
  <2> SUFFICES ASSUME NEW j \in Ids, sessions'[j] # NoBinding, header[sessions'[j]] # NoId
               PROVE  DeleteCame(j)
    BY <1>3 DEF ReboundInv
  <2>1. CASE sessions'[j] = sessions[j]
    BY <2>1 DEF ReboundInv
  <2>2. CASE j = i /\ sessions'[j] = r /\ sessions[j] = NoBinding /\ header[r] = i
    BY <1>2, <2>2 DEF KeptInv
  <2> QED
    BY <1>4, <2>1, <2>2
<1> QED
  BY <1>5, <1>6, <1>7

LEMMA RebindStep == RebindInv /\ [Next]_vars => RebindInv'
<1> SUFFICES ASSUME RebindInv, [Next]_vars PROVE AdmittedInv' /\ KeptInv' /\ ReboundInv'
  BY IInvStep DEF RebindInv
<1> USE DEF requestVars
<1>0. /\ sessions \in [Ids -> Requests \cup {NoBinding}]
      /\ pc \in [Requests -> RequestStates] /\ deleting \subseteq Requests
      /\ header \in [Requests -> Ids \cup {NoId}]
      /\ held \in [Requests -> Requests \cup {NoBinding}]
  BY RebindTypes DEF RebindInv
<1>1. CASE UNCHANGED vars \/ \E b \in Requests : Idle(b)
  <2>1. UNCHANGED <<sessions, header, deleting, pc, held>>
    BY <1>1 DEF vars, Idle
  <2> QED
    BY <2>1, RebindSame DEF InFlight
<1>2. ASSUME NEW r \in Requests, Unauthorized(r) \/ Fails(r) \/ Finish(r)
      PROVE  AdmittedInv' /\ KeptInv' /\ ReboundInv'
  <2>1. UNCHANGED <<sessions, header, deleting, held>>
    BY <1>2 DEF Unauthorized, Fails, Finish, Refuse
  <2>2. \A q \in Requests : /\ InFlight(q)' => InFlight(q)
                            /\ pc[q] # "new" => pc'[q] # "new"
    BY <1>0, <1>2 DEF Unauthorized, Fails, Finish, Refuse, InFlight, Unanswered
  <2> QED
    BY <2>1, <2>2, RebindSame
<1>3. ASSUME NEW r \in Requests, Forbidden(r) \/ Unavailable(r) \/ Establish(r)
      PROVE  AdmittedInv' /\ KeptInv' /\ ReboundInv'
  <2>1. PICK x \in {"forbidden", "unavailable", "admitted"} : pc' = [pc EXCEPT ![r] = x]
    BY <1>3 DEF Forbidden, Unavailable, Establish, Refuse
  <2>2. /\ pc[r] = "new" /\ sessions' = Pruned /\ UNCHANGED <<header, deleting, held>>
        /\ header[r] = NoId
    BY <1>3 DEF Forbidden, Unavailable, Establish, Refuse, Authenticated, RebindInv, IInv,
      NewHoldsNothing
  <2>3. NoId \notin Ids /\ x # "new"
    BY AuthAssumption
  <2> QED
    BY <2>1, <2>2, <2>3, RebindPrune
<1>4. ASSUME NEW r \in Requests, Resume(r)
      PROVE  AdmittedInv' /\ KeptInv' /\ ReboundInv'
  <2>1. PICK i \in Ids :
          /\ pc[r] = "new" /\ sessions' = Pruned /\ Pruned[i] # NoBinding
          /\ header' = [header EXCEPT ![r] = i] /\ held' = [held EXCEPT ![r] = Pruned[i]]
          /\ deleting' \in {deleting, deleting \cup {r}}
    BY <1>4 DEF Resume, Authenticated, Owns
  <2>2. PICK x \in {"admitted"} : pc' = [pc EXCEPT ![r] = x]
    BY <1>4 DEF Resume
  <2>3. /\ \A q \in Requests : q # r => header'[q] = header[q] /\ held'[q] = held[q]
        /\ held'[r] # NoBinding /\ Pruned[header'[r]] = held'[r]
    BY <1>0, <2>1
  <2>4. deleting \subseteq deleting' /\ deleting' \subseteq deleting \cup {r} /\ x # "new"
    BY <2>1
  <2> QED
    BY <2>1, <2>2, <2>3, <2>4, RebindPrune
<1>5. ASSUME NEW r \in Requests, RespondPlain(r) \/ RespondBound(r) \/ RespondNew(r)
      PROVE  AdmittedInv' /\ KeptInv' /\ ReboundInv'
  <2>1. Respond(r) /\ UNCHANGED <<header, deleting>>
        /\ \A q \in Requests : held'[q] = held[q] \/ (q = r /\ held[q] = NoBinding)
    BY <1>0, <1>5 DEF RespondPlain, RespondBound, RespondNew, Hold
  <2>2. CASE RespondNew(r)
    <3>1. PICK i \in Ids, ok \in BOOLEAN :
            /\ sessions[i] = NoBinding /\ header[r] \in {NoId, i}
            /\ sessions' = AfterDelete(r, [sessions EXCEPT ![i] = r], ok /\ r \in deleting)
      BY <2>2 DEF RespondNew, Conflict
    <3>2. PICK deleted \in BOOLEAN : deleted = (ok /\ r \in deleting)
      OBVIOUS
    <3>3. sessions' = AfterDelete(r, [sessions EXCEPT ![i] = r], deleted)
          /\ r \in Requests \cup {NoBinding} /\ (deleted => r \in deleting)
      BY <3>1, <3>2
    <3> QED
      BY <2>1, <3>1, <3>3, RebindRespond
  <2>3. CASE RespondPlain(r) \/ RespondBound(r)
    <3>1. PICK ok \in BOOLEAN : sessions' = AfterDelete(r, sessions, ok /\ r \in deleting)
      BY <2>3 DEF RespondPlain, RespondBound
    <3>2. PICK deleted \in BOOLEAN : deleted = (ok /\ r \in deleting)
      OBVIOUS
    <3>3. CASE Ids = {}
      BY <1>0, <2>1, <3>3, RebindSame DEF Respond, Unanswered, InFlight, AdmittedInv, KeptInv,
        ReboundInv, RebindInv
    <3>4. ASSUME NEW i \in Ids PROVE AdmittedInv' /\ KeptInv' /\ ReboundInv'
      <4>1. PICK b \in Requests \cup {NoBinding} : b = sessions[i]
        BY <1>0
      <4>2. [sessions EXCEPT ![i] = b] = sessions
        BY <1>0, <4>1
      <4>3. sessions' = AfterDelete(r, [sessions EXCEPT ![i] = b], deleted)
            /\ (deleted => r \in deleting)
        BY <3>1, <3>2, <4>2
      <4> QED
        BY <2>1, <4>1, <4>3, RebindRespond
    <3> QED
      BY <3>3, <3>4
  <2> QED
    BY <1>5, <2>2, <2>3
<1> QED
  BY <1>1, <1>2, <1>3, <1>4, <1>5 DEF Next, RequestStep

\* Where the run bearer_delete finds a session that came back, a DELETE had named it: neither
\* expiry nor capacity lets a request bind the session again that it came with.
THEOREM OnlyDeletedReturn ==
  Spec => [](\A i \in Ids : sessions[i] # NoBinding /\ header[sessions[i]] # NoId =>
               \E d \in deleting : header[d] = i)
<1>1. Init => RebindInv
  <2> SUFFICES ASSUME Init PROVE RebindInv
    OBVIOUS
  <2>1. AdmittedInv /\ KeptInv /\ ReboundInv
    BY AuthAssumption DEF Init, AdmittedInv, KeptInv, ReboundInv, InFlight
  <2> QED
    BY <2>1, IInvInit DEF RebindInv
<1>2. RebindInv => \A i \in Ids : sessions[i] # NoBinding /\ header[sessions[i]] # NoId =>
                                    \E d \in deleting : header[d] = i
  BY DEF RebindInv, ReboundInv, DeleteCame
<1> QED
  BY <1>1, <1>2, RebindStep, PTL DEF Spec
=============================================================================
