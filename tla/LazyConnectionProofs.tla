------------------------ MODULE LazyConnectionProofs ------------------------
(* Theorems about LazyConnection, for any calls and any buffer.            *)
EXTENDS LazyConnection, TLAPS

\* Taking the i-th element out of the queue leaves a sequence of the other ones, in
\* the same order.
LEMMA WithoutType ==
  ASSUME queue \in Seq(Calls), NEW i \in 1..Len(queue)
  PROVE  /\ Without(i) \in Seq(Calls)
         /\ Len(Without(i)) = Len(queue) - 1
         /\ \A k \in 1..Len(Without(i)) :
              Without(i)[k] = IF k < i THEN queue[k] ELSE queue[k + 1]
<1>1. Len(queue) \in Nat /\ Len(queue) >= 1 /\ Len(queue) - 1 \in Nat
  OBVIOUS
<1>2. \A k \in 1..Len(queue) - 1 : queue[k] \in Calls /\ queue[k + 1] \in Calls
  BY <1>1
<1>3. \A k \in 1..Len(queue) - 1 : (IF k < i THEN queue[k] ELSE queue[k + 1]) \in Calls
  BY <1>2
<1>4. Without(i) \in Seq(Calls) /\ Len(Without(i)) = Len(queue) - 1
  BY <1>1, <1>3 DEF Without
<1> QED
  BY <1>1, <1>4 DEF Without

\* What taking a caller's item out of the queue does, whoever does it.
LEMMA WithdrawType ==
  ASSUME queue \in Seq(Calls), NEW c \in Calls, Withdraw(c)
  PROVE  queue' \in Seq(Calls) /\ (queue = <<>> => queue' = <<>>)
BY WithoutType DEF Withdraw, Blocked

\* The end of an iteration keeps the types of what it writes.
LEMMA FinishType ==
  ASSUME TypeOK, NEW err \in Errors, NEW res \in Results, Finish(err, res)
  PROVE  /\ reply' \in [Calls -> BOOLEAN] /\ cancelled' \in [Calls -> BOOLEAN]
         /\ error' \in [Calls -> Errors] /\ result' \in [Calls -> Results]
         /\ cur' = NoCall /\ ownerPc' = "receive"
BY DEF TypeOK, Finish

LEMMA FinishWithErrorType ==
  ASSUME TypeOK, cur \in Calls, NEW err \in Errors, FinishWithError(err)
  PROVE  /\ reply' \in [Calls -> BOOLEAN] /\ cancelled' \in [Calls -> BOOLEAN]
         /\ error' \in [Calls -> Errors] /\ result' \in [Calls -> Results]
         /\ cur' = NoCall /\ ownerPc' = "receive" /\ last_error' \in Errors
BY FinishType DEF TypeOK, FinishWithError

LEMMA SkipType ==
  ASSUME TypeOK, Skip
  PROVE  /\ reply' \in [Calls -> BOOLEAN] /\ cancelled' \in [Calls -> BOOLEAN]
         /\ error' \in [Calls -> Errors] /\ result' \in [Calls -> Results]
         /\ cur' = NoCall /\ ownerPc' = "receive" /\ last_error' \in Errors
<1>1. "none" \in Errors /\ "none" \in Results
  BY DEF Errors, Results
<1> QED
  BY <1>1, FinishType DEF TypeOK, Skip

\* What the answer of tools/list is turned into.
LEMMA DispatchType ==
  ASSUME TypeOK, cur \in Calls, NEW s \in Nat, NEW valid \in BOOLEAN, NEW up \in BOOLEAN,
         Dispatch(s, valid, up)
  PROVE  /\ reply' \in [Calls -> BOOLEAN] /\ cancelled' \in [Calls -> BOOLEAN]
         /\ error' \in [Calls -> Errors] /\ result' \in [Calls -> Results]
         /\ last_error' \in Errors /\ sent' \in Seq(Calls)
         /\ listed' \in Listing /\ catalog_mismatch' \in BOOLEAN /\ connected' \in BOOLEAN
         /\ \/ cur' = NoCall /\ ownerPc' = "receive"
            \/ cur' = cur /\ ownerPc' \in {"call", "drop"}
<1>1. listed' \in Listing /\ catalog_mismatch' \in BOOLEAN
  BY DEF Dispatch, Listing
<1>2. "mismatch" \in Errors /\ "shutdown" \in Errors
  BY DEF Errors
<1>3. CASE FinishWithError("mismatch") /\ connected' = up /\ UNCHANGED sent
  BY <1>1, <1>2, <1>3, FinishWithErrorType DEF TypeOK
<1>4. CASE FinishWithError("shutdown") /\ connected' = up /\ UNCHANGED sent
  BY <1>1, <1>2, <1>4, FinishWithErrorType DEF TypeOK
<1>5. CASE Skip /\ connected' = up /\ UNCHANGED sent
  BY <1>1, <1>5, SkipType DEF TypeOK
<1>6. CASE /\ ownerPc' = "call" /\ sent' = Append(sent, cur)
           /\ connected' = up /\ UNCHANGED <<requestVars, cur, last_error>>
  BY <1>1, <1>6 DEF TypeOK, requestVars
<1>7. CASE /\ ownerPc' = "drop" /\ connected' = FALSE
           /\ UNCHANGED <<requestVars, cur, last_error, sent>>
  BY <1>1, <1>7 DEF TypeOK, requestVars
<1> QED
  BY <1>3, <1>4, <1>5, <1>6, <1>7 DEF Dispatch

TypeInv == TypeOK /\ OwnerInv

\* The owner has a request exactly while it works on one.
LEMMA CurIsCall ==
  ASSUME TypeInv, ownerPc \in {"entry", "relist", "reopen", "connect", "abort", "call", "drop"}
  PROVE  cur \in Calls
BY DEF TypeInv, TypeOK, OwnerInv

LEMMA TypeInvInit == Init => TypeInv
<1> SUFFICES ASSUME Init PROVE TypeInv
  OBVIOUS
<1>1. reply \in [Calls -> BOOLEAN] /\ cancelled \in [Calls -> BOOLEAN]
  BY Zenon DEF Init
<1>2. /\ pc \in [Calls -> CallerStates] /\ ticket \in [Calls -> Nat] /\ arrived \in Nat
      /\ error \in [Calls -> Errors] /\ result \in [Calls -> Results]
  BY DEF Init, CallerStates, Errors, Results
<1>3. listed \in Listing
  BY DEF Init, Listing
<1>4. ownerPc \in OwnerStates /\ last_error \in Errors
  BY DEF Init, OwnerStates, Errors
<1>5. closing \in BOOLEAN /\ groupCancelled \in BOOLEAN /\ connected \in BOOLEAN
      /\ catalog_mismatch \in BOOLEAN
  BY DEF Init
<1>6. /\ queue \in Seq(Calls) /\ sent \in Seq(Calls) /\ cur \in Calls \cup {NoCall}
      /\ session \in Nat /\ stack \subseteq Nat /\ opened \in Nat
  BY DEF Init
<1>7. TypeOK
  BY <1>1, <1>2, <1>3, <1>4, <1>5, <1>6 DEF TypeOK
<1>8. OwnerInv
  BY CallsAssumption DEF Init, OwnerInv
<1> QED
  BY <1>7, <1>8 DEF TypeInv

LEMMA TypeInvStep == TypeInv /\ [Next]_vars => TypeInv'
<1> SUFFICES ASSUME TypeInv, [Next]_vars PROVE TypeInv'
  OBVIOUS
<1> USE CallsAssumption DEF TypeInv, TypeOK, OwnerInv, CallerStates, OwnerStates, Results,
        Errors, callerVars, requestVars, streamVars, ownerVars, sessionVars, checkVars
<1>1. ASSUME NEW c \in Calls, CallRefused(c) \/ CallBroken(c) PROVE TypeInv'
  <2>1. CASE CallRefused(c)
    BY <2>1 DEF CallRefused
  <2>2. CASE CallBroken(c)
    BY <2>2 DEF CallBroken
  <2> QED
    BY <1>1, <2>1, <2>2
<1>2. ASSUME NEW c \in Calls, Call(c) PROVE TypeInv'
  <2>1. CASE ownerPc = "blocked" /\ ~groupCancelled
    <3>1. /\ pc' \in [Calls -> CallerStates] /\ ticket' \in [Calls -> Nat] /\ arrived' \in Nat
          /\ ownerPc' = "entry" /\ cur' = c /\ queue' = queue
          /\ UNCHANGED <<requestVars, closing, groupCancelled, sessionVars, checkVars,
                        last_error, sent>>
      BY <1>2, <2>1 DEF Call
    <3> QED
      BY <3>1
  <2>2. CASE ~(ownerPc = "blocked" /\ ~groupCancelled)
    <3>1. /\ pc' \in [Calls -> CallerStates] /\ ticket' \in [Calls -> Nat] /\ arrived' \in Nat
      BY <1>2 DEF Call
    <3>3. /\ queue' = Append(queue, c) /\ cur' = cur
          /\ ownerPc' = IF ownerPc = "unstarted" THEN "receive" ELSE ownerPc
      BY <1>2, <2>2 DEF Call
    <3>4. queue' \in Seq(Calls)
      BY <3>3
    <3>2. UNCHANGED <<requestVars, closing, groupCancelled, sessionVars, checkVars, last_error,
                     sent>>
      BY <1>2 DEF Call
    <3> QED
      BY <2>2, <3>1, <3>2, <3>3, <3>4
  <2> QED
    BY <2>1, <2>2
<1>3. ASSUME NEW c \in Calls, Return(c) PROVE TypeInv'
  BY <1>3 DEF Return, Verdict
<1>4. ASSUME NEW c \in Calls, CancelCall(c) PROVE TypeInv'
  <2>1. cancelled' \in [Calls -> BOOLEAN]
    BY <1>4 DEF CancelCall
  <2>2. queue' \in Seq(Calls) /\ (queue = <<>> => queue' = <<>>)
    BY <1>4, WithdrawType DEF CancelCall
  <2>3. /\ pc' \in [Calls -> CallerStates]
        /\ UNCHANGED <<ticket, arrived, reply, error, result, closing, groupCancelled,
                      ownerVars, sessionVars, checkVars, last_error, sent>>
    BY <1>4 DEF CancelCall
  <2> QED
    BY <2>1, <2>2, <2>3
<1>5. ASSUME NEW c \in Calls, SendBroken(c) PROVE TypeInv'
  BY <1>5, WithdrawType DEF SendBroken
<1>6. CASE Close
  BY <1>6 DEF Close, Wake
<1>7. CASE CancelGroup
  BY <1>7 DEF CancelGroup
<1>8. CASE Receive
  BY <1>8 DEF Receive
<1>9. CASE Block
  BY <1>9 DEF Block
<1>10. CASE EndOfStream
  BY <1>10 DEF EndOfStream
<1>11. CASE Enter
  <2>1. cur \in Calls /\ UNCHANGED <<callerVars, streamVars, checkVars, sent>>
    BY <1>11, CurIsCall DEF Enter
  <2>2. CASE closing /\ FinishWithError("shutdown") /\ UNCHANGED sessionVars
    BY <1>11, <2>1, <2>2, FinishWithErrorType DEF Enter
  <2>3. CASE Skip /\ UNCHANGED sessionVars
    BY <1>11, <2>1, <2>3, SkipType DEF Enter
  <2>4. CASE /\ \/ session # 0 /\ ownerPc' = "relist" /\ UNCHANGED <<stack, opened>>
                \/ session = 0 /\ OpenSession(stack)
             /\ UNCHANGED <<requestVars, cur, session, last_error>>
    <3>1. session' = session /\ ownerPc' \in {"relist", "connect"}
      BY <2>4 DEF OpenSession
    <3>3. opened' \in Nat
      BY <2>4 DEF OpenSession
    <3>4. stack' \subseteq Nat
      <4>1. stack' = stack \/ stack' = stack \cup {opened + 1}
        BY <2>4 DEF OpenSession
      <4>2. stack \subseteq Nat /\ opened + 1 \in Nat
        OBVIOUS
      <4> QED
        BY <4>1, <4>2
    <3>2. UNCHANGED <<requestVars, cur, last_error>>
      BY <2>4
    <3> QED
      BY <2>1, <3>1, <3>2, <3>3, <3>4
  <2> QED
    BY <1>11, <2>2, <2>3, <2>4 DEF Enter
<1>12. CASE Relisted
  BY <1>12, CurIsCall, DispatchType DEF Relisted
<1>13. CASE Connected
  BY <1>13, CurIsCall, DispatchType DEF Connected
<1>14. CASE ListFailed
  BY <1>14 DEF ListFailed, Lost
<1>15. CASE Reopen
  BY <1>15 DEF Reopen, OpenSession, AfterClose
<1>16. CASE Aborted
  BY <1>16, CurIsCall, FinishWithErrorType DEF Aborted, CloseStack, AfterClose
<1>17. CASE Answered
  BY <1>17, FinishType DEF Answered
<1>18. CASE CallFailed
  BY <1>18 DEF CallFailed, Lost
<1>19. CASE Dropped
  BY <1>19, CurIsCall, FinishWithErrorType DEF Dropped, CloseStack, AfterClose
<1>20. CASE OwnerCancelled
  BY <1>20 DEF OwnerCancelled
<1>21. CASE Exit
  BY <1>21 DEF Exit, CloseStack, AfterClose
<1>22. CASE UNCHANGED vars
  BY <1>22 DEF vars
<1> QED
  BY <1>1, <1>2, <1>3, <1>4, <1>5, <1>6, <1>7, <1>8, <1>9, <1>10, <1>11, <1>12, <1>13,
     <1>14, <1>15, <1>16, <1>17, <1>18, <1>19, <1>20, <1>21, <1>22
  DEF Next, CallerStep, OwnerStep

\* The variables keep their types, whatever the callers, close(), the task group and the
\* owner task do.
THEOREM TypeCorrect == Spec => []TypeOK
<1>1. TypeInv => TypeOK
  BY DEF TypeInv
<1> QED
  BY <1>1, TypeInvInit, TypeInvStep, PTL DEF Spec
-----------------------------------------------------------------------------
(* The owner's session.                                                    *)

SessionIInv == TypeInv /\ SessionInv

\* A step that leaves alone the session and what is reported of it keeps SessionInv if the
\* owner stays, or goes from one of the places between two requests to another.
LEMMA SessionKept ==
  ASSUME SessionInv, UNCHANGED <<session, stack, opened, connected>>,
         \/ ownerPc' = ownerPc
         \/ /\ ownerPc \in {"unstarted", "receive", "blocked", "entry"}
            /\ ownerPc' \in {"receive", "blocked", "entry"}
  PROVE  SessionInv'
BY DEF SessionInv

\* What the owner has when tools/list has answered, whichever way it goes on.
LEMMA DispatchSession ==
  ASSUME NEW s \in Nat \ {0}, NEW valid \in BOOLEAN,
         session' = s, stack' = {s}, Dispatch(s, valid, TRUE)
  PROVE  SessionInv'
BY DEF Dispatch, FinishWithError, Skip, Finish, SessionInv

LEMMA SessionInit == Init => SessionIInv
<1>1. Init => SessionInv
  BY DEF Init, SessionInv
<1> QED
  BY <1>1, TypeInvInit DEF SessionIInv

LEMMA SessionStep == SessionIInv /\ [Next]_vars => SessionIInv'
<1> SUFFICES ASSUME TypeOK, OwnerInv, SessionInv, [Next]_vars PROVE SessionInv'
  BY TypeInvStep DEF SessionIInv, TypeInv
<1> USE DEF sessionVars, ownerVars, checkVars
<1>1. ASSUME NEW c \in Calls, CallerStep(c) PROVE SessionInv'
  <2>1. UNCHANGED <<session, stack, opened, connected>>
    BY <1>1 DEF CallerStep, CallRefused, Call, CallBroken, Return, CancelCall, SendBroken
  <2>2. \/ ownerPc' = ownerPc
        \/ ownerPc = "blocked" /\ ownerPc' = "entry"
        \/ ownerPc = "unstarted" /\ ownerPc' = "receive"
    BY <1>1 DEF CallerStep, CallRefused, Call, CallBroken, Return, CancelCall, SendBroken
  <2> QED
    BY <2>1, <2>2, SessionKept
<1>2. CASE Close
  BY <1>2, SessionKept DEF Close, Wake
<1>3. CASE CancelGroup
  BY <1>3, SessionKept DEF CancelGroup
<1>4. CASE Receive
  BY <1>4, SessionKept DEF Receive
<1>5. CASE Block
  BY <1>5, SessionKept DEF Block
<1>6. CASE EndOfStream
  BY <1>6 DEF EndOfStream, SessionInv
<1>7. CASE Enter
  <2>1. ownerPc = "entry" /\ connected' = connected
    BY <1>7 DEF Enter
  <2>2. \/ session = 0 /\ stack = {} /\ ~connected
        \/ session # 0 /\ stack = {session} /\ connected
    BY <2>1 DEF SessionInv
  <2>3. CASE ownerPc' = "receive" /\ UNCHANGED <<session, stack, opened>>
    BY <2>1, <2>3, SessionKept
  <2>4. CASE /\ session # 0 /\ ownerPc' = "relist"
             /\ UNCHANGED <<session, stack, opened>>
    BY <2>1, <2>2, <2>4 DEF SessionInv
  <2>5. CASE session = 0 /\ OpenSession(stack) /\ UNCHANGED session
    <3>1. ownerPc' = "connect" /\ opened' = opened + 1 /\ stack' = {opened + 1}
      BY <2>2, <2>5 DEF OpenSession
    <3>2. opened + 1 # 0
      BY DEF TypeOK
    <3> QED
      BY <2>1, <2>2, <2>5, <3>1, <3>2 DEF SessionInv
  <2> QED
    BY <1>7, <2>3, <2>4, <2>5 DEF Enter, FinishWithError, Skip, Finish
<1>8. CASE Relisted
  <2>1. session \in Nat \ {0} /\ stack = {session} /\ connected
    BY <1>8 DEF Relisted, SessionInv, TypeOK
  <2>2. PICK valid \in BOOLEAN : /\ Dispatch(session, valid, TRUE)
                                 /\ session' = session /\ stack' = {session}
    BY <1>8, <2>1 DEF Relisted, TypeOK
  <2> QED
    BY <2>1, <2>2, DispatchSession
<1>9. CASE Connected
  <2>1. opened \in Nat \ {0} /\ stack = {opened}
    BY <1>9 DEF Connected, SessionInv, TypeOK
  <2>2. PICK valid \in BOOLEAN : /\ Dispatch(opened, valid, TRUE)
                                 /\ session' = opened /\ stack' = {opened}
    BY <1>9, <2>1 DEF Connected
  <2> QED
    BY <2>1, <2>2, DispatchSession
<1>10. CASE ListFailed
  BY <1>10 DEF ListFailed, Lost, SessionInv
<1>11. CASE Reopen
  BY <1>11 DEF Reopen, OpenSession, AfterClose, SessionInv, TypeOK
<1>12. CASE Aborted
  BY <1>12 DEF Aborted, CloseStack, AfterClose, FinishWithError, Finish, SessionInv
<1>13. CASE Answered
  BY <1>13 DEF Answered, Finish, SessionInv
<1>14. CASE CallFailed
  BY <1>14 DEF CallFailed, Lost, SessionInv
<1>15. CASE Dropped
  BY <1>15 DEF Dropped, CloseStack, AfterClose, FinishWithError, Finish, SessionInv
<1>16. CASE OwnerCancelled
  BY <1>16 DEF OwnerCancelled, SessionInv
<1>17. CASE Exit
  BY <1>17 DEF Exit, CloseStack, AfterClose, SessionInv
<1>18. CASE UNCHANGED vars
  BY <1>18, SessionKept DEF vars
<1> QED
  BY <1>1, <1>2, <1>3, <1>4, <1>5, <1>6, <1>7, <1>8, <1>9, <1>10, <1>11, <1>12, <1>13,
     <1>14, <1>15, <1>16, <1>17, <1>18
  DEF Next, OwnerStep

LEMMA SessionAlways == Spec => []SessionIInv
BY SessionInit, SessionStep, PTL DEF Spec

\* However listing, opening, calling, signing and shutting down fail, the owner holds the
\* contexts of at most one session and ends with none.
THEOREM SingleSession == Spec => []OneSession
<1>1. SessionIInv => OneSession
  BY DEF SessionIInv, SessionInv, TypeInv, TypeOK, OwnerStates, OneSession
<1> QED
  BY <1>1, SessionAlways, PTL

\* The connection reports itself connected exactly as long as it has a session.
THEOREM LiveConnection == Spec => []ConnectedIsLive
<1>1. SessionIInv => ConnectedIsLive
  BY DEF SessionIInv, SessionInv, TypeInv, TypeOK, OwnerStates, ConnectedIsLive
<1> QED
  BY <1>1, SessionAlways, PTL
-----------------------------------------------------------------------------
(* The order of the calls.                                                 *)

Before == {"entry", "relist", "reopen", "connect", "abort"}

OrderIInv == TypeInv /\ OrderInv /\ InOrderAtMostOnce

\* A step that takes no ticket, no request and makes no call keeps the order, if the owner
\* stays with its request or is past the call.
LEMMA OrderKept ==
  ASSUME TypeInv, OrderInv, InOrderAtMostOnce,
         UNCHANGED <<ticket, arrived, queue, sent>>,
         \A d \in Calls : pc'[d] = "idle" => pc[d] = "idle",
         cur' = cur \/ cur' = NoCall,
         ownerPc' \in Before => ownerPc \in Before /\ cur' = cur
  PROVE  OrderInv' /\ InOrderAtMostOnce'
<1>1. \A d \in Calls : d = cur' => d = cur
  BY CallsAssumption
<1> QED
  BY <1>1 DEF OrderInv, InOrderAtMostOnce, Range1, Before

\* A sender that takes its item along leaves the others in order.
LEMMA OrderWithdrawn ==
  ASSUME TypeInv, OrderInv, InOrderAtMostOnce, NEW c \in Calls, Withdraw(c),
         UNCHANGED <<ticket, arrived, sent, cur, ownerPc>>,
         \A d \in Calls : pc'[d] = "idle" => pc[d] = "idle"
  PROVE  OrderInv' /\ InOrderAtMostOnce'
<1>1. CASE queue' = queue
  BY <1>1, OrderKept
<1>2. ASSUME NEW i \in 1..Len(queue), queue' = Without(i) PROVE OrderInv' /\ InOrderAtMostOnce'
  <2>1. queue \in Seq(Calls)
    BY DEF TypeInv, TypeOK
  <2>2. Len(queue) \in Nat /\ Len(queue') = Len(queue) - 1
    BY <1>2, <2>1, WithoutType
  <2> DEFINE at(k) == IF k < i THEN k ELSE k + 1
  <2>3. \A k \in 1..Len(queue') : queue'[k] = queue[at(k)]
    <3>1. \A k \in 1..Len(Without(i)) :
            Without(i)[k] = IF k < i THEN queue[k] ELSE queue[k + 1]
      BY <2>1, WithoutType
    <3> QED
      BY <1>2, <3>1
  <2>4. \A k \in 1..Len(queue') : at(k) \in 1..Len(queue) /\ queue'[k] = queue[at(k)]
    BY <2>2, <2>3
  <2>5. \A k, l \in 1..Len(queue') : k < l => at(k) < at(l)
    BY <2>2
  <2> HIDE DEF at
  <2>6. \A k, l \in 1..Len(queue') : k < l => ticket[queue'[k]] < ticket[queue'[l]]
    BY <2>4, <2>5 DEF OrderInv
  <2>7. \A d \in Calls : d \in Range1(queue') => d \in Range1(queue)
    BY <2>4 DEF Range1
  <2>8. \A k \in 1..Len(queue') : /\ cur # NoCall => ticket[cur] < ticket[queue'[k]]
                                  /\ \A l \in 1..Len(sent) : ticket[sent[l]] < ticket[queue'[k]]
    BY <2>4 DEF OrderInv
  <2>9. InOrderAtMostOnce'
    BY DEF InOrderAtMostOnce
  <2> QED
    BY <2>6, <2>7, <2>8, <2>9 DEF OrderInv, Range1
<1> QED
  BY <1>1, <1>2 DEF Withdraw

\* A new call gets a ticket above all others and goes behind all others.
LEMMA OrderCalled ==
  ASSUME TypeInv, OrderInv, InOrderAtMostOnce, NEW c \in Calls, Call(c)
  PROVE  OrderInv' /\ InOrderAtMostOnce'
<1> USE DEF TypeInv, TypeOK
<1>1. /\ pc[c] = "idle" /\ pc' = [pc EXCEPT ![c] = "waiting"]
      /\ arrived' = arrived + 1 /\ ticket' = [ticket EXCEPT ![c] = arrived + 1]
      /\ sent' = sent
  BY DEF Call
<1>2. c # cur /\ c \notin Range1(queue) /\ c \notin Range1(sent)
  BY <1>1 DEF OrderInv
<1>3. /\ ticket'[c] = arrived'
      /\ \A d \in Calls : d # c => ticket'[d] = ticket[d] /\ ticket[d] < arrived'
      /\ \A d \in Calls : ticket'[d] \in Nat /\ ticket'[d] <= arrived'
  BY <1>1 DEF OrderInv
<1>4. /\ \A i \in 1..Len(queue) : queue[i] \in Calls /\ queue[i] # c
      /\ \A i \in 1..Len(sent) : sent[i] \in Calls /\ sent[i] # c
  <2>1. queue \in Seq(Calls) /\ sent \in Seq(Calls)
    OBVIOUS
  <2>2. \A i \in 1..Len(queue) : queue[i] # c
    BY <1>2 DEF Range1
  <2>3. \A i \in 1..Len(sent) : sent[i] # c
    BY <1>2 DEF Range1
  <2> QED
    BY <2>1, <2>2, <2>3
<1>5. InOrderAtMostOnce'
  BY <1>1, <1>3, <1>4 DEF InOrderAtMostOnce
<1>6. CASE /\ ownerPc = "blocked" /\ ~groupCancelled
           /\ ownerPc' = "entry" /\ cur' = c /\ queue' = queue
  <2>1. queue = <<>>
    BY <1>6 DEF OwnerInv, Call
  <2>2. \A d \in Calls : pc'[d] = "idle" => /\ d # cur'
                                            /\ d \notin Range1(queue') /\ d \notin Range1(sent')
    BY <1>1, <1>6 DEF OrderInv, Range1
  <2>3. \A i \in 1..Len(sent') : ticket'[sent'[i]] < ticket'[cur']
    BY <1>1, <1>3, <1>4, <1>6
  <2>4. Len(queue') = 0
    BY <1>6, <2>1
  <2> QED
    BY <1>3, <1>5, <2>2, <2>3, <2>4 DEF OrderInv
<1>7. CASE /\ queue' = Append(queue, c) /\ cur' = cur
           /\ ownerPc' = IF ownerPc = "unstarted" THEN "receive" ELSE ownerPc
  <2>1. /\ Len(queue') = Len(queue) + 1 /\ Len(queue) \in Nat
        /\ queue'[Len(queue')] = c
        /\ \A i \in 1..Len(queue) : queue'[i] = queue[i]
    BY <1>7
  <2>2. \A i \in 1..Len(queue') : i \in 1..Len(queue) \/ i = Len(queue')
    BY <2>1
  <2>3. \A d \in Calls : pc'[d] = "idle" => /\ d # cur'
                                            /\ d \notin Range1(queue') /\ d \notin Range1(sent')
    <3>1. \A d \in Calls : pc'[d] = "idle" => pc[d] = "idle" /\ d # c
      BY <1>1
    <3>2. \A d \in Calls : d \in Range1(queue') => d = c \/ d \in Range1(queue)
      BY <2>1, <2>2 DEF Range1
    <3>3. Range1(sent') = Range1(sent)
      BY <1>1 DEF Range1
    <3> QED
      BY <1>7, <3>1, <3>2, <3>3 DEF OrderInv
  <2>4. \A i, j \in 1..Len(queue') : i < j => ticket'[queue'[i]] < ticket'[queue'[j]]
    <3> SUFFICES ASSUME NEW i \in 1..Len(queue'), NEW j \in 1..Len(queue'), i < j
                 PROVE  ticket'[queue'[i]] < ticket'[queue'[j]]
      OBVIOUS
    <3>1. i \in 1..Len(queue) /\ queue'[i] = queue[i] /\ ticket'[queue[i]] = ticket[queue[i]]
      BY <1>3, <1>4, <2>1
    <3>2. CASE j = Len(queue')
      BY <1>3, <1>4, <2>1, <3>1, <3>2
    <3>3. CASE j \in 1..Len(queue)
      BY <1>3, <1>4, <2>1, <3>1, <3>3 DEF OrderInv
    <3> QED
      BY <2>2, <3>2, <3>3
  <2>5. \A j \in 1..Len(queue') :
          /\ cur' # NoCall => ticket'[cur'] < ticket'[queue'[j]]
          /\ \A i \in 1..Len(sent') : ticket'[sent'[i]] < ticket'[queue'[j]]
    <3> SUFFICES ASSUME NEW j \in 1..Len(queue')
                 PROVE  /\ cur' # NoCall => ticket'[cur'] < ticket'[queue'[j]]
                        /\ \A i \in 1..Len(sent') : ticket'[sent'[i]] < ticket'[queue'[j]]
      OBVIOUS
    <3>1. CASE j = Len(queue')
      BY <1>1, <1>2, <1>3, <1>4, <1>7, <2>1, <3>1
    <3>2. CASE j \in 1..Len(queue)
      BY <1>1, <1>2, <1>3, <1>4, <1>7, <2>1, <3>2 DEF OrderInv
    <3> QED
      BY <2>2, <3>1, <3>2
  <2>6. \A i \in 1..Len(sent') : ownerPc' \in Before => ticket'[sent'[i]] < ticket'[cur']
    <3>1. ownerPc' \in Before => ownerPc \in Before /\ cur \in Calls
      BY <1>7, CurIsCall DEF Before
    <3> QED
      BY <1>1, <1>2, <1>3, <1>4, <1>7, <3>1 DEF OrderInv, Before
  <2> QED
    BY <1>3, <1>5, <2>3, <2>4, <2>5, <2>6 DEF OrderInv, Before
<1> QED
  BY <1>6, <1>7 DEF Call

\* The owner takes the request with the lowest ticket.
LEMMA OrderReceived ==
  ASSUME TypeInv, OrderInv, InOrderAtMostOnce, Receive
  PROVE  OrderInv' /\ InOrderAtMostOnce'
<1> USE DEF TypeInv, TypeOK
<1>1. /\ queue # <<>> /\ cur' = queue[1] /\ queue' = Tail(queue)
      /\ UNCHANGED <<pc, ticket, arrived, sent>>
  BY DEF Receive, callerVars
<1>2. /\ Len(queue) \in Nat \ {0} /\ Len(queue') = Len(queue) - 1
      /\ \A i \in 1..Len(queue') : i + 1 \in 1..Len(queue) /\ queue'[i] = queue[i + 1]
  BY <1>1
<1>3. 1 \in 1..Len(queue) /\ cur' \in Range1(queue) /\ Range1(queue') \subseteq Range1(queue)
  BY <1>1, <1>2 DEF Range1
<1>4. \A i, j \in 1..Len(queue') : i < j => ticket[queue'[i]] < ticket[queue'[j]]
  <2> SUFFICES ASSUME NEW i \in 1..Len(queue'), NEW j \in 1..Len(queue'), i < j
               PROVE  ticket[queue'[i]] < ticket[queue'[j]]
    OBVIOUS
  <2>1. i + 1 \in 1..Len(queue) /\ j + 1 \in 1..Len(queue) /\ i + 1 < j + 1
    BY <1>2
  <2>2. ticket[queue[i + 1]] < ticket[queue[j + 1]]
    BY <2>1 DEF OrderInv
  <2> QED
    BY <1>2, <2>2
<1>5. \A j \in 1..Len(queue') : /\ ticket[cur'] < ticket[queue'[j]]
                                /\ \A i \in 1..Len(sent) : ticket[sent[i]] < ticket[queue'[j]]
  BY <1>1, <1>2, <1>3 DEF OrderInv
<1>6. \A i \in 1..Len(sent) : ticket[sent[i]] < ticket[cur']
  BY <1>1, <1>3 DEF OrderInv
<1>7. InOrderAtMostOnce'
  BY <1>1 DEF InOrderAtMostOnce
<1>8. \A d \in Calls : pc'[d] = "idle" => /\ d # cur'
                                          /\ d \notin Range1(queue') /\ d \notin Range1(sent')
  BY <1>1, <1>3 DEF OrderInv, Range1
<1> QED
  BY <1>1, <1>4, <1>5, <1>6, <1>7, <1>8 DEF OrderInv

\* The call that is made is younger than those made before.
LEMMA OrderDispatched ==
  ASSUME TypeInv, OrderInv, InOrderAtMostOnce, ownerPc \in {"relist", "connect"},
         NEW s \in Nat, NEW valid \in BOOLEAN, NEW up \in BOOLEAN, Dispatch(s, valid, up),
         UNCHANGED <<callerVars, queue>>
  PROVE  OrderInv' /\ InOrderAtMostOnce'
<1> USE DEF callerVars, TypeInv, TypeOK
<1>1. cur \in Calls
  BY CurIsCall
<1>2. CASE sent' = sent /\ (cur' = cur \/ cur' = NoCall) /\ ownerPc' \notin Before
  BY <1>2, OrderKept
<1>3. CASE sent' = Append(sent, cur) /\ cur' = cur /\ ownerPc' = "call"
  <2>1. /\ Len(sent') = Len(sent) + 1 /\ Len(sent) \in Nat
        /\ sent'[Len(sent')] = cur
        /\ \A i \in 1..Len(sent) : sent'[i] = sent[i]
    BY <1>1, <1>3
  <2>2. \A i \in 1..Len(sent') : i \in 1..Len(sent) \/ i = Len(sent')
    BY <2>1
  <2>3. \A i \in 1..Len(sent) : ticket[sent[i]] < ticket[cur]
    BY DEF OrderInv
  <2>4. InOrderAtMostOnce'
    <3> SUFFICES ASSUME NEW i \in 1..Len(sent'), NEW j \in 1..Len(sent'), i < j
                 PROVE  ticket[sent'[i]] < ticket[sent'[j]]
      BY DEF InOrderAtMostOnce
    <3>1. i \in 1..Len(sent) /\ sent'[i] = sent[i]
      BY <2>1
    <3> QED
      BY <2>1, <2>2, <2>3, <3>1 DEF InOrderAtMostOnce
  <2>5. \A i \in 1..Len(sent'), j \in 1..Len(queue) : ticket[sent'[i]] < ticket[queue[j]]
    <3> SUFFICES ASSUME NEW i \in 1..Len(sent'), NEW j \in 1..Len(queue)
                 PROVE  ticket[sent'[i]] < ticket[queue[j]]
      OBVIOUS
    <3>1. CASE i = Len(sent')
      BY <1>1, <2>1, <3>1, CallsAssumption DEF OrderInv
    <3>2. CASE i \in 1..Len(sent)
      BY <2>1, <3>2 DEF OrderInv
    <3> QED
      BY <2>2, <3>1, <3>2
  <2>6. \A d \in Calls : pc[d] = "idle" => /\ d # cur' /\ d \notin Range1(queue)
                                           /\ d \notin Range1(sent')
    BY <1>3, <2>1, <2>2 DEF OrderInv, Range1
  <2> QED
    BY <1>3, <2>4, <2>5, <2>6 DEF OrderInv, Range1
<1> QED
  BY <1>2, <1>3 DEF Dispatch, FinishWithError, Skip, Finish, Before

LEMMA OrderInit == Init => OrderIInv
<1>1. Init => OrderInv /\ InOrderAtMostOnce
  BY CallsAssumption DEF Init, OrderInv, InOrderAtMostOnce, Range1
<1> QED
  BY <1>1, TypeInvInit DEF OrderIInv

LEMMA OrderStep == OrderIInv /\ [Next]_vars => OrderIInv'
<1> SUFFICES ASSUME TypeInv, OrderInv, InOrderAtMostOnce, [Next]_vars
             PROVE  OrderInv' /\ InOrderAtMostOnce'
  BY TypeInvStep DEF OrderIInv
<1> USE DEF callerVars, streamVars, ownerVars, sessionVars, checkVars
<1>1. ASSUME NEW c \in Calls, CallRefused(c) \/ CallBroken(c)
      PROVE  OrderInv' /\ InOrderAtMostOnce'
  BY <1>1, OrderKept DEF CallRefused, CallBroken, TypeInv, TypeOK
<1>2. ASSUME NEW c \in Calls, Call(c) PROVE OrderInv' /\ InOrderAtMostOnce'
  BY <1>2, OrderCalled
<1>3. ASSUME NEW c \in Calls, Return(c) PROVE OrderInv' /\ InOrderAtMostOnce'
  BY <1>3, OrderKept DEF Return, Verdict, TypeInv, TypeOK
<1>4. ASSUME NEW c \in Calls, CancelCall(c) PROVE OrderInv' /\ InOrderAtMostOnce'
  BY <1>4, OrderWithdrawn DEF CancelCall, TypeInv, TypeOK
<1>5. ASSUME NEW c \in Calls, SendBroken(c) PROVE OrderInv' /\ InOrderAtMostOnce'
  BY <1>5, OrderWithdrawn DEF SendBroken, TypeInv, TypeOK
<1>6. CASE Close
  BY <1>6, OrderKept DEF Close, Wake, Before
<1>7. CASE CancelGroup
  BY <1>7, OrderKept DEF CancelGroup
<1>8. CASE Receive
  BY <1>8, OrderReceived
<1>9. CASE Block \/ EndOfStream
  BY <1>9, OrderKept DEF Block, EndOfStream, Before
<1>10. CASE Enter
  <2>1. /\ ownerPc = "entry" /\ UNCHANGED <<pc, ticket, arrived, queue, sent>>
        /\ cur' = cur \/ cur' = NoCall
        /\ ownerPc' \in Before => cur' = cur
    BY <1>10 DEF Enter, FinishWithError, Skip, Finish, OpenSession, Before
  <2> QED
    BY <2>1, OrderKept DEF Before
<1>11. CASE Relisted
  BY <1>11, OrderDispatched DEF Relisted, TypeInv, TypeOK
<1>12. CASE Connected
  BY <1>12, OrderDispatched DEF Connected, TypeInv, TypeOK
<1>13. CASE ListFailed
  BY <1>13, OrderKept DEF ListFailed, Lost, Before
<1>14. CASE Reopen
  BY <1>14, OrderKept DEF Reopen, OpenSession, Before
<1>15. CASE Aborted \/ Dropped
  BY <1>15, OrderKept DEF Aborted, Dropped, FinishWithError, Finish, Before
<1>16. CASE Answered
  BY <1>16, OrderKept DEF Answered, Finish, Before
<1>17. CASE CallFailed
  BY <1>17, OrderKept DEF CallFailed, Lost, Before
<1>18. CASE OwnerCancelled \/ Exit
  BY <1>18, OrderKept DEF OwnerCancelled, Exit, Before
<1>19. CASE UNCHANGED vars
  BY <1>19, OrderKept DEF vars
<1> QED
  BY <1>1, <1>2, <1>3, <1>4, <1>5, <1>6, <1>7, <1>8, <1>9, <1>10, <1>11, <1>12, <1>13,
     <1>14, <1>15, <1>16, <1>17, <1>18, <1>19
  DEF Next, CallerStep, OwnerStep

\* The upstream is called in the order in which the requests were accepted, and never twice
\* for one request, whatever fails and whoever gives up.
THEOREM InOrder == Spec => []InOrderAtMostOnce
<1>1. OrderIInv => InOrderAtMostOnce
  BY DEF OrderIInv
<1> QED
  BY <1>1, OrderInit, OrderStep, PTL DEF Spec
-----------------------------------------------------------------------------
(* What holds when a call is made.                                         *)

\* Every cancelled caller has marked its request.
MarkInv == \A c \in Calls : pc[c] = "cancelled" => cancelled[c]

LEMMA MarkStep == TypeOK /\ MarkInv /\ [Next]_vars => MarkInv'
<1> SUFFICES ASSUME TypeOK, MarkInv, [Next]_vars PROVE MarkInv'
  OBVIOUS
<1> USE DEF MarkInv, TypeOK, callerVars, requestVars
<1>1. ASSUME NEW c \in Calls, CallerStep(c) PROVE MarkInv'
  BY <1>1 DEF CallerStep, CallRefused, Call, CallBroken, Return, Verdict, CancelCall, SendBroken
<1>2. CASE Close \/ CancelGroup \/ OwnerStep
  <2>1. UNCHANGED <<pc, cancelled>>
    BY <1>2 DEF Close, CancelGroup, OwnerStep, Receive, Block, EndOfStream, Enter, Relisted,
       Connected, Dispatch, ListFailed, Reopen, Aborted, Answered, CallFailed, Dropped,
       OwnerCancelled, Exit, FinishWithError, Skip, Finish
  <2> QED
    BY <2>1
<1>3. CASE UNCHANGED vars
  BY <1>3 DEF vars
<1> QED
  BY <1>1, <1>2, <1>3 DEF Next

\* The last call of sent' is the one the owner has checked.
LEMMA DispatchedCall ==
  ASSUME TypeOK, MarkInv, cur \in Calls, NEW s \in Nat, NEW valid \in BOOLEAN,
         NEW up \in BOOLEAN, Dispatch(s, valid, up), sent' # sent
  PROVE  /\ sent'[Len(sent')] = cur /\ ~closing /\ pc[cur] # "cancelled"
         /\ listed' = [call |-> cur, session |-> s, valid |-> TRUE]
<1>1. /\ valid /\ MayDispatch /\ sent' = Append(sent, cur)
      /\ listed' = [call |-> cur, session |-> s, valid |-> valid]
  BY DEF Dispatch
<1> QED
  BY <1>1 DEF MayDispatch, MarkInv, TypeOK

\* Whatever ran while the owner awaited tools/list, the call it then makes is for a caller
\* still there, on the open session that listed the matching catalog for this request.
THEOREM CheckedDispatch == Spec => DispatchChecked
<1> DEFINE Checked == LET c == sent'[Len(sent')] IN
                        /\ ~closing /\ pc[c] # "cancelled"
                        /\ listed' = [call |-> c, session |-> session', valid |-> TRUE]
                        /\ session' \in stack'
<1>1. Init => MarkInv
  BY DEF Init, MarkInv
<1>2. SessionIInv => TypeOK
  BY DEF SessionIInv, TypeInv
<1>3. SessionIInv /\ MarkInv /\ [Next]_vars => [sent' # sent => Checked]_vars
  <2> SUFFICES ASSUME SessionIInv, MarkInv, Next, sent' # sent PROVE Checked
    OBVIOUS
  <2> USE DEF SessionIInv, TypeInv
  <2>1. Relisted \/ Connected
    BY DEF Next, CallerStep, CallRefused, Call, CallBroken, Return, CancelCall, SendBroken, Close,
       CancelGroup, OwnerStep, Receive, Block, EndOfStream, Enter, ListFailed, Reopen, Aborted,
       Answered, CallFailed, Dropped, OwnerCancelled, Exit
  <2>2. CASE Relisted
    <3>1. session' = session /\ session' \in stack' /\ cur \in Calls
      BY <2>2, CurIsCall DEF Relisted, SessionInv, sessionVars
    <3> QED
      BY <2>2, <3>1, DispatchedCall DEF Relisted, TypeOK
  <2>3. CASE Connected
    <3>1. session' = opened /\ session' \in stack' /\ cur \in Calls
      BY <2>3, CurIsCall DEF Connected, SessionInv
    <3> QED
      BY <2>3, <3>1, DispatchedCall DEF Connected, TypeOK
  <2> QED
    BY <2>1, <2>2, <2>3
<1> QED
  BY <1>1, <1>2, <1>3, SessionAlways, MarkStep, PTL DEF Spec, DispatchChecked
=============================================================================
