-------------------------- MODULE LazyAnswerProofs --------------------------
(* Theorems about the answers of LazyConnection: which calls get one, what *)
(* it says of the call, and that the connection implements CallForwarding  *)
(* and OwnedConnection.                                                    *)
EXTENDS LazyConnectionProofs

\* The invariants proved of the owner's bookkeeping.
Ordered == TypeInv /\ OrderInv /\ InOrderAtMostOnce

\* A request is in one place: the one at hand is not in the stream, and neither it, before
\* its call, nor any in the stream has been made a call.
LEMMA Apart ==
  ASSUME TypeInv, OrderInv
  PROVE  /\ cur \in Calls => cur \notin Range1(queue)
         /\ ownerPc \in Before => cur \notin Range1(sent)
         /\ \A c \in Calls : c \in Range1(queue) => c \notin Range1(sent)
<1> USE DEF TypeInv, TypeOK
<1>1. ASSUME cur \in Calls, NEW i \in 1..Len(queue), queue[i] = cur PROVE FALSE
  <2>1. cur # NoCall /\ ticket[cur] \in Nat
    BY <1>1, CallsAssumption
  <2>2. ticket[cur] < ticket[queue[i]]
    BY <2>1 DEF OrderInv
  <2> QED
    BY <1>1, <2>1, <2>2
<1>2. ASSUME ownerPc \in Before, NEW i \in 1..Len(sent), sent[i] = cur PROVE FALSE
  <2>1. cur \in Calls
    BY <1>2, CurIsCall DEF Before
  <2> QED
    BY <1>2, <2>1 DEF OrderInv, Before
<1>3. ASSUME NEW i \in 1..Len(queue), NEW j \in 1..Len(sent), queue[i] = sent[j] PROVE FALSE
  <2>1. queue[i] \in Calls /\ ticket[queue[i]] \in Nat
    OBVIOUS
  <2>2. ticket[sent[j]] < ticket[queue[i]]
    BY DEF OrderInv
  <2> QED
    BY <1>3, <2>1, <2>2
<1> QED
  BY <1>1, <1>2, <1>3 DEF Range1

\* A blocked sender's item is the only one of its call; taking it out leaves the others.
LEMMA WithdrawnRange ==
  ASSUME TypeInv, OrderInv, NEW c \in Calls, Withdraw(c)
  PROVE  /\ \A d \in Calls : d \in Range1(queue') => d \in Range1(queue)
         /\ \A d \in Calls : d # c /\ d \in Range1(queue) => d \in Range1(queue')
         /\ Blocked(c) => c \in Range1(queue) /\ c \notin Range1(queue')
<1>1. CASE ~Blocked(c)
  BY <1>1 DEF Withdraw, Range1
<1>2. CASE Blocked(c)
  <2>1. PICK i \in 1..Len(queue) : queue[i] = c /\ queue' = Without(i)
    BY <1>2 DEF Withdraw
  <2>2. queue \in Seq(Calls) /\ Len(queue) \in Nat
    BY DEF TypeInv, TypeOK
  <2>3. /\ Len(queue') = Len(queue) - 1
        /\ \A k \in 1..Len(queue') : queue'[k] = IF k < i THEN queue[k] ELSE queue[k + 1]
    BY <2>1, <2>2 DEF Without
  <2>4. \A k \in 1..Len(queue') : \E l \in 1..Len(queue) : l # i /\ queue'[k] = queue[l]
    <3> TAKE k \in 1..Len(queue')
    <3>1. CASE k < i
      BY <2>2, <2>3, <3>1
    <3>2. CASE ~(k < i)
      <4>1. k + 1 \in 1..Len(queue) /\ k + 1 # i /\ queue'[k] = queue[k + 1]
        BY <2>2, <2>3, <3>2
      <4> QED
        BY <4>1
    <3> QED
      BY <3>1, <3>2
  <2>5. \A l \in 1..Len(queue) : l # i => \E k \in 1..Len(queue') : queue'[k] = queue[l]
    <3> SUFFICES ASSUME NEW l \in 1..Len(queue), l # i
                 PROVE  \E k \in 1..Len(queue') : queue'[k] = queue[l]
      OBVIOUS
    <3>1. CASE l < i
      BY <2>2, <2>3, <3>1
    <3>2. CASE l > i
      <4>1. l - 1 \in 1..Len(queue') /\ ~(l - 1 < i) /\ (l - 1) + 1 = l
        BY <2>2, <2>3, <3>2
      <4>2. queue'[l - 1] = queue[l]
        BY <2>3, <4>1
      <4> QED
        BY <4>1, <4>2
    <3> QED
      BY <2>2, <3>1, <3>2
  <2>6. \A l \in 1..Len(queue) : l # i => queue[l] # c
    <3> SUFFICES ASSUME NEW l \in 1..Len(queue), l # i, queue[l] = c PROVE FALSE
      OBVIOUS
    <3>1. l < i \/ i < l
      BY <2>2
    <3>2. ticket[queue[l]] < ticket[queue[i]] \/ ticket[queue[i]] < ticket[queue[l]]
      BY <3>1 DEF OrderInv
    <3>3. ticket[c] \in Nat
      BY DEF TypeInv, TypeOK
    <3> QED
      BY <2>1, <3>2, <3>3
  <2>7. /\ \A x : x \in Range1(queue) <=> \E l \in 1..Len(queue) : x = queue[l]
        /\ \A x : x \in Range1(queue') <=> \E k \in 1..Len(queue') : x = queue'[k]
    BY DEF Range1
  <2>8. \A d \in Calls : d \in Range1(queue') => d \in Range1(queue)
    BY <2>4, <2>7
  <2>9. \A d \in Calls : d # c /\ d \in Range1(queue) => d \in Range1(queue')
    BY <2>1, <2>5, <2>7
  <2>10. c \in Range1(queue) /\ c \notin Range1(queue')
    BY <2>1, <2>4, <2>6, <2>7
  <2> QED
    BY <2>8, <2>9, <2>10
<1> QED
  BY <1>1, <1>2

-----------------------------------------------------------------------------
(* What a request's fields say.                                            *)

\* A step that writes no field of a request and puts none in the owner's hands or in the
\* stream keeps AnswerInv.
LEMMA AnswerKept ==
  ASSUME AnswerInv, UNCHANGED <<requestVars, sent, pc>>, groupCancelled => groupCancelled',
         \A c \in Calls : c = cur' \/ c \in Range1(queue') => c = cur \/ c \in Range1(queue),
         ownerPc' = "call" => ownerPc = "call" /\ cur' = cur
  PROVE  AnswerInv'
BY DEF AnswerInv, requestVars, Range1

\* The end of an iteration keeps AnswerInv, if what it says of the call is so.
LEMMA AnswerFinished ==
  ASSUME TypeInv, OrderInv, AnswerInv, cur \in Calls,
         NEW err \in Errors, NEW res \in Results, Finish(err, res),
         UNCHANGED <<sent, pc, queue, groupCancelled>>,
         err \in {"shutdown", "unavailable", "mismatch"} => cur \notin Range1(sent),
         res # "none" => cur \in Range1(sent),
         res = "unsupported" => err # "none",
         err = "none" /\ res = "none" => cancelled[cur]
  PROVE  AnswerInv'
<1> USE DEF TypeInv, TypeOK
<1>1. /\ reply' = [reply EXCEPT ![cur] = TRUE] /\ error' = [error EXCEPT ![cur] = err]
      /\ result' = [result EXCEPT ![cur] = res] /\ cancelled' = cancelled
      /\ cur' = NoCall /\ ownerPc' = "receive"
  BY DEF Finish
<1>2. cur \notin Range1(queue) /\ Range1(queue') = Range1(queue) /\ Range1(sent') = Range1(sent)
  BY Apart DEF Range1
<1>3. ~reply[cur] /\ pc[cur] \in {"waiting", "cancelled"}
  BY DEF AnswerInv
<1>4. \A c \in Calls : c # cur' /\ (c = cur => c \notin Range1(queue))
  BY <1>1, <1>2, CallsAssumption
<1> SUFFICES ASSUME NEW c \in Calls
    PROVE  /\ pc'[c] = "idle" => ~reply'[c] /\ ~cancelled'[c]
           /\ c = cur' /\ ownerPc' = "call" => c \in Range1(sent') /\ result'[c] = "none"
           /\ c = cur' \/ c \in Range1(queue') =>
                ~reply'[c] /\ pc'[c] \in {"waiting", "cancelled"}
           /\ pc'[c] \notin {"idle", "refused"} => (pc'[c] = "cancelled" <=> cancelled'[c])
           /\ error'[c] # "none" => reply'[c]
           /\ error'[c] \in {"shutdown", "unavailable", "mismatch"} => c \notin Range1(sent')
           /\ result'[c] # "none" => c \in Range1(sent')
           /\ reply'[c] /\ result'[c] = "unsupported" => error'[c] # "none"
           /\ reply'[c] /\ error'[c] = "none" /\ result'[c] = "none" =>
                cancelled'[c] \/ groupCancelled'
  BY DEF AnswerInv
<1>5. CASE c = cur
  BY <1>1, <1>2, <1>3, <1>4, <1>5 DEF AnswerInv
<1>6. CASE c # cur
  <2>1. /\ reply'[c] = reply[c] /\ error'[c] = error[c] /\ result'[c] = result[c]
        /\ cancelled'[c] = cancelled[c] /\ pc'[c] = pc[c] /\ groupCancelled' = groupCancelled
    BY <1>1, <1>6
  <2> QED
    BY <1>1, <1>2, <1>4, <1>6, <2>1 DEF AnswerInv
<1> QED
  BY <1>5, <1>6

LEMMA AnswerFinishedWithError ==
  ASSUME TypeInv, OrderInv, AnswerInv, cur \in Calls,
         NEW err \in Errors \ {"none"}, FinishWithError(err),
         UNCHANGED <<sent, pc, queue, groupCancelled>>,
         err \in {"shutdown", "unavailable", "mismatch"} => cur \notin Range1(sent)
  PROVE  AnswerInv'
<1>1. result[cur] \in Results /\ Finish(err, result[cur])
  BY DEF FinishWithError, TypeInv, TypeOK
<1>2. result[cur] # "none" => cur \in Range1(sent)
  BY DEF AnswerInv
<1> QED
  BY <1>1, <1>2, AnswerFinished

LEMMA AnswerSkipped ==
  ASSUME TypeInv, OrderInv, AnswerInv, cur \in Calls, Skip, cancelled[cur],
         UNCHANGED <<sent, pc, queue, groupCancelled>>
  PROVE  AnswerInv'
<1>1. "none" \in Errors /\ "none" \in Results
  BY DEF Errors, Results
<1> QED
  BY <1>1, AnswerFinished DEF Skip

\* What a request's fields say once tools/list has answered for it.
LEMMA AnswerDispatched ==
  ASSUME TypeInv, OrderInv, AnswerInv, ownerPc \in {"relist", "connect"},
         NEW s \in Nat, NEW valid \in BOOLEAN, NEW up \in BOOLEAN, Dispatch(s, valid, up),
         UNCHANGED <<pc, queue, groupCancelled>>
  PROVE  AnswerInv'
<1> USE DEF requestVars
<1>1. cur \in Calls /\ cur \notin Range1(queue) /\ cur \notin Range1(sent)
  BY CurIsCall, Apart DEF Before
<1>2. "mismatch" \in Errors /\ "shutdown" \in Errors
  BY DEF Errors
<1>3. CASE FinishWithError("mismatch") /\ UNCHANGED sent
  BY <1>1, <1>2, <1>3, AnswerFinishedWithError
<1>4. CASE FinishWithError("shutdown") /\ UNCHANGED sent
  BY <1>1, <1>2, <1>4, AnswerFinishedWithError
<1>5. CASE Skip /\ cancelled[cur] /\ UNCHANGED sent
  BY <1>1, <1>5, AnswerSkipped
<1>6. CASE /\ ownerPc' = "call" /\ sent' = Append(sent, cur)
           /\ UNCHANGED <<requestVars, cur>>
  <2>1. sent \in Seq(Calls) /\ Len(sent) \in Nat
    BY DEF TypeInv, TypeOK
  <2>2. /\ Len(sent') = Len(sent) + 1 /\ sent'[Len(sent')] = cur
        /\ \A i \in 1..Len(sent) : sent'[i] = sent[i]
    BY <1>1, <1>6, <2>1
  <2>3. \A i \in 1..Len(sent') : i \in 1..Len(sent) \/ i = Len(sent')
    BY <2>1, <2>2
  <2>4. \A c \in Calls : c \in Range1(sent') <=> c \in Range1(sent) \/ c = cur
    BY <2>1, <2>2, <2>3 DEF Range1
  <2>5. Range1(queue') = Range1(queue)
    BY DEF Range1
  <2>6. error[cur] = "none" /\ result[cur] = "none"
    BY <1>1 DEF AnswerInv, TypeInv, TypeOK
  <2> QED
    BY <1>6, <2>4, <2>5, <2>6 DEF AnswerInv
<1>7. CASE ownerPc' = "drop" /\ UNCHANGED <<requestVars, cur, sent>>
  BY <1>7, AnswerKept DEF Range1
<1> QED
  BY <1>3, <1>4, <1>5, <1>6, <1>7 DEF Dispatch, MayDispatch

LEMMA AnswerCaller ==
  ASSUME TypeInv, OrderInv, AnswerInv, NEW c \in Calls, CallerStep(c)
  PROVE  AnswerInv'
<1> USE DEF TypeInv, TypeOK, callerVars, requestVars, streamVars, ownerVars
<1>1. CASE CallRefused(c) \/ CallBroken(c)
  <2>1. /\ pc[c] = "idle"
        /\ UNCHANGED <<reply, cancelled, error, result, sent, groupCancelled, queue, cur,
                       ownerPc>>
    BY <1>1 DEF CallRefused, CallBroken
  <2>2. \A d \in Calls : /\ d # c => pc'[d] = pc[d]
                         /\ d = c => pc'[d] \in {"refused", "broken"}
    BY <1>1 DEF CallRefused, CallBroken
  <2>3. Range1(sent') = Range1(sent) /\ Range1(queue') = Range1(queue)
    BY <2>1 DEF Range1
  <2> QED
    BY <2>1, <2>2, <2>3 DEF AnswerInv
<1>2. CASE Call(c)
  <2>1. /\ pc[c] = "idle" /\ pc' = [pc EXCEPT ![c] = "waiting"]
        /\ UNCHANGED <<reply, cancelled, error, result, sent, groupCancelled>>
    BY <1>2 DEF Call
  <2>2. \A d \in Calls : d = cur' \/ d \in Range1(queue') =>
          d = c \/ d = cur \/ d \in Range1(queue)
    <3>1. CASE cur' = c /\ queue' = queue
      BY <3>1 DEF Range1
    <3>2. CASE cur' = cur /\ queue' = Append(queue, c)
      BY <3>2 DEF Range1
    <3> QED
      BY <1>2, <3>1, <3>2 DEF Call
  <2>3. ownerPc' = "call" => ownerPc = "call" /\ cur' = cur
    BY <1>2 DEF Call
  <2>4. Range1(sent') = Range1(sent)
    BY <2>1 DEF Range1
  <2>5. \A d \in Calls : pc'[d] = IF d = c THEN "waiting" ELSE pc[d]
    BY <2>1
  <2> QED
    BY <2>1, <2>2, <2>3, <2>4, <2>5 DEF AnswerInv
<1>3. CASE Return(c)
  <2>1. /\ pc[c] = "waiting" /\ reply[c] /\ pc' = [pc EXCEPT ![c] = Verdict(c)]
        /\ UNCHANGED <<reply, cancelled, error, result, sent, groupCancelled, queue, cur,
                       ownerPc>>
    BY <1>3 DEF Return
  <2>2. \A d \in Calls : /\ d # c => pc'[d] = pc[d]
                         /\ d = c => pc'[d] \in {"raised", "returned", "asserted"}
    BY <2>1 DEF Verdict
  <2>3. Range1(sent') = Range1(sent) /\ Range1(queue') = Range1(queue)
    BY <2>1 DEF Range1
  <2> QED
    BY <2>1, <2>2, <2>3 DEF AnswerInv
<1>4. CASE CancelCall(c)
  <2>1. /\ pc[c] = "waiting" /\ pc' = [pc EXCEPT ![c] = "cancelled"]
        /\ cancelled' = [cancelled EXCEPT ![c] = TRUE]
        /\ UNCHANGED <<reply, error, result, sent, groupCancelled, cur, ownerPc>>
    BY <1>4 DEF CancelCall
  <2>2. \A d \in Calls : /\ d # c => pc'[d] = pc[d] /\ cancelled'[d] = cancelled[d]
                         /\ d = c => pc'[d] = "cancelled" /\ cancelled'[d]
    BY <2>1
  <2>3. /\ Range1(sent') = Range1(sent)
        /\ \A d \in Calls : d \in Range1(queue') => d \in Range1(queue)
    BY <1>4, <2>1, WithdrawnRange DEF Range1, CancelCall
  <2> QED
    BY <2>1, <2>2, <2>3 DEF AnswerInv
<1>5. CASE SendBroken(c)
  <2>1. /\ pc[c] = "waiting" /\ pc' = [pc EXCEPT ![c] = "broken"]
        /\ ownerPc \in {"exit", "done"} /\ Withdraw(c) /\ Blocked(c)
        /\ UNCHANGED <<reply, cancelled, error, result, sent, groupCancelled, cur, ownerPc>>
    BY <1>5 DEF SendBroken, Deaf
  <2>2. \A d \in Calls : pc'[d] = IF d = c THEN "broken" ELSE pc[d]
    BY <2>1
  <2>3. /\ Range1(sent') = Range1(sent) /\ c \notin Range1(queue') /\ cur = NoCall
        /\ \A d \in Calls : d \in Range1(queue') => d \in Range1(queue)
    BY <2>1, WithdrawnRange DEF Range1, OwnerInv
  <2>4. c # cur'
    BY <2>1, <2>3, CallsAssumption
  <2> QED
    BY <2>1, <2>2, <2>3, <2>4 DEF AnswerInv
<1> QED
  BY <1>1, <1>2, <1>3, <1>4, <1>5 DEF CallerStep

LEMMA AnswerOwner ==
  ASSUME TypeInv, OrderInv, AnswerInv, OwnerStep
  PROVE  AnswerInv'
<1> USE DEF callerVars, streamVars, ownerVars
<1>1. CASE Receive
  <2>1. cur' = Head(queue) /\ queue' = Tail(queue) /\ queue # <<>>
    BY <1>1 DEF Receive
  <2>2. \A c \in Calls : c = cur' \/ c \in Range1(queue') => c \in Range1(queue)
    <3>1. queue \in Seq(Calls) /\ Len(queue) \in Nat \ {0}
      BY <2>1 DEF TypeInv, TypeOK
    <3>2. /\ cur' = queue[1] /\ Len(queue') = Len(queue) - 1
          /\ \A i \in 1..Len(queue') : queue'[i] = queue[i + 1]
      BY <2>1, <3>1
    <3> QED
      BY <3>1, <3>2 DEF Range1
  <2> QED
    BY <1>1, <2>2, AnswerKept DEF Receive
<1>2. CASE Block \/ EndOfStream
  BY <1>2, AnswerKept DEF Block, EndOfStream
<1>3. CASE Enter
  <2>1. cur \in Calls /\ cur \notin Range1(sent) /\ "shutdown" \in Errors
    BY <1>3, CurIsCall, Apart DEF Enter, Before, Errors
  <2>2. UNCHANGED <<pc, queue, groupCancelled, sent>>
    BY <1>3 DEF Enter
  <2>3. CASE FinishWithError("shutdown")
    BY <2>1, <2>2, <2>3, AnswerFinishedWithError
  <2>4. CASE Skip /\ cancelled[cur]
    BY <2>1, <2>2, <2>4, AnswerSkipped
  <2>5. CASE ownerPc' \in {"relist", "connect"} /\ UNCHANGED <<requestVars, cur>>
    BY <2>2, <2>5, AnswerKept
  <2> QED
    BY <1>3, <2>3, <2>4, <2>5 DEF Enter, OpenSession
<1>4. CASE Relisted
  BY <1>4, AnswerDispatched DEF Relisted, TypeInv, TypeOK
<1>5. CASE Connected
  BY <1>5, AnswerDispatched DEF Connected, TypeInv, TypeOK
<1>6. CASE ListFailed
  BY <1>6, AnswerKept DEF ListFailed, Lost
<1>7. CASE Reopen
  BY <1>7, AnswerKept DEF Reopen, OpenSession
<1>8. CASE Aborted
  <2>1. cur \in Calls /\ cur \notin Range1(sent) /\ "unavailable" \in Errors
    BY <1>8, CurIsCall, Apart DEF Aborted, Before, Errors
  <2> QED
    BY <1>8, <2>1, AnswerFinishedWithError DEF Aborted
<1>9. CASE Answered
  <2>1. cur \in Calls /\ cur \in Range1(sent)
    BY <1>9, CurIsCall DEF Answered, AnswerInv
  <2>2. "none" \in Errors /\ "result" \in Results
    BY DEF Errors, Results
  <2> QED
    BY <1>9, <2>1, <2>2, AnswerFinished DEF Answered
<1>10. CASE CallFailed
  <2>1. cur \in Calls /\ cur \in Range1(sent) /\ ~reply[cur]
    BY <1>10, CurIsCall DEF CallFailed, AnswerInv
  <2>2. PICK res \in {"none", "unsupported"} : result' = [result EXCEPT ![cur] = res]
    BY <1>10 DEF CallFailed
  <2>3. /\ ownerPc' = "drop"
        /\ UNCHANGED <<reply, cancelled, error, pc, queue, sent, groupCancelled, cur>>
    BY <1>10 DEF CallFailed, Lost
  <2>4. \A c \in Calls : c # cur => result'[c] = result[c]
    BY <2>2 DEF TypeInv, TypeOK
  <2>5. Range1(sent') = Range1(sent) /\ Range1(queue') = Range1(queue)
    BY <2>3 DEF Range1
  <2> QED
    BY <2>1, <2>3, <2>4, <2>5 DEF AnswerInv
<1>11. CASE Dropped
  <2>1. cur \in Calls /\ "ambiguous" \in Errors
    BY <1>11, CurIsCall DEF Dropped, Errors
  <2> QED
    BY <1>11, <2>1, AnswerFinishedWithError DEF Dropped
<1>12. CASE OwnerCancelled
  <2>1. /\ groupCancelled /\ ownerPc \in {"receive", "blocked", "relist", "connect", "call"}
        /\ ownerPc' = "exit" /\ cur' = NoCall
        /\ reply' = [c \in Calls |-> reply[c] \/ c = cur]
        /\ UNCHANGED <<cancelled, error, result, pc, queue, sent, groupCancelled>>
    BY <1>12 DEF OwnerCancelled
  <2>2. \A c \in Calls : c # cur' /\ (reply'[c] <=> reply[c] \/ c = cur)
    BY <2>1, CallsAssumption
  <2>3. \A c \in Calls : c \in Range1(queue) => c # cur
    BY Apart
  <2>4. \A c \in Calls : c = cur => pc[c] # "idle" /\ result[c] = "none"
    <3>1. cur \in Calls => cur \notin Range1(sent) \/ ownerPc = "call"
      <4>1. ownerPc \in {"receive", "blocked"} => cur \notin Calls
        BY CallsAssumption DEF TypeInv, OwnerInv
      <4> QED
        BY <2>1, <4>1, Apart DEF Before
    <3> QED
      BY <2>1, <3>1 DEF AnswerInv
  <2>5. Range1(sent') = Range1(sent) /\ Range1(queue') = Range1(queue)
    BY <2>1 DEF Range1
  <2> QED
    BY <2>1, <2>2, <2>3, <2>4, <2>5 DEF AnswerInv
<1>13. CASE Exit
  BY <1>13, AnswerKept DEF Exit
<1> QED
  BY <1>1, <1>2, <1>3, <1>4, <1>5, <1>6, <1>7, <1>8, <1>9, <1>10, <1>11, <1>12, <1>13
  DEF OwnerStep

-----------------------------------------------------------------------------
(* Who waits, and what was answered.                                       *)

AnswerIInv == /\ Ordered /\ AnswerInv /\ CloseInv
              /\ NoLostRequest /\ AnswerIsOwn

LEMMA CloseStep ==
  ASSUME TypeInv, CloseInv, [Next]_vars
  PROVE  CloseInv'
<1> USE DEF TypeInv, OwnerInv, CloseInv, Deaf, Drained, streamVars, ownerVars
<1>1. CASE \E c \in Calls : CallerStep(c)
  BY <1>1 DEF CallerStep, CallRefused, Call, CallBroken, Return, CancelCall, SendBroken
<1>2. CASE Close \/ CancelGroup
  BY <1>2 DEF Close, Wake, CancelGroup
<1>3. CASE OwnerStep
  BY <1>3 DEF OwnerStep, Receive, Block, EndOfStream, Enter, Relisted,
     Connected, Dispatch, ListFailed, Lost, Reopen, OpenSession, Aborted, Answered, CallFailed,
     Dropped, OwnerCancelled, Exit, FinishWithError, Skip, Finish
<1>4. CASE UNCHANGED vars
  BY <1>4 DEF vars
<1> QED
  BY <1>1, <1>2, <1>3, <1>4 DEF Next

\* NoLostRequest, with the stream as a set.
LEMMA LostAsRange ==
  NoLostRequest <=> \A c \in Calls : pc[c] = "waiting" /\ ~reply[c] =>
                      /\ c = cur \/ c \in Range1(queue)
                      /\ ownerPc \in {"exit", "done"} => groupCancelled
BY DEF NoLostRequest, Range1

\* A step that keeps every request where it is, or replies to it.
LEMMA LostKept ==
  ASSUME NoLostRequest, pc' = pc, groupCancelled => groupCancelled',
         ownerPc' \in {"exit", "done"} => ownerPc \in {"exit", "done"} \/ groupCancelled',
         \A c \in Calls : c = cur \/ c \in Range1(queue) =>
                            c = cur' \/ c \in Range1(queue') \/ reply'[c],
         \A c \in Calls : reply[c] => reply'[c]
  PROVE  NoLostRequest'
<1>1. \A c \in Calls : pc'[c] = "waiting" /\ ~reply'[c] =>
                      /\ c = cur' \/ c \in Range1(queue')
                      /\ ownerPc' \in {"exit", "done"} => groupCancelled'
  BY LostAsRange
<1> QED
  BY <1>1 DEF NoLostRequest, Range1

LEMMA LostCaller ==
  ASSUME TypeInv, OrderInv, CloseInv, NoLostRequest, NEW c \in Calls, CallerStep(c)
  PROVE  NoLostRequest'
<1> USE DEF TypeInv, TypeOK, callerVars, requestVars, streamVars, ownerVars
<1>1. CASE CallRefused(c) \/ CallBroken(c) \/ Return(c)
  BY <1>1 DEF CallRefused, CallBroken, Return, Verdict, NoLostRequest
<1>2. CASE Call(c)
  <2>1. /\ pc' = [pc EXCEPT ![c] = "waiting"] /\ ~closing
        /\ UNCHANGED <<reply, groupCancelled>>
    BY <1>2 DEF Call
  <2>2. ownerPc' \notin {"exit", "done"}
    BY <1>2 DEF Call, Deaf
  <2>3. /\ c = cur' \/ c \in Range1(queue')
        /\ \A d \in Calls : d = cur \/ d \in Range1(queue) => d = cur' \/ d \in Range1(queue')
    <3>1. CASE cur' = c /\ queue' = queue /\ ownerPc = "blocked" /\ ~groupCancelled
      BY <3>1, CallsAssumption DEF OwnerInv, Range1
    <3>2. CASE cur' = cur /\ queue' = Append(queue, c)
      <4>1. /\ Len(queue) \in Nat /\ Len(queue') = Len(queue) + 1 /\ queue'[Len(queue')] = c
            /\ \A i \in 1..Len(queue) : queue'[i] = queue[i]
        BY <3>2
      <4> QED
        BY <3>2, <4>1 DEF Range1
    <3> QED
      BY <1>2, <3>1, <3>2 DEF Call
  <2>4. \A d \in Calls : d # c => pc'[d] = pc[d]
    BY <2>1
  <2>5. \A d \in Calls : pc'[d] = "waiting" /\ ~reply'[d] => d = cur' \/ d \in Range1(queue')
    BY <2>1, <2>3, <2>4, LostAsRange
  <2> QED
    BY <2>2, <2>5 DEF NoLostRequest, Range1
<1>3. CASE CancelCall(c) \/ SendBroken(c)
  <2>1. /\ \A d \in Calls : /\ d # c => pc'[d] = pc[d]
                            /\ d = c => pc'[d] # "waiting"
        /\ Withdraw(c) /\ UNCHANGED <<reply, groupCancelled, cur, ownerPc>>
    BY <1>3 DEF CancelCall, SendBroken
  <2>2. \A d \in Calls : d # c /\ d \in Range1(queue) => d \in Range1(queue')
    BY <2>1, WithdrawnRange
  <2>3. \A d \in Calls : pc'[d] = "waiting" /\ ~reply'[d] =>
                      /\ d = cur' \/ d \in Range1(queue')
                      /\ ownerPc' \in {"exit", "done"} => groupCancelled'
    BY <2>1, <2>2, LostAsRange
  <2> QED
    BY <2>3 DEF NoLostRequest, Range1
<1> QED
  BY <1>1, <1>2, <1>3 DEF CallerStep

\* The end of an iteration replies to the request at hand and to no other.
LEMMA LostFinished ==
  ASSUME TypeInv, NoLostRequest, cur \in Calls, NEW err \in Errors, NEW res \in Results,
         Finish(err, res), UNCHANGED <<pc, queue, groupCancelled>>
  PROVE  NoLostRequest'
<1>1. reply' = [reply EXCEPT ![cur] = TRUE] /\ ownerPc' = "receive"
  BY DEF Finish
<1>2. reply'[cur] /\ \A c \in Calls : reply[c] => reply'[c]
  BY <1>1 DEF TypeInv, TypeOK
<1> QED
  BY <1>1, <1>2, LostKept DEF Range1

LEMMA LostFinishedWithError ==
  ASSUME TypeInv, NoLostRequest, cur \in Calls, NEW err \in Errors, FinishWithError(err),
         UNCHANGED <<pc, queue, groupCancelled>>
  PROVE  NoLostRequest'
BY LostFinished DEF FinishWithError, TypeInv, TypeOK

LEMMA LostSkipped ==
  ASSUME TypeInv, NoLostRequest, cur \in Calls, Skip, UNCHANGED <<pc, queue, groupCancelled>>
  PROVE  NoLostRequest'
BY LostFinished DEF Skip, Errors, Results

LEMMA LostDispatched ==
  ASSUME TypeInv, NoLostRequest, cur \in Calls,
         NEW s \in Nat, NEW valid \in BOOLEAN, NEW up \in BOOLEAN, Dispatch(s, valid, up),
         UNCHANGED <<pc, queue, groupCancelled>>
  PROVE  NoLostRequest'
<1>1. CASE ownerPc' \in {"call", "drop"} /\ UNCHANGED <<requestVars, cur>>
  BY <1>1, LostKept DEF requestVars, Range1
<1>2. "mismatch" \in Errors /\ "shutdown" \in Errors
  BY DEF Errors
<1> QED
  BY <1>1, <1>2, LostFinishedWithError, LostSkipped DEF Dispatch

LEMMA LostOwner ==
  ASSUME TypeInv, NoLostRequest, OwnerStep
  PROVE  NoLostRequest'
<1> USE DEF callerVars, requestVars, streamVars, ownerVars
<1>1. CASE Receive
  <2>1. /\ cur' = queue[1] /\ queue' = Tail(queue) /\ queue # <<>> /\ cur = NoCall
        /\ ownerPc' = "entry" /\ UNCHANGED <<pc, reply, groupCancelled>>
    BY <1>1 DEF Receive, TypeInv, OwnerInv
  <2>2. \A i \in 1..Len(queue) : i = 1 \/ (i - 1 \in 1..Len(queue') /\ queue'[i - 1] = queue[i])
    BY <2>1 DEF TypeInv, TypeOK
  <2>3. \A c \in Calls : c = cur \/ c \in Range1(queue) => c = cur' \/ c \in Range1(queue')
    <3>1. ASSUME NEW i \in 1..Len(queue) PROVE queue[i] = cur' \/ queue[i] \in Range1(queue')
      BY <2>1, <2>2 DEF Range1
    <3> QED
      BY <2>1, <3>1, CallsAssumption DEF Range1
  <2> QED
    BY <2>1, <2>3, LostKept
<1>2. CASE Block
  BY <1>2, LostKept DEF Block, Range1
<1>3. CASE EndOfStream
  <2>1. /\ queue = <<>> /\ cur = NoCall
        /\ UNCHANGED <<pc, reply, groupCancelled, cur, queue>>
    BY <1>3 DEF EndOfStream, Drained, TypeInv, OwnerInv
  <2>2. \A c \in Calls : ~(pc'[c] = "waiting" /\ ~reply'[c])
    BY <2>1, CallsAssumption, LostAsRange DEF Range1
  <2> QED
    BY <2>2 DEF NoLostRequest
<1>4. CASE Enter
  <2>1. cur \in Calls /\ "shutdown" \in Errors /\ UNCHANGED <<pc, queue, groupCancelled>>
    BY <1>4, CurIsCall DEF Enter, Errors
  <2>2. CASE ownerPc' \in {"relist", "connect"} /\ UNCHANGED <<requestVars, cur>>
    BY <2>1, <2>2, LostKept DEF Range1
  <2> QED
    BY <1>4, <2>1, <2>2, LostFinishedWithError, LostSkipped DEF Enter, OpenSession
<1>5. CASE Relisted
  BY <1>5, CurIsCall, LostDispatched DEF Relisted, TypeInv, TypeOK
<1>6. CASE Connected
  BY <1>6, CurIsCall, LostDispatched DEF Connected, TypeInv, TypeOK
<1>7. CASE ListFailed \/ Reopen
  BY <1>7, LostKept DEF ListFailed, Lost, Reopen, OpenSession, Range1
<1>8. CASE Aborted \/ Dropped
  BY <1>8, CurIsCall, LostFinishedWithError DEF Aborted, Dropped, Errors
<1>9. CASE Answered
  BY <1>9, CurIsCall, LostFinished DEF Answered, Errors, Results
<1>10. CASE CallFailed
  BY <1>10, LostKept DEF CallFailed, Lost, Range1
<1>11. CASE OwnerCancelled
  <2>1. /\ \A c \in Calls : reply'[c] <=> reply[c] \/ c = cur
        /\ groupCancelled' /\ UNCHANGED <<pc, queue>>
    BY <1>11 DEF OwnerCancelled
  <2> QED
    BY <2>1, LostKept DEF Range1
<1>12. CASE Exit
  BY <1>12, LostKept DEF Exit, Range1
<1> QED
  BY <1>1, <1>2, <1>3, <1>4, <1>5, <1>6, <1>7, <1>8, <1>9, <1>10, <1>11, <1>12 DEF OwnerStep

\* What a caller was told stays true: the fields of its request and the calls made.
LEMMA OwnCaller ==
  ASSUME TypeInv, OrderInv, AnswerInv, CloseInv, NoLostRequest, AnswerIsOwn, NEW c \in Calls,
         CallerStep(c)
  PROVE  AnswerIsOwn'
<1> USE DEF TypeInv, TypeOK, requestVars, streamVars
<1>1. UNCHANGED <<result, sent, groupCancelled>> /\ \A d \in Calls : d # c => pc'[d] = pc[d]
  BY DEF CallerStep, CallRefused, Call, CallBroken, Return, CancelCall, SendBroken
<1>2. /\ pc'[c] = "returned" => result[c] = "result" /\ c \in Range1(sent)
      /\ pc'[c] \in {"asserted", "broken"} => groupCancelled
  <2>1. CASE CallRefused(c) \/ Call(c) \/ CancelCall(c)
    BY <2>1 DEF CallRefused, Call, CancelCall
  <2>2. CASE Return(c)
    <3>1. pc[c] = "waiting" /\ reply[c] /\ pc'[c] = Verdict(c) /\ ~cancelled[c]
      BY <2>2 DEF Return, AnswerInv
    <3>2. result[c] \in {"none", "result", "unsupported"}
      BY DEF Results
    <3> QED
      BY <3>1, <3>2 DEF Verdict, AnswerInv
  <2>3. CASE SendBroken(c)
    <3>1. pc[c] = "waiting" /\ c \in Range1(queue) /\ ownerPc \in {"exit", "done"}
          /\ pc'[c] = "broken"
      BY <2>3, WithdrawnRange DEF SendBroken, Deaf
    <3>2. ~reply[c]
      BY <3>1 DEF AnswerInv
    <3> QED
      BY <3>1, <3>2 DEF NoLostRequest
  <2>4. CASE CallBroken(c)
    BY <2>4 DEF CallBroken, CloseInv
  <2> QED
    BY <2>1, <2>2, <2>3, <2>4 DEF CallerStep
<1> QED
  BY <1>1, <1>2 DEF AnswerIsOwn, Range1

LEMMA OwnOwner ==
  ASSUME TypeInv, AnswerInv, AnswerIsOwn, OwnerStep
  PROVE  AnswerIsOwn'
<1> USE DEF TypeInv, TypeOK, callerVars, requestVars, streamVars
<1>1. pc' = pc /\ groupCancelled' = groupCancelled
  BY DEF OwnerStep, Receive, Block, EndOfStream, Enter, Relisted, Connected, ListFailed,
     Reopen, Aborted, Answered, CallFailed, Dropped, OwnerCancelled, Exit
<1>2. \A c \in Calls : c # cur => result'[c] = result[c]
  BY DEF OwnerStep, Receive, Block, EndOfStream, Enter, Relisted, Connected, Dispatch,
     ListFailed, Reopen, Aborted, Answered, CallFailed, Dropped, OwnerCancelled, Exit,
     FinishWithError, Skip, Finish
<1>3. sent' = sent \/ (cur \in Calls /\ sent' = Append(sent, cur))
  BY CurIsCall DEF OwnerStep, Receive, Block, EndOfStream, Enter, Relisted, Connected, Dispatch,
     ListFailed, Reopen, Aborted, Answered, CallFailed, Dropped, OwnerCancelled, Exit
<1>4. \A c \in Calls : c \in Range1(sent) => c \in Range1(sent')
  <2>1. CASE sent' = sent
    BY <2>1 DEF Range1
  <2>2. CASE cur \in Calls /\ sent' = Append(sent, cur)
    <3>1. /\ Len(sent) \in Nat /\ Len(sent') = Len(sent) + 1
          /\ \A i \in 1..Len(sent) : sent'[i] = sent[i]
      BY <2>2
    <3> QED
      BY <3>1 DEF Range1
  <2> QED
    BY <1>3, <2>1, <2>2
<1>5. \A c \in Calls : pc[c] = "returned" => c # cur
  BY DEF AnswerInv
<1>6. \A c \in Calls : pc[c] = "returned" => result[c] = "result" /\ c \in Range1(sent)
  BY DEF AnswerIsOwn, Range1
<1>7. \A c \in Calls : pc'[c] = "returned" => result'[c] = "result" /\ c \in Range1(sent')
  BY <1>1, <1>2, <1>4, <1>5, <1>6
<1>8. \A c \in Calls : pc'[c] \in {"asserted", "broken"} => groupCancelled'
  BY <1>1 DEF AnswerIsOwn
<1> QED
  BY <1>7, <1>8 DEF AnswerIsOwn, Range1

LEMMA AnswerInit == Init => AnswerIInv
<1>1. Init => Ordered
  BY OrderInit DEF OrderIInv, Ordered
<1>2. Init => AnswerInv
  BY CallsAssumption DEF Init, AnswerInv, Range1
<1>3. Init => CloseInv
  BY DEF Init, CloseInv, Deaf
<1>4. Init => NoLostRequest /\ AnswerIsOwn
  BY DEF Init, NoLostRequest, AnswerIsOwn
<1> QED
  BY <1>1, <1>2, <1>3, <1>4 DEF AnswerIInv

LEMMA AnswerStep == AnswerIInv /\ [Next]_vars => AnswerIInv'
<1> SUFFICES ASSUME TypeInv, OrderInv, InOrderAtMostOnce, AnswerInv, CloseInv, NoLostRequest,
                    AnswerIsOwn, [Next]_vars
             PROVE  AnswerIInv'
  BY DEF AnswerIInv, Ordered
<1>1. Ordered' /\ CloseInv'
  BY OrderStep, CloseStep DEF OrderIInv, Ordered
<1>2. CASE \E c \in Calls : CallerStep(c)
  BY <1>1, <1>2, AnswerCaller, LostCaller, OwnCaller DEF AnswerIInv
<1>3. CASE OwnerStep
  BY <1>1, <1>3, AnswerOwner, LostOwner, OwnOwner DEF AnswerIInv
<1>4. CASE Close \/ CancelGroup \/ UNCHANGED vars
  <2>1. /\ UNCHANGED <<requestVars, pc, sent, queue, cur>>
        /\ groupCancelled => groupCancelled'
        /\ ownerPc' # ownerPc => ownerPc' = "receive"
    BY <1>4 DEF Close, Wake, CancelGroup, vars, callerVars, requestVars, streamVars, ownerVars
  <2>2. AnswerInv'
    BY <2>1, AnswerKept DEF Range1
  <2>3. NoLostRequest'
    BY <2>1, LostKept DEF Range1, requestVars
  <2>4. AnswerIsOwn'
    BY <2>1 DEF AnswerIsOwn, requestVars
  <2> QED
    BY <1>1, <2>2, <2>3, <2>4 DEF AnswerIInv
<1> QED
  BY <1>2, <1>3, <1>4 DEF Next

LEMMA AnswerAlways == Spec => []AnswerIInv
BY AnswerInit, AnswerStep, PTL DEF Spec

\* Until it is answered, the request of a waiting caller is with the owner or in the
\* stream; only an owner whose task group was cancelled leaves one behind.
THEOREM NoRequestLost == Spec => []NoLostRequest
<1>1. AnswerIInv => NoLostRequest
  BY DEF AnswerIInv
<1> QED
  BY <1>1, AnswerAlways, PTL

\* What call_tool returns is the upstream's result of this very call, and it says why when
\* it returns none, unless the task group is cancelled.
THEOREM OwnAnswer == Spec => []AnswerIsOwn
<1>1. AnswerIInv => AnswerIsOwn
  BY DEF AnswerIInv
<1> QED
  BY <1>1, AnswerAlways, PTL
-----------------------------------------------------------------------------
(* LazyConnection implements CallForwarding and OwnedConnection.           *)

\* The abstract state.
Outcome == [c \in Calls |-> OutcomeOf(c)]
SentCalls == {c \in Calls : \E i \in 1..Len(sent) : sent[i] = c}
InFlight == IF ownerPc = "call" THEN cur ELSE NoCall

LEMMA SentCallsAsRange == \A c \in Calls : c \in SentCalls <=> c \in Range1(sent)
BY DEF SentCalls, Range1

\* What each caller knows, case by case.
LEMMA OutcomeCases ==
  ASSUME TypeOK, NEW c \in Calls
  PROVE  /\ pc[c] = "idle" => OutcomeOf(c) = "none"
         /\ pc[c] = "waiting" => OutcomeOf(c) = "pending"
         /\ pc[c] = "returned" => OutcomeOf(c) = "ok"
         /\ pc[c] \in {"refused", "broken"} => OutcomeOf(c) = "refused"
         /\ pc[c] = "cancelled" => OutcomeOf(c) = "abandoned"
         /\ pc[c] = "asserted" => OutcomeOf(c) = "failed"
         /\ pc[c] = "raised" =>
              OutcomeOf(c) = IF error[c] = "ambiguous" THEN "failed" ELSE "refused"
BY DEF OutcomeOf

\* An owner's step, which writes the error of the request at hand only, tells no caller
\* anything: only the return of call_tool does.
LEMMA OutcomeKept ==
  ASSUME TypeOK, TypeOK', AnswerInv, pc' = pc,
         \A c \in Calls : c # cur => error'[c] = error[c]
  PROVE  Outcome' = Outcome
<1> SUFFICES ASSUME NEW c \in Calls PROVE OutcomeOf(c)' = OutcomeOf(c)
  BY DEF Outcome
<1>1. CASE c # cur
  BY <1>1 DEF OutcomeOf
<1>2. CASE c = cur
  BY <1>2 DEF OutcomeOf, AnswerInv
<1> QED
  BY <1>1, <1>2

\* A caller's step tells that caller something, and no other.
LEMMA OutcomeTold ==
  ASSUME NEW c \in Calls, error' = error, \A d \in Calls : d # c => pc'[d] = pc[d]
  PROVE  Outcome' = [Outcome EXCEPT ![c] = OutcomeOf(c)']
<1>1. \A d \in Calls : d # c => OutcomeOf(d)' = OutcomeOf(d)
  BY DEF OutcomeOf
<1> QED
  BY <1>1 DEF Outcome

LEMMA ForwardingInit == Init => Forwarding!Init
<1> SUFFICES ASSUME Init PROVE Forwarding!Init
  OBVIOUS
<1>1. \A c \in Calls : OutcomeOf(c) = "none"
  BY DEF Init, OutcomeOf
<1>2. SentCalls = {}
  BY DEF Init, SentCalls
<1>3. InFlight = NoCall
  BY DEF Init, InFlight
<1> QED
  BY <1>1, <1>2, <1>3 DEF Forwarding!Init, SentCalls, InFlight

\* A step of the connection is one of these steps of the specification, or none.
LEMMA ForwardingNext ==
  ASSUME NEW c \in Calls,
         \/ /\ Outcome[c] = "none"
            /\ \E o \in {"pending", "refused"} : Outcome' = [Outcome EXCEPT ![c] = o]
            /\ SentCalls' = SentCalls /\ InFlight' = InFlight
         \/ /\ Outcome[c] = "pending" /\ c \notin SentCalls /\ InFlight = NoCall
            /\ Outcome' = Outcome /\ SentCalls' = SentCalls \cup {c} /\ InFlight' = c
         \/ /\ InFlight = c /\ InFlight' = NoCall
            /\ Outcome' = Outcome /\ SentCalls' = SentCalls
         \/ /\ Outcome[c] = "pending"
            /\ \/ c \in SentCalls /\ InFlight # c /\ Outcome' = [Outcome EXCEPT ![c] = "ok"]
               \/ c \notin SentCalls /\ Outcome' = [Outcome EXCEPT ![c] = "refused"]
               \/ Outcome' = [Outcome EXCEPT ![c] = "failed"]
               \/ Outcome' = [Outcome EXCEPT ![c] = "abandoned"]
            /\ SentCalls' = SentCalls /\ InFlight' = InFlight
  PROVE  Forwarding!Next
<1>1. Outcome' = Outcome /\ Outcome[c] = "pending" =>
        Outcome' = [Outcome EXCEPT ![c] = "pending"]
  BY DEF Outcome
<1> QED
  BY <1>1 DEF Forwarding!Next, Forwarding!Submit, Forwarding!Send, Forwarding!Settle,
     Forwarding!Succeed, Forwarding!Refuse, Forwarding!Fail, Forwarding!Abandon,
     Outcome, SentCalls, InFlight

LEMMA ForwardingStutter ==
  ASSUME UNCHANGED <<Outcome, SentCalls, InFlight>>
  PROVE  UNCHANGED Forwarding!forwardingVars
BY DEF Forwarding!forwardingVars, Outcome, SentCalls, InFlight

LEMMA ForwardingCaller ==
  ASSUME AnswerIInv, TypeOK', NEW c \in Calls, CallerStep(c)
  PROVE  Forwarding!Next
<1> USE DEF AnswerIInv, Ordered, TypeInv, callerVars, requestVars, streamVars, ownerVars
<1>1. /\ error' = error /\ SentCalls' = SentCalls
      /\ \A d \in Calls : d # c => pc'[d] = pc[d]
  BY DEF CallerStep, CallRefused, Call, CallBroken, Return, CancelCall, SendBroken, SentCalls,
     TypeOK
<1>2. Outcome' = [Outcome EXCEPT ![c] = OutcomeOf(c)']
  BY <1>1, OutcomeTold
<1>3. InFlight' = InFlight
  BY DEF CallerStep, CallRefused, Call, CallBroken, Return, CancelCall, SendBroken, InFlight
<1>4. /\ pc[c] = "idle" => Outcome[c] = "none"
      /\ pc[c] = "waiting" => Outcome[c] = "pending"
  BY OutcomeCases DEF Outcome
<1>5. /\ pc'[c] = "waiting" => OutcomeOf(c)' = "pending"
      /\ pc'[c] = "returned" => OutcomeOf(c)' = "ok"
      /\ pc'[c] \in {"refused", "broken"} => OutcomeOf(c)' = "refused"
      /\ pc'[c] = "cancelled" => OutcomeOf(c)' = "abandoned"
      /\ pc'[c] = "asserted" => OutcomeOf(c)' = "failed"
      /\ pc'[c] = "raised" =>
           OutcomeOf(c)' = IF error'[c] = "ambiguous" THEN "failed" ELSE "refused"
  BY DEF OutcomeOf
<1>6. CASE CallRefused(c) \/ CallBroken(c) \/ Call(c)
  <2>1. pc[c] = "idle" /\ pc'[c] \in {"refused", "broken", "waiting"}
    BY <1>6 DEF CallRefused, CallBroken, Call, TypeOK
  <2> QED
    BY <1>1, <1>2, <1>3, <1>4, <1>5, <2>1, ForwardingNext
<1>7. CASE Return(c)
  <2>1. pc[c] = "waiting" /\ reply[c] /\ pc'[c] = Verdict(c) /\ ~cancelled[c]
    BY <1>7 DEF Return, AnswerInv, TypeOK
  <2>2. c # cur
    BY <2>1 DEF AnswerInv
  <2>3. error[c] # "none" /\ error[c] # "ambiguous" => c \notin SentCalls
    BY SentCallsAsRange DEF AnswerInv, TypeOK, Errors
  <2>4. result[c] # "none" => c \in SentCalls
    BY SentCallsAsRange DEF AnswerInv
  <2>5. InFlight # c
    BY <2>2, CallsAssumption DEF InFlight
  <2>6. CASE error[c] # "none"
    <3>1. pc'[c] = "raised"
      BY <2>1, <2>6 DEF Verdict
    <3> QED
      BY <1>1, <1>2, <1>3, <1>4, <1>5, <2>1, <2>3, <2>6, <3>1, ForwardingNext
  <2>7. CASE error[c] = "none" /\ result[c] # "none"
    <3>1. pc'[c] = "returned"
      BY <2>1, <2>7 DEF Verdict
    <3> QED
      BY <1>1, <1>2, <1>3, <1>4, <1>5, <2>1, <2>4, <2>5, <2>7, <3>1, ForwardingNext
  <2>8. CASE error[c] = "none" /\ result[c] = "none"
    <3>1. pc'[c] = "asserted"
      BY <2>1, <2>8 DEF Verdict
    <3> QED
      BY <1>1, <1>2, <1>3, <1>4, <1>5, <2>1, <3>1, ForwardingNext
  <2> QED
    BY <2>6, <2>7, <2>8
<1>8. CASE CancelCall(c)
  <2>1. pc[c] = "waiting" /\ pc'[c] = "cancelled"
    BY <1>8 DEF CancelCall, TypeOK
  <2> QED
    BY <1>1, <1>2, <1>3, <1>4, <1>5, <2>1, ForwardingNext
<1>9. CASE SendBroken(c)
  <2>1. pc[c] = "waiting" /\ pc'[c] = "broken" /\ c \in Range1(queue)
    BY <1>9, WithdrawnRange DEF SendBroken, TypeOK
  <2>2. c \notin SentCalls
    BY <2>1, Apart, SentCallsAsRange
  <2> QED
    BY <1>1, <1>2, <1>3, <1>4, <1>5, <2>1, <2>2, ForwardingNext
<1> QED
  BY <1>6, <1>7, <1>8, <1>9 DEF CallerStep

\* The owner hands the call over, or does not.
LEMMA ForwardingDispatched ==
  ASSUME AnswerIInv, TypeOK', ownerPc \in {"relist", "connect"},
         NEW s \in Nat, NEW valid \in BOOLEAN, NEW up \in BOOLEAN, Dispatch(s, valid, up),
         pc' = pc
  PROVE  Forwarding!Next \/ UNCHANGED Forwarding!forwardingVars
<1> USE DEF AnswerIInv, Ordered, TypeInv, requestVars
<1>1. cur \in Calls /\ cur \notin SentCalls /\ InFlight = NoCall
  BY CurIsCall, Apart, SentCallsAsRange DEF Before, InFlight
<1>2. \A c \in Calls : c # cur => error'[c] = error[c]
  BY DEF Dispatch, FinishWithError, Skip, Finish, TypeOK
<1>3. Outcome' = Outcome
  BY <1>2, OutcomeKept
<1>4. CASE sent' = sent /\ ownerPc' # "call"
  BY <1>1, <1>3, <1>4, ForwardingStutter DEF SentCalls, InFlight
<1>5. CASE /\ MayDispatch /\ ownerPc' = "call" /\ sent' = Append(sent, cur)
           /\ cur' = cur
  <2>1. /\ Len(sent) \in Nat /\ Len(sent') = Len(sent) + 1 /\ sent'[Len(sent')] = cur
        /\ \A i \in 1..Len(sent) : sent'[i] = sent[i]
    BY <1>1, <1>5 DEF TypeOK
  <2>2. \A i \in 1..Len(sent') : i \in 1..Len(sent) \/ i = Len(sent')
    BY <2>1
  <2>3. \A c \in Calls : c \in Range1(sent') <=> c \in Range1(sent) \/ c = cur
    BY <2>1, <2>2 DEF Range1
  <2>4. SentCalls' = SentCalls \cup {cur}
    BY <1>1, <2>3 DEF SentCalls, Range1
  <2>5. pc[cur] = "waiting"
    BY <1>1, <1>5 DEF MayDispatch, AnswerInv
  <2>6. Outcome[cur] = "pending"
    BY <1>1, <2>5, OutcomeCases DEF Outcome
  <2>7. InFlight' = cur
    BY <1>5 DEF InFlight
  <2> QED
    BY <1>1, <1>3, <2>4, <2>6, <2>7, ForwardingNext
<1> QED
  BY <1>4, <1>5 DEF Dispatch, FinishWithError, Skip, Finish

LEMMA ForwardingOwner ==
  ASSUME AnswerIInv, TypeOK', OwnerStep
  PROVE  Forwarding!Next \/ UNCHANGED Forwarding!forwardingVars
<1> USE DEF AnswerIInv, Ordered, TypeInv, callerVars, requestVars, streamVars, ownerVars
<1>1. CASE Relisted
  BY <1>1, ForwardingDispatched DEF Relisted, TypeOK
<1>2. CASE Connected
  BY <1>2, ForwardingDispatched DEF Connected, TypeOK
<1>3. CASE Receive \/ Block \/ EndOfStream \/ Enter \/ ListFailed \/ Reopen \/ Aborted
           \/ Dropped \/ Exit
  <2>1. /\ pc' = pc /\ sent' = sent /\ ownerPc # "call" /\ ownerPc' # "call"
        /\ \A c \in Calls : c # cur => error'[c] = error[c]
    BY <1>3 DEF Receive, Block, EndOfStream, Enter, ListFailed, Lost, Reopen, Aborted, Dropped,
       Exit, OpenSession, FinishWithError, Skip, Finish, TypeOK
  <2>2. Outcome' = Outcome
    BY <2>1, OutcomeKept
  <2> QED
    BY <2>1, <2>2, ForwardingStutter DEF SentCalls, InFlight
<1>4. CASE Answered \/ CallFailed \/ OwnerCancelled
  <2>1. /\ pc' = pc /\ sent' = sent /\ ownerPc' # "call"
        /\ \A c \in Calls : c # cur => error'[c] = error[c]
    BY <1>4 DEF Answered, CallFailed, Lost, OwnerCancelled, Finish, TypeOK
  <2>2. Outcome' = Outcome /\ SentCalls' = SentCalls /\ InFlight' = NoCall
    BY <2>1, OutcomeKept DEF SentCalls, InFlight
  <2>3. CASE ownerPc = "call"
    <3>1. cur \in Calls /\ InFlight = cur
      BY <2>3, CurIsCall DEF InFlight
    <3> QED
      BY <2>2, <3>1, ForwardingNext
  <2>4. CASE ownerPc # "call"
    BY <2>2, <2>4, ForwardingStutter DEF InFlight
  <2> QED
    BY <2>3, <2>4
<1> QED
  BY <1>1, <1>2, <1>3, <1>4 DEF OwnerStep

LEMMA ForwardingStep ==
  AnswerIInv /\ AnswerIInv' /\ [Next]_vars => [Forwarding!Next]_(Forwarding!forwardingVars)
<1> SUFFICES ASSUME AnswerIInv, TypeOK', [Next]_vars
             PROVE  Forwarding!Next \/ UNCHANGED Forwarding!forwardingVars
  BY DEF AnswerIInv, Ordered, TypeInv
<1>1. CASE \E c \in Calls : CallerStep(c)
  BY <1>1, ForwardingCaller
<1>2. CASE OwnerStep
  BY <1>2, ForwardingOwner
<1>3. CASE Close \/ CancelGroup \/ UNCHANGED vars
  <2>1. /\ pc' = pc /\ error' = error /\ sent' = sent /\ cur' = cur
        /\ ownerPc' = "call" <=> ownerPc = "call"
    BY <1>3 DEF Close, Wake, CancelGroup, vars, callerVars, requestVars, streamVars, ownerVars
  <2>2. Outcome' = Outcome
    BY <2>1, OutcomeKept DEF AnswerIInv, Ordered, TypeInv
  <2> QED
    BY <2>1, <2>2, ForwardingStutter DEF SentCalls, InFlight
<1> QED
  BY <1>1, <1>2, <1>3 DEF Next

\* The connection keeps the promise of CallForwarding, whatever fails and whoever gives up:
\* at most one call in flight, no call made for a caller that has gone or been answered, and
\* none refused that was made.
THEOREM Implements == Spec => ForwardingSpec
<1>1. Spec => Forwarding!Init
  BY ForwardingInit DEF Spec
<1> QED
  BY <1>1, AnswerAlways, ForwardingStep, PTL DEF Spec, ForwardingSpec, Forwarding!Spec
-----------------------------------------------------------------------------
(* OwnedConnection: the same steps as the owner's task group sees them.    *)

Stage == [c \in Calls |-> StageOf(c)]
OwnerState == CASE ownerPc = "unstarted" -> "none" [] ownerPc = "done" -> "ended"
                [] OTHER -> "running"
Owners == IF ownerPc = "unstarted" THEN 0 ELSE 1

\* A step of the connection is one of these steps of the specification, or none.
LEMMA OwnedCall ==
  ASSUME NEW c \in Calls, closing' = closing, groupCancelled' = groupCancelled,
         \/ /\ Stage[c] = "idle" /\ ~closing /\ OwnerState # "ended"
            /\ Stage' = [Stage EXCEPT ![c] = "waiting"] /\ OwnerState' = "running"
            /\ Owners' = IF OwnerState = "none" THEN Owners + 1 ELSE Owners
         \/ /\ Stage[c] = "waiting" /\ OwnerState = "running"
            /\ Stage' = [Stage EXCEPT ![c] = "answered"]
            /\ OwnerState' = OwnerState /\ Owners' = Owners
         \/ /\ Stage[c] # "gone" /\ Stage' = [Stage EXCEPT ![c] = "gone"]
            /\ OwnerState' = OwnerState /\ Owners' = Owners
  PROVE  Owned!Next
BY DEF Owned!Next, Owned!Accept, Owned!Answer, Owned!Leave, Stage, OwnerState, Owners

LEMMA OwnedStutter ==
  ASSUME UNCHANGED <<Stage, OwnerState, Owners, closing, groupCancelled>>
  PROVE  UNCHANGED Owned!ownedVars
BY DEF Owned!ownedVars, Stage, OwnerState, Owners

\* A caller's step changes the stage of that caller only.
LEMMA StageTold ==
  ASSUME NEW c \in Calls, reply' = reply, \A d \in Calls : d # c => pc'[d] = pc[d]
  PROVE  Stage' = [Stage EXCEPT ![c] = StageOf(c)']
<1>1. \A d \in Calls : d # c => StageOf(d)' = StageOf(d)
  BY DEF StageOf
<1> QED
  BY <1>1 DEF Stage

\* The owner's reply answers a caller that waits, and nobody else notices it.
LEMMA OwnedReplied ==
  ASSUME TypeOK, AnswerInv, NEW c \in Calls, c = cur, ownerPc \notin {"unstarted", "done"},
         ownerPc' \notin {"unstarted", "done"}, UNCHANGED <<pc, closing, groupCancelled>>,
         reply' = [reply EXCEPT ![c] = TRUE]
  PROVE  Owned!Next \/ UNCHANGED Owned!ownedVars
<1>1. /\ OwnerState = "running" /\ OwnerState' = "running"
      /\ Owners = 1 /\ Owners' = 1
  BY DEF OwnerState, Owners
<1>2. /\ reply'[c] /\ ~reply[c] /\ pc[c] \in {"waiting", "cancelled"}
      /\ \A d \in Calls : d # c => reply'[d] = reply[d]
  BY DEF TypeOK, AnswerInv
<1>3. \A d \in Calls : d # c => StageOf(d)' = StageOf(d)
  BY <1>2 DEF StageOf
<1>4. CASE pc[c] = "waiting"
  <2>1. StageOf(c) = "waiting" /\ StageOf(c)' = "answered"
    BY <1>2, <1>4 DEF StageOf
  <2>2. Stage' = [Stage EXCEPT ![c] = "answered"] /\ Stage[c] = "waiting"
    BY <1>3, <2>1 DEF Stage
  <2> QED
    BY <1>1, <2>2, OwnedCall
<1>5. CASE pc[c] = "cancelled"
  <2>1. StageOf(c)' = StageOf(c)
    BY <1>5 DEF StageOf
  <2>2. Stage' = Stage
    BY <1>3, <2>1 DEF Stage
  <2> QED
    BY <1>1, <2>2, OwnedStutter
<1> QED
  BY <1>2, <1>4, <1>5

\* Nobody notices any other step of an owner that goes on.
LEMMA OwnedSilent ==
  ASSUME ownerPc \notin {"unstarted", "done"}, ownerPc' \notin {"unstarted", "done"},
         UNCHANGED <<pc, reply, closing, groupCancelled>>
  PROVE  UNCHANGED Owned!ownedVars
BY OwnedStutter DEF Stage, StageOf, OwnerState, Owners

LEMMA OwnedCaller ==
  ASSUME AnswerIInv, NEW c \in Calls, CallerStep(c)
  PROVE  Owned!Next \/ UNCHANGED Owned!ownedVars
<1> USE DEF AnswerIInv, Ordered, TypeInv, callerVars, requestVars, streamVars, ownerVars
<1>1. /\ reply' = reply /\ closing' = closing /\ groupCancelled' = groupCancelled
      /\ \A d \in Calls : d # c => pc'[d] = pc[d]
  BY DEF CallerStep, CallRefused, Call, CallBroken, Return, CancelCall, SendBroken, TypeOK
<1>2. Stage' = [Stage EXCEPT ![c] = StageOf(c)'] /\ Stage[c] = StageOf(c)
  BY <1>1, StageTold DEF Stage
<1>3. CASE Call(c)
  <2>1. pc[c] = "idle" /\ pc'[c] = "waiting" /\ ~reply'[c] /\ ~closing
    BY <1>1, <1>3 DEF Call, AnswerInv, TypeOK
  <2>2. StageOf(c) = "idle" /\ StageOf(c)' = "waiting"
    BY <2>1 DEF StageOf
  <2>3. ownerPc # "done" /\ ownerPc' \notin {"unstarted", "done"}
    BY <1>3 DEF Call, Deaf, TypeOK, OwnerStates
  <2>4. /\ OwnerState # "ended" /\ OwnerState' = "running"
        /\ Owners' = IF OwnerState = "none" THEN Owners + 1 ELSE Owners
    BY <2>3 DEF OwnerState, Owners
  <2> QED
    BY <1>1, <1>2, <2>1, <2>2, <2>4, OwnedCall
<1>4. CASE CallRefused(c) \/ CallBroken(c) \/ CancelCall(c) \/ SendBroken(c)
  <2>1. /\ pc[c] \in {"idle", "waiting"} /\ pc'[c] \in {"refused", "cancelled", "broken"}
        /\ ownerPc' = ownerPc
    BY <1>4 DEF CallRefused, CallBroken, CancelCall, SendBroken, TypeOK
  <2>2. StageOf(c) # "gone" /\ StageOf(c)' = "gone"
    BY <2>1 DEF StageOf
  <2>3. OwnerState' = OwnerState /\ Owners' = Owners
    BY <2>1 DEF OwnerState, Owners
  <2> QED
    BY <1>1, <1>2, <2>2, <2>3, OwnedCall
<1>5. CASE Return(c)
  <2>1. /\ pc[c] = "waiting" /\ reply[c] /\ reply'[c] /\ ownerPc' = ownerPc
        /\ pc'[c] \in {"raised", "returned", "asserted"}
    BY <1>5 DEF Return, Verdict, TypeOK
  <2>2. StageOf(c) = "answered" /\ StageOf(c)' = "answered"
    BY <2>1 DEF StageOf
  <2>3. Stage' = Stage
    BY <1>2, <2>2 DEF Stage
  <2> QED
    BY <1>1, <2>1, <2>3, OwnedStutter DEF OwnerState, Owners
<1> QED
  BY <1>3, <1>4, <1>5 DEF CallerStep

LEMMA OwnedOwner ==
  ASSUME AnswerIInv, OwnerStep
  PROVE  Owned!Next \/ UNCHANGED Owned!ownedVars
<1> USE DEF AnswerIInv, Ordered, TypeInv, callerVars, requestVars, streamVars, ownerVars
<1>1. CASE Receive \/ Block \/ EndOfStream \/ ListFailed \/ Reopen \/ CallFailed
  BY <1>1, OwnedSilent DEF Receive, Block, EndOfStream, ListFailed, Lost, Reopen, CallFailed,
     OpenSession
<1>2. CASE Enter \/ Relisted \/ Connected \/ Aborted \/ Answered \/ Dropped
  <2>1. cur \in Calls /\ ownerPc \notin {"unstarted", "done"}
    BY <1>2, CurIsCall DEF Enter, Relisted, Connected, Aborted, Answered, Dropped
  <2>2. UNCHANGED <<pc, closing, groupCancelled>> /\ ownerPc' \notin {"unstarted", "done"}
    BY <1>2 DEF Enter, Relisted, Connected, Aborted, Answered, Dropped, Dispatch, Skip,
       FinishWithError, Finish, OpenSession
  <2>3. reply' = reply \/ reply' = [reply EXCEPT ![cur] = TRUE]
    BY <1>2 DEF Enter, Relisted, Connected, Aborted, Answered, Dropped, Dispatch, Skip,
       FinishWithError, Finish
  <2> QED
    BY <2>1, <2>2, <2>3, OwnedReplied, OwnedSilent
<1>3. CASE OwnerCancelled
  <2>1. /\ ownerPc \notin {"unstarted", "done"} /\ ownerPc' = "exit"
        /\ UNCHANGED <<pc, closing, groupCancelled>>
        /\ reply' = [c \in Calls |-> reply[c] \/ c = cur]
    BY <1>3 DEF OwnerCancelled
  <2>2. CASE cur \in Calls
    <3>1. reply' = [reply EXCEPT ![cur] = TRUE]
      BY <2>1, <2>2 DEF TypeOK
    <3> QED
      BY <2>1, <2>2, <3>1, OwnedReplied
  <2>3. CASE cur \notin Calls
    <3>1. reply' = reply
      BY <2>1, <2>3 DEF TypeOK
    <3> QED
      BY <2>1, <3>1, OwnedSilent
  <2> QED
    BY <2>2, <2>3
<1>4. CASE Exit
  <2>1. /\ ownerPc = "exit" /\ ownerPc' = "done"
        /\ UNCHANGED <<pc, reply, closing, groupCancelled>>
    BY <1>4 DEF Exit
  <2>2. groupCancelled \/ (closing /\ \A c \in Calls : StageOf(c) # "waiting")
    BY <2>1 DEF CloseInv, Deaf, NoLostRequest, StageOf
  <2>3. /\ OwnerState = "running" /\ OwnerState' = "ended" /\ Owners' = Owners
        /\ Stage' = Stage
    BY <2>1 DEF OwnerState, Owners, Stage, StageOf
  <2> QED
    BY <2>1, <2>2, <2>3 DEF Owned!Next, Owned!OwnerEnds, Stage, OwnerState, Owners
<1> QED
  BY <1>1, <1>2, <1>3, <1>4 DEF OwnerStep

LEMMA OwnedStep == AnswerIInv /\ [Next]_vars => [Owned!Next]_(Owned!ownedVars)
<1> SUFFICES ASSUME AnswerIInv, [Next]_vars
             PROVE  Owned!Next \/ UNCHANGED Owned!ownedVars
  OBVIOUS
<1>1. CASE \E c \in Calls : CallerStep(c)
  BY <1>1, OwnedCaller
<1>2. CASE OwnerStep
  BY <1>2, OwnedOwner
<1>3. CASE Close \/ CancelGroup
  <2>1. /\ UNCHANGED <<pc, reply>>
        /\ closing' \in {closing, TRUE} /\ groupCancelled' \in {groupCancelled, TRUE}
        /\ ownerPc' = ownerPc \/ (ownerPc = "blocked" /\ ownerPc' = "receive")
    BY <1>3 DEF Close, Wake, CancelGroup, callerVars, requestVars, ownerVars
  <2>2. UNCHANGED <<Stage, OwnerState, Owners>>
    BY <2>1 DEF Stage, StageOf, OwnerState, Owners
  <2> QED
    BY <2>1, <2>2 DEF Owned!Next, Owned!Shut, Stage, OwnerState, Owners
<1>4. CASE UNCHANGED vars
  BY <1>4, OwnedStutter DEF vars, callerVars, requestVars, streamVars, ownerVars, Stage,
     StageOf, OwnerState, Owners
<1> QED
  BY <1>1, <1>2, <1>3, <1>4 DEF Next

LEMMA OwnedInit == Init => Owned!Init
<1> SUFFICES ASSUME Init PROVE Owned!Init
  OBVIOUS
<1>1. Stage = [c \in Calls |-> "idle"] /\ OwnerState = "none" /\ Owners = 0
  BY DEF Init, Stage, StageOf, OwnerState, Owners
<1> QED
  BY <1>1 DEF Init, Owned!Init, Stage, OwnerState, Owners

\* The connection is what the Hub's registry relies on: one owner is started, however many
\* calls arrive at once, and it ends only when it has dealt with every call it accepted.
THEOREM OwnedImplements == Spec => OwnedSpec
BY OwnedInit, AnswerAlways, OwnedStep, PTL DEF Spec, OwnedSpec, Owned!Spec
=============================================================================
