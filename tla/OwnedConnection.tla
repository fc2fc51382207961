--------------------------- MODULE OwnedConnection ---------------------------
(***************************************************************************)
(* What the Hub's registry may rely on of one HTTP upstream connection:    *)
(* the first call accepted starts an owner task, the only one there ever   *)
(* is, in the registry's task group; closing the connection makes the      *)
(* owner end, but only when every accepted call has been dealt with,       *)
(* unless the task group is cancelled.                                     *)
(*                                                                         *)
(* LazyConnection, the connection in detail, is shown to implement it, and *)
(* so is each HTTP connection of HubLifecycle, which knows no more of it.  *)
(***************************************************************************)
EXTENDS Naturals

CONSTANT Calls     \* the invocations of call_tool on this connection

VARIABLES caller,   \* where each of them is
          owner,    \* the owner task
          owners,   \* how many were started
          closing,  \* close() was called
          cut       \* the task group is cancelled

ownedVars == <<caller, owner, owners, closing, cut>>

Init == /\ caller = [c \in Calls |-> "idle"]
        /\ owner = "none" /\ owners = 0
        /\ closing = FALSE /\ cut = FALSE

\* A call is accepted, and starts the owner if there is none yet.
Accept(c) == /\ caller[c] = "idle" /\ ~closing /\ owner # "ended"
             /\ caller' = [caller EXCEPT ![c] = "waiting"]
             /\ owner' = "running"
             /\ owners' = IF owner = "none" THEN owners + 1 ELSE owners
             /\ UNCHANGED <<closing, cut>>

\* The owner has a result or an error for an accepted call.
Answer(c) == /\ caller[c] = "waiting" /\ owner = "running"
             /\ caller' = [caller EXCEPT ![c] = "answered"]
             /\ UNCHANGED <<owner, owners, closing, cut>>

\* A call is turned away, its task is cancelled, or its stream broke.
Leave(c) == /\ caller[c] # "gone"
            /\ caller' = [caller EXCEPT ![c] = "gone"]
            /\ UNCHANGED <<owner, owners, closing, cut>>

\* The connection is closed, the task group is cancelled, or both at once.
Shut == /\ closing' \in {closing, TRUE} /\ cut' \in {cut, TRUE}
        /\ UNCHANGED <<caller, owner, owners>>

\* The owner leaves nobody waiting unless it was cancelled.
OwnerEnds == /\ owner = "running"
             /\ cut \/ (closing /\ \A c \in Calls : caller[c] # "waiting")
             /\ owner' = "ended"
             /\ UNCHANGED <<caller, owners, closing, cut>>

Next == \/ \E c \in Calls : Accept(c) \/ Answer(c) \/ Leave(c)
        \/ Shut \/ OwnerEnds

Spec == Init /\ [][Next]_ownedVars
=============================================================================
