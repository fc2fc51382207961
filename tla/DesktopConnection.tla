-------------------------- MODULE DesktopConnection --------------------------
(***************************************************************************)
(* What the Hub's registry may rely on of one desktop connection: it has   *)
(* one socket at a time, which nobody takes from it, and none once it is   *)
(* closed; it is called only through that socket, once at a time; and      *)
(* whoever gives the socket up settles the call that waits for an answer   *)
(* from it.  It may call itself connected without being so: a registration *)
(* that completes late says that for whatever socket there is by then.     *)
(*                                                                         *)
(* ReverseConnection, the connection in detail, is shown to implement it,  *)
(* and so is each desktop connection of HubLifecycle, which knows no more. *)
(***************************************************************************)
CONSTANTS Calls,     \* the invocations of call_tool on this connection
          Sockets, NoSocket

VARIABLES caller,     \* where each call is: "idle", "called" or "done"
          serving,    \* each socket: "new", "hello" until it has registered, "ready", "left"
          socket, connected, closing

desktopVars == <<caller, serving, socket, connected, closing>>

Init == /\ caller = [c \in Calls |-> "idle"] /\ serving = [s \in Sockets |-> "new"]
        /\ socket = NoSocket /\ connected = FALSE /\ closing = FALSE

\* The current socket is given up, and with it the answer that is due, if there is one.
GiveUp(due) ==
  /\ socket' = NoSocket /\ connected' = FALSE
  /\ caller' = [c \in Calls |-> IF c \in due \/ caller[c] = "called" THEN "done" ELSE caller[c]]

Call(c) ==
  /\ caller[c] = "idle" /\ connected /\ socket # NoSocket /\ ~closing
  /\ \A x \in Calls : caller[x] # "called"
  /\ caller' = [caller EXCEPT ![c] = "called"]
  /\ UNCHANGED <<serving, socket, connected, closing>>

\* A call is turned away, or has its answer.
Settle(c) ==
  /\ caller[c] # "done"
  /\ caller' = [caller EXCEPT ![c] = "done"]
  /\ UNCHANGED <<serving, socket, connected, closing>>

\* A call fails, be it before it was made or after its answer: the socket goes with it.
Fail(c) == GiveUp({c}) /\ UNCHANGED <<serving, closing>>

Close == closing' = TRUE /\ GiveUp({}) /\ UNCHANGED serving

Attach(s) ==
  /\ serving[s] = "new" /\ ~closing /\ socket = NoSocket
  /\ socket' = s /\ serving' = [serving EXCEPT ![s] = "hello"]
  /\ UNCHANGED <<caller, connected, closing>>

\* The registration completes; if the socket is no longer the current one it may be found out.
Register(s) ==
  /\ serving[s] = "hello"
  /\ connected' = TRUE
  /\ \E next \in {"ready", "left"} : /\ next = "left" => socket # s
                                     /\ serving' = [serving EXCEPT ![s] = next]
  /\ UNCHANGED <<caller, socket, closing>>

\* The socket breaks, or is closed: it gives up its own place and not another one's.
Leave(s) ==
  /\ serving[s] \in {"hello", "ready"}
  /\ serving' = [serving EXCEPT ![s] = "left"]
  /\ \/ socket = s /\ GiveUp({})
     \/ socket # s /\ UNCHANGED <<caller, socket, connected>>
  /\ UNCHANGED closing

Next == \/ \E c \in Calls : Call(c) \/ Settle(c) \/ Fail(c)
        \/ \E s \in Sockets : Attach(s) \/ Register(s) \/ Leave(s)
        \/ Close

Spec == Init /\ [][Next]_desktopVars
=============================================================================
