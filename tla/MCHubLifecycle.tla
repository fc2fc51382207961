-------------------------- MODULE MCHubLifecycle --------------------------
(* HubLifecycle for TLC: a desktop connection before an HTTP connection in *)
(* the order of the catalog, or between two of them.                       *)
EXTENDS HubLifecycle, TLC

CONSTANTS h1, h2, d1, c1, c2, c3, s1, s2

DesktopFirst == <<d1, h1>>

InTheMiddle == <<h1, d1, h2>>

OnHttp == (c1 :> h1 @@ c2 :> h1)

OnBoth == (c1 :> h2 @@ c2 :> h2 @@ c3 :> d1)
=============================================================================
