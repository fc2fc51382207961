--------------------------- MODULE MCCatalogCheck ---------------------------
(* CatalogCheck for TLC: two upstreams, the files of thirteen deployments  *)
(* that cover each reason to refuse one, and listings of the first         *)
(* upstream that differ from its route in one respect each.                *)
EXTENDS CatalogCheck

CONSTANTS s1, s2, u1, u2

ReadOnly == [readOnlyHint |-> TRUE]
NoHints == [h \in {} |-> TRUE]
Tool(name, schema, hints) == [name |-> name, schema |-> schema, hints |-> hints]

\* Names that start like a namespace, hints that are omitted or stated, other schemas.
First == Tool(<<"t">>, s1, ReadOnly)
Second == Tool(<<"a", "t">>, s1, NoHints)
SecondStated == Tool(<<"a", "t">>, s1, DefaultHints)
SecondChanged == Tool(<<"a", "t">>, s2, NoHints)
Third == Tool(<<"b">>, s1, NoHints)
Nested == Tool(<<"a", "b">>, s1, NoHints)
Context == Tool(<<"mcp", "context">>, s1, NoHints)
Shadow == Tool(<<"upstreams", "list">>, s1, NoHints)
Unknown == Tool(<<"t">>, s1, [sudo |-> TRUE])
Long == Tool(<<"t", "t", "t">>, s1, NoHints)

Http(id, namespace, url, tools) ==
  [id |-> id, namespace |-> namespace, enabled |-> TRUE, transport |-> "http",
   url |-> url, credential |-> FALSE, signed |-> FALSE, tools |-> tools]

RouteA == Http("a", "a", u1, <<First, Second>>)
RouteB == Http("b", "b", u2, <<Nested>>)
Desktop == [Http("d", "d", NoUrl, <<Context>>) EXCEPT !.transport = "reverse", !.credential = TRUE]
HubSpace == Http("h", "hub", u1, <<First, Second>>)
Disabled == [RouteA EXCEPT !.enabled = FALSE]
Changed2 == [RouteA EXCEPT !.tools = <<First, SecondChanged>>]
Signed == [Http("g", "generation", u1, <<First, Second>>) EXCEPT !.signed = TRUE]
Repeats == Http("b", "b", u1, <<First, First>>)

File(config) == [skipped |-> FALSE, config |-> config]
Skipped(config) == [skipped |-> TRUE, config |-> config]

SomeDeployments ==
  { <<File(RouteA)>>,
    <<File(RouteA), File(RouteB)>>,
    <<File(RouteB), File(Desktop), File(Changed2)>>,
    <<File(HubSpace), File(RouteB)>>,
    <<File(Signed), Skipped(Repeats), File(Disabled), File(RouteB)>>,
    <<File(Disabled), File(RouteB)>>,
    <<File(RouteA), File(RouteA)>>,
    <<File(RouteA), File([RouteA EXCEPT !.id = "x"])>>,
    <<File(RouteA), File([RouteB EXCEPT !.id = "a"])>>,
    <<File(RouteA), File(Repeats)>>,
    <<File([RouteA EXCEPT !.signed = TRUE])>>,
    <<File([Desktop EXCEPT !.tools = <<First>>])>>,
    <<File(Http("h", "hub", u1, <<Shadow>>))>>,
    <<File(Http("b", "b", u2, <<First, Second, Third>>)), File(RouteA)>>,
    <<File(Http("b", "b", u2, <<Long>>)), File(RouteA)>> }

SomeRoutes == {RouteA, RouteB, HubSpace, Signed, Disabled, Desktop,
               Http("b", "b", u1, <<First, Second, Third, Shadow, Context>>)}

Listing(tools) == [more |-> FALSE, tools |-> tools]

SomeListings ==
  [u \in {u1, u2} |->
     IF u = u1
     THEN { Listing(<<First, Second>>), Listing(<<SecondStated, First>>),
            Listing(<<First, Second, Third>>), Listing(<<First>>),
            Listing(<<First, SecondChanged>>), Listing(<<First, First, Second>>),
            Listing(<<Unknown, Second>>), Listing(<<First, Second, Third, Shadow>>),
            [more |-> TRUE, tools |-> <<First, Second>>] }
     ELSE { Listing(<<Nested>>), Listing(<<Third>>) }]
=============================================================================
