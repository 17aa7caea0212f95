------------------------ MODULE MCRouteFluxService ------------------------
(***************************************************************************)
(* Values for the constants of RouteFluxService: two subscriptions, the    *)
(* second the pasted server list, and three nodes of which two share a     *)
(* name.  The profiles let a run change the settings it is about.          *)
(***************************************************************************)
EXTENDS RouteFluxService, TLC

CONSTANTS s1, s2, a, b, c

TwoSubs    == {s1, s2}
TwoCatalog == s1 :> {a, b} @@ s2 :> {c}
TwoNodes   == {a, b, c}
\* a and b differ in nothing: one subscription, one name.
SameNodes  == Permutations({a, b})
TwoNames   == a :> "home" @@ b :> "home" @@ c :> "work"

OneSub     == {s1}
OneCatalog == s1 :> {a, b}
OneNodes   == {a, b}

\* One node to a subscription, where what a property is about needs no more.
TinyNodes   == {a}
TinyCatalog == s1 :> {a}

Prof(zapret, selectors, dns, fw) ==
    [zapret |-> zapret, selectors |-> selectors, dns |-> dns, fw |-> fw]

\* Zapret fallback switched on and off, its selectors usable, useless or gone.
ZapretProfiles ==
    {Prof(TRUE, "cidrs", TRUE, TRUE), Prof(TRUE, "domains", TRUE, TRUE),
     Prof(FALSE, "domains", TRUE, TRUE), Prof(FALSE, "none", TRUE, TRUE)}

SmallProfiles ==
    {Prof(TRUE, "domains", TRUE, TRUE), Prof(FALSE, "domains", TRUE, FALSE)}
==========================================================================
