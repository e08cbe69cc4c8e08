---------------------------- MODULE MCStorefront ----------------------------
(***************************************************************************)
(* Storefront for sessions that are short, each with what one of its       *)
(* properties needs: two currencies, a second order, an emptied cart,      *)
(* another tab.                                                            *)
(***************************************************************************)
EXTENDS Storefront

CONSTANTS a1, e1, o1, o2, usd, eur

Does(who, calls, currencies, found, tab) ==
    [client |-> who, calls |-> calls, currencies |-> currencies,
     cart |-> found, tab |-> tab]

MCSessions ==
    {Does("web", {a1, o1}, {usd, eur}, {}, FALSE),
     Does("web", {o1, o2}, {usd}, {Other}, FALSE),
     Does("web", {e1, o1}, {usd}, {Other}, FALSE),
     Does("web", {a1, o1}, {usd}, {}, TRUE),
     Does("app", {a1, o1, o2}, {usd}, {}, FALSE)}
=============================================================================
