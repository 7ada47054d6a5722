----------------------------- MODULE MCDispatch -----------------------------
(* Instances of Dispatch for TLC.  Event 1 and 2 are changes made in SWS,  *)
(* which fan out to shop_establishment and then factories.                 *)
EXTENDS Dispatch

AllAdapters == {"shop", "factories"}
FanOut      == <<"shop", "factories">>
RouteFanOut == [e \in Event |-> FanOut]
RouteShop   == [e \in Event |-> <<"shop">>]

SameEvent   == [t \in Task |-> 1]
InOrder     == [t \in Task |-> t]
OneTwice    == <<1, 1, 2>>

AnyAnswer   == [a \in Adapter |-> Answer]
OkOr5xx     == [a \in Adapter |-> {"ok", "unavailable"}]
OkOr4xx     == [a \in Adapter |-> {"ok", "rejected"}]
ShopFails   ==
    [a \in Adapter |-> IF a = "shop" THEN {"ok", "unavailable", "rejected"} ELSE {"ok"}]
=============================================================================
