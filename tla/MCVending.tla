------------------------------- MODULE MCVending -------------------------------
(***************************************************************************)
(* Two products, one that fits the first two slots and one that fits the   *)
(* third; a supplier of the built-in directory, and two that searches      *)
(* find, one of which gives its lead time the wrong way round.             *)
(***************************************************************************)
EXTENDS Vending, TLC
CONSTANTS p, q, c1, c2, c3

MCSkus == {p, q}
MCFits == p :> {1, 2} @@ q :> {3}
MCCapacity == p :> 1 @@ q :> 2
MCBasePrice == p :> 1 @@ q :> 2
MCContacts == {c1, c2, c3}
MCWholesale == c1 :> 1 @@ c2 :> 1 @@ c3 :> 0
MCMinOrder == c1 :> 2 @@ c2 :> 0 @@ c3 :> 1
MCUnitCost == p :> 1 @@ q :> 2
MCLead == c1 :> <<1, 1>> @@ c2 :> <<0, 2>> @@ c3 :> <<2, 1>>
MCMinutes == [read_email |-> 1, send_email |-> 1, restock_machine |-> 1, set_price |-> 1,
              collect_cash |-> 1, ai_web_search |-> 1]
================================================================================
