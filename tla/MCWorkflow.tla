----------------------------- MODULE MCWorkflow -----------------------------
(***************************************************************************)
(* Two instances, and a partition with two goals: one about a catalog       *)
(* material with a price and a spread, one about a private material.        *)
(***************************************************************************)
EXTENDS Workflow

CONSTANTS w1, w2, tdi, acme, price, spread

MCEntities ==
    [g \in {tdi, acme} |->
        IF g = tdi
        THEN <<[code |-> "TDI", known |-> TRUE, price |-> price, spread |-> spread]>>
        ELSE <<[code |-> "ACME", known |-> FALSE,
                price |-> NoIndicator, spread |-> NoIndicator]>>]

TwoEvents == <<tdi, acme>>
TwoGoals == {tdi, acme}
PriceOfTdi == {<<tdi, price>>}
=============================================================================
