------------------------------ MODULE MCOutbox ------------------------------
(***************************************************************************)
(* Three goals asked of two gateway instances whose relays drain at once,   *)
(* two rows at a time.                                                      *)
(***************************************************************************)
EXTENDS Outbox, TLC

CONSTANTS r1, r2, r3, g1, g2

MCHost == r1 :> g1 @@ r2 :> g2 @@ r3 :> g1

Unacknowledged == {r1}
TooLarge == {r3}
=============================================================================
