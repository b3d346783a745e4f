----------------------------- MODULE MCDelivery -----------------------------
(* Delivery for TLC.  Its bounds are constants of Delivery itself.         *)
EXTENDS Delivery
=============================================================================
