----------------------------- MODULE MCDelivery -----------------------------
(***************************************************************************)
(* Instances of Delivery for TLC: one or two servers, one client.          *)
(***************************************************************************)
EXTENDS Delivery, TLC

CONSTANTS s1, s2, c1

=============================================================================
