----------------------------- MODULE MCDelivery -----------------------------
(***************************************************************************)
(* A small instance of Delivery for TLC, with the words of MCChannels.     *)
(***************************************************************************)
EXTENDS Delivery, MCChannels
=============================================================================
