-------------------------- MODULE MCMerchantLedger --------------------------
(* A small instance of MerchantLedger for TLC: every order brings 4.       *)
EXTENDS MerchantLedger

MCNet == [o \in Orders |-> 4]
=============================================================================
