----------------------------- MODULE MCBilling -----------------------------
(***************************************************************************)
(* TLC instances of Billing.  One company is enough for what is stated of  *)
(* each company by itself; the nightly job then has one to visit.          *)
(***************************************************************************)
EXTENDS Billing, TLC
=============================================================================
