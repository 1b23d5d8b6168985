------------------------------ MODULE MCObserve ------------------------------
(* The instances of MCCsma with their log observed.                          *)
EXTENDS Observe, MCCsma
===========================================================================
