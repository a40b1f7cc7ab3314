---------------------------- MODULE MCLeaseStore ----------------------------
(* A small instance of LeaseStore: one resource, two competing owners.     *)
EXTENDS LeaseStore
=============================================================================
