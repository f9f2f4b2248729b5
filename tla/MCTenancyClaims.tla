-------------------------- MODULE MCTenancyClaims --------------------------
(* Small instances of TenancyClaims for TLC. *)
EXTENDS TenancyClaims, MCTenancy
=============================================================================
