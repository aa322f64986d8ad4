--------------------------- MODULE MCTenantRegistry ---------------------------
(***************************************************************************)
(* Instances of TenantRegistry.  As in tenants.yaml, two physical tenants  *)
(* have account 1 of an installation each; the second is new and not in    *)
(* the table yet.  The first installation also has an account that nobody  *)
(* has mapped, and the third name is free.                                 *)
(***************************************************************************)
EXTENDS TenantRegistry

CONSTANTS main, acme, duda, k1, k2

TwoTenants ==
  <<[name |-> main, url |-> main, acct |-> 1, secret |-> k1],
    [name |-> acme, url |-> acme, acct |-> 1, secret |-> None]>>

Accounts == [u \in Installation |-> IF u = main THEN {1, 2} ELSE {1}]
===============================================================================
