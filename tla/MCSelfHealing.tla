----------------------------- MODULE MCSelfHealing -----------------------------
(***************************************************************************)
(* An instance of SelfHealing: two JSON lines of levels 50 and 60, which   *)
(* have one fingerprint since it leaves out the numbers, an exception      *)
(* without a level, and an operator's typo in psql.  Loki returns two      *)
(* lines at most.                                                          *)
(***************************************************************************)
EXTENDS SelfHealing

Plain(print) ==
  [print |-> print, number |-> None, word |-> None, rails |-> None, pg |-> None, kv |-> None,
   postgres |-> FALSE, psql |-> FALSE, typo |-> FALSE, parameterized |-> FALSE, rules |-> {}]

Lines ==
  {[Plain(1) EXCEPT !.number = 50], [Plain(1) EXCEPT !.number = 60], Plain(2),
   [Plain(3) EXCEPT !.pg = "error", !.postgres = TRUE, !.typo = TRUE]}

Environments ==
  {[secret |-> TRUE, allow |-> FALSE], [secret |-> FALSE, allow |-> FALSE], [secret |-> FALSE, allow |-> TRUE]}
===============================================================================
