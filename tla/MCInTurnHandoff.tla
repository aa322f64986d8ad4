---------------------------- MODULE MCInTurnHandoff ----------------------------
(***************************************************************************)
(* The instance of InTurnHandoff in MCInTurnHandoff.cfg: three             *)
(* conversations, three Dify calls, a handoff request and room for two     *)
(* tracked turns.  A conversation has two turns in a row, three turns      *)
(* compete for two slots, a request for one turn is answered during the    *)
(* next, and one conversation's Dify call may hang for ever with its slot. *)
(***************************************************************************)
EXTENDS InTurnHandoff
===============================================================================
