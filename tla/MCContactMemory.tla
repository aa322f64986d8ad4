---------------------------- MODULE MCContactMemory ----------------------------
(***************************************************************************)
(* Instances of ContactMemory: contact 1 has the conversations 2 and 3,    *)
(* contact 2 the conversation 1, so that numbers coincide across people.   *)
(***************************************************************************)
EXTENDS ContactMemory, TLC

TwoAndOne == [c \in Conv |-> IF c = 1 THEN 2 ELSE 1]

\* Conversation 1 never carries its contact's id, 2 does now and then, 3 always.
Payloads == [conv : {1, 2}, known : {FALSE}] \cup [conv : {2, 3}, known : {TRUE}]

ThreadSymmetry == Permutations(Thread)
===============================================================================
