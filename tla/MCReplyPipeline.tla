---------------------------- MODULE MCReplyPipeline ----------------------------
(***************************************************************************)
(* Instances of ReplyPipeline.  One conversation with two messages and a   *)
(* redelivery of the first, for safety; two conversations, one of which    *)
(* hangs in Dify with the only slot of the registry, for liveness, the     *)
(* other with a message whose id cannot be parsed.                         *)
(***************************************************************************)
EXTENDS ReplyPipeline, TLC

CONSTANTS c1, c2, d1, d2, r1

OneConv == [d \in Delivery |-> c1]
Ids12 == [d \in Delivery |-> IF d = d2 THEN 2 ELSE 1]

\* r1 comes without an id.
Ids120 == [d \in Delivery |-> IF d = d1 THEN 1 ELSE IF d = d2 THEN 2 ELSE 0]

OwnConv == [d \in Delivery |-> IF d = d2 THEN c2 ELSE c1]

TurnSymmetry == Permutations(Turn)
===============================================================================
