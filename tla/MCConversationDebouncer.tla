------------------------ MODULE MCConversationDebouncer ------------------------
(***************************************************************************)
(* Instances of ConversationDebouncer for TLC: a burst of four deliveries  *)
(* under one key, or three beside one under another key.  An enqueue makes *)
(* at most one heap object, so as many objects as deliveries always do.    *)
(***************************************************************************)
EXTENDS ConversationDebouncer, TLC

CONSTANTS k1, k2, m1, m2, m3, m4

OneKey  == [m \in Message |-> k1]
TwoKeys == [m \in Message |-> IF m = m3 THEN k2 ELSE k1]

\* Objects are interchangeable.
ObjectSymmetry == Permutations(State)
===============================================================================
