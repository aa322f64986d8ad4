------------------------------ MODULE BatchQueue ------------------------------
(***************************************************************************)
(* What ConversationDebouncer promises to the webhook handler that feeds it *)
(* and to the flush callback it calls: per key, an unbounded queue that a   *)
(* single consumer empties one whole batch at a time.                      *)
(*                                                                         *)
(* Nothing here knows of timers, of the Map of states or of when a batch   *)
(* is taken.  ConversationDebouncer.tla implements this specification;     *)
(* ReplyPipeline.tla is composed from it.                                  *)
(***************************************************************************)
EXTENDS Naturals, Sequences

CONSTANTS
  Key,      \* debounce keys: "<account id>:<conversation id>"
  Message,  \* deliveries; a redelivery of a message is another element
  KeyOf     \* in [Message -> Key], the key of a delivery; whoever
            \* instantiates this module assumes it

VARIABLES
  queue,    \* queue[k]: what has arrived for k since the last batch was taken
  busy,     \* busy[k]: the batch being flushed, <<>> when there is none
  done,     \* deliveries whose flush has settled, answered or not
  lost      \* deliveries a restart wiped out of memory

vars == <<queue, busy, done, lost>>

\* The elements of a sequence.
Elements(seq) == {seq[i] : i \in DOMAIN seq}

TypeOK ==
  /\ queue \in [Key -> Seq(Message)]
  /\ busy \in [Key -> Seq(Message)]
  /\ done \in SUBSET Message
  /\ lost \in SUBSET Message

\* m is held in memory, waiting or being flushed.
Held(m) == m \in Elements(queue[KeyOf[m]]) \cup Elements(busy[KeyOf[m]])

Init ==
  /\ queue = [k \in Key |-> <<>>]
  /\ busy = [k \in Key |-> <<>>]
  /\ done = {}
  /\ lost = {}

\* A delivery joins the queue of its key; each delivery arrives once.
Put(m) ==
  /\ ~Held(m) /\ m \notin done \cup lost
  /\ queue' = [queue EXCEPT ![KeyOf[m]] = Append(@, m)]
  /\ UNCHANGED <<busy, done, lost>>

\* Something waits for k and its consumer is idle; other keys do not matter.
\* (OneAtATime is a variant with a bug, as one consumer for all keys would have.)
MayTake_OneAtATime(k) == queue[k] # <<>> /\ \A j \in Key : busy[j] = <<>>
MayTake(k) == queue[k] # <<>> /\ busy[k] = <<>>

\* The consumer of k takes everything that waits.
Take(k) ==
  /\ MayTake(k)
  /\ busy' = [busy EXCEPT ![k] = queue[k]]
  /\ queue' = [queue EXCEPT ![k] = <<>>]
  /\ UNCHANGED <<done, lost>>

\* The flush of k's batch settles: fulfilled and rejected look the same here.
Settle(k) ==
  /\ busy[k] # <<>>
  /\ done' = done \cup Elements(busy[k])
  /\ busy' = [busy EXCEPT ![k] = <<>>]
  /\ UNCHANGED <<queue, lost>>

\* The process restarts.  Everything held is in memory only and is lost.
Restart ==
  /\ lost' = lost \cup {m \in Message : Held(m)}
  /\ queue' = [k \in Key |-> <<>>]
  /\ busy' = [k \in Key |-> <<>>]
  /\ UNCHANGED done

Next ==
  \/ \E m \in Message : Put(m)
  \/ \E k \in Key : Take(k) \/ Settle(k)
  \/ Restart

Spec == Init /\ [][Next]_vars
===============================================================================
