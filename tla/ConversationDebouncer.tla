------------------------ MODULE ConversationDebouncer ------------------------
(***************************************************************************)
(* middleware/src/conversation-debouncer.ts: per-key debounce and grouping. *)
(*                                                                         *)
(* The Map `states` points at heap objects {messages, timer, flushing}.  An *)
(* armed timer is a closure over the OBJECT it was armed on (it nulls that  *)
(* object's `timer`) and over the KEY (runFlush looks the key up again), so *)
(* the two may part: the object may have been deleted from the Map and     *)
(* another one created under the same key while the timer was armed.  The  *)
(* model keeps both identities.                                            *)
(*                                                                         *)
(* JavaScript runs one callback at a time, so each action is one callback  *)
(* up to its next await: Enqueue (called by the webhook handler), Fire (a  *)
(* timer callback with the runFlush it calls, up to `await this.flush`),   *)
(* FlushEnd (the continuation of that await: catch and finally).           *)
(*                                                                         *)
(* Every timer of the class is armed with the same delay windowMs, so the  *)
(* event loop fires them in the order in which they were armed; a timer is *)
(* named by its rank in that order, and time needs no other representation.*)
(*                                                                         *)
(* clearAll() is left out: the service never calls it, and a shutdown is a *)
(* Restart.                                                                *)
(***************************************************************************)
EXTENDS Naturals, Sequences

CONSTANTS
  Key,       \* debounce keys
  Message,   \* deliveries, each enqueued once
  KeyOf,     \* KeyOf[m]: the key m is enqueued under
  State,     \* identities of the heap objects of type ConversationState
  None,      \* no object under a key
  Settling   \* keys whose flush callback always settles

ASSUME KeyOfAssumption == KeyOf \in [Message -> Key]
ASSUME NoneAssumption  == None \notin State
ASSUME SettlingAssumption == Settling \subseteq Key

VARIABLES
  states,    \* the Map: key -> object, None when the key has no entry
  messages,  \* messages[s]: field of object s
  timer,     \* timer[s]: field of object s, the rank of a timer; 0 is null
  flushing,  \* flushing[s]: field of object s
  ownKey,    \* ownKey[s]: the key that the closures over s captured
  group,     \* group[s]: the messages of the flush in flight from s
  armed,     \* armed timers, [rank, state]
  armings,   \* how many timers have been armed: the rank of the last one
  stamp,     \* history: the rank of the timer that m's enqueue armed; 0 before
  done,      \* history: messages whose flush has settled
  lost       \* history: messages wiped by a restart

heap == <<messages, timer, flushing, ownKey, group>>
vars == <<states, heap, armed, armings, stamp, done, lost>>

Elements(seq) == {seq[i] : i \in DOMAIN seq}

TypeOK ==
  /\ states \in [Key -> State \cup {None}]
  /\ messages \in [State -> Seq(Message)]
  /\ timer \in [State -> Nat]
  /\ flushing \in [State -> BOOLEAN]
  /\ ownKey \in [State -> Key \cup {None}]
  /\ group \in [State -> Seq(Message)]
  /\ armed \in SUBSET [rank : Nat, state : State]
  /\ armings \in Nat
  /\ stamp \in [Message -> Nat]
  /\ done \in SUBSET Message
  /\ lost \in SUBSET Message

Init ==
  /\ states = [k \in Key |-> None]
  /\ messages = [s \in State |-> <<>>]
  /\ timer = [s \in State |-> 0]
  /\ flushing = [s \in State |-> FALSE]
  /\ ownKey = [s \in State |-> None]
  /\ group = [s \in State |-> <<>>]
  /\ armed = {}
  /\ armings = 0
  /\ stamp = [m \in Message |-> 0]
  /\ done = {}
  /\ lost = {}

\* Object s is referenced by nothing: not by the Map, not by the closure of an
\* armed timer, not by a runFlush in flight.
Unreferenced(s) ==
  /\ \A k \in Key : states[k] # s
  /\ \A e \in armed : e.state # s
  /\ ~flushing[s]

\* stateFor(key): the object under the key, or a new one.
StateFor_AlwaysNew(k) == {s \in State : Unreferenced(s)}
StateFor(k) ==
  IF states[k] # None THEN {states[k]} ELSE {s \in State : Unreferenced(s)}

\* The armed timers once clearTimeout(t) has run; a fired t changes nothing.
ClearTimeout(t) == {e \in armed : e.rank # t}

\* setTimeout: the next rank, closing over object s.
Arming_Unassigned(s) == [rank |-> armings + 1, state |-> None]
Arming(s) == [rank |-> armings + 1, state |-> s]

\* runFlush starts a flush of s: none is in flight and something is buffered.
\* (Reentrant and GlobalLock, like every operator with an underscore in its name
\* in these modules, are variants with a bug that a property must notice; no
\* specification uses them.)
CanFlush_Reentrant(s) == messages[s] # <<>>
CanFlush_GlobalLock(s) == messages[s] # <<>> /\ \A r \in State : ~flushing[r]
CanFlush(s) == messages[s] # <<>> /\ ~flushing[s]

\* The finally block arms another timer: messages arrived during the flush.  It
\* does not look whether state.timer already holds one.
MustRearm_Never(s) == FALSE
MustRearm(s) == messages[s] # <<>>

\* The finally block deletes the entry: nothing pending, no timer known.
MayFree_Buffered(s) == timer[s] = 0
MayFree(s) == messages[s] = <<>> /\ timer[s] = 0

-------------------------------------------------------------------------------
\* enqueue(key, message).
Enqueue(m) ==
  /\ stamp[m] = 0
  /\ \E s \in StateFor(KeyOf[m]) :
       /\ messages' = [messages EXCEPT
            ![s] = Append(IF s = states[KeyOf[m]] THEN @ ELSE <<>>, m)]
       /\ states' = [states EXCEPT ![KeyOf[m]] = s]
       /\ ownKey' = [ownKey EXCEPT ![s] = KeyOf[m]]
       /\ armed' = ClearTimeout(timer[s]) \cup {Arming(s)}
       /\ timer' = [timer EXCEPT ![s] = armings + 1]
  /\ armings' = armings + 1
  /\ stamp' = [stamp EXCEPT ![m] = armings + 1]
  /\ UNCHANGED <<flushing, group, done, lost>>

\* runFlush(key) up to its await: the whole buffer becomes the group.
RunFlush(k) ==
  LET s == states[k] IN
  IF s # None /\ CanFlush(s)
  THEN /\ group' = [group EXCEPT ![s] = messages[s]]
       /\ messages' = [messages EXCEPT ![s] = <<>>]
       /\ flushing' = [flushing EXCEPT ![s] = TRUE]
  ELSE UNCHANGED <<messages, flushing, group>>

\* The oldest armed timer fires: the closure nulls the timer of ITS object and
\* runs the flush of its KEY.
Fire(e) ==
  /\ \A f \in armed : e.rank <= f.rank
  /\ armed' = armed \ {e}
  /\ timer' = [timer EXCEPT ![e.state] = 0]
  /\ RunFlush(ownKey[e.state])
  /\ UNCHANGED <<states, ownKey, armings, stamp, done, lost>>

\* `await this.flush(...)` settles, fulfilled or rejected (onError only logs),
\* and the finally block runs.
FlushEnd(s) ==
  /\ flushing[s]
  /\ flushing' = [flushing EXCEPT ![s] = FALSE]
  /\ done' = done \cup Elements(group[s])
  /\ group' = [group EXCEPT ![s] = <<>>]
  /\ IF MustRearm(s)
     THEN /\ armed' = armed \cup {Arming(s)}
          /\ timer' = [timer EXCEPT ![s] = armings + 1]
          /\ armings' = armings + 1
     ELSE UNCHANGED <<armed, timer, armings>>
  /\ states' = IF MayFree(s) THEN [states EXCEPT ![ownKey[s]] = None] ELSE states
  /\ UNCHANGED <<messages, ownKey, stamp, lost>>

\* m is buffered or in a flush in flight, under the Map.
Held(m) ==
  LET s == states[KeyOf[m]] IN
  s # None /\ m \in Elements(messages[s]) \cup Elements(group[s])

\* The process restarts: every timer, object and flush in flight is gone.
Restart ==
  /\ lost' = lost \cup {m \in Message : Held(m)}
  /\ states' = [k \in Key |-> None]
  /\ messages' = [s \in State |-> <<>>]
  /\ timer' = [s \in State |-> 0]
  /\ flushing' = [s \in State |-> FALSE]
  /\ group' = [s \in State |-> <<>>]
  /\ armed' = {}
  /\ UNCHANGED <<ownKey, armings, stamp, done>>

-------------------------------------------------------------------------------
Next ==
  \/ \E m \in Message : Enqueue(m)
  \/ \E e \in armed : Fire(e)
  \/ \E s \in State : FlushEnd(s)
  \/ Restart

Spec == Init /\ [][Next]_vars

\* Timers do fire, and the flush callback settles for the keys in Settling: the
\* calls it awaits carry timeouts.  For the other keys it may hang for ever.
FairSpec ==
  /\ Spec
  /\ WF_vars(\E e \in armed : Fire(e))
  /\ \A s \in State : WF_vars(ownKey[s] \in Settling /\ FlushEnd(s))
-------------------------------------------------------------------------------
\* At most one flush is in flight per key, even though a timer armed on an object
\* that has left the Map runs the flush of the object that replaced it.
\* (conversation-debouncer.ts, the `flushing` check and the delete in finally)
OneFlushPerKey ==
  \A s, r \in State :
    flushing[s] /\ flushing[r] /\ ownKey[s] = ownKey[r] => s = r

\* A message that was enqueued is buffered or being flushed under its key's
\* entry, or its flush has settled, or a restart took it: in exactly one of the
\* three ways.  No buffer is left in an object that the Map forgot, and none is
\* handed to flush a second time.  (enqueue, runFlush)
MessageFate ==
  \A m \in Message : stamp[m] > 0 =>
    \/ Held(m) /\ m \notin done \cup lost
    \/ ~Held(m) /\ m \in done /\ m \notin lost
    \/ ~Held(m) /\ m \notin done /\ m \in lost

\* Some armed timer will run the flush of key k.
Scheduled(k) == \E e \in armed : ownKey[e.state] = k

\* A key with buffered messages and no flush in flight has a timer armed for it:
\* a timer that fired during the flush and returned at the `flushing` check is
\* always made up for.  (the finally block of runFlush)
PendingIsScheduled ==
  \A k \in Key : LET s == states[k] IN
    (s # None => (messages[s] = <<>> \/ flushing[s] \/ Scheduled(k)))

\* Every message enqueued under a key whose flushes settle is flushed, unless the
\* process restarts first, whatever the flush of another key does: keys never
\* block each other.  (the concurrency model in the header of the class)
EventuallySettled ==
  \A m \in Message : KeyOf[m] \in Settling =>
    (stamp[m] > 0 ~> m \in done \cup lost)

\* The class implements the queue its callers rely on: what the key's entry
\* buffers is the queue, what its flush in flight holds is the batch.
Buffered(k) == IF states[k] = None THEN <<>> ELSE messages[states[k]]
InFlight(k) == IF states[k] = None THEN <<>> ELSE group[states[k]]

Queue == INSTANCE BatchQueue WITH
  queue <- [k \in Key |-> Buffered(k)],
  busy  <- [k \in Key |-> InFlight(k)]

ImplementsBatchQueue == Queue!Spec

\* What the comment on enqueue says: every new message pushes the flush out by
\* windowMs again.  The timer that starts a flush was then armed with or after
\* the newest message it flushes.  The class breaks it (see the README).
QuietWindow ==
  [][\A s \in State : ~flushing[s] /\ flushing'[s] =>
       \A e \in armed \ armed', m \in Elements(group'[s]) : stamp[m] <= e.rank]_vars

-------------------------------------------------------------------------------
\* The inductive invariant: how the Map, the objects and the armed timers refer
\* to one another.

\* An entry's object belongs to its key; a flush in flight is the entry's own.
MapAndFlights ==
  /\ \A k \in Key : states[k] # None => ownKey[states[k]] = k
  /\ \A s \in State : flushing[s] => ownKey[s] \in Key /\ states[ownKey[s]] = s
  /\ \A s \in State : flushing[s] <=> group[s] # <<>>

\* Ranks name timers, and the rank an object holds is that of its own timer or
\* of one that is no longer armed: clearTimeout never hits another object's.
TimerRanks ==
  /\ \A e \in armed : e.rank <= armings /\ ownKey[e.state] \in Key
  /\ \A s \in State : timer[s] <= armings
  /\ \A e, f \in armed : e.rank = f.rank => e = f
  /\ \A e \in armed, s \in State : e.rank = timer[s] => e.state = s

\* Only enqueued messages are anywhere; an entry's messages are its key's, and
\* none of them waits and is being flushed at once.
Contents ==
  /\ \A k \in Key : states[k] # None =>
       /\ \A m \in Elements(messages[states[k]]) \cup Elements(group[states[k]]) :
            KeyOf[m] = k /\ stamp[m] > 0
       /\ Elements(messages[states[k]]) \cap Elements(group[states[k]]) = {}
  /\ \A m \in done \cup lost : stamp[m] > 0

\* Objects and timers as the service's calls leave them, for ever.
Inv ==
  /\ TypeOK
  /\ MapAndFlights
  /\ TimerRanks
  /\ Contents
  /\ PendingIsScheduled
  /\ MessageFate
===============================================================================
