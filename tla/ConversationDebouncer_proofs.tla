---------------------- MODULE ConversationDebouncer_proofs ----------------------
(***************************************************************************)
(* For every set of keys, messages and objects: the debouncer flushes each  *)
(* message at most once and one group per key at a time, never strands a    *)
(* message it buffered, and implements BatchQueue.                         *)
(***************************************************************************)
EXTENDS ConversationDebouncer, TLAPS

\* Appending to a buffer adds one element to it and takes none away.
LEMMA ElementsOfAppend ==
  ASSUME NEW S, NEW seq \in Seq(S), NEW x \in S
  PROVE  /\ Append(seq, x) \in Seq(S)
         /\ Elements(Append(seq, x)) = Elements(seq) \cup {x}
         /\ Append(seq, x) # <<>>
<1>1. /\ Append(seq, x) \in Seq(S)
      /\ DOMAIN Append(seq, x) = 1 .. (Len(seq) + 1)
      /\ \A i \in 1 .. Len(seq) : Append(seq, x)[i] = seq[i]
      /\ Append(seq, x)[Len(seq) + 1] = x
      /\ DOMAIN seq = 1 .. Len(seq)
      /\ Len(seq) \in Nat
  OBVIOUS
<1>2. QED
  BY <1>1 DEF Elements

\* Nothing is in the empty buffer, and a buffer with no element is empty.
LEMMA ElementsOfEmpty ==
  /\ Elements(<<>>) = {}
  /\ \A S : \A seq \in Seq(S) : Elements(seq) \subseteq S
<1>1. Elements(<<>>) = {}
  BY DEF Elements
<1>2. ASSUME NEW S, NEW seq \in Seq(S)
      PROVE  Elements(seq) \subseteq S
  BY DEF Elements
<1>3. QED
  BY <1>1, <1>2

LEMMA InitInv == Init => Inv
<1> SUFFICES ASSUME Init PROVE Inv
  OBVIOUS
<1> USE NoneAssumption, KeyOfAssumption, ElementsOfEmpty DEF Init
<1>1. TypeOK
  BY DEF TypeOK
<1>2. MapAndFlights /\ TimerRanks /\ Contents
  BY DEF MapAndFlights, TimerRanks, Contents
<1>3. PendingIsScheduled /\ MessageFate
  BY DEF PendingIsScheduled, MessageFate
<1>4. QED
  BY <1>1, <1>2, <1>3 DEF Inv

LEMMA EnqueueInv ==
  ASSUME Inv, NEW m \in Message, Enqueue(m)
  PROVE  Inv'
<1> DEFINE k == KeyOf[m]
<1> USE NoneAssumption, KeyOfAssumption DEF Inv
<1>k. k \in Key
  OBVIOUS
<1>0. PICK s \in StateFor(k) :
        /\ messages' = [messages EXCEPT ![s] = Append(IF s = states[k] THEN @ ELSE <<>>, m)]
        /\ states' = [states EXCEPT ![k] = s]
        /\ ownKey' = [ownKey EXCEPT ![s] = k]
        /\ armed' = ClearTimeout(timer[s]) \cup {Arming(s)}
        /\ timer' = [timer EXCEPT ![s] = armings + 1]
  BY DEF Enqueue
<1>1. /\ s \in State
      /\ states[k] # None => s = states[k]
      /\ states[k] = None => Unreferenced(s)
  BY <1>k DEF StateFor, TypeOK
<1>2. /\ stamp[m] = 0
      /\ armings' = armings + 1
      /\ stamp' = [stamp EXCEPT ![m] = armings + 1]
      /\ UNCHANGED <<flushing, group, done, lost>>
  BY DEF Enqueue
<1> DEFINE old == IF s = states[k] THEN messages[s] ELSE <<>>
<1>3. /\ old \in Seq(Message)
      /\ messages'[s] = Append(old, m)
      /\ messages'[s] \in Seq(Message)
      /\ Elements(messages'[s]) = Elements(old) \cup {m}
      /\ messages'[s] # <<>>
  <2>1. old \in Seq(Message)
    BY <1>1 DEF TypeOK
  <2>2. messages'[s] = Append(old, m)
    BY <1>0, <1>1 DEF TypeOK
  <2>3. /\ Append(old, m) \in Seq(Message)
        /\ Elements(Append(old, m)) = Elements(old) \cup {m}
        /\ Append(old, m) # <<>>
    BY <2>1, ElementsOfAppend
  <2>4. QED
    BY <2>1, <2>2, <2>3
<1>4. TypeOK'
  BY <1>0, <1>1, <1>2, <1>3, <1>k DEF TypeOK, ClearTimeout, Arming
<1>5. \A j \in Key : j # k => states[j] # s
  BY <1>1, <1>k DEF Unreferenced, MapAndFlights, TypeOK
<1>6. MapAndFlights'
  BY <1>0, <1>1, <1>2, <1>5, <1>k DEF MapAndFlights, Unreferenced, TypeOK
<1>7. TimerRanks'
  BY <1>0, <1>1, <1>2, <1>k DEF TimerRanks, Unreferenced, TypeOK, ClearTimeout, Arming
<1>8. ASSUME NEW j \in Key, j # k
      PROVE  /\ states'[j] = states[j]
             /\ states[j] # None => /\ messages'[states[j]] = messages[states[j]]
                                    /\ group'[states[j]] = group[states[j]]
                                    /\ flushing'[states[j]] = flushing[states[j]]
  BY <1>0, <1>1, <1>2, <1>5, <1>8, <1>k DEF TypeOK
<1>9. /\ states'[k] = s
      /\ group'[s] = group[s]
      /\ s # states[k] => group[s] = <<>>
      /\ s # None
  BY <1>0, <1>1, <1>2, <1>k DEF TypeOK, Unreferenced, MapAndFlights
<1>10. Contents'
  <2>1. ASSUME NEW j \in Key, states'[j] # None
        PROVE  /\ \A n \in Elements(messages'[states'[j]]) \cup Elements(group'[states'[j]]) :
                    KeyOf[n] = j /\ stamp'[n] > 0
               /\ Elements(messages'[states'[j]]) \cap Elements(group'[states'[j]]) = {}
    <3>1. CASE j # k
      <4>1. /\ states[j] \in State
            /\ states'[j] = states[j]
            /\ messages'[states[j]] = messages[states[j]]
            /\ group'[states[j]] = group[states[j]]
        BY <1>8, <2>1, <3>1 DEF TypeOK
      <4>2. /\ Elements(messages[states[j]]) \subseteq Message
            /\ Elements(group[states[j]]) \subseteq Message
        BY <4>1, ElementsOfEmpty DEF TypeOK
      <4>3. \A n \in Message : stamp[n] > 0 => stamp'[n] > 0
        BY <1>2 DEF TypeOK
      <4>4. QED
        BY <2>1, <4>1, <4>2, <4>3 DEF Contents
    <3>2. CASE j = k
      <4>1. \A n \in Elements(old) \cup Elements(group[s]) : KeyOf[n] = k /\ stamp[n] > 0 /\ n \in Message
        BY <1>1, <1>9, <1>k, ElementsOfEmpty DEF Contents, TypeOK
      <4>2. Elements(old) \cap Elements(group[s]) = {}
        BY <1>1, <1>9, <1>k, ElementsOfEmpty DEF Contents
      <4>3. m \notin Elements(group[s])
        BY <4>1, <1>2
      <4>4. armings + 1 > 0
        BY DEF TypeOK
      <4>5. \A n \in Elements(old) \cup {m} \cup Elements(group[s]) : KeyOf[n] = k /\ stamp'[n] > 0
        BY <4>1, <4>4, <1>2 DEF TypeOK
      <4>6. QED
        BY <1>3, <1>9, <3>2, <4>2, <4>3, <4>5
    <3>3. QED
      BY <3>1, <3>2
  <2>2. \A n \in done' \cup lost' : stamp'[n] > 0
    BY <1>2 DEF Contents, TypeOK
  <2>3. QED
    BY <2>1, <2>2 DEF Contents
<1>11. PendingIsScheduled'
  <2>1. ASSUME NEW j \in Key, states'[j] # None, messages'[states'[j]] # <<>>, ~flushing'[states'[j]]
        PROVE  \E e \in armed' : ownKey'[e.state] = j
    <3>1. CASE j = k
      <4>1. Arming(s) \in armed' /\ Arming(s).state = s
        BY <1>0 DEF Arming
      <4>2. ownKey'[s] = k
        BY <1>0, <1>1 DEF TypeOK
      <4>3. QED
        BY <3>1, <4>1, <4>2
    <3>2. CASE j # k
      <4>1. PICK e \in armed : ownKey[e.state] = j
        BY <1>8, <2>1, <3>2 DEF PendingIsScheduled, Scheduled
      <4>2. e.state # s
        BY <4>1, <3>2, <1>1, <1>k DEF MapAndFlights, Unreferenced, TypeOK
      <4>3. e.rank # timer[s]
        BY <4>2, <1>1 DEF TimerRanks
      <4>4. e \in armed' /\ ownKey'[e.state] = j
        BY <4>1, <4>2, <4>3, <1>0, <1>1 DEF ClearTimeout, TypeOK
      <4>5. QED
        BY <4>4
    <3>3. QED
      BY <3>1, <3>2
  <2>2. QED
    BY <2>1 DEF PendingIsScheduled, Scheduled
<1>12. MessageFate'
  <2>1. m \notin done' \cup lost'
    BY <1>2 DEF Contents
  <2>5. Held(m)'
    <3>1. m \in Elements(messages'[s])
      BY <1>3
    <3>2. QED
      BY <3>1, <1>9 DEF Held
  <2>2. ASSUME NEW n \in Message, n # m
        PROVE  Held(n)' <=> Held(n)
    <3>1. CASE KeyOf[n] # k
      BY <1>8, <3>1 DEF Held
    <3>2. CASE KeyOf[n] = k
      BY <1>1, <1>3, <1>9, <2>2, <3>2, ElementsOfEmpty DEF Held
    <3>3. QED
      BY <3>1, <3>2
  <2>3. \A n \in Message : n # m => stamp'[n] = stamp[n]
    BY <1>2 DEF TypeOK
  <2>4. QED
    BY <1>2, <2>1, <2>2, <2>3, <2>5 DEF MessageFate
<1>13. QED
  BY <1>4, <1>6, <1>7, <1>10, <1>11, <1>12

\* What a timer callback does: either nothing but disarm, or hand the whole
\* buffer of the key's entry to flush.
LEMMA FireCases ==
  ASSUME Inv, NEW e \in armed, Fire(e)
  PROVE  LET k == ownKey[e.state]
             s == states[k]
         IN  /\ k \in Key
             /\ armed' = armed \ {e}
             /\ timer' = [timer EXCEPT ![e.state] = 0]
             /\ UNCHANGED <<states, ownKey, armings, stamp, done, lost>>
             /\ \/ /\ s = None \/ messages[s] = <<>> \/ flushing[s]
                   /\ UNCHANGED <<messages, flushing, group>>
                \/ /\ s \in State /\ s # None /\ messages[s] # <<>> /\ ~flushing[s]
                   /\ group' = [group EXCEPT ![s] = messages[s]]
                   /\ messages' = [messages EXCEPT ![s] = <<>>]
                   /\ flushing' = [flushing EXCEPT ![s] = TRUE]
  BY DEF Inv, TypeOK, TimerRanks, Fire, RunFlush, CanFlush

LEMMA FireInv ==
  ASSUME Inv, NEW e \in armed, Fire(e)
  PROVE  Inv'
<1> DEFINE k == ownKey[e.state]
           s == states[k]
<1> USE NoneAssumption, KeyOfAssumption DEF Inv
<1>1. /\ k \in Key
      /\ armed' = armed \ {e}
      /\ timer' = [timer EXCEPT ![e.state] = 0]
      /\ UNCHANGED <<states, ownKey, armings, stamp, done, lost>>
  BY FireCases
<1>2. e.state \in State /\ e.rank \in Nat
  BY DEF TypeOK
<1>3. TimerRanks'
  <2>1. \A r \in State : timer'[r] = timer[r] \/ timer'[r] = 0
    BY <1>1, <1>2 DEF TypeOK
  <2>2. ASSUME NEW f \in armed', NEW r \in State, f.rank = timer'[r]
        PROVE  f.state = r
    <3>1. CASE timer'[r] = timer[r]
      BY <1>1, <2>2, <3>1 DEF TimerRanks
    <3>2. CASE r = e.state /\ timer'[r] = 0
      <4>1. f \in armed /\ f # e /\ f.rank = 0
        BY <1>1, <2>2, <3>2
      <4>2. e.rank <= f.rank
        BY <4>1 DEF Fire
      <4>3. e.rank = f.rank
        BY <4>1, <4>2, <1>2
      <4>4. QED
        BY <4>1, <4>3 DEF TimerRanks
    <3>3. QED
      BY <2>1, <3>1, <3>2, <1>1, <1>2 DEF TypeOK
  <2>3. QED
    BY <1>1, <2>1, <2>2 DEF TimerRanks, TypeOK
<1>4. ASSUME NEW j \in Key, j # k, states[j] # None, messages[states[j]] # <<>>, ~flushing[states[j]]
      PROVE  \E f \in armed' : ownKey[f.state] = j
  BY <1>1, <1>4 DEF PendingIsScheduled, Scheduled
<1>5. CASE UNCHANGED <<messages, flushing, group>> /\ (s = None \/ messages[s] = <<>> \/ flushing[s])
  <2>1. TypeOK'
    BY <1>1, <1>2, <1>5 DEF TypeOK
  <2>2. MapAndFlights' /\ Contents'
    BY <1>1, <1>5 DEF MapAndFlights, Contents
  <2>3. PendingIsScheduled'
    BY <1>1, <1>4, <1>5 DEF PendingIsScheduled, Scheduled
  <2>4. MessageFate'
    BY <1>1, <1>5 DEF MessageFate, Held
  <2>5. QED
    BY <1>3, <2>1, <2>2, <2>3, <2>4
<1>6. CASE /\ s \in State /\ s # None /\ messages[s] # <<>> /\ ~flushing[s]
           /\ group' = [group EXCEPT ![s] = messages[s]]
           /\ messages' = [messages EXCEPT ![s] = <<>>]
           /\ flushing' = [flushing EXCEPT ![s] = TRUE]
  <2>1. TypeOK'
    BY <1>1, <1>2, <1>6 DEF TypeOK
  <2>2. /\ group[s] = <<>>
        /\ group'[s] = messages[s]
        /\ messages'[s] = <<>>
        /\ flushing'[s]
    BY <1>1, <1>6 DEF MapAndFlights, TypeOK
  <2>3. \A r \in State : r # s => /\ messages'[r] = messages[r]
                                  /\ group'[r] = group[r]
                                  /\ flushing'[r] = flushing[r]
    BY <1>6 DEF TypeOK
  <2>4. MapAndFlights'
    BY <1>1, <1>6, <2>2, <2>3 DEF MapAndFlights, TypeOK
  <2>5. \A j \in Key : states[j] # None =>
          Elements(messages'[states[j]]) \cup Elements(group'[states[j]])
            = Elements(messages[states[j]]) \cup Elements(group[states[j]])
    <3>1. ASSUME NEW j \in Key, states[j] # None
          PROVE  Elements(messages'[states[j]]) \cup Elements(group'[states[j]])
                   = Elements(messages[states[j]]) \cup Elements(group[states[j]])
      <4>1. CASE states[j] = s
        BY <2>2, <4>1, ElementsOfEmpty
      <4>2. CASE states[j] # s
        <5>1. states[j] \in State
          BY <3>1 DEF TypeOK
        <5>2. QED
          BY <2>3, <4>2, <5>1
      <4>3. QED
        BY <4>1, <4>2
    <3>2. QED
      BY <3>1
  <2>6. \A j \in Key : states[j] # None =>
          Elements(messages'[states[j]]) \cap Elements(group'[states[j]]) = {}
    <3>1. ASSUME NEW j \in Key, states[j] # None
          PROVE  Elements(messages'[states[j]]) \cap Elements(group'[states[j]]) = {}
      <4>1. CASE states[j] = s
        BY <2>2, <4>1, ElementsOfEmpty
      <4>2. CASE states[j] # s
        <5>1. states[j] \in State
          BY <3>1 DEF TypeOK
        <5>2. QED
          BY <2>3, <3>1, <4>2, <5>1 DEF Contents
      <4>3. QED
        BY <4>1, <4>2
    <3>2. QED
      BY <3>1
  <2>7. Contents'
    BY <1>1, <2>5, <2>6 DEF Contents
  <2>8. PendingIsScheduled'
    <3>1. ASSUME NEW j \in Key, states[j] # None, messages'[states[j]] # <<>>, ~flushing'[states[j]]
          PROVE  \E f \in armed' : ownKey[f.state] = j
      <4>1. states[j] # s /\ j # k /\ states[j] \in State
        BY <2>2, <3>1 DEF TypeOK
      <4>2. QED
        BY <1>4, <2>3, <3>1, <4>1
    <3>2. QED
      BY <1>1, <3>1 DEF PendingIsScheduled, Scheduled
  <2>9. MessageFate'
    <3>1. \A m \in Message : Held(m)' <=> Held(m)
      BY <1>1, <2>5 DEF Held
    <3>2. QED
      BY <1>1, <3>1 DEF MessageFate
  <2>10. QED
    BY <1>3, <2>1, <2>4, <2>7, <2>8, <2>9
<1>7. QED
  BY <1>5, <1>6, FireCases

LEMMA FlushEndInv ==
  ASSUME Inv, NEW s \in State, FlushEnd(s)
  PROVE  Inv'
<1> DEFINE k == ownKey[s]
<1> USE NoneAssumption, KeyOfAssumption DEF Inv
<1>1. /\ flushing[s]
      /\ flushing' = [flushing EXCEPT ![s] = FALSE]
      /\ done' = done \cup Elements(group[s])
      /\ group' = [group EXCEPT ![s] = <<>>]
      /\ UNCHANGED <<messages, ownKey, stamp, lost>>
      /\ states' = IF MayFree(s) THEN [states EXCEPT ![k] = None] ELSE states
      /\ \/ /\ messages[s] # <<>>
            /\ armed' = armed \cup {Arming(s)}
            /\ timer' = [timer EXCEPT ![s] = armings + 1]
            /\ armings' = armings + 1
         \/ /\ messages[s] = <<>>
            /\ UNCHANGED <<armed, timer, armings>>
  BY DEF FlushEnd, MustRearm
<1>2. k \in Key /\ states[k] = s /\ s # None
  BY <1>1 DEF MapAndFlights
<1>3. \A j \in Key : /\ states'[j] = states[j] \/ states'[j] = None
                     /\ j # k => states'[j] = states[j] /\ states[j] # s
  BY <1>1, <1>2 DEF MapAndFlights, TypeOK
<1>4. states'[k] = None => messages[s] = <<>>
  BY <1>1, <1>2 DEF MayFree, TypeOK
<1>5. /\ group'[s] = <<>>
      /\ ~flushing'[s]
      /\ \A r \in State : r # s => group'[r] = group[r] /\ flushing'[r] = flushing[r]
      /\ Elements(group[s]) \subseteq Message
  BY <1>1, ElementsOfEmpty DEF TypeOK
<1>a. ASSUME /\ armed' = armed \cup {Arming(s)}
             /\ timer' = [timer EXCEPT ![s] = armings + 1]
             /\ armings' = armings + 1
      PROVE  /\ TimerRanks'
             /\ armed' \in SUBSET [rank : Nat, state : State]
             /\ armings' \in Nat
             /\ timer' \in [State -> Nat]
  <2>1. /\ armings \in Nat /\ armings + 1 \in Nat
        /\ Arming(s) \in [rank : Nat, state : State]
        /\ Arming(s).rank = armings + 1 /\ Arming(s).state = s
    BY DEF TypeOK, Arming
  <2>2. /\ armed' \in SUBSET [rank : Nat, state : State]
        /\ armings' \in Nat
        /\ timer' \in [State -> Nat]
    BY <1>a, <2>1 DEF TypeOK
  <2>3. \A e \in armed : e.rank \in Nat /\ e.rank < armings + 1 /\ e.state \in State
    BY <2>1 DEF TimerRanks, TypeOK
  <2>4. \A r \in State : timer[r] \in Nat /\ timer[r] < armings + 1
    BY <2>1 DEF TimerRanks, TypeOK
  <2>5. \A r \in State : timer'[r] = IF r = s THEN armings + 1 ELSE timer[r]
    BY <1>a DEF TypeOK
  <2>6. \A e \in armed' : e \in armed \/ e = Arming(s)
    BY <1>a
  <2>7. \A e \in armed' : e.rank <= armings' /\ ownKey'[e.state] \in Key
    <3>1. \A e \in armed : ownKey[e.state] \in Key
      BY DEF TimerRanks
    <3>2. \A e \in armed' : ownKey'[e.state] \in Key
      BY <1>1, <1>2, <2>1, <2>6, <3>1
    <3>3. \A e \in armed' : e.rank <= armings + 1
      BY <2>1, <2>3, <2>6
    <3>4. QED
      BY <1>a, <3>2, <3>3
  <2>8. ASSUME NEW e \in armed', NEW f \in armed', e.rank = f.rank
        PROVE  e = f
    <3>1. CASE e \in armed /\ f \in armed
      BY <2>8, <3>1 DEF TimerRanks
    <3>2. CASE e = Arming(s) \/ f = Arming(s)
      BY <2>1, <2>3, <2>6, <2>8, <3>2
    <3>3. QED
      BY <2>6, <3>1, <3>2
  <2>9. ASSUME NEW e \in armed', NEW r \in State, e.rank = timer'[r]
        PROVE  e.state = r
    <3>1. CASE e \in armed /\ r # s
      BY <2>5, <2>9, <3>1 DEF TimerRanks
    <3>2. CASE e \in armed /\ r = s
      BY <2>1, <2>3, <2>5, <2>9, <3>2
    <3>3. CASE e = Arming(s)
      BY <2>1, <2>4, <2>5, <2>9, <3>3
    <3>4. QED
      BY <2>6, <3>1, <3>2, <3>3
  <2>10. \A r \in State : timer'[r] <= armings'
    BY <1>a, <2>1, <2>4, <2>5
  <2>11. QED
    BY <2>2, <2>7, <2>8, <2>9, <2>10 DEF TimerRanks
<1>b. ASSUME UNCHANGED <<armed, timer, armings>>
      PROVE  TimerRanks'
  BY <1>1, <1>b DEF TimerRanks, TypeOK
<1>8. /\ TimerRanks'
      /\ armed' \in SUBSET [rank : Nat, state : State]
      /\ armings' \in Nat
      /\ timer' \in [State -> Nat]
  BY <1>1, <1>a, <1>b DEF TypeOK
<1>6. TypeOK'
  <2>1. /\ states' \in [Key -> State \cup {None}]
        /\ flushing' \in [State -> BOOLEAN]
        /\ group' \in [State -> Seq(Message)]
    BY <1>1, <1>2 DEF TypeOK
  <2>2. done' \in SUBSET Message
    BY <1>1, <1>5 DEF TypeOK
  <2>3. /\ messages' \in [State -> Seq(Message)]
        /\ ownKey' \in [State -> Key \cup {None}]
        /\ stamp' \in [Message -> Nat]
        /\ lost' \in SUBSET Message
    BY <1>1 DEF TypeOK
  <2>4. QED
    BY <1>8, <2>1, <2>2, <2>3 DEF TypeOK
<1>7. MapAndFlights'
  BY <1>1, <1>2, <1>3, <1>5 DEF MapAndFlights, TypeOK
<1>9. \A j \in Key : states'[j] # None =>
        \/ j = k /\ states'[j] = s /\ states[j] = s
        \/ j # k /\ states'[j] = states[j] /\ states[j] \in State /\ states[j] # s
  BY <1>2, <1>3 DEF TypeOK
<1>10. Contents'
  <2>1. ASSUME NEW j \in Key, states'[j] # None
        PROVE  /\ \A m \in Elements(messages'[states'[j]]) \cup Elements(group'[states'[j]]) :
                    KeyOf[m] = j /\ stamp'[m] > 0
               /\ Elements(messages'[states'[j]]) \cap Elements(group'[states'[j]]) = {}
    <3>1. CASE j = k
      BY <1>1, <1>2, <1>5, <1>9, <2>1, <3>1, ElementsOfEmpty DEF Contents
    <3>2. CASE j # k
      BY <1>1, <1>5, <1>9, <2>1, <3>2 DEF Contents
    <3>3. QED
      BY <3>1, <3>2
  <2>2. \A m \in done' \cup lost' : stamp'[m] > 0
    BY <1>1, <1>2 DEF Contents
  <2>3. QED
    BY <2>1, <2>2 DEF Contents
<1>11. PendingIsScheduled'
  <2>1. ASSUME NEW j \in Key, states'[j] # None, messages'[states'[j]] # <<>>, ~flushing'[states'[j]]
        PROVE  \E e \in armed' : ownKey'[e.state] = j
    <3>1. CASE j = k
      <4>1. Arming(s) \in armed' /\ Arming(s).state = s
        BY <1>1, <1>9, <2>1, <3>1 DEF Arming
      <4>2. QED
        BY <1>1, <3>1, <4>1
    <3>2. CASE j # k
      BY <1>1, <1>5, <1>9, <2>1, <3>2 DEF PendingIsScheduled, Scheduled
    <3>3. QED
      BY <3>1, <3>2
  <2>2. QED
    BY <2>1 DEF PendingIsScheduled, Scheduled
<1>12. MessageFate'
  <2>1. ASSUME NEW m \in Message, m \in Elements(group[s])
        PROVE  ~Held(m)' /\ m \in done' /\ m \notin lost' /\ KeyOf[m] = k /\ Held(m)
    <3>1. KeyOf[m] = k /\ stamp[m] > 0 /\ m \notin Elements(messages[s])
      BY <1>2, <2>1 DEF Contents
    <3>2. Held(m)
      BY <1>2, <2>1, <3>1 DEF Held
    <3>3. ~Held(m)'
      BY <1>1, <1>5, <1>9, <3>1, <1>2, ElementsOfEmpty DEF Held
    <3>4. m \notin lost
      BY <3>1, <3>2 DEF MessageFate
    <3>5. QED
      BY <1>1, <2>1, <3>1, <3>2, <3>3, <3>4
  <2>2. ASSUME NEW m \in Message, m \notin Elements(group[s])
        PROVE  (Held(m)' <=> Held(m)) /\ (m \in done' <=> m \in done)
    <3>1. m \in done' <=> m \in done
      BY <1>1, <2>2
    <3>2. CASE KeyOf[m] = k
      <4>1. Held(m) <=> m \in Elements(messages[s])
        BY <1>2, <2>2, <3>2 DEF Held
      <4>2. CASE states'[k] = None
        BY <1>4, <3>2, <4>1, <4>2, <3>1, ElementsOfEmpty DEF Held
      <4>3. CASE states'[k] # None
        BY <1>1, <1>2, <1>5, <1>9, <3>2, <4>1, <4>3, <3>1, ElementsOfEmpty DEF Held
      <4>4. QED
        BY <4>2, <4>3
    <3>3. CASE KeyOf[m] # k
      <4>1. KeyOf[m] \in Key
        OBVIOUS
      <4>2. QED
        BY <1>1, <1>3, <1>5, <3>1, <3>3, <4>1 DEF Held, TypeOK
    <3>4. QED
      BY <3>2, <3>3
  <2>3. QED
    BY <1>1, <2>1, <2>2 DEF MessageFate
<1>13. QED
  BY <1>6, <1>7, <1>8, <1>10, <1>11, <1>12

LEMMA RestartInv ==
  ASSUME Inv, Restart
  PROVE  Inv'
<1> USE NoneAssumption, KeyOfAssumption, ElementsOfEmpty DEF Inv, Restart
<1>1. TypeOK'
  BY DEF TypeOK
<1>2. \A m \in Message : Held(m) => stamp[m] > 0
  BY DEF Held, Contents
<1>3. /\ \A k \in Key : states'[k] = None
      /\ \A s \in State : timer'[s] = 0 /\ ~flushing'[s] /\ group'[s] = <<>>
      /\ armed' = {}
      /\ UNCHANGED <<ownKey, armings, stamp, done>>
  OBVIOUS
<1>4. MapAndFlights'
  BY <1>3 DEF MapAndFlights
<1>5. TimerRanks'
  BY <1>3 DEF TimerRanks, TypeOK
<1>6. Contents'
  <2>1. \A m \in done' \cup lost' : stamp'[m] > 0
    BY <1>2, <1>3 DEF Contents
  <2>2. QED
    BY <1>3, <2>1 DEF Contents
<1>7. PendingIsScheduled'
  BY <1>3 DEF PendingIsScheduled
<1>8. MessageFate'
  <2>1. \A m \in Message : ~Held(m)'
    BY <1>3 DEF Held
  <2>2. QED
    BY <1>3, <2>1 DEF MessageFate
<1>9. QED
  BY <1>1, <1>4, <1>5, <1>6, <1>7, <1>8

\* The objects, the Map and the timers never part company in a harmful way,
\* whatever the bursts, the lengths of the flushes and the restarts.  This is the
\* inductive invariant behind the theorems below.
THEOREM InvIsInvariant == Spec => []Inv
<1>1. Init => Inv
  BY InitInv
<1>2. Inv /\ [Next]_vars => Inv'
  <2> SUFFICES ASSUME Inv, [Next]_vars PROVE Inv'
    OBVIOUS
  <2>1. CASE \E m \in Message : Enqueue(m)
    BY <2>1, EnqueueInv
  <2>2. CASE \E e \in armed : Fire(e)
    BY <2>2, FireInv
  <2>3. CASE \E s \in State : FlushEnd(s)
    BY <2>3, FlushEndInv
  <2>4. CASE Restart
    BY <2>4, RestartInv
  <2>5. CASE UNCHANGED vars
    BY <2>5 DEF vars, heap, Inv, TypeOK, MapAndFlights, TimerRanks, Contents,
                PendingIsScheduled, Scheduled, MessageFate, Held
  <2>6. QED
    BY <2>1, <2>2, <2>3, <2>4, <2>5 DEF Next
<1>3. QED
  BY <1>1, <1>2, PTL DEF Spec

\* Every variable keeps its type: fields of objects, the Map, the armed timers.
THEOREM TypeCorrect == Spec => []TypeOK
<1>1. Inv => TypeOK
  BY DEF Inv
<1>2. QED
  BY <1>1, InvIsInvariant, PTL

\* No two flushes are in flight for one key (the `flushing` check of runFlush and
\* the delete in its finally block).
THEOREM AtMostOneFlush == Spec => []OneFlushPerKey
<1>1. Inv => OneFlushPerKey
  BY DEF Inv, MapAndFlights, OneFlushPerKey
<1>2. QED
  BY <1>1, InvIsInvariant, PTL

\* A message is handed to flush at most once and never disappears from the buffer
\* in any other way than a restart (enqueue, runFlush).
THEOREM FateIsDecidedOnce == Spec => []MessageFate
<1>1. Inv => MessageFate
  BY DEF Inv
<1>2. QED
  BY <1>1, InvIsInvariant, PTL

\* A buffered group always has a flush to come (the finally block of runFlush).
THEOREM NothingWaitsForNothing == Spec => []PendingIsScheduled
<1>1. Inv => PendingIsScheduled
  BY DEF Inv
<1>2. QED
  BY <1>1, InvIsInvariant, PTL
-------------------------------------------------------------------------------
LEMMA InitRefines == Init => Queue!Init
BY NoneAssumption DEF Init, Queue!Init, Buffered, InFlight

LEMMA SameHeld ==
  ASSUME KeyOf \in [Message -> Key], NEW m \in Message
  PROVE  Queue!Held(m) <=> Held(m)
BY ElementsOfEmpty DEF Queue!Held, Held, Queue!Elements, Elements, Buffered, InFlight

\* Every step of the class is a step of the abstract queue or changes nothing
\* that the queue shows.
LEMMA StepRefines == Inv /\ [Next]_vars => [Queue!Next]_(Queue!vars)
<1> SUFFICES ASSUME Inv, [Next]_vars PROVE [Queue!Next]_(Queue!vars)
  OBVIOUS
<1> USE NoneAssumption, KeyOfAssumption
<1>1. ASSUME NEW m \in Message, Enqueue(m) PROVE Queue!Put(m)
  <2> DEFINE k == KeyOf[m]
  <2>1. PICK s \in StateFor(k) :
          /\ messages' = [messages EXCEPT ![s] = Append(IF s = states[k] THEN @ ELSE <<>>, m)]
          /\ states' = [states EXCEPT ![k] = s]
    BY <1>1 DEF Enqueue
  <2>2. /\ k \in Key
        /\ s \in State
        /\ states[k] # None => s = states[k]
        /\ states[k] = None => Unreferenced(s)
        /\ s # None
    BY <2>1 DEF StateFor, Inv, TypeOK
  <2>3. /\ UNCHANGED <<group, done, lost>>
        /\ stamp[m] = 0
    BY <1>1 DEF Enqueue
  <2>4. ~Queue!Held(m) /\ m \notin done \cup lost
    BY <2>3, SameHeld DEF Inv, Contents, Held
  <2>5. \A j \in Key : j # k => states[j] # s
    BY <2>2 DEF Unreferenced, Inv, MapAndFlights, TypeOK
  <2>6. ASSUME NEW j \in Key
        PROVE  /\ Buffered(j)' = IF j = k THEN Append(Buffered(j), m) ELSE Buffered(j)
               /\ InFlight(j)' = InFlight(j)
    <3>1. CASE j = k
      BY <2>1, <2>2, <2>3, <3>1 DEF Buffered, InFlight, Unreferenced, Inv, TypeOK, MapAndFlights
    <3>2. CASE j # k
      BY <2>1, <2>2, <2>3, <2>5, <3>2 DEF Buffered, InFlight, Inv, TypeOK
    <3>3. QED
      BY <3>1, <3>2
  <2>7. QED
    BY <2>2, <2>3, <2>4, <2>6 DEF Queue!Put
<1>2. ASSUME NEW e \in armed, Fire(e)
      PROVE  \/ \E k \in Key : Queue!Take(k)
             \/ UNCHANGED Queue!vars
  <2> DEFINE k == ownKey[e.state]
             s == states[k]
  <2>1. /\ k \in Key
        /\ UNCHANGED <<states, done, lost>>
    BY <1>2, FireCases
  <2>2. CASE UNCHANGED <<messages, flushing, group>>
    BY <2>1, <2>2 DEF Queue!vars, Buffered, InFlight
  <2>3. CASE /\ s \in State /\ s # None /\ messages[s] # <<>> /\ ~flushing[s]
             /\ group' = [group EXCEPT ![s] = messages[s]]
             /\ messages' = [messages EXCEPT ![s] = <<>>]
    <3>1. \A j \in Key : j # k => states[j] # s
      BY <2>1, <2>3 DEF Inv, MapAndFlights
    <3>2. group[s] = <<>>
      BY <2>3 DEF Inv, MapAndFlights, TypeOK
    <3>3. ASSUME NEW j \in Key
          PROVE  /\ Buffered(j)' = IF j = k THEN <<>> ELSE Buffered(j)
                 /\ InFlight(j)' = IF j = k THEN Buffered(j) ELSE InFlight(j)
      <4>1. CASE j = k
        BY <2>1, <2>3, <4>1 DEF Buffered, InFlight, Inv, TypeOK
      <4>2. CASE j # k
        BY <2>1, <2>3, <3>1, <4>2 DEF Buffered, InFlight, Inv, TypeOK
      <4>3. QED
        BY <4>1, <4>2
    <3>4. Buffered(k) # <<>> /\ InFlight(k) = <<>>
      BY <2>3, <3>2 DEF Buffered, InFlight
    <3>5. Queue!Take(k)
      BY <2>1, <3>3, <3>4 DEF Queue!Take, Queue!MayTake
    <3>6. QED
      BY <2>1, <3>5
  <2>4. QED
    BY <1>2, <2>2, <2>3, FireCases
<1>3. ASSUME NEW s \in State, FlushEnd(s)
      PROVE  \E k \in Key : Queue!Settle(k)
  <2> DEFINE k == ownKey[s]
  <2>1. /\ flushing[s]
        /\ done' = done \cup Elements(group[s])
        /\ group' = [group EXCEPT ![s] = <<>>]
        /\ UNCHANGED <<messages, lost>>
        /\ states' = IF MayFree(s) THEN [states EXCEPT ![k] = None] ELSE states
    BY <1>3 DEF FlushEnd
  <2>2. /\ k \in Key /\ states[k] = s /\ s # None
        /\ group[s] # <<>>
    BY <2>1 DEF Inv, MapAndFlights
  <2>3. \A j \in Key : j # k => states'[j] = states[j] /\ states[j] # s
    BY <2>1, <2>2 DEF Inv, MapAndFlights, TypeOK
  <2>4. ASSUME NEW j \in Key
        PROVE  /\ Buffered(j)' = Buffered(j)
               /\ InFlight(j)' = IF j = k THEN <<>> ELSE InFlight(j)
    <3>1. CASE j = k
      BY <2>1, <2>2, <3>1 DEF Buffered, InFlight, MayFree, Inv, TypeOK
    <3>2. CASE j # k
      BY <2>1, <2>3, <3>2 DEF Buffered, InFlight, Inv, TypeOK
    <3>3. QED
      BY <3>1, <3>2
  <2>5. InFlight(k) = group[s]
    BY <2>2 DEF InFlight
  <2>6. Queue!Settle(k)
    BY <2>1, <2>2, <2>4, <2>5 DEF Queue!Settle, Queue!Elements, Elements
  <2>7. QED
    BY <2>2, <2>6
<1>4. ASSUME Restart PROVE Queue!Restart
  <2>1. \A m \in Message : Queue!Held(m) <=> Held(m)
    BY SameHeld
  <2>2. \A k \in Key : Buffered(k)' = <<>> /\ InFlight(k)' = <<>>
    BY <1>4 DEF Restart, Buffered, InFlight
  <2>3. QED
    BY <1>4, <2>1, <2>2 DEF Restart, Queue!Restart
<1>5. ASSUME UNCHANGED vars PROVE UNCHANGED Queue!vars
  BY <1>5 DEF vars, heap, Queue!vars, Buffered, InFlight
<1>6. QED
  BY <1>1, <1>2, <1>3, <1>4, <1>5 DEF Next, Queue!Next

\* The class implements the queue its callers rely on, for every burst.
THEOREM Implements == Spec => ImplementsBatchQueue
<1>1. QED
  BY InvIsInvariant, InitRefines, StepRefines, PTL
     DEF Spec, ImplementsBatchQueue, Queue!Spec
===============================================================================
