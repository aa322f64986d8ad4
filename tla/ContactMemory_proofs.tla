-------------------------- MODULE ContactMemory_proofs --------------------------
(***************************************************************************)
(* For every set of conversations, contacts and threads: no two people     *)
(* share a thread, and an existing row is overwritten only in a race of    *)
(* first turns.                                                            *)
(***************************************************************************)
EXTENDS ContactMemory, TLAPS

LEMMA InitInv == Init => Inv
<1> SUFFICES ASSUME Init PROVE Inv
  OBVIOUS
<1> USE ContactOfAssumption, NoneAssumption, BoundAssumption
    DEF Init, NoGroup, NoTurn, ContactId, MaybeThread
<1>1. TypeOK
  BY DEF TypeOK, Group, TurnState
<1>2. TableTurns /\ StoredTurns
  BY DEF TableTurns, StoredTurns
<1>3. NoSharedMemory
  BY DEF NoSharedMemory, BelongsTo, CacheKeys
<1>4. QED
  BY <1>1, <1>2, <1>3 DEF Inv

\* Threads keep the contact they were started for, so what belongs to a contact
\* goes on to.
LEMMA BelongsToStays ==
  ASSUME Inv, NEW p \in Contact, NEW t \in MaybeThread, BelongsTo(t, p),
         \A u \in Thread : starter[u] # None => starter'[u] = starter[u]
  PROVE  t # None => starter'[t] = p
BY NoneAssumption DEF BelongsTo, MaybeThread

LEMMA ArriveInv ==
  ASSUME Inv, NEW c \in Conv, NEW known \in BOOLEAN, Arrive(c, known)
  PROVE  Inv'
<1> DEFINE new == [waiting |-> TRUE,
                   known   |-> group[c].known \/ known,
                   hint    |-> IF group[c].hint # None THEN group[c].hint ELSE attr[c]]
<1> USE ContactOfAssumption, NoneAssumption DEF Inv, Arrive, bounds
<1>1. group' = [group EXCEPT ![c] = new]
  OBVIOUS
<1>2. new \in Group /\ BelongsTo(new.hint, ContactOf[c])
  <2>1. (group[c].known \/ known) \in BOOLEAN
    OBVIOUS
  <2>2. new.hint \in MaybeThread /\ BelongsTo(new.hint, ContactOf[c])
    BY DEF TypeOK, Group, NoSharedMemory
  <2>3. QED
    BY <2>1, <2>2 DEF Group
<1> HIDE DEF new
<1>3. TypeOK'
  BY <1>1, <1>2 DEF TypeOK
<1>4. TableTurns' /\ StoredTurns'
  BY DEF TableTurns, StoredTurns
<1>5. NoSharedMemory'
  BY <1>1, <1>2 DEF NoSharedMemory, BelongsTo, TypeOK
<1>6. QED
  BY <1>3, <1>4, <1>5

LEMMA DropInv ==
  ASSUME Inv, NEW c \in Conv, Drop(c)
  PROVE  Inv'
<1> USE NoneAssumption DEF Inv, Drop, bounds, NoGroup
<1>1. TypeOK'
  BY DEF TypeOK, Group, MaybeThread
<1>2. TableTurns' /\ StoredTurns'
  BY DEF TableTurns, StoredTurns
<1>3. NoSharedMemory'
  BY DEF NoSharedMemory, BelongsTo, TypeOK
<1>4. QED
  BY <1>1, <1>2, <1>3

\* The facts about one flush that the invariant asks for.
TurnIsSound(c, t) ==
  /\ t \in TurnState
  /\ t.pc = "dify" => (t.from = "none" <=> t.id = None)
  /\ t.pc \in {"table", "upsert", "committed"} => t.known
  /\ t.pc \in {"upsert", "committed", "attr"} => t.id # None
  /\ t.known /\ t.stored =>
       /\ table[ContactOf[c]] # None
       /\ t.pc = "dify" => t.id # None /\ t.from \in {"cache", "table"}
       /\ t.pc \notin {"upsert", "committed"}
  /\ BelongsTo(t.hint, ContactOf[c])
  /\ BelongsTo(t.id, ContactOf[c])

\* A flush that is idle is sound.
LEMMA NoTurnIsSound ==
  ASSUME NEW c \in Conv
  PROVE  TurnIsSound(c, NoTurn)
BY DEF TurnIsSound, NoTurn, TurnState, MaybeThread, BelongsTo

LEMMA InvTurns == Inv => \A c \in Conv : TurnIsSound(c, turn[c])
BY DEF Inv, TypeOK, TableTurns, StoredTurns, NoSharedMemory, TurnIsSound

\* A step of one flush that leaves the table, the threads and the attributes alone
\* keeps the invariant when the flush is sound after it, and so is the cache.
LEMMA TurnStep ==
  ASSUME Inv, NEW c \in Conv, NEW t, turn' = [turn EXCEPT ![c] = t], TurnIsSound(c, t),
         group' = group \/ group' = [group EXCEPT ![c] = NoGroup],
         UNCHANGED <<table, cache, attr, starter, scan>>,
         faults' \in 0 .. MaxFaults, restarts' \in 0 .. MaxRestarts
  PROVE  Inv'
<1> USE NoneAssumption DEF Inv
<1>0. /\ t \in TurnState
      /\ \A d \in Conv : turn'[d] = IF d = c THEN t ELSE turn[d]
  BY DEF TypeOK, TurnIsSound
<1>1. TypeOK'
  <2>1. group' \in [Conv -> Group]
    <3>1. NoGroup \in Group
      BY DEF Group, NoGroup, MaybeThread
    <3>2. QED
      BY <3>1 DEF TypeOK
  <2>2. turn' \in [Conv -> TurnState]
    BY <1>0 DEF TypeOK
  <2>3. \A d \in Conv : turn'[d].pc = "dify" => (turn'[d].from = "none" <=> turn'[d].id = None)
    BY <1>0 DEF TypeOK, TurnIsSound
  <2>4. QED
    BY <2>1, <2>2, <2>3 DEF TypeOK
<1>2. TableTurns'
  BY <1>0 DEF TableTurns, TurnIsSound
<1>3. StoredTurns'
  BY <1>0 DEF StoredTurns, TurnIsSound
<1>4. NoSharedMemory'
  BY <1>0 DEF NoSharedMemory, TurnIsSound, BelongsTo, TypeOK, NoGroup
<1>5. QED
  BY <1>1, <1>2, <1>3, <1>4

\* The hint is the flush's thread when there is no row.
LEMMA WithoutRowIsSound ==
  ASSUME Inv, NEW c \in Conv, NEW t \in TurnState, TurnIsSound(c, t), ~(t.known /\ t.stored)
  PROVE  TurnIsSound(c, WithoutRow(t))
<1> DEFINE w == WithoutRow(t)
<1>1. /\ w \in TurnState /\ w.pc = "dify" /\ w.id = t.hint /\ w.hint = t.hint
      /\ w.from = IF t.hint = None THEN "none" ELSE "legacy"
      /\ w.known = t.known /\ w.stored = t.stored
  BY DEF WithoutRow, TurnState
<1>2. QED
  BY <1>1 DEF TurnIsSound

LEMMA BeginInv ==
  ASSUME Inv, NEW c \in Conv, Begin(c)
  PROVE  Inv'
<1> DEFINE g == group[c]
           hit == cache[CacheKey(c, g.known)]
           t == [NoTurn EXCEPT !.known = g.known, !.hint = g.hint,
                               !.stored = table[IdFor(c, g.known)] # None]
<1> USE ContactOfAssumption, NoneAssumption DEF Inv, Begin, bounds
<1>1. /\ g \in Group /\ hit \in MaybeThread
      /\ CacheKey(c, g.known) \in CacheKeys
  BY DEF TypeOK, Group, CacheKeys, CacheKey
<1>2. BelongsTo(hit, ContactOf[c]) /\ BelongsTo(g.hint, ContactOf[c])
  BY <1>1 DEF NoSharedMemory, CacheKey, Group
<1>3. g.known /\ table[IdFor(c, g.known)] # None => table[ContactOf[c]] # None
  BY DEF IdFor
<1>4. /\ t \in TurnState /\ t.pc = "idle" /\ t.known = g.known /\ t.hint = g.hint
      /\ t.id = None /\ t.stored = (table[IdFor(c, g.known)] # None)
  BY <1>1 DEF NoTurn, TurnState, Group, MaybeThread
<1> HIDE DEF g, hit, t
<1>5. CASE hit # None /\ turn' = [turn EXCEPT ![c] = [t EXCEPT !.pc = "dify", !.id = hit, !.from = "cache"]]
  <2> DEFINE u == [t EXCEPT !.pc = "dify", !.id = hit, !.from = "cache"]
  <2>1. /\ u \in TurnState /\ u.pc = "dify" /\ u.id = hit /\ u.from = "cache"
        /\ u.known = t.known /\ u.stored = t.stored /\ u.hint = t.hint
    BY <1>1, <1>4 DEF TurnState
  <2>2. TurnIsSound(c, u)
    BY <1>2, <1>3, <1>4, <1>5, <2>1 DEF TurnIsSound
  <2>3. QED
    BY <1>5, <2>2, TurnStep DEF TypeOK
<1>6. CASE g.known /\ turn' = [turn EXCEPT ![c] = [t EXCEPT !.pc = "table"]]
  <2> DEFINE u == [t EXCEPT !.pc = "table"]
  <2>1. /\ u \in TurnState /\ u.pc = "table" /\ u.id = t.id
        /\ u.known = t.known /\ u.stored = t.stored /\ u.hint = t.hint
    BY <1>4 DEF TurnState
  <2>2. TurnIsSound(c, u)
    BY <1>2, <1>3, <1>4, <1>6, <2>1 DEF TurnIsSound, BelongsTo
  <2>3. QED
    BY <1>6, <2>2, TurnStep DEF TypeOK
<1>7. CASE ~g.known /\ turn' = [turn EXCEPT ![c] = WithoutRow(t)]
  <2>1. TurnIsSound(c, t)
    BY <1>2, <1>4, <1>7 DEF TurnIsSound, BelongsTo
  <2>2. TurnIsSound(c, WithoutRow(t))
    BY <1>4, <1>7, <2>1, WithoutRowIsSound
  <2>3. QED
    BY <1>7, <2>2, TurnStep DEF TypeOK
<1>8. QED
  BY <1>5, <1>6, <1>7 DEF UsesTable, g, hit, t

LEMMA FaultBounds ==
  ASSUME Inv, Fault \/ NoFault
  PROVE  faults' \in 0 .. MaxFaults /\ restarts' \in 0 .. MaxRestarts
BY BoundAssumption DEF Inv, TypeOK, Fault, NoFault, bounds

LEMMA ReadTableInv ==
  ASSUME Inv, NEW c \in Conv, ReadTable(c)
  PROVE  Inv'
<1> DEFINE row == table[ContactOf[c]]
<1> USE ContactOfAssumption, NoneAssumption DEF ReadTable
<1>0. Fault \/ NoFault
  OBVIOUS
<1>1. /\ TurnIsSound(c, turn[c]) /\ turn[c] \in TurnState /\ turn[c].known
      /\ IdFor(c, turn[c].known) = ContactOf[c]
      /\ row \in MaybeThread /\ BelongsTo(row, ContactOf[c])
  BY InvTurns DEF TurnIsSound, IdFor, Inv, TypeOK, ContactId, NoSharedMemory
<1>2. CASE row # None /\ turn' = [turn EXCEPT ![c].pc = "dify", ![c].id = row, ![c].from = "table"]
  <2> DEFINE u == [turn[c] EXCEPT !.pc = "dify", !.id = row, !.from = "table"]
  <2>1. /\ u \in TurnState /\ u.pc = "dify" /\ u.id = row /\ u.from = "table"
        /\ u.known = turn[c].known /\ u.stored = turn[c].stored /\ u.hint = turn[c].hint
    BY <1>1 DEF TurnState
  <2>2. TurnIsSound(c, u)
    BY <1>1, <1>2, <2>1 DEF TurnIsSound
  <2>3. turn' = [turn EXCEPT ![c] = u]
    BY <1>2 DEF Inv, TypeOK
  <2>4. QED
    BY <1>0, <2>2, <2>3, TurnStep, FaultBounds
<1>3. CASE row = None /\ turn' = [turn EXCEPT ![c] = WithoutRow(turn[c])]
  <2>1. ~(turn[c].known /\ turn[c].stored)
    BY <1>1, <1>3 DEF TurnIsSound
  <2>2. TurnIsSound(c, WithoutRow(turn[c]))
    BY <1>1, <2>1, WithoutRowIsSound
  <2>3. QED
    BY <1>0, <1>3, <2>2, TurnStep, FaultBounds
<1>4. CASE turn' = [turn EXCEPT ![c] = NoTurn]
  BY <1>0, <1>4, NoTurnIsSound, TurnStep, FaultBounds
<1>5. QED
  BY <1>1, <1>2, <1>3, <1>4 DEF AfterFailedRead, Inv, TypeOK

LEMMA DifyFailsInv ==
  ASSUME Inv, NEW c \in Conv, DifyFails(c)
  PROVE  Inv'
BY NoTurnIsSound, TurnStep, FaultBounds DEF DifyFails

\* When cache and starter change consistently, and flush c goes on soundly.
LEMMA RememberStep ==
  ASSUME Inv, NEW c \in Conv, NEW id \in Thread, NEW t,
         turn' = [turn EXCEPT ![c] = t], TurnIsSound(c, t)',
         \/ cache' = cache
         \/ cache' = [cache EXCEPT ![CacheKey(c, turn[c].known)] = id],
         \A u \in Thread : starter[u] # None => starter'[u] = starter[u],
         starter' \in [Thread -> Contact \cup {None}],
         starter'[id] = ContactOf[c],
         UNCHANGED <<group, table, attr, scan>>,
         faults' \in 0 .. MaxFaults, restarts' \in 0 .. MaxRestarts
  PROVE  Inv'
<1> USE ContactOfAssumption, NoneAssumption DEF Inv
<1>0. /\ t \in TurnState
      /\ \A d \in Conv : turn'[d] = IF d = c THEN t ELSE turn[d]
  BY DEF TypeOK, TurnIsSound
<1>a. /\ \A k \in CacheKeys : cache'[k] = cache[k] \/ (k = CacheKey(c, turn[c].known) /\ cache'[k] = id)
      /\ cache' \in [CacheKeys -> MaybeThread]
  BY DEF TypeOK, MaybeThread
<1>1. TypeOK'
  <2>1. turn' \in [Conv -> TurnState]
    BY <1>0 DEF TypeOK
  <2>2. \A d \in Conv : turn'[d].pc = "dify" => (turn'[d].from = "none" <=> turn'[d].id = None)
    BY <1>0 DEF TypeOK, TurnIsSound
  <2>3. QED
    BY <1>a, <2>1, <2>2 DEF TypeOK
<1>2. TableTurns'
  BY <1>0 DEF TableTurns, TurnIsSound
<1>3. StoredTurns'
  BY <1>0 DEF StoredTurns, TurnIsSound
<1>4. NoSharedMemory'
  <2>1. \A p \in Contact, u \in MaybeThread : BelongsTo(u, p) => (u # None => starter'[u] = p)
    BY BelongsToStays
  <2>2. ASSUME NEW p \in Contact
        PROVE  /\ BelongsTo(table[p], p)' /\ BelongsTo(scan[p], p)'
               /\ BelongsTo(cache[<<"contact", p>>], p)'
    <3>1. /\ table[p] \in MaybeThread /\ scan[p] \in MaybeThread
          /\ <<"contact", p>> \in CacheKeys /\ cache[<<"contact", p>>] \in MaybeThread
      BY DEF TypeOK, ContactId, CacheKeys
    <3>2. <<"contact", p>> = CacheKey(c, turn[c].known) => p = ContactOf[c]
      BY DEF CacheKey
    <3>3. QED
      BY <1>a, <2>1, <3>1, <3>2 DEF NoSharedMemory, BelongsTo
  <2>3. ASSUME NEW d \in Conv
        PROVE  /\ BelongsTo(cache[<<"conv", d>>], ContactOf[d])'
               /\ BelongsTo(attr[d], ContactOf[d])'
               /\ BelongsTo(group[d].hint, ContactOf[d])'
               /\ BelongsTo(turn[d].hint, ContactOf[d])'
               /\ BelongsTo(turn[d].id, ContactOf[d])'
    <3>1. /\ attr[d] \in MaybeThread /\ group[d].hint \in MaybeThread
          /\ turn[d].hint \in MaybeThread /\ turn[d].id \in MaybeThread
          /\ <<"conv", d>> \in CacheKeys /\ cache[<<"conv", d>>] \in MaybeThread
          /\ ContactOf[d] \in Contact
      BY DEF TypeOK, Group, TurnState, CacheKeys
    <3>2. <<"conv", d>> = CacheKey(c, turn[c].known) => d = c
      BY DEF CacheKey
    <3>3. BelongsTo(cache[<<"conv", d>>], ContactOf[d])'
      BY <1>a, <2>1, <3>1, <3>2 DEF NoSharedMemory, BelongsTo
    <3>4. BelongsTo(attr[d], ContactOf[d])' /\ BelongsTo(group[d].hint, ContactOf[d])'
      BY <2>1, <3>1 DEF NoSharedMemory, BelongsTo
    <3>5. BelongsTo(turn[d].hint, ContactOf[d])' /\ BelongsTo(turn[d].id, ContactOf[d])'
      BY <1>0, <2>1, <3>1 DEF NoSharedMemory, BelongsTo, TurnIsSound
    <3>6. QED
      BY <3>3, <3>4, <3>5
  <2>4. QED
    BY <2>2, <2>3 DEF NoSharedMemory
<1>5. QED
  BY <1>1, <1>2, <1>3, <1>4

\* What Remember makes of a flush.
LEMMA RememberedTurn ==
  ASSUME Inv, NEW c \in Conv, NEW id \in Thread, Remember(c, id), UNCHANGED table,
         starter'[id] = ContactOf[c],
         \A u \in Thread : starter[u] # None => starter'[u] = starter[u]
  PROVE  \E t : turn' = [turn EXCEPT ![c] = t] /\ TurnIsSound(c, t)'
<1> USE ContactOfAssumption, NoneAssumption
<1>0. TurnIsSound(c, turn[c]) /\ turn[c] \in TurnState /\ turn \in [Conv -> TurnState]
  BY InvTurns DEF TurnIsSound, Inv, TypeOK
<1>1. CASE turn[c].from # "none"
  <2>1. turn' = [turn EXCEPT ![c] = NoTurn]
    BY <1>1 DEF Remember, Inv, TypeOK
  <2>2. TurnIsSound(c, NoTurn)'
    BY DEF TurnIsSound, NoTurn, TurnState, MaybeThread, BelongsTo
  <2>3. QED
    BY <2>1, <2>2
<1>2. CASE turn[c].from = "none"
  <2>1. PICK u : u = [turn[c] EXCEPT !.pc = "attr", !.id = id]
    OBVIOUS
  <2>2. turn' = [turn EXCEPT ![c] = u]
    BY <1>0, <1>2, <2>1 DEF Remember
  <2>3. /\ u \in TurnState /\ u.pc = "attr" /\ u.id = id /\ u.hint = turn[c].hint
        /\ u.known = turn[c].known /\ u.stored = turn[c].stored
    BY <1>0, <2>1 DEF TurnState, MaybeThread
  <2>4. u.hint # None => starter'[u.hint] = ContactOf[c]
    <3>1. turn[c].hint \in MaybeThread /\ ContactOf[c] \in Contact
      BY <1>0 DEF TurnState
    <3>2. QED
      BY <1>0, <2>3, <3>1, BelongsToStays DEF TurnIsSound
  <2>5. TurnIsSound(c, u)'
    BY <1>0, <2>3, <2>4 DEF TurnIsSound, BelongsTo
  <2>6. QED
    BY <2>2, <2>5
<1>3. QED
  BY <1>1, <1>2

LEMMA DifyAnswersInv ==
  ASSUME Inv, NEW c \in Conv, NEW id \in Thread, DifyAnswers(c, id)
  PROVE  Inv'
<1> USE ContactOfAssumption, NoneAssumption DEF DifyAnswers, bounds
<1>0. /\ TurnIsSound(c, turn[c]) /\ turn[c] \in TurnState /\ turn \in [Conv -> TurnState]
      /\ starter \in [Thread -> Contact \cup {None}] /\ ContactOf[c] \in Contact
      /\ faults' \in 0 .. MaxFaults /\ restarts' \in 0 .. MaxRestarts
  BY InvTurns DEF TurnIsSound, Inv, TypeOK
<1>1. /\ starter' \in [Thread -> Contact \cup {None}]
      /\ starter'[id] = ContactOf[c]
      /\ \A u \in Thread : starter[u] # None => starter'[u] = starter[u]
  <2>1. CASE id = turn[c].id /\ UNCHANGED starter
    BY <1>0, <2>1 DEF TurnIsSound, BelongsTo
  <2>2. CASE starter[id] = None /\ starter' = [starter EXCEPT ![id] = ContactOf[c]]
    BY <1>0, <2>2
  <2>3. QED
    BY <2>1, <2>2
<1>2. CASE turn' = [turn EXCEPT ![c] = NoTurn] /\ UNCHANGED cache
  <2>1. TurnIsSound(c, NoTurn)'
    BY DEF TurnIsSound, NoTurn, TurnState, MaybeThread, BelongsTo
  <2>2. QED
    BY <1>0, <1>1, <1>2, <2>1, RememberStep
<1>3. CASE /\ turn[c].from \in {"none", "legacy"} /\ turn[c].known
           /\ turn' = [turn EXCEPT ![c].pc = "upsert", ![c].id = id]
           /\ UNCHANGED cache
  <2>1. PICK u : u = [turn[c] EXCEPT !.pc = "upsert", !.id = id]
    OBVIOUS
  <2>2. turn' = [turn EXCEPT ![c] = u]
    BY <1>0, <1>3, <2>1
  <2>3. /\ u \in TurnState /\ u.pc = "upsert" /\ u.id = id /\ u.hint = turn[c].hint
        /\ u.known = turn[c].known /\ u.stored = turn[c].stored
    BY <1>0, <2>1 DEF TurnState, MaybeThread
  <2>4. u.hint # None => starter'[u.hint] = ContactOf[c]
    <3>1. turn[c].hint \in MaybeThread
      BY <1>0 DEF TurnState
    <3>2. QED
      BY <1>0, <1>1, <2>3, <3>1, BelongsToStays DEF TurnIsSound
  <2>5. ~(u.known /\ u.stored)
    BY <1>0, <1>3, <2>3 DEF TurnIsSound
  <2>6. TurnIsSound(c, u)'
    BY <1>1, <1>3, <2>3, <2>4, <2>5 DEF TurnIsSound, BelongsTo
  <2>7. QED
    BY <1>0, <1>1, <1>3, <2>2, <2>6, RememberStep
<1>4. CASE Remember(c, id)
  <2>1. PICK t : turn' = [turn EXCEPT ![c] = t] /\ TurnIsSound(c, t)'
    BY <1>1, <1>4, RememberedTurn
  <2>2. cache' = [cache EXCEPT ![CacheKey(c, turn[c].known)] = id]
    BY <1>4 DEF Remember
  <2>3. QED
    BY <1>0, <1>1, <2>1, <2>2, RememberStep
<1>5. QED
  BY <1>2, <1>3, <1>4 DEF UsesTable

LEMMA PersistedInv ==
  ASSUME Inv, NEW c \in Conv, Persisted(c)
  PROVE  Inv'
<1> USE ContactOfAssumption, NoneAssumption DEF Persisted
<1>1. /\ TurnIsSound(c, turn[c]) /\ turn[c].id \in Thread
      /\ starter[turn[c].id] = ContactOf[c] /\ starter \in [Thread -> Contact \cup {None}]
      /\ UNCHANGED <<group, table, attr, starter, scan>>
  BY InvTurns DEF TurnIsSound, TurnState, MaybeThread, BelongsTo, Inv, TypeOK
<1>2. PICK t : turn' = [turn EXCEPT ![c] = t] /\ TurnIsSound(c, t)'
  BY <1>1, RememberedTurn
<1>3. cache' = [cache EXCEPT ![CacheKey(c, turn[c].known)] = turn[c].id]
  BY DEF Remember
<1>4. faults' \in 0 .. MaxFaults /\ restarts' \in 0 .. MaxRestarts
  BY FaultBounds
<1>5. QED
  BY <1>1, <1>2, <1>3, <1>4, RememberStep

LEMMA CommitInv ==
  ASSUME Inv, NEW c \in Conv, Commit(c)
  PROVE  Inv'
<1> USE ContactOfAssumption, NoneAssumption DEF Commit, bounds
<1>0. /\ TurnIsSound(c, turn[c]) /\ turn[c] \in TurnState /\ turn[c].known
      /\ turn[c].id # None /\ turn[c].id \in MaybeThread
      /\ IdFor(c, turn[c].known) = ContactOf[c] /\ ContactOf[c] \in Contact
  BY InvTurns DEF TurnIsSound, TurnState, Inv, TypeOK, IdFor
<1>a. PICK u : u = [turn[c] EXCEPT !.pc = "committed"]
  OBVIOUS
<1>b. /\ turn' = [turn EXCEPT ![c] = u] /\ u \in TurnState /\ u.pc = "committed"
      /\ u.id = turn[c].id /\ u.hint = turn[c].hint /\ u.from = turn[c].from
      /\ u.known = turn[c].known /\ u.stored = turn[c].stored
  BY <1>0, <1>a DEF Inv, TypeOK, TurnState
<1>1. \A d \in Conv : /\ turn'[d].pc = IF d = c THEN "committed" ELSE turn[d].pc
                      /\ turn'[d].id = turn[d].id /\ turn'[d].hint = turn[d].hint
                      /\ turn'[d].known = turn[d].known /\ turn'[d].stored = turn[d].stored
                      /\ turn'[d].from = turn[d].from
                      /\ turn'[d] \in TurnState
  BY <1>b DEF Inv, TypeOK
<1>2. \A q \in ContactId : table'[q] = IF q = ContactOf[c] THEN turn[c].id ELSE table[q]
  <2>1. table \in [ContactId -> MaybeThread] /\ table' = [table EXCEPT ![ContactOf[c]] = turn[c].id]
    BY <1>0 DEF Inv, TypeOK
  <2>2. QED
    BY <2>1
<1>3. TypeOK'
  <2>1. table' \in [ContactId -> MaybeThread]
    BY <1>0 DEF Inv, TypeOK
  <2>2. turn' \in [Conv -> TurnState]
    BY <1>0 DEF Inv, TypeOK, TurnState
  <2>3. \A d \in Conv : turn'[d].pc = "dify" => (turn'[d].from = "none" <=> turn'[d].id = None)
    BY <1>1 DEF Inv, TypeOK
  <2>4. QED
    BY <2>1, <2>2, <2>3 DEF Inv, TypeOK
<1>4. TableTurns'
  BY <1>0, <1>1 DEF Inv, TableTurns
<1>5. StoredTurns'
  <2> SUFFICES ASSUME NEW d \in Conv, turn[d].known, turn[d].stored
               PROVE  /\ table'[ContactOf[d]] # None
                      /\ turn'[d].pc = "dify" => turn[d].id # None /\ turn[d].from \in {"cache", "table"}
                      /\ turn'[d].pc \notin {"upsert", "committed"}
    BY <1>1 DEF StoredTurns
  <2>1. d # c
    BY DEF Inv, StoredTurns
  <2>2. /\ table[ContactOf[d]] # None
        /\ turn[d].pc = "dify" => turn[d].id # None /\ turn[d].from \in {"cache", "table"}
        /\ turn[d].pc \notin {"upsert", "committed"}
    BY DEF Inv, StoredTurns
  <2>3. table'[ContactOf[d]] # None
    BY <1>0, <1>2, <2>2 DEF ContactId
  <2>4. turn'[d].pc = turn[d].pc
    BY <1>1, <2>1
  <2>5. QED
    BY <2>2, <2>3, <2>4
<1>6. NoSharedMemory'
  <2>1. table'[Unknown] = None /\ \A p \in Contact : BelongsTo(table'[p], p)
    BY <1>0, <1>2, UnknownAssumption DEF Inv, NoSharedMemory, ContactId, TurnIsSound
  <2>2. \A d \in Conv : BelongsTo(turn'[d].hint, ContactOf[d]) /\ BelongsTo(turn'[d].id, ContactOf[d])
    BY <1>1 DEF Inv, NoSharedMemory
  <2>3. QED
    BY <2>1, <2>2 DEF Inv, NoSharedMemory, BelongsTo
<1>7. QED
  BY <1>3, <1>4, <1>5, <1>6 DEF Inv

LEMMA SetAttrInv ==
  ASSUME Inv, NEW c \in Conv, SetAttr(c)
  PROVE  Inv'
<1> USE ContactOfAssumption, NoneAssumption DEF SetAttr
<1>0. /\ TurnIsSound(c, turn[c]) /\ turn[c].id \in MaybeThread
      /\ Fault \/ NoFault
      /\ TurnIsSound(c, NoTurn)
  BY InvTurns, NoTurnIsSound DEF TurnIsSound, TurnState
<1>1. faults' \in 0 .. MaxFaults /\ restarts' \in 0 .. MaxRestarts
  BY <1>0, FaultBounds
<1>2. /\ NoTurn \in TurnState /\ NoTurn.pc = "idle" /\ NoTurn.id = None
      /\ NoTurn.hint = None /\ NoTurn.known = FALSE
  BY <1>0 DEF TurnIsSound, NoTurn
<1>3. \A d \in Conv : turn'[d] = IF d = c THEN NoTurn ELSE turn[d]
  BY DEF Inv, TypeOK
<1>4. TypeOK'
  <2>1. attr' \in [Conv -> MaybeThread] /\ turn' \in [Conv -> TurnState]
    BY <1>0, <1>2 DEF Inv, TypeOK
  <2>2. \A d \in Conv : turn'[d].pc = "dify" => (turn'[d].from = "none" <=> turn'[d].id = None)
    BY <1>2, <1>3 DEF Inv, TypeOK
  <2>3. QED
    BY <1>1, <2>1, <2>2 DEF Inv, TypeOK
<1>5. TableTurns' /\ StoredTurns'
  <2>1. TableTurns'
    BY <1>2, <1>3 DEF Inv, TableTurns
  <2>2. ASSUME NEW d \in Conv, turn'[d].known, turn'[d].stored
        PROVE  turn'[d] = turn[d] /\ d # c
    BY <1>2, <1>3, <2>2
  <2>3. StoredTurns'
    BY <2>2 DEF Inv, StoredTurns
  <2>4. QED
    BY <2>1, <2>3
<1>6. NoSharedMemory'
  <2>1. \A d \in Conv : BelongsTo(turn'[d].hint, ContactOf[d]) /\ BelongsTo(turn'[d].id, ContactOf[d])
    <3>1. BelongsTo(None, ContactOf[c])
      BY DEF BelongsTo
    <3>2. \A d \in Conv : BelongsTo(turn[d].hint, ContactOf[d]) /\ BelongsTo(turn[d].id, ContactOf[d])
      BY DEF Inv, NoSharedMemory
    <3>3. ASSUME NEW d \in Conv
          PROVE  BelongsTo(turn'[d].hint, ContactOf[d]) /\ BelongsTo(turn'[d].id, ContactOf[d])
      <4>1. CASE d = c
        BY <1>2, <1>3, <3>1, <4>1
      <4>2. CASE d # c
        BY <1>3, <3>2, <4>2
      <4>3. QED
        BY <4>1, <4>2
    <3>4. QED
      BY <3>3
  <2>2. \A d \in Conv : BelongsTo(attr'[d], ContactOf[d])
    BY <1>0 DEF Inv, NoSharedMemory, TypeOK, TurnIsSound
  <2>3. QED
    BY <2>1, <2>2 DEF Inv, NoSharedMemory, BelongsTo
<1>7. QED
  BY <1>4, <1>5, <1>6 DEF Inv

LEMMA BackfillInv ==
  ASSUME Inv, NEW p \in Contact, BackfillScan(p) \/ BackfillInsert(p)
  PROVE  Inv'
<1> USE NoneAssumption, UnknownAssumption DEF Inv
<1>1. CASE BackfillScan(p)
  <2>1. PICK c \in Conv : ContactOf[c] = p /\ scan' = [scan EXCEPT ![p] = attr[c]]
    BY <1>1 DEF BackfillScan
  <2>2. TypeOK'
    BY <1>1, <2>1 DEF BackfillScan, TypeOK, bounds
  <2>3. TableTurns' /\ StoredTurns'
    BY <1>1 DEF BackfillScan, TableTurns, StoredTurns
  <2>4. NoSharedMemory'
    BY <1>1, <2>1 DEF BackfillScan, NoSharedMemory, BelongsTo, TypeOK
  <2>5. QED
    BY <2>2, <2>3, <2>4
<1>2. CASE BackfillInsert(p)
  <2>1. /\ p \in ContactId /\ scan[p] \in MaybeThread /\ None \in MaybeThread
        /\ table \in [ContactId -> MaybeThread] /\ scan \in [Contact -> MaybeThread]
    BY DEF TypeOK, ContactId, MaybeThread
  <2>2. /\ table' \in [ContactId -> MaybeThread] /\ scan' \in [Contact -> MaybeThread]
        /\ \A q \in ContactId : table'[q] = IF q = p /\ table[p] = None THEN scan[p] ELSE table[q]
        /\ \A q \in Contact : scan'[q] = IF q = p THEN None ELSE scan[q]
    BY <1>2, <2>1 DEF BackfillInsert
  <2>3. TypeOK'
    BY <1>2, <2>2 DEF BackfillInsert, TypeOK, bounds
  <2>4. TableTurns'
    BY <1>2 DEF BackfillInsert, TableTurns
  <2>5. StoredTurns'
    BY <1>2, <2>2, ContactOfAssumption DEF BackfillInsert, StoredTurns, ContactId
  <2>6. NoSharedMemory'
    BY <1>2, <2>2 DEF BackfillInsert, NoSharedMemory, BelongsTo, ContactId
  <2>7. QED
    BY <2>3, <2>4, <2>5, <2>6
<1>3. QED
  BY <1>1, <1>2

LEMMA RestartInv ==
  ASSUME Inv, Restart
  PROVE  Inv'
<1> USE ContactOfAssumption, NoneAssumption, UnknownAssumption, BoundAssumption DEF Inv, Restart
<1>1. /\ NoTurn \in TurnState /\ NoTurn.pc = "idle" /\ NoTurn.id = None
      /\ NoTurn.hint = None /\ NoTurn.known = FALSE
      /\ NoGroup \in Group /\ NoGroup.hint = None
  BY DEF NoTurn, NoGroup, TurnState, Group, MaybeThread
<1>2. TypeOK'
  <2>1. /\ group' \in [Conv -> Group] /\ turn' \in [Conv -> TurnState]
        /\ cache' \in [CacheKeys -> MaybeThread]
    BY <1>1 DEF MaybeThread
  <2>2. \A c \in Conv : turn'[c].pc = "dify" => (turn'[c].from = "none" <=> turn'[c].id = None)
    BY <1>1
  <2>3. faults' \in 0 .. MaxFaults /\ restarts' \in 0 .. MaxRestarts
    BY DEF TypeOK
  <2>4. QED
    BY <2>1, <2>2, <2>3 DEF TypeOK
<1>3. TableTurns' /\ StoredTurns'
  BY <1>1 DEF TableTurns, StoredTurns
<1>4. NoSharedMemory'
  <2>1. table'[Unknown] = None
    BY DEF NoSharedMemory, IdFor, ContactId, TableTurns
  <2>2. \A p \in Contact : BelongsTo(table'[p], p)
    <3> SUFFICES ASSUME NEW p \in Contact PROVE BelongsTo(table'[p], p)
      OBVIOUS
    <3>1. CASE table'[p] = table[p]
      BY <3>1 DEF NoSharedMemory
    <3>2. CASE \E c \in Conv : /\ IdFor(c, turn[c].known) = p /\ turn[c].pc = "upsert"
                              /\ table'[p] = turn[c].id
      <4>1. PICK c \in Conv : /\ IdFor(c, turn[c].known) = p /\ turn[c].pc = "upsert"
                              /\ table'[p] = turn[c].id
        BY <3>2
      <4>2. ContactOf[c] = p
        BY <4>1 DEF IdFor, TableTurns
      <4>3. QED
        BY <4>1, <4>2 DEF NoSharedMemory
    <3>3. QED
      BY <3>1, <3>2 DEF ContactId
  <2>3. \A c \in Conv : BelongsTo(attr'[c], ContactOf[c])
    BY DEF NoSharedMemory
  <2>4. /\ \A c \in Conv : /\ BelongsTo(turn'[c].hint, ContactOf[c])
                           /\ BelongsTo(turn'[c].id, ContactOf[c])
                           /\ BelongsTo(group'[c].hint, ContactOf[c])
                           /\ BelongsTo(cache'[<<"conv", c>>], ContactOf[c])
        /\ \A p \in Contact : BelongsTo(cache'[<<"contact", p>>], p)
    BY <1>1 DEF BelongsTo, CacheKeys
  <2>5. QED
    BY <2>1, <2>2, <2>3, <2>4 DEF NoSharedMemory, BelongsTo
<1>5. QED
  BY <1>2, <1>3, <1>4

LEMMA StutterInv == Inv /\ UNCHANGED vars => Inv'
<1> SUFFICES ASSUME Inv, UNCHANGED vars PROVE Inv'
  OBVIOUS
<1> USE DEF Inv, vars, bounds
<1>1. TypeOK'
  BY DEF TypeOK
<1>2. TableTurns' /\ StoredTurns' /\ NoSharedMemory'
  BY DEF TableTurns, StoredTurns, NoSharedMemory, BelongsTo
<1>3. QED
  BY <1>1, <1>2

\* The inductive invariant holds throughout every behaviour.
THEOREM InvIsInvariant == Spec => []Inv
<1>1. Inv /\ [Next]_vars => Inv'
  <2> SUFFICES ASSUME Inv, [Next]_vars PROVE Inv'
    OBVIOUS
  <2>1. CASE Next
    BY <2>1, ArriveInv, DropInv, BeginInv, ReadTableInv, DifyAnswersInv, DifyFailsInv,
       CommitInv, PersistedInv, SetAttrInv, BackfillInv, RestartInv DEF Next
  <2>2. CASE UNCHANGED vars
    BY <2>2, StutterInv
  <2>3. QED
    BY <2>1, <2>2
<1>2. QED
  BY <1>1, InitInv, PTL DEF Spec

\* Every variable keeps its type.
THEOREM TypeCorrect == Spec => []TypeOK
<1>1. Inv => TypeOK
  BY DEF Inv
<1>2. QED
  BY <1>1, InvIsInvariant, PTL

\* No two people ever share a thread, and the row of "unknown" does not exist.
\* (the guard of persistContactDifyConversationId, the prefixes of cacheKey)
THEOREM MemoryIsPrivate == Spec => []NoSharedMemory
<1>1. Inv => NoSharedMemory
  BY DEF Inv
<1>2. QED
  BY <1>1, InvIsInvariant, PTL

\* A thread is started only by a flush that has none.
LEMMA StartingStep ==
  ASSUME Inv, [Next]_vars, NEW t \in Thread, starter[t] # starter'[t]
  PROVE  \E c \in Conv : /\ turn[c].pc = "dify" /\ turn'[c].pc # "dify"
                         /\ ~(turn[c].known /\ turn[c].stored)
<1>1. PICK c \in Conv, id \in Thread : DifyAnswers(c, id) /\ turn[c].id = None
  BY DEF Next, vars, bounds, Arrive, Drop, Begin, ReadTable, DifyAnswers, DifyFails, Commit,
         Persisted, SetAttr, BackfillScan, BackfillInsert, Restart
<1>2. ~(turn[c].known /\ turn[c].stored) /\ turn[c].pc = "dify"
  BY <1>1 DEF Inv, StoredTurns, DifyAnswers
<1>3. turn'[c].pc # "dify"
  <2>1. /\ turn \in [Conv -> TurnState]
        /\ NoTurn.pc = "idle"
    BY DEF Inv, TypeOK, NoTurn
  <2>2. CASE turn' = [turn EXCEPT ![c] = NoTurn]
    BY <2>1, <2>2
  <2>3. CASE turn' = [turn EXCEPT ![c].pc = "upsert", ![c].id = id]
    BY <2>1, <2>3 DEF TurnState
  <2>4. CASE Remember(c, id)
    BY <2>1, <2>4 DEF Remember, TurnState
  <2>5. QED
    BY <1>1, <2>2, <2>3, <2>4 DEF DifyAnswers
<1>4. QED
  BY <1>2, <1>3

\* A row that exists is overwritten only by a flush that began without one.
LEMMA OverwritingStep ==
  ASSUME Inv, [Next]_vars, NEW p \in Contact, table[p] # None, table'[p] # table[p]
  PROVE  \E c \in Conv : ContactOf[c] = p /\ turn[c].pc = "upsert" /\ ~turn[c].stored
<1> USE UnknownAssumption
<1>0. p \in ContactId /\ table \in [ContactId -> MaybeThread]
  BY DEF ContactId, Inv, TypeOK
<1>1. \/ \E c \in Conv : Commit(c)
      \/ \E q \in Contact : BackfillInsert(q)
      \/ Restart
  BY DEF Next, vars, bounds, Arrive, Drop, Begin, ReadTable, DifyAnswers, DifyFails,
         Persisted, SetAttr, BackfillScan
<1>2. ~ \E q \in Contact : BackfillInsert(q)
  BY <1>0 DEF BackfillInsert
<1>3. \E c \in Conv : IdFor(c, turn[c].known) = p /\ turn[c].pc = "upsert"
  <2>1. CASE \E c \in Conv : Commit(c)
    BY <1>0, <2>1 DEF Commit
  <2>2. CASE Restart
    BY <1>0, <2>2 DEF Restart
  <2>3. QED
    BY <1>1, <1>2, <2>1, <2>2
<1>4. QED
  BY <1>3 DEF Inv, TableTurns, StoredTurns, IdFor

\* Memory is kept: a flush that began when its contact had a row neither starts a
\* thread nor overwrites the row.  (resolvedFrom, the backfill's DO NOTHING)
THEOREM MemoryIsNotReset == Spec => MemoryIsKept
<1>1. Inv /\ [Next]_vars =>
        [\A t \in Thread : starter[t] # starter'[t] =>
           \E c \in Conv : /\ turn[c].pc = "dify" /\ turn'[c].pc # "dify"
                           /\ ~(turn[c].known /\ turn[c].stored)]_vars
  BY StartingStep
<1>2. Inv /\ [Next]_vars =>
        [\A p \in Contact : table[p] # None /\ table'[p] # table[p] =>
           \E c \in Conv : ContactOf[c] = p /\ turn[c].pc = "upsert" /\ ~turn[c].stored]_vars
  BY OverwritingStep
<1>3. QED
  BY <1>1, <1>2, InvIsInvariant, PTL DEF Spec, MemoryIsKept
===============================================================================
