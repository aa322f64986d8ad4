----------------------------- MODULE ContactMemory -----------------------------
(***************************************************************************)
(* The agent's memory per contact: which Dify conversation (thread) a      *)
(* flush of middleware/src/handlers/chatwoot-webhook.ts continues, and the *)
(* three places that remember it:                                          *)
(*   table   contact_dify_conversations, the source of truth;              *)
(*   cache   difyConvIdCache, in the process;                              *)
(*   attr    the custom attribute of the Chatwoot conversation, which the  *)
(*           next webhooks of that conversation carry as a hint.           *)
(*                                                                         *)
(* A contact has several conversations and the debouncer serialises        *)
(* flushes per conversation only, so first turns of one contact run        *)
(* concurrently.  A write of the table is two steps, the commit in         *)
(* Postgres and the handling of its response, because two connections of   *)
(* the pool may be answered in another order than they committed.          *)
(*                                                                         *)
(* ReplyPipeline.tla has the rest of the flush; nothing that it does       *)
(* before the cache is read or after the attribute is written touches this *)
(* state.  Account ids are left out: every key carries one.                *)
(***************************************************************************)
EXTENDS Naturals

CONSTANTS
  Conv,        \* Chatwoot conversation ids of an account
  Contact,     \* contact ids of it: another sequence, the numbers may coincide
  ContactOf,   \* ContactOf[c]: whose conversation c is
  Unknown,     \* the contact id of a payload without one, the same for everybody
  Payload,     \* [conv, known]: which webhooks arrive, with the contact's id or not
  Thread,      \* Dify conversations
  None,
  MaxFaults,   \* bound: failing calls in a behaviour
  MaxRestarts  \* bound: restarts in a behaviour

ASSUME ContactOfAssumption == ContactOf \in [Conv -> Contact]
ASSUME NoneAssumption == None \notin Thread \cup Contact
ASSUME UnknownAssumption == Unknown \notin Contact
ASSUME PayloadAssumption == Payload \subseteq [conv : Conv, known : BOOLEAN]
ASSUME BoundAssumption == MaxFaults \in Nat /\ MaxRestarts \in Nat

VARIABLES
  group,     \* group[c]: what the buffered messages of c carry (Group)
  turn,      \* turn[c]: the locals of c's flush (TurnState)
  table,     \* table[q]: the row of contact id q, None when there is none
  cache,     \* cache[k] for the prefixed keys k
  attr,      \* attr[c]: dify_conversation_id among c's custom attributes
  starter,   \* starter[t]: whose message Dify started thread t with
  scan,      \* scan[p]: the row that the backfill script is about to insert
  faults, restarts

bounds == <<faults, restarts>>
vars == <<group, turn, table, cache, attr, starter, scan, bounds>>

MaybeThread == Thread \cup {None}

\* The contact ids of payloads.
ContactId == Contact \cup {Unknown}

\* Cache keys: "contact:<account>:<contact>" and "conv:<account>:<conversation>".
CacheKeys == {"contact", "conv"} \X (Contact \cup Conv)

\* `known`: some message of the group carries the contact's id, otherwise the
\* contact is "unknown"; `hint`: the first hint among them.
Group == [waiting : BOOLEAN, known : BOOLEAN, hint : MaybeThread]
NoGroup == [waiting |-> FALSE, known |-> FALSE, hint |-> None]

\* "table", "dify", "attr": awaiting that call; "upsert", "committed": awaiting the
\* write of the table, before and after its commit.  `from` is resolvedFrom.
\* History: whether the contact had a row when the flush began.
TurnState ==
  [pc : {"idle", "table", "dify", "upsert", "committed", "attr"},
   known : BOOLEAN, hint : MaybeThread, id : MaybeThread,
   from : {"none", "cache", "table", "legacy"}, stored : BOOLEAN]
NoTurn == [pc |-> "idle", known |-> FALSE, hint |-> None, id |-> None,
           from |-> "none", stored |-> FALSE]

TypeOK ==
  /\ group \in [Conv -> Group]
  /\ turn \in [Conv -> TurnState]
  /\ \A c \in Conv : turn[c].pc = "dify" => (turn[c].from = "none" <=> turn[c].id = None)
  /\ table \in [ContactId -> MaybeThread]
  /\ cache \in [CacheKeys -> MaybeThread]
  /\ attr \in [Conv -> MaybeThread]
  /\ starter \in [Thread -> Contact \cup {None}]
  /\ scan \in [Contact -> MaybeThread]
  /\ faults \in 0 .. MaxFaults
  /\ restarts \in 0 .. MaxRestarts

Init ==
  /\ group = [c \in Conv |-> NoGroup]
  /\ turn = [c \in Conv |-> NoTurn]
  /\ table = [q \in ContactId |-> None]
  /\ cache = [k \in CacheKeys |-> None]
  /\ attr = [c \in Conv |-> None]
  /\ starter = [t \in Thread |-> None]
  /\ scan = [p \in Contact |-> None]
  /\ faults = 0
  /\ restarts = 0

Fault == faults < MaxFaults /\ faults' = faults + 1 /\ UNCHANGED restarts
NoFault == UNCHANGED bounds
-------------------------------------------------------------------------------
\* A webhook of c is buffered; its payload may lack the contact's id.
Arrive(c, known) ==
  /\ group' = [group EXCEPT ![c] =
       [waiting |-> TRUE,
        known   |-> @.known \/ known,
        hint    |-> IF @.hint # None THEN @.hint ELSE attr[c]]]
  /\ UNCHANGED <<turn, table, cache, attr, starter, scan, bounds>>

\* A group is dropped before its contact's memory is looked up: duplicate, no
\* tenant, kill switch on, not the bot's conversation.
Drop(c) ==
  /\ group[c].waiting /\ turn[c].pc = "idle"
  /\ group' = [group EXCEPT ![c] = NoGroup]
  /\ UNCHANGED <<turn, table, cache, attr, starter, scan, bounds>>

\* cacheKey, with the prefix that keeps contacts and conversations apart.
CacheKey_Unprefixed(c, known) == <<"contact", IF known THEN ContactOf[c] ELSE c>>
CacheKey(c, known) == IF known THEN <<"contact", ContactOf[c]>> ELSE <<"conv", c>>

\* contactId of a flush of c.
IdFor(c, known) == IF known THEN ContactOf[c] ELSE Unknown

\* contactId !== "unknown": the table may be read and written.
UsesTable_Always(known) == TRUE
UsesTable(known) == known

\* The flush goes on to Dify without a row: with the hint, or with no thread.
WithoutRow_Legacy(t) == [t EXCEPT !.pc = "dify", !.id = t.hint, !.from = "legacy"]
WithoutRow(t) ==
  [t EXCEPT !.pc = "dify", !.id = t.hint, !.from = IF t.hint = None THEN "none" ELSE "legacy"]

\* flushGroup of c comes to the memory: a hit in the cache, a read of the table for
\* a known contact, or the hint.  (Taking the group from the debouncer, earlier,
\* commutes with what happens in between.)
Begin(c) ==
  LET g == group[c]
      hit == cache[CacheKey(c, g.known)]
      t == [NoTurn EXCEPT !.known = g.known, !.hint = g.hint,
                          !.stored = table[IdFor(c, g.known)] # None]
  IN
  /\ g.waiting /\ turn[c].pc = "idle"
  /\ group' = [group EXCEPT ![c] = NoGroup]
  /\ \/ /\ hit # None
        /\ turn' = [turn EXCEPT ![c] = [t EXCEPT !.pc = "dify", !.id = hit, !.from = "cache"]]
     \/ /\ hit = None /\ UsesTable(g.known)
        /\ turn' = [turn EXCEPT ![c] = [t EXCEPT !.pc = "table"]]
     \/ /\ hit = None /\ ~UsesTable(g.known)
        /\ turn' = [turn EXCEPT ![c] = WithoutRow(t)]
  /\ UNCHANGED <<table, cache, attr, starter, scan, bounds>>

\* What a rejected read of the table does: it throws out of flushGroup.
AfterFailedRead_Misses(c) == WithoutRow(turn[c])
AfterFailedRead(c) == NoTurn

\* readContactDifyConversationId.
ReadTable(c) ==
  LET row == table[IdFor(c, turn[c].known)] IN
  /\ turn[c].pc = "table"
  /\ \/ /\ row # None
        /\ turn' = [turn EXCEPT ![c].pc = "dify", ![c].id = row, ![c].from = "table"]
        /\ NoFault
     \/ /\ row = None
        /\ turn' = [turn EXCEPT ![c] = WithoutRow(@)]
        /\ NoFault
     \/ /\ turn' = [turn EXCEPT ![c] = AfterFailedRead(c)]
        /\ Fault
  /\ UNCHANGED <<group, table, cache, attr, starter, scan>>
-------------------------------------------------------------------------------
\* The cache is set; a thread that Dify started is also left on the conversation.
Remember(c, id) ==
  /\ cache' = [cache EXCEPT ![CacheKey(c, turn[c].known)] = id]
  /\ turn' = [turn EXCEPT ![c] =
       IF turn[c].from = "none" THEN [@ EXCEPT !.pc = "attr", !.id = id] ELSE NoTurn]

\* Dify answers on thread id: the one it was given, or a new one.
DifyAnswers(c, id) ==
  /\ turn[c].pc = "dify"
  /\ \/ id = turn[c].id /\ UNCHANGED starter
     \/ /\ turn[c].id = None /\ starter[id] = None
        /\ starter' = [starter EXCEPT ![id] = ContactOf[c]]
  /\ \/ /\ turn[c].from \in {"cache", "table"}
        /\ turn' = [turn EXCEPT ![c] = NoTurn]
        /\ UNCHANGED cache
     \/ /\ turn[c].from \in {"none", "legacy"} /\ UsesTable(turn[c].known)
        /\ turn' = [turn EXCEPT ![c].pc = "upsert", ![c].id = id]
        /\ UNCHANGED cache
     \/ /\ turn[c].from \in {"none", "legacy"} /\ ~UsesTable(turn[c].known)
        /\ Remember(c, id)
  /\ UNCHANGED <<group, table, attr, scan, bounds>>

\* The call fails, or its stream ends before it named a conversation.
DifyFails(c) ==
  /\ turn[c].pc = "dify"
  /\ turn' = [turn EXCEPT ![c] = NoTurn]
  /\ Fault
  /\ UNCHANGED <<group, table, cache, attr, starter, scan>>

\* Postgres commits the UPSERT of persistContactDifyConversationId.
Commit(c) ==
  /\ turn[c].pc = "upsert"
  /\ table' = [table EXCEPT ![IdFor(c, turn[c].known)] = turn[c].id]
  /\ turn' = [turn EXCEPT ![c].pc = "committed"]
  /\ UNCHANGED <<group, cache, attr, starter, scan, bounds>>

\* Its await settles, with the commit's response or, before or after the commit,
\* with an error; the finally block sets the cache in each case.
Persisted(c) ==
  /\ \/ turn[c].pc = "committed" /\ NoFault
     \/ turn[c].pc \in {"upsert", "committed"} /\ Fault
  /\ Remember(c, turn[c].id)
  /\ UNCHANGED <<group, table, attr, starter, scan>>

\* setConversationCustomAttributes; an error, perhaps after the fact, is ignored.
SetAttr(c) ==
  /\ turn[c].pc = "attr"
  /\ \/ attr' = [attr EXCEPT ![c] = turn[c].id] /\ NoFault
     \/ UNCHANGED attr /\ Fault
  /\ turn' = [turn EXCEPT ![c] = NoTurn]
  /\ UNCHANGED <<group, table, cache, starter, scan>>
-------------------------------------------------------------------------------
\* The backfill script reads the attribute of p's freshest conversation that has
\* one, and inserts it later.
BackfillScan(p) ==
  /\ \E c \in Conv : ContactOf[c] = p /\ attr[c] # None /\ scan' = [scan EXCEPT ![p] = attr[c]]
  /\ UNCHANGED <<group, turn, table, cache, attr, starter, bounds>>

\* INSERT ... ON CONFLICT DO NOTHING.
BackfillInsert(p) ==
  /\ scan[p] # None
  /\ table' = IF table[p] = None THEN [table EXCEPT ![p] = scan[p]] ELSE table
  /\ scan' = [scan EXCEPT ![p] = None]
  /\ UNCHANGED <<group, turn, cache, attr, starter, bounds>>

\* The process restarts: buffers, flushes and the cache are gone.  A write that was
\* under way may still be carried out.
Restart ==
  /\ restarts < MaxRestarts
  /\ restarts' = restarts + 1
  /\ group' = [c \in Conv |-> NoGroup]
  /\ turn' = [c \in Conv |-> NoTurn]
  /\ cache' = [k \in CacheKeys |-> None]
  /\ table' \in [ContactId -> MaybeThread]
  /\ \A q \in ContactId :
       \/ table'[q] = table[q]
       \/ \E c \in Conv : /\ IdFor(c, turn[c].known) = q /\ turn[c].pc = "upsert"
                         /\ table'[q] = turn[c].id
  /\ attr' \in [Conv -> MaybeThread]
  /\ \A c \in Conv : attr'[c] = attr[c] \/ (turn[c].pc = "attr" /\ attr'[c] = turn[c].id)
  /\ UNCHANGED <<starter, scan, faults>>

Next ==
  \/ \E c \in Conv :
       \/ \E known \in BOOLEAN : [conv |-> c, known |-> known] \in Payload /\ Arrive(c, known)
       \/ Drop(c)
       \/ Begin(c)
       \/ ReadTable(c)
       \/ \E id \in Thread : DifyAnswers(c, id)
       \/ DifyFails(c)
       \/ Commit(c)
       \/ Persisted(c)
       \/ SetAttr(c)
  \/ \E p \in Contact : BackfillScan(p) \/ BackfillInsert(p)
  \/ Restart

Spec == Init /\ [][Next]_vars
-------------------------------------------------------------------------------
\* Thread t, if any, belongs to contact p.
BelongsTo(t, p) == t # None => starter[t] = p

\* No two people share a thread: whatever the table, the cache, the attributes, the
\* hints, the backfill and the flushes hold for a contact was started by a message
\* of that contact, with or without its id in the payload; and the row that
\* everybody without an id would share does not exist.
\* (the "unknown" guard and the prefixes of cacheKey)
NoSharedMemory ==
  /\ table[Unknown] = None
  /\ \A p \in Contact : /\ BelongsTo(table[p], p)
                        /\ BelongsTo(cache[<<"contact", p>>], p)
                        /\ BelongsTo(scan[p], p)
  /\ \A c \in Conv : /\ BelongsTo(cache[<<"conv", c>>], ContactOf[c])
                     /\ BelongsTo(attr[c], ContactOf[c])
                     /\ BelongsTo(group[c].hint, ContactOf[c])
                     /\ BelongsTo(turn[c].hint, ContactOf[c])
                     /\ BelongsTo(turn[c].id, ContactOf[c])

\* Memory is kept: a flush with a known contact that began when the contact had a
\* row neither starts a thread nor overwrites the row; an existing row changes
\* only by the race of first turns, never by a later flush, a failed read, a
\* restart or the backfill.  (resolvedFrom, ON CONFLICT DO NOTHING)
MemoryIsKept ==
  /\ [][\A t \in Thread : starter[t] # starter'[t] =>
          \E c \in Conv : /\ turn[c].pc = "dify" /\ turn'[c].pc # "dify"
                          /\ ~(turn[c].known /\ turn[c].stored)]_vars
  /\ [][\A p \in Contact : table[p] # None /\ table'[p] # table[p] =>
          \E c \in Conv : ContactOf[c] = p /\ turn[c].pc = "upsert" /\ ~turn[c].stored]_vars

-------------------------------------------------------------------------------
\* The inductive invariant of ContactMemory_proofs.

\* Only a known contact's flush comes to the table, and what it writes is a thread.
TableTurns ==
  \A c \in Conv :
    /\ turn[c].pc \in {"table", "upsert", "committed"} => turn[c].known
    /\ turn[c].pc \in {"upsert", "committed", "attr"} => turn[c].id # None

\* A flush that began with its contact's row there finds it, or a hit in the cache,
\* and writes nothing.
StoredTurns ==
  \A c \in Conv : turn[c].known /\ turn[c].stored =>
    /\ table[ContactOf[c]] # None
    /\ turn[c].pc = "dify" => turn[c].id # None /\ turn[c].from \in {"cache", "table"}
    /\ turn[c].pc \notin {"upsert", "committed"}

Inv == TypeOK /\ TableTurns /\ StoredTurns /\ NoSharedMemory
===============================================================================
