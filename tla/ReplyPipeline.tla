----------------------------- MODULE ReplyPipeline -----------------------------
(***************************************************************************)
(* middleware/src/handlers/chatwoot-webhook.ts: from a Chatwoot webhook to *)
(* at most one reply of the agent per group of messages.                   *)
(*                                                                         *)
(* The module composes                                                     *)
(*   Queue    BatchQueue, what ConversationDebouncer implements: webhooks  *)
(*            are put into it, a timer makes flushGroup take a batch;      *)
(*   Handoff  InTurnHandoff: the turn of the Dify call and the handoff     *)
(*            route, which runs at any time beside a flush;                *)
(* and adds flushGroup itself, split at every await: each action is the    *)
(* continuation of one awaited call, up to the next one.  Between two of   *)
(* them people change the status of conversations, the operator flips the  *)
(* kill switch, more webhooks arrive, and the process may restart.         *)
(*                                                                         *)
(* The thread of the agent's memory (the cache, the contact table and the  *)
(* attribute) is ContactMemory.tla's; here it is only an await, and one    *)
(* that may throw before the Dify call.                                    *)
(***************************************************************************)
EXTENDS Naturals, FiniteSets, Sequences

CONSTANTS
  Conv,        \* Chatwoot conversations, with their account
  Delivery,    \* message_created webhooks that pass the handler's filters
  ConvOf,      \* ConvOf[d]: the conversation of d's message
  IdOf,        \* IdOf[d]: the message id, growing in time; 0 when unparseable
  Redelivery,  \* deliveries of a message that another one delivered before
  Turn, HandoffCall, None, MaxTrackedTurns, Status,
  Settling,    \* conversations whose Dify calls always settle (see FairSpec)
  MaxFaults,   \* bound: failing or timed-out calls in a behaviour
  MaxRestarts  \* bound: restarts in a behaviour

ASSUME DeliveryAssumption ==
  /\ ConvOf \in [Delivery -> Conv]
  /\ IdOf \in [Delivery -> Nat]
  /\ Redelivery \subseteq Delivery
  /\ Settling \subseteq Conv
ASSUME BoundAssumption == MaxFaults \in Nat /\ MaxRestarts \in Nat

\* Chatwoot numbers the messages of all conversations from one sequence.  (external)
ASSUME IdAssumption ==
  \A d, e \in Delivery : IdOf[d] = IdOf[e] /\ IdOf[d] # 0 => ConvOf[d] = ConvOf[e]

\* What InTurnHandoff assumes of the constants it is given here.
ASSUME HandoffAssumption ==
  /\ None \notin Turn \cup Conv
  /\ MaxTrackedTurns \in Nat
  /\ {"pending", "open"} \subseteq Status
  /\ Status \subseteq {"pending", "open", "resolved", "snoozed"}

VARIABLES
  queue, busy, done, lost,                              \* of Queue
  status, registry, turnConv, marked, settled, call,    \* of Handoff
  hook,        \* hook[d]: "unsent", "sent", "skipped" or "buffered"
  flush,       \* flush[c]: the locals of c's flushGroup (FlushState)
  watermark,   \* watermark[c]: the row of conversation_watermarks, 0 if absent
  killSwitch,  \* the row DIFY_KILL_SWITCH of configs says "true"
  faults, restarts,
  answered,    \* history: ids of the messages some posted reply answered
  risk,        \* history: those whose reply no watermark could be written for
  replies,     \* history: replies[c], how many replies were posted to c
  late,        \* history: late[c], those posted since c left "pending"
  offSeen      \* history: offSeen[c], the switch was off during c's flush

queueVars   == <<queue, busy, done, lost>>
turnVars    == <<registry, turnConv, marked, settled>>
handoffVars == <<status, turnVars, call>>
answerVars  == <<answered, risk, replies>>
bounds      == <<faults, restarts>>
ghosts      == <<late, offSeen>>
vars == <<queueVars, handoffVars, hook, flush, watermark, killSwitch, bounds, answerVars, ghosts>>

Queue   == INSTANCE BatchQueue WITH Key <- Conv, Message <- Delivery, KeyOf <- ConvOf
Handoff == INSTANCE InTurnHandoff

\* Where a flush awaits: the watermark row, the tenant row, the kill switch, the
\* conversation (ownership), the contact's row, Dify, the conversation again,
\* the post of the reply, the watermark write; in the catch block the
\* conversation and the post of the private note.
Await == {"idle", "watermark", "tenant", "kill", "owner", "memory", "dify",
          "recheck", "post", "persist", "errOwner", "errNote"}

\* `eligible` are the deliveries above the watermark, `tries` the failed
\* watermark writes, `acked` says that Chatwoot acknowledged the reply.
FlushState ==
  [pc : Await, eligible : SUBSET Delivery, turn : Turn \cup {None},
   tries : 0 .. 2, acked : BOOLEAN]

NoFlush == [pc |-> "idle", eligible |-> {}, turn |-> None, tries |-> 0, acked |-> FALSE]

TypeOK ==
  /\ Queue!TypeOK
  /\ Handoff!TypeOK
  /\ hook \in [Delivery -> {"unsent", "sent", "skipped", "buffered"}]
  /\ flush \in [Conv -> FlushState]
  /\ watermark \in [Conv -> Nat]
  /\ killSwitch \in BOOLEAN
  /\ faults \in 0 .. MaxFaults
  /\ restarts \in 0 .. MaxRestarts
  /\ answered \in SUBSET Nat
  /\ risk \in SUBSET Nat
  /\ replies \in [Conv -> Nat]
  /\ late \in [Conv -> Nat]
  /\ offSeen \in [Conv -> BOOLEAN]

Init ==
  /\ Queue!Init
  /\ Handoff!Init
  /\ hook = [d \in Delivery |-> "unsent"]
  /\ flush = [c \in Conv |-> NoFlush]
  /\ watermark = [c \in Conv |-> 0]
  /\ killSwitch = FALSE
  /\ faults = 0
  /\ restarts = 0
  /\ answered = {}
  /\ risk = {}
  /\ replies = [c \in Conv |-> 0]
  /\ late = [c \in Conv |-> 0]
  /\ offSeen = [c \in Conv |-> FALSE]

\* The ids among deliveries ds; an unparseable one is none.
Ids(ds) == {IdOf[d] : d \in ds} \ {0}

\* maxId: the largest id of the group, 0 when it has none.
MaxId(ds) == IF Ids(ds) = {} THEN 0
             ELSE CHOOSE i \in Ids(ds) : \A j \in Ids(ds) : j <= i

\* A call fails, within the bound.
Fault == faults < MaxFaults /\ faults' = faults + 1
NoFault == UNCHANGED faults
-------------------------------------------------------------------------------
\* The deliveries that d, a redelivery, may repeat.
Originals(d) == {e \in Delivery \ Redelivery :
                   ConvOf[e] = ConvOf[d] /\ IdOf[e] = IdOf[d] /\ hook[e] # "unsent"}

\* A contact writes: Chatwoot stores the message and sends the webhook, with the
\* status of that moment in the payload.  Messages of a conversation are created
\* in the order of their ids; a redelivery repeats a webhook already sent, with
\* the payload of then or of now.
Send(d) ==
  /\ hook[d] = "unsent"
  /\ \A e \in Delivery \ Redelivery :
       ConvOf[e] = ConvOf[d] /\ IdOf[e] \in 1 .. IdOf[d] - 1 => hook[e] # "unsent"
  /\ d \in Redelivery => Originals(d) # {}
  /\ \/ /\ \/ status[ConvOf[d]] = "pending"
           \/ d \in Redelivery /\ \E e \in Originals(d) : hook[e] # "skipped"
        /\ hook' = [hook EXCEPT ![d] = "sent"]
     \/ /\ status[ConvOf[d]] # "pending"
        /\ hook' = [hook EXCEPT ![d] = "skipped"]
  /\ UNCHANGED <<queueVars, handoffVars, flush, watermark, killSwitch, bounds, answerVars>>

\* The webhook handler resumes after `await resolveTenant`: it buffers the message
\* or skips it for lack of a tenant.  Webhooks may overtake one another on their
\* way and at that await; a failing one is not sent again.
Buffer(d) ==
  /\ hook[d] = "sent"
  /\ \/ /\ hook' = [hook EXCEPT ![d] = "buffered"]
        /\ Queue!Put(d)
        /\ NoFault
     \/ /\ hook' = [hook EXCEPT ![d] = "skipped"]
        /\ Fault
        /\ UNCHANGED queueVars
  /\ UNCHANGED <<handoffVars, flush, watermark, killSwitch, restarts, answerVars>>
-------------------------------------------------------------------------------
\* flushGroup of c returns or throws; the debouncer treats both alike.
EndFlush(c) ==
  /\ Queue!Settle(c)
  /\ flush' = [flush EXCEPT ![c] = NoFlush]

\* flushGroup of c goes on to await `next`.
Continue(c, next) ==
  /\ flush' = [flush EXCEPT ![c].pc = next]
  /\ UNCHANGED queueVars

\* The debouncer calls flushGroup, which reads the watermark first.
StartFlush(c) ==
  /\ Queue!Take(c)
  /\ flush' = [flush EXCEPT ![c].pc = "watermark"]
  /\ UNCHANGED <<handoffVars, hook, watermark, killSwitch, bounds, answerVars>>

\* The deliveries of a batch that the persisted watermark does not cover.
AboveWatermark_NotBelow(c) ==
  {d \in Queue!Elements(busy[c]) : IdOf[d] = 0 \/ IdOf[d] >= watermark[c]}
AboveWatermark(c) ==
  {d \in Queue!Elements(busy[c]) : IdOf[d] = 0 \/ IdOf[d] > watermark[c]}

\* readWatermark: a rejection throws out of flushGroup; a group fully below the
\* watermark is skipped.
ReadWatermark(c) ==
  /\ flush[c].pc = "watermark"
  /\ \/ /\ AboveWatermark(c) # {}
        /\ flush' = [flush EXCEPT ![c].pc = "tenant", ![c].eligible = AboveWatermark(c)]
        /\ UNCHANGED queueVars
        /\ NoFault
     \/ AboveWatermark(c) = {} /\ EndFlush(c) /\ NoFault
     \/ EndFlush(c) /\ Fault
  /\ UNCHANGED <<handoffVars, hook, watermark, killSwitch, restarts, answerVars>>

\* resolveTenant: no row and a database error both give null, the group is dropped.
ResolveTenant(c) ==
  /\ flush[c].pc = "tenant"
  /\ \/ Continue(c, "kill") /\ NoFault
     \/ EndFlush(c) /\ Fault
  /\ UNCHANGED <<handoffVars, hook, watermark, killSwitch, restarts, answerVars>>

\* isDifyKillSwitchEnabled: on, the group is dropped; a database error means off.
KillSwitchStops_Never == FALSE
KillSwitchStops == killSwitch

ReadKillSwitch(c) ==
  /\ flush[c].pc = "kill"
  /\ \/ ~KillSwitchStops /\ Continue(c, "owner") /\ NoFault
     \/ KillSwitchStops /\ EndFlush(c) /\ NoFault
     \/ Continue(c, "owner") /\ Fault
  /\ UNCHANGED <<handoffVars, hook, watermark, killSwitch, restarts, answerVars>>

\* ownershipSkipReason of the conversation just read, with the exception for the
\* turn's own handoff.
OwnedByBot_AnyOpen(c, handedOff) == status[c] \in {"pending", "open"}
OwnedByBot(c, handedOff) == status[c] = "pending" \/ (status[c] = "open" /\ handedOff)

\* stillOwnedByBot, before the Dify call: not the bot's, or not readable, the
\* group is dropped.
CheckOwner(c) ==
  /\ flush[c].pc = "owner"
  /\ \/ OwnedByBot(c, FALSE) /\ Continue(c, "memory") /\ NoFault
     \/ ~OwnedByBot(c, FALSE) /\ EndFlush(c) /\ NoFault
     \/ EndFlush(c) /\ Fault
  /\ UNCHANGED <<handoffVars, hook, watermark, killSwitch, restarts, answerVars>>

\* The contact's thread is resolved and the Dify call made, in a new turn.  The
\* read of the contact table is outside the try block: a rejection throws.
CallDify(c) ==
  /\ flush[c].pc = "memory"
  /\ \/ \E t \in Turn :
          /\ Handoff!BeginDifyTurn(t, c)
          /\ flush' = [flush EXCEPT ![c].pc = "dify", ![c].turn = t]
          /\ UNCHANGED queueVars
          /\ NoFault
     \/ EndFlush(c) /\ Fault /\ UNCHANGED turnVars
  /\ UNCHANGED <<status, call, hook, watermark, killSwitch, restarts, answerVars>>

\* Dify answers, or the call fails or times out: the finally block ends the turn.
\* The writes of the contact's thread that follow an answer cannot fail the flush.
DifySettles(c) ==
  /\ flush[c].pc = "dify"
  /\ Handoff!Finish(flush[c].turn)
  /\ \/ Continue(c, "recheck") /\ NoFault
     \/ Continue(c, "errOwner") /\ Fault
  /\ UNCHANGED <<status, call, hook, watermark, killSwitch, restarts, answerVars>>

\* stillOwnedByBot again, before the reply.
RecheckOwner(c) ==
  LET owned == OwnedByBot(c, marked[flush[c].turn]) IN
  /\ flush[c].pc = "recheck"
  /\ \/ owned /\ Continue(c, "post") /\ NoFault
     \/ ~owned /\ EndFlush(c) /\ NoFault
     \/ EndFlush(c) /\ Fault
  /\ UNCHANGED <<handoffVars, hook, watermark, killSwitch, restarts, answerVars>>
-------------------------------------------------------------------------------
\* Chatwoot accepts the reply to c's group.
Reply(c) ==
  /\ answered' = answered \cup Ids(flush[c].eligible)
  /\ replies' = [replies EXCEPT ![c] = @ + 1]

\* postMessage: acknowledged; or timed out after Chatwoot had accepted it; or
\* rejected.  A group without any id has no watermark to write.
PostReply(c) ==
  /\ flush[c].pc = "post"
  /\ \/ /\ Reply(c)
        /\ IF MaxId(flush[c].eligible) > 0
           THEN /\ flush' = [flush EXCEPT ![c].pc = "persist", ![c].acked = TRUE]
                /\ UNCHANGED queueVars
           ELSE EndFlush(c)
        /\ UNCHANGED risk
        /\ NoFault
     \/ /\ Reply(c)
        /\ risk' = risk \cup Ids(flush[c].eligible)
        /\ Continue(c, "errOwner")
        /\ Fault
     \/ Continue(c, "errOwner") /\ Fault /\ UNCHANGED answerVars
  /\ UNCHANGED <<handoffVars, hook, watermark, killSwitch, restarts>>

\* The UPSERT of persistWatermark: GREATEST of the row and the group's largest id.
\* The variants take the latest message seen, or the id of the group's first.
AfterPersist_Seen(c) ==
  [watermark EXCEPT ![c] = MaxId(flush[c].eligible \cup Queue!Elements(queue[c]))]
AfterPersist_First(c) ==
  [watermark EXCEPT ![c] = CHOOSE i \in Ids(flush[c].eligible) : \A j \in Ids(flush[c].eligible) : i <= j]
AfterPersist(c) ==
  [watermark EXCEPT ![c] = IF @ > MaxId(flush[c].eligible) THEN @ ELSE MaxId(flush[c].eligible)]

\* Another attempt is left: `attempt < attempts`.
MayRetry_OffByOne(c) == flush[c].tries <= 2
MayRetry(c) == flush[c].tries < 2

\* What follows the third failed write: flushGroup returns normally.
GiveUp_Rethrow(c) == Continue(c, "errOwner")
GiveUp(c) == EndFlush(c)

\* persistWatermarkResilient: written; or rejected, though perhaps written, and
\* tried again up to three times.  An outage counts as one fault however many of
\* the three writes it fails.
PersistWatermark(c) ==
  /\ flush[c].pc = "persist"
  /\ \/ /\ watermark' = AfterPersist(c)
        /\ EndFlush(c)
        /\ UNCHANGED risk
        /\ NoFault
     \/ /\ watermark' \in {watermark, AfterPersist(c)}
        /\ IF MayRetry(c)
           THEN /\ flush' = [flush EXCEPT ![c].tries = @ + 1]
                /\ UNCHANGED <<queueVars, risk>>
           ELSE /\ GiveUp(c)
                /\ risk' = risk \cup Ids(flush[c].eligible)
        /\ IF flush[c].tries = 0 THEN Fault ELSE NoFault
  /\ UNCHANGED <<handoffVars, hook, killSwitch, restarts, answered, replies>>

\* The catch block: the note is for conversations the bot still owns; the turn's
\* own handoff is no exception here.
CheckOwnerOfFailed(c) ==
  /\ flush[c].pc = "errOwner"
  /\ \/ OwnedByBot(c, FALSE) /\ Continue(c, "errNote") /\ NoFault
     \/ ~OwnedByBot(c, FALSE) /\ EndFlush(c) /\ NoFault
     \/ EndFlush(c) /\ Fault
  /\ UNCHANGED <<handoffVars, hook, watermark, killSwitch, restarts, answerVars>>

\* The private note, best effort; then flushGroup throws.
PostErrorNote(c) ==
  /\ flush[c].pc = "errNote"
  /\ EndFlush(c)
  /\ UNCHANGED <<handoffVars, hook, watermark, killSwitch, bounds, answerVars>>
-------------------------------------------------------------------------------
\* The handoff route and the people in Chatwoot.
HandoffRoute ==
  /\ \/ \E h \in HandoffCall, c \in Conv : Handoff!HandoffReceive(h, c)
     \/ \E h \in HandoffCall : Handoff!HandoffStep(h)
     \/ \E c \in Conv, st \in Status : Handoff!StatusChange(c, st)
  /\ UNCHANGED <<queueVars, hook, flush, watermark, killSwitch, bounds, answerVars>>

\* The operator flips the switch in the configs table.
FlipKillSwitch ==
  /\ killSwitch' = ~killSwitch
  /\ UNCHANGED <<queueVars, handoffVars, hook, flush, watermark, bounds, answerVars>>

\* The process restarts.  Buffers, flushes and turns are gone; what was answered
\* while its watermark was not yet written may be answered again.
Restart ==
  /\ restarts < MaxRestarts
  /\ restarts' = restarts + 1
  /\ Queue!Restart
  /\ Handoff!Restart
  /\ flush' = [c \in Conv |-> NoFlush]
  /\ risk' = risk \cup UNION {Ids(flush[c].eligible) : c \in {b \in Conv : flush[b].acked}}
  /\ UNCHANGED <<hook, watermark, killSwitch, faults, answered, replies>>

\* The next step of c's flush but the settling of its Dify call.
FlushStep(c) ==
  \/ ReadWatermark(c)
  \/ ResolveTenant(c)
  \/ ReadKillSwitch(c)
  \/ CheckOwner(c)
  \/ CallDify(c)
  \/ RecheckOwner(c)
  \/ PostReply(c)
  \/ PersistWatermark(c)
  \/ CheckOwnerOfFailed(c)
  \/ PostErrorNote(c)

\* How the histories `late` and `offSeen` follow any step.
Observe ==
  /\ late' = [c \in Conv |->
       IF status'[c] = "pending" THEN 0 ELSE late[c] + (replies'[c] - replies[c])]
  /\ offSeen' = [c \in Conv |->
       /\ flush'[c].pc # "idle"
       /\ offSeen[c] \/ ~killSwitch' \/ (flush[c].pc = "kill" /\ faults' # faults)]

Step ==
  \/ \E d \in Delivery : Send(d) \/ Buffer(d)
  \/ \E c \in Conv : StartFlush(c) \/ FlushStep(c) \/ DifySettles(c)
  \/ HandoffRoute
  \/ FlipKillSwitch
  \/ Restart

Next == Step /\ Observe

Spec == Init /\ [][Next]_vars

\* Webhooks arrive, timers fire, Postgres answers and the Chatwoot client times
\* out.  A Dify call settles for the conversations of Settling only: its timeout
\* does not cover a stream that falls silent once its headers have arrived.
FairSpec ==
  /\ Spec
  /\ \A d \in Delivery : WF_vars(Buffer(d) /\ Observe)
  /\ \A c \in Conv : WF_vars((StartFlush(c) \/ FlushStep(c)) /\ Observe)
  /\ \A c \in Settling : WF_vars(DifySettles(c) /\ Observe)
-------------------------------------------------------------------------------
\* A message is answered twice only when the watermark of its first answer could
\* not be recorded: the post was not acknowledged, three writes failed, or the
\* process restarted in between.  A redelivery alone, in the same group, in the
\* next or after a restart, is never answered again.
\* (flushGroup's filter, persistWatermarkResilient, the residual risk it names)
AnsweredOnce ==
  [][\A c \in Conv : replies'[c] # replies[c] =>
       Ids(flush[c].eligible) \cap answered \subseteq risk]_vars

\* The watermark never names a message that was not answered: a failed or
\* suppressed reply does not advance it.  (the post before the persist)
WatermarkIsAnswered ==
  \A c \in Conv : watermark[c] # 0 => watermark[c] \in answered

\* What was answered stays below the watermark, apart from the residual risk and
\* from the group whose watermark is being written.
AnsweredIsCovered ==
  \A d \in Delivery : IdOf[d] \in answered =>
    \/ IdOf[d] <= watermark[ConvOf[d]]
    \/ IdOf[d] \in risk
    \/ flush[ConvOf[d]].acked /\ IdOf[d] \in Ids(flush[ConvOf[d]].eligible)

\* From the moment a conversation leaves "pending" until it returns, the bot posts
\* one more reply at most: the one its own handoff allows, or the one that was on
\* its way between the last check and the post.  (the two ownership checks)
OneReplyPerHumanPeriod == \A c \in Conv : late[c] <= 1

\* A flush that began and read while the kill switch was on never calls Dify: the
\* switch stops every group that was still in its debounce window when it was
\* flipped, unless the read itself fails.  (the check in flushGroup)
KillSwitchStopsBuffered ==
  [][\A c \in Conv : flush[c].pc # "dify" /\ flush'[c].pc = "dify" => offSeen[c]]_vars

\* The "processing failed" note is never posted about a reply that Chatwoot
\* acknowledged, whatever the database does afterwards.
\* (why persistWatermarkResilient swallows its last error)
NoNoteAfterAck ==
  \A c \in Conv : flush[c].pc \in {"errOwner", "errNote"} => ~flush[c].acked

\* The turn of a running Dify call is the one the registry holds for it, if it
\* holds any, so that a handoff during the call marks no other flush.
OwnTurnTracked ==
  \A c \in Conv : /\ registry[c] # None => flush[c].pc = "dify" /\ flush[c].turn = registry[c]
                  /\ flush[c].pc = "dify" => flush[c].turn \in Handoff!InFlight

\* A batch holds deliveries of its own conversation, is there exactly while its
\* flush runs, and a group is chosen from it.
FlushHasBatch ==
  \A c \in Conv :
    /\ flush[c].pc = "idle" <=> busy[c] = <<>>
    /\ flush[c].eligible \subseteq Queue!Elements(busy[c])
    /\ \A d \in Queue!Elements(queue[c]) \cup Queue!Elements(busy[c]) : ConvOf[d] = c

\* A group is acknowledged exactly while its watermark is written, and answered
\* then; until then its ids are above the row that was read.
GroupIsNewOrAnswered ==
  \A c \in Conv :
    /\ flush[c].acked <=> flush[c].pc = "persist"
    /\ flush[c].acked =>
         Ids(flush[c].eligible) # {} /\ Ids(flush[c].eligible) \subseteq answered
    /\ ~flush[c].acked =>
         \A d \in flush[c].eligible : IdOf[d] = 0 \/ IdOf[d] > watermark[c]

\* The turn of a running Dify call is its own conversation's.
TurnIsOwn ==
  \A c \in Conv : flush[c].pc = "dify" => turnConv[flush[c].turn] = c

\* Once a reply was posted in a human's period, no flush is on its way to another.
NoneOnTheWay ==
  \A c \in Conv : late[c] # 0 =>
    /\ status[c] # "pending"
    /\ flush[c].pc \notin {"memory", "dify", "recheck", "post"}

\* A flush past the check of the kill switch has seen it off.
OffWasSeen ==
  \A c \in Conv : flush[c].pc \in {"owner", "memory"} => offSeen[c]

\* The inductive invariant of ReplyPipeline_proofs: what a flush holds at each
\* await, and how that relates to the watermark, the answers and the statuses.
Inv ==
  /\ TypeOK
  /\ FlushHasBatch
  /\ TurnIsOwn
  /\ OwnTurnTracked
  /\ GroupIsNewOrAnswered
  /\ WatermarkIsAnswered
  /\ AnsweredIsCovered
  /\ NoneOnTheWay
  /\ OneReplyPerHumanPeriod
  /\ OffWasSeen

\* Every webhook is eventually dealt with and each group's flush ends, in the
\* conversations whose Dify calls settle, whatever hangs in the others: not even
\* a full turn registry holds them up.  (the per-key flushing of the debouncer)
EventuallySettled ==
  \A d \in Delivery : ConvOf[d] \in Settling =>
    hook[d] = "sent" ~> (hook[d] = "skipped" \/ d \in done \cup lost)

\* A message that the watermark filter drops as a "duplicate delivery" was
\* answered before.  The code does not guarantee it: a message whose webhook was
\* overtaken by a later one, or whose first group was lost, is below the
\* watermark of the later group.  (flushGroup's filter and its log line)
SkippedWasAnswered ==
  [][\A c \in Conv :
       flush[c].pc = "watermark" /\ flush'[c].pc # "watermark" /\ faults' = faults /\ restarts' = restarts =>
         Ids(Queue!Elements(busy[c]) \ AboveWatermark(c)) \subseteq answered]_vars
===============================================================================
