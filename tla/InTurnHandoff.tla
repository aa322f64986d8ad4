----------------------------- MODULE InTurnHandoff -----------------------------
(***************************************************************************)
(* middleware/src/in-turn-handoff.ts and handlers/handoff.ts: how the agent *)
(* hands a conversation to a human in the middle of its own turn.          *)
(*                                                                         *)
(* While a Dify call runs, its turn sits in an in-process registry.  The    *)
(* agent, still inside that call, may request POST /tools/handoff, which   *)
(* opens the conversation in Chatwoot and marks the turn, so that the      *)
(* turn's final answer may be posted although the conversation is then a   *)
(* human's.  Handoff requests also come late, twice, or for a conversation *)
(* with no turn at all; people change the status at any time.              *)
(*                                                                         *)
(* ReplyPipeline.tla is composed from BeginDifyTurn, Finish and the steps  *)
(* of the handoff route.                                                   *)
(***************************************************************************)
EXTENDS Naturals, FiniteSets

CONSTANTS
  Conv,             \* registry keys: (account id, conversation id)
  Turn,             \* identities of turn objects, one per Dify call
  HandoffCall,      \* handoff requests
  None,
  MaxTrackedTurns,  \* MAX_TRACKED_TURNS: entries the registry may hold
  Status,           \* the statuses a conversation may take in Chatwoot
  Settling          \* conversations whose Dify calls always settle (see FairSpec)

ASSUME NoneAssumption == None \notin Turn \cup Conv
ASSUME MaxTrackedTurnsAssumption == MaxTrackedTurns \in Nat
ASSUME SettlingAssumption == Settling \subseteq Conv
ASSUME StatusAssumption ==
  {"pending", "open"} \subseteq Status /\ Status \subseteq {"pending", "open", "resolved", "snoozed"}

VARIABLES
  status,     \* status[c]: the conversation's status, as Chatwoot stores it
  registry,   \* the registry Map: conversation -> turn, None when absent
  turnConv,   \* turnConv[t]: the id that t's closures captured; None: not begun
  marked,     \* marked[t]: t.handedOff
  settled,    \* turns whose Dify call has settled
  call        \* call[h]: how far the handler of request h is (CallState)

turnVars == <<registry, turnConv, marked, settled>>
vars == <<status, turnVars, call>>

\* "new": not received; "toggle", "label", "note": awaiting that Chatwoot call;
\* "ok", "failed": answered 200 or 502; "gone": its process died.
\* History: whether h has opened the conversation, and the turns that the registry
\* held when it was received.
CallState ==
  [pc : {"new", "toggle", "label", "note", "ok", "failed", "gone"},
   conv : Conv \cup {None},
   turn : Turn \cup {None},
   opened : BOOLEAN,
   saw : SUBSET Turn]

TypeOK ==
  /\ status \in [Conv -> Status]
  /\ registry \in [Conv -> Turn \cup {None}]
  /\ turnConv \in [Turn -> Conv \cup {None}]
  /\ marked \in [Turn -> BOOLEAN]
  /\ settled \in SUBSET Turn
  /\ call \in [HandoffCall -> CallState]

NewCall == [pc |-> "new", conv |-> None, turn |-> None, opened |-> FALSE, saw |-> {}]

Init ==
  /\ status = [c \in Conv |-> "pending"]
  /\ registry = [c \in Conv |-> None]
  /\ turnConv = [t \in Turn |-> None]
  /\ marked = [t \in Turn |-> FALSE]
  /\ settled = {}
  /\ call = [h \in HandoffCall |-> NewCall]

Begun(t) == turnConv[t] # None
InFlight == {t \in Turn : Begun(t) /\ t \notin settled}
Tracked == {c \in Conv : registry[c] # None}
TrackedTurns == {registry[c] : c \in Tracked}
-------------------------------------------------------------------------------
\* registry.size < MAX_TRACKED_TURNS
HasRoom_OffByOne == Cardinality(Tracked) <= MaxTrackedTurns
HasRoom == Cardinality(Tracked) < MaxTrackedTurns

\* The registry after finish(): only the turn that holds the entry removes it.
\* (The variants here and below, with an underscore, are mistakes the properties
\* must notice; no action uses them.)
AfterFinish_Any(t) == [registry EXCEPT ![turnConv[t]] = None]
AfterFinish_Never(t) == registry
AfterFinish_False(t) ==
  IF registry[turnConv[t]] = t THEN [registry EXCEPT ![turnConv[t]] = FALSE] ELSE registry
AfterFinish(t) ==
  IF registry[turnConv[t]] = t THEN [registry EXCEPT ![turnConv[t]] = None] ELSE registry

\* markHandedOff() of turn t sets the flag: t still holds its entry.
MayMark_Unchecked(t) == t # None
MayMark(t) == t # None /\ registry[turnConv[t]] = t

\* beginDifyTurn(app, account, conversation), t the new turn object.  Over
\* capacity the turn is begun all the same and never tracked.
BeginDifyTurn(t, c) ==
  /\ ~Begun(t)
  /\ turnConv' = [turnConv EXCEPT ![t] = c]
  /\ registry' = IF HasRoom THEN [registry EXCEPT ![c] = t] ELSE registry
  /\ UNCHANGED <<marked, settled>>

\* turn.finish(), in the finally of the Dify call.
Finish(t) ==
  /\ t \in InFlight
  /\ settled' = settled \cup {t}
  /\ registry' = AfterFinish(t)
  /\ UNCHANGED <<turnConv, marked>>
-------------------------------------------------------------------------------
\* The turn that a request uses: getInFlightDifyTurn at receipt, held across the
\* await.  The variant looks the registry up when it marks.
TurnOf_Late(h) == registry[call[h].conv]
TurnOf(h) == call[h].turn

\* POST /tools/handoff for conversation c, authenticated and well formed: the
\* turn in flight is captured and the toggle is requested.
HandoffReceive(h, c) ==
  /\ call[h].pc = "new"
  /\ call' = [call EXCEPT ![h] =
       [pc |-> "toggle", conv |-> c, turn |-> registry[c], opened |-> FALSE, saw |-> TrackedTurns]]
  /\ UNCHANGED <<status, turnVars>>

\* toggleConversationStatus was fulfilled: Chatwoot has opened the conversation
\* and the handler marks the turn it captured, before it asks for the labels.
HandoffToggled(h) ==
  /\ call[h].pc = "toggle"
  /\ status' = [status EXCEPT ![call[h].conv] = "open"]
  /\ marked' = IF MayMark(TurnOf(h)) THEN [marked EXCEPT ![TurnOf(h)] = TRUE] ELSE marked
  /\ call' = [call EXCEPT ![h].pc = "label", ![h].opened = TRUE]
  /\ UNCHANGED <<registry, turnConv, settled>>

\* addLabels was fulfilled, the private note is requested.
HandoffLabelled(h) ==
  /\ call[h].pc = "label"
  /\ call' = [call EXCEPT ![h].pc = "note"]
  /\ UNCHANGED <<status, turnVars>>

\* The private note was posted: 200.
HandoffNoted(h) ==
  /\ call[h].pc = "note"
  /\ call' = [call EXCEPT ![h].pc = "ok"]
  /\ UNCHANGED <<status, turnVars>>

\* One of the three calls is rejected (error answer or timeout) and the handler
\* answers 502.  A toggle that timed out may have been carried out all the same;
\* the turn is not marked then.
HandoffFails(h) ==
  /\ call[h].pc \in {"toggle", "label", "note"}
  /\ \/ /\ call[h].pc = "toggle"
        /\ status' = [status EXCEPT ![call[h].conv] = "open"]
        /\ call' = [call EXCEPT ![h].pc = "failed", ![h].opened = TRUE]
     \/ /\ call' = [call EXCEPT ![h].pc = "failed"]
        /\ UNCHANGED status
  /\ UNCHANGED turnVars
-------------------------------------------------------------------------------
\* An agent, an automation or the contact moves the conversation.  (external)
StatusChange(c, st) ==
  /\ status[c] # st
  /\ status' = [status EXCEPT ![c] = st]
  /\ UNCHANGED <<turnVars, call>>

\* The process restarts: the registry, the turns in flight and the handlers of
\* the requests in flight are gone.
Restart ==
  /\ registry' = [c \in Conv |-> None]
  /\ settled' = settled \cup InFlight
  /\ call' = [h \in HandoffCall |->
       IF call[h].pc \in {"toggle", "label", "note"} THEN [call[h] EXCEPT !.pc = "gone"]
                                                     ELSE call[h]]
  /\ UNCHANGED <<status, turnConv, marked>>

HandoffStep(h) ==
  \/ HandoffToggled(h)
  \/ HandoffLabelled(h)
  \/ HandoffNoted(h)
  \/ HandoffFails(h)

Next ==
  \/ \E t \in Turn, c \in Conv : BeginDifyTurn(t, c) /\ UNCHANGED <<status, call>>
  \/ \E t \in Turn : Finish(t) /\ UNCHANGED <<status, call>>
  \/ \E h \in HandoffCall, c \in Conv : HandoffReceive(h, c)
  \/ \E h \in HandoffCall : HandoffStep(h)
  \/ \E c \in Conv, st \in Status : StatusChange(c, st)
  \/ Restart

Spec == Init /\ [][Next]_vars

\* Chatwoot answers or times out.  The Dify calls of Settling settle; the others may
\* hang for ever, as the timeout of a call does not cover a stream that falls silent
\* after its headers (dify.ts:88).
FairSpec ==
  /\ Spec
  /\ \A t \in Turn :
       WF_vars(turnConv[t] \in Settling /\ Finish(t) /\ UNCHANGED <<status, call>>)
  /\ \A h \in HandoffCall : WF_vars(HandoffStep(h))
-------------------------------------------------------------------------------
\* The registry never outgrows its cap, however many calls hang.
\* (MAX_TRACKED_TURNS, the size check of beginDifyTurn)
RegistryBounded == Cardinality(Tracked) <= MaxTrackedTurns

\* The registry holds turns in flight only, each under its own conversation.
RegistryHoldsInFlight ==
  \A c \in Conv : registry[c] # None =>
    turnConv[registry[c]] = c /\ registry[c] \in InFlight

\* An entry of the registry goes when its own turn settles, or gives way to a turn
\* of the conversation that begins.  So a turn that settles late does not evict its
\* successor, and one that found the registry full is not entered when there is
\* room again.  (finish and beginDifyTurn)
EntryFollowsItsTurn ==
  [][\A c \in Conv : registry'[c] # registry[c] =>
       IF registry'[c] = None THEN registry[c] \in settled' ELSE ~Begun(registry'[c])]_vars

\* A turn is marked only by a request for its own conversation that opened it, and
\* that was received while the registry held the turn: a slow handoff never marks a
\* later turn, and none marks a turn that found the registry full.
\* (handoff.ts, "Capture this turn before the request"; beginDifyTurn)
MarkedByOwnHandoff ==
  \A t \in Turn : marked[t] =>
    \E h \in HandoffCall :
      /\ call[h].conv = turnConv[t]
      /\ call[h].opened
      /\ t \in call[h].saw

\* Once its Dify call has settled, a turn's mark is final: flushGroup reads it
\* after that, across awaits.  (markHandedOff and finish)
MarkFinalOnceSettled ==
  [][\A t \in settled : marked'[t] = marked[t]]_vars

\* A request under way is for a conversation, and the turn it captured, if any,
\* belongs to that conversation and was tracked when the request was received.
CapturedTurns ==
  \A h \in HandoffCall :
    /\ call[h].pc \in {"toggle", "label", "note"} => call[h].conv \in Conv
    /\ call[h].turn # None => /\ call[h].conv \in Conv
                             /\ turnConv[call[h].turn] = call[h].conv
                             /\ call[h].turn \in call[h].saw

\* A request that has not been received has opened nothing.
UnreceivedIsNew == \A h \in HandoffCall : call[h].pc = "new" => ~call[h].opened

\* Only turns that have begun settle or are seen by a request.
KnownHaveBegun ==
  /\ \A t \in settled : Begun(t)
  /\ \A h \in HandoffCall : \A t \in call[h].saw : Begun(t)

\* The inductive invariant of InTurnHandoff_proofs: what the registry holds, what
\* the requests remember of it, and where marks come from.
Inv ==
  /\ TypeOK
  /\ IsFiniteSet(Tracked)
  /\ RegistryBounded
  /\ RegistryHoldsInFlight
  /\ CapturedTurns
  /\ UnreceivedIsNew
  /\ KnownHaveBegun
  /\ MarkedByOwnHandoff

\* A turn whose Dify call settles gives its slot back, and a waiting request is
\* answered, whatever other calls hang with theirs.
\* (the finally of the Dify call; the timeout of the Chatwoot client)
SlotsAreReleased ==
  /\ \A t \in Turn : (\E c \in Settling : registry[c] = t) ~> (\A c \in Conv : registry[c] # t)
  /\ \A h \in HandoffCall : call[h].pc = "toggle" ~> call[h].pc \in {"ok", "failed", "gone"}
===============================================================================
