-------------------------- MODULE ReplyPipeline_proofs --------------------------
(***************************************************************************)
(* For every set of conversations, deliveries, turns and handoff requests: *)
(* the pipeline is a correct client of its queue and of the turn registry, *)
(* so that what is proved of InTurnHandoff holds in it; and its own        *)
(* invariants and action properties, about what is answered and when.      *)
(***************************************************************************)
EXTENDS ReplyPipeline, FiniteSetTheorems, SequenceTheorems, TLAPS

HandoffProofs == INSTANCE InTurnHandoff_proofs

-------------------------------------------------------------------------------
LEMMA QueueStep == [Next]_vars => [Queue!Next]_(Queue!vars)
<1> SUFFICES ASSUME [Next]_vars PROVE [Queue!Next]_(Queue!vars)
  OBVIOUS
<1> USE DEF Queue!Next, Queue!vars, queueVars, vars
<1>1. ASSUME NEW d \in Delivery, Send(d) \/ Buffer(d) PROVE [Queue!Next]_(Queue!vars)
  BY <1>1 DEF Send, Buffer
<1>2. ASSUME NEW c \in Conv, StartFlush(c) PROVE [Queue!Next]_(Queue!vars)
  BY <1>2 DEF StartFlush
<1>3. ASSUME NEW c \in Conv, FlushStep(c) \/ DifySettles(c)
      PROVE  Queue!Settle(c) \/ UNCHANGED queueVars
  BY <1>3 DEF FlushStep, ReadWatermark, ResolveTenant, ReadKillSwitch, CheckOwner, CallDify,
              RecheckOwner, PostReply, PersistWatermark, GiveUp, CheckOwnerOfFailed,
              PostErrorNote, DifySettles, EndFlush, Continue
<1>4. ASSUME HandoffRoute \/ FlipKillSwitch \/ Restart PROVE [Queue!Next]_(Queue!vars)
  BY <1>4 DEF HandoffRoute, FlipKillSwitch, Restart
<1>5. QED
  BY <1>1, <1>2, <1>3, <1>4 DEF Next, Step

\* The pipeline uses its queue as BatchQueue allows: it puts each delivery in once,
\* takes a batch only when none is being flushed, and settles what it took.
\* (the debouncer's enqueue and flush, seen from chatwoot-webhook.ts)
THEOREM UsesTheQueue == Spec => Queue!Spec
<1>1. Init => Queue!Init
  BY DEF Init
<1>2. QED
  BY <1>1, QueueStep, PTL DEF Spec, Queue!Spec

LEMMA RegistryStep == [Next]_vars => [Handoff!Next]_(Handoff!vars)
<1> SUFFICES ASSUME [Next]_vars PROVE [Handoff!Next]_(Handoff!vars)
  OBVIOUS
<1> USE DEF Handoff!Next, Handoff!vars, Handoff!turnVars, handoffVars, turnVars, vars
<1>1. ASSUME NEW d \in Delivery, Send(d) \/ Buffer(d) PROVE UNCHANGED Handoff!vars
  BY <1>1 DEF Send, Buffer
<1>2. ASSUME NEW c \in Conv, StartFlush(c) \/ FlushStep(c), ~CallDify(c)
      PROVE  UNCHANGED Handoff!vars
  BY <1>2 DEF StartFlush, FlushStep, ReadWatermark, ResolveTenant, ReadKillSwitch, CheckOwner,
              RecheckOwner, PostReply, PersistWatermark, CheckOwnerOfFailed, PostErrorNote
<1>3. ASSUME NEW c \in Conv, CallDify(c) PROVE [Handoff!Next]_(Handoff!vars)
  BY <1>3 DEF CallDify
<1>4. ASSUME NEW c \in Conv, DifySettles(c) PROVE Handoff!Next
  BY <1>4 DEF DifySettles, Handoff!Finish, Handoff!InFlight
<1>5. ASSUME HandoffRoute \/ FlipKillSwitch \/ Restart PROVE [Handoff!Next]_(Handoff!vars)
  BY <1>5 DEF HandoffRoute, FlipKillSwitch, Restart
<1>6. QED
  BY <1>1, <1>2, <1>3, <1>4, <1>5 DEF Next, Step

\* The pipeline uses the turn registry as InTurnHandoff allows: a turn is begun
\* once, for the conversation it answers, and finished while it is in flight.
\* (the Dify call of flushGroup and its finally)
THEOREM UsesTheRegistry == Spec => Handoff!Spec
<1>1. Init => Handoff!Init
  BY DEF Init
<1>2. QED
  BY <1>1, RegistryStep, PTL DEF Spec, Handoff!Spec
-------------------------------------------------------------------------------
\* The instance of InTurnHandoff whose theorems are cited is the pipeline's own.
LEMMA SameSpec == Handoff!Spec <=> HandoffProofs!Spec
<1>1. \A S : Handoff!Cardinality(S) = HandoffProofs!Cardinality(S)
  BY DEF Handoff!Cardinality, HandoffProofs!Cardinality,
         Handoff!IsFiniteSet, HandoffProofs!IsFiniteSet
<1>2. Handoff!HasRoom <=> HandoffProofs!HasRoom
  BY <1>1 DEF Handoff!HasRoom, HandoffProofs!HasRoom, Handoff!Tracked, HandoffProofs!Tracked
<1>3. \A t \in Turn, c \in Conv :
        Handoff!BeginDifyTurn(t, c) <=> HandoffProofs!BeginDifyTurn(t, c)
  BY <1>2 DEF Handoff!BeginDifyTurn, HandoffProofs!BeginDifyTurn, Handoff!Begun, HandoffProofs!Begun
<1>4. \A t \in Turn : Handoff!Finish(t) <=> HandoffProofs!Finish(t)
  BY DEF Handoff!Finish, HandoffProofs!Finish, Handoff!InFlight, HandoffProofs!InFlight,
         Handoff!Begun, HandoffProofs!Begun, Handoff!AfterFinish, HandoffProofs!AfterFinish
<1>5. \A h \in HandoffCall, c \in Conv :
        Handoff!HandoffReceive(h, c) <=> HandoffProofs!HandoffReceive(h, c)
  BY DEF Handoff!HandoffReceive, HandoffProofs!HandoffReceive, Handoff!TrackedTurns,
         HandoffProofs!TrackedTurns, Handoff!Tracked, HandoffProofs!Tracked,
         Handoff!turnVars, HandoffProofs!turnVars
<1>6. \A h \in HandoffCall : Handoff!HandoffStep(h) <=> HandoffProofs!HandoffStep(h)
  BY DEF Handoff!HandoffStep, HandoffProofs!HandoffStep,
         Handoff!HandoffToggled, HandoffProofs!HandoffToggled,
         Handoff!MayMark, HandoffProofs!MayMark, Handoff!TurnOf, HandoffProofs!TurnOf,
         Handoff!HandoffLabelled, HandoffProofs!HandoffLabelled,
         Handoff!HandoffNoted, HandoffProofs!HandoffNoted,
         Handoff!HandoffFails, HandoffProofs!HandoffFails,
         Handoff!turnVars, HandoffProofs!turnVars
<1>7. \A c \in Conv, st \in Status :
        Handoff!StatusChange(c, st) <=> HandoffProofs!StatusChange(c, st)
  BY DEF Handoff!StatusChange, HandoffProofs!StatusChange,
         Handoff!turnVars, HandoffProofs!turnVars
<1>8. Handoff!Restart <=> HandoffProofs!Restart
  BY DEF Handoff!Restart, HandoffProofs!Restart, Handoff!InFlight, HandoffProofs!InFlight,
         Handoff!Begun, HandoffProofs!Begun
<1>9. Handoff!Next <=> HandoffProofs!Next
  BY <1>3, <1>4, <1>5, <1>6, <1>7, <1>8 DEF Handoff!Next, HandoffProofs!Next
<1>10. Handoff!Init <=> HandoffProofs!Init
  BY DEF Handoff!Init, HandoffProofs!Init, Handoff!NewCall, HandoffProofs!NewCall
<1>11. UNCHANGED Handoff!vars <=> UNCHANGED HandoffProofs!vars
  BY DEF Handoff!vars, HandoffProofs!vars, Handoff!turnVars, HandoffProofs!turnVars
<1>12. QED
  BY <1>9, <1>10, <1>11, PTL DEF Handoff!Spec, HandoffProofs!Spec

LEMMA HandoffAssumptions ==
  /\ HandoffProofs!NoneAssumption
  /\ HandoffProofs!MaxTrackedTurnsAssumption
  /\ HandoffProofs!StatusAssumption
  /\ HandoffProofs!SettlingAssumption
BY HandoffAssumption, DeliveryAssumption DEF HandoffProofs!NoneAssumption,
   HandoffProofs!MaxTrackedTurnsAssumption, HandoffProofs!StatusAssumption,
   HandoffProofs!SettlingAssumption

\* What the proofs below use of the registry.
RegistryFacts ==
  /\ Handoff!TypeOK
  /\ Handoff!RegistryHoldsInFlight
  /\ Handoff!KnownHaveBegun

LEMMA RegistryFactsHold == Spec => []RegistryFacts
<1>1. HandoffProofs!Inv => RegistryFacts
  BY DEF HandoffProofs!Inv, RegistryFacts,
         HandoffProofs!TypeOK, Handoff!TypeOK, HandoffProofs!CallState, Handoff!CallState,
         HandoffProofs!RegistryHoldsInFlight, Handoff!RegistryHoldsInFlight,
         HandoffProofs!InFlight, Handoff!InFlight, HandoffProofs!Begun, Handoff!Begun,
         HandoffProofs!KnownHaveBegun, Handoff!KnownHaveBegun
<1>2. HandoffProofs!Spec => []HandoffProofs!Inv
  BY HandoffAssumptions, HandoffProofs!InvIsInvariant
<1>3. QED
  BY <1>1, <1>2, UsesTheRegistry, SameSpec, PTL

\* In the running pipeline, a turn's final answer may follow a handoff only because
\* a request for its own conversation opened it during that turn.
\* (the exception of ownershipSkipReason, and handoff.ts)
THEOREM MarksAreEarned == Spec => []Handoff!MarkedByOwnHandoff
<1>1. HandoffProofs!MarkedByOwnHandoff => Handoff!MarkedByOwnHandoff
  BY DEF HandoffProofs!MarkedByOwnHandoff, Handoff!MarkedByOwnHandoff
<1>2. HandoffProofs!Spec => []HandoffProofs!MarkedByOwnHandoff
  BY HandoffAssumptions, HandoffProofs!MarksAreEarned
<1>3. QED
  BY <1>1, <1>2, UsesTheRegistry, SameSpec, PTL

\* In the running pipeline, the registry never outgrows its cap, whatever hangs.
\* (MAX_TRACKED_TURNS)
THEOREM RegistryStaysBounded == Spec => []Handoff!RegistryBounded
<1>1. HandoffProofs!RegistryBounded => Handoff!RegistryBounded
  <2>1. \A S : Handoff!Cardinality(S) = HandoffProofs!Cardinality(S)
    BY DEF Handoff!Cardinality, HandoffProofs!Cardinality,
           Handoff!IsFiniteSet, HandoffProofs!IsFiniteSet
  <2>2. QED
    BY <2>1 DEF HandoffProofs!RegistryBounded, Handoff!RegistryBounded,
                HandoffProofs!Tracked, Handoff!Tracked
<1>2. HandoffProofs!Spec => []HandoffProofs!RegistryBounded
  BY HandoffAssumptions, HandoffProofs!RegistryStaysBounded
<1>3. QED
  BY <1>1, <1>2, UsesTheRegistry, SameSpec, PTL

\* In the running pipeline, the mark that the ownership check reads after the Dify
\* call has settled does not change any more.  (flushGroup's second check)
THEOREM MarksAreFinal == Spec => Handoff!MarkFinalOnceSettled
<1>1. HandoffProofs!Spec => HandoffProofs!MarkFinalOnceSettled
  BY HandoffAssumptions, HandoffProofs!MarksAreFinal
<1>2. UNCHANGED Handoff!vars <=> UNCHANGED HandoffProofs!vars
  BY DEF Handoff!vars, HandoffProofs!vars, Handoff!turnVars, HandoffProofs!turnVars
<1>3. QED
  BY <1>1, <1>2, UsesTheRegistry, SameSpec, PTL
     DEF Handoff!MarkFinalOnceSettled, HandoffProofs!MarkFinalOnceSettled

\* In the running pipeline, no turn loses its place in the registry to the end of
\* another, and none that was refused a place gets one later.  (finish, beginDifyTurn)
THEOREM EntriesFollowTheirTurns == Spec => Handoff!EntryFollowsItsTurn
<1>1. HandoffProofs!Spec => HandoffProofs!EntryFollowsItsTurn
  BY HandoffAssumptions, HandoffProofs!EntriesFollowTheirTurns
<1>2. UNCHANGED Handoff!vars <=> UNCHANGED HandoffProofs!vars
  BY DEF Handoff!vars, HandoffProofs!vars, Handoff!turnVars, HandoffProofs!turnVars
<1>3. \A t : Handoff!Begun(t) <=> HandoffProofs!Begun(t)
  BY DEF Handoff!Begun, HandoffProofs!Begun
<1> DEFINE H(c) == registry'[c] # registry[c] =>
                     IF registry'[c] = None THEN registry[c] \in settled'
                     ELSE ~Handoff!Begun(registry'[c])
           P(c) == registry'[c] # registry[c] =>
                     IF registry'[c] = None THEN registry[c] \in settled'
                     ELSE ~HandoffProofs!Begun(registry'[c])
<1>4. (\A c \in Conv : P(c)) => \A c \in Conv : H(c)
  BY <1>3
<1>5. QED
  BY <1>1, <1>2, <1>4, UsesTheRegistry, SameSpec, PTL
     DEF Handoff!EntryFollowsItsTurn, HandoffProofs!EntryFollowsItsTurn
-------------------------------------------------------------------------------
\* Appending to a queue adds one element to it and takes none away.
LEMMA ElementsOfAppend ==
  ASSUME NEW seq \in Seq(Delivery), NEW d \in Delivery
  PROVE  /\ Append(seq, d) \in Seq(Delivery)
         /\ Queue!Elements(Append(seq, d)) = Queue!Elements(seq) \cup {d}
<1>1. /\ Append(seq, d) \in Seq(Delivery)
      /\ DOMAIN Append(seq, d) = 1 .. (Len(seq) + 1)
      /\ \A i \in 1 .. Len(seq) : Append(seq, d)[i] = seq[i]
      /\ Append(seq, d)[Len(seq) + 1] = d
      /\ DOMAIN seq = 1 .. Len(seq)
      /\ Len(seq) \in Nat
  OBVIOUS
<1>2. QED
  BY <1>1 DEF Queue!Elements

\* A sequence has finitely many elements, all of them deliveries.
LEMMA ElementsAreFinite ==
  ASSUME NEW seq \in Seq(Delivery)
  PROVE  /\ IsFiniteSet(Queue!Elements(seq))
         /\ Queue!Elements(seq) \subseteq Delivery
         /\ Queue!Elements(<<>>) = {}
<1>1. Len(seq) \in Nat /\ DOMAIN seq = 1 .. Len(seq)
  BY LenProperties
<1>2. \A i \in 1 .. Len(seq) : seq[i] \in Delivery
  BY <1>1, ElementOfSeq
<1>3. [i \in 1 .. Len(seq) |-> seq[i]] \in Surjection(1 .. Len(seq), Queue!Elements(seq))
  BY <1>1 DEF Surjection, Queue!Elements
<1>4. IsFiniteSet(Queue!Elements(seq))
  BY <1>1, <1>3, FS_Interval, FS_Surjection
<1>5. QED
  BY <1>1, <1>2, <1>4 DEF Queue!Elements

\* A finite set of numbers has a maximum: among its subsets without one, if there
\* were any but the empty set, a smallest one would have it after all.
LEMMA FiniteSetHasMaximum ==
  ASSUME NEW S \in SUBSET Nat, IsFiniteSet(S), S # {}
  PROVE  \E m \in S : \A n \in S : n <= m
<1> DEFINE Top(T, m) == m \in T /\ \A n \in T : n <= m
           Bad == {T \in SUBSET S : T # {} /\ \A m \in T : ~Top(T, m)}
<1>1. SUFFICES ASSUME Bad # {} PROVE FALSE
  OBVIOUS
<1>2. IsWellFoundedOn(StrictSubsetOrdering(S), SUBSET S)
  BY FS_StrictSubsetOrderingWellFounded, FS_FiniteSubsetsOfFinite
<1>3. Bad \subseteq SUBSET S
  OBVIOUS
<1>4. PICK T \in Bad : \A U \in Bad : <<U, T>> \notin StrictSubsetOrdering(S)
  <2> HIDE DEF Bad
  <2>1. QED
    BY <1>1, <1>2, <1>3, WFMin
<1>5. PICK x \in T : TRUE
  OBVIOUS
<1>6. T \ {x} \notin Bad
  <2>1. <<T \ {x}, T>> \in StrictSubsetOrdering(S)
    BY <1>5 DEF StrictSubsetOrdering
  <2>2. QED
    BY <1>4, <2>1
<1>7. CASE T \ {x} = {}
  <2>1. Top(T, x)
    BY <1>5, <1>7
  <2>2. QED
    BY <1>4, <1>5, <2>1
<1>8. CASE T \ {x} # {}
  <2>1. PICK y \in T \ {x} : Top(T \ {x}, y)
    BY <1>6, <1>8
  <2>2. Top(T, x) \/ Top(T, y)
    BY <1>5, <2>1
  <2>3. QED
    BY <1>4, <1>5, <2>1, <2>2
<1>9. QED
  BY <1>7, <1>8

\* MaxId is the largest id of a group that has one.
LEMMA MaxIdIsLargest ==
  ASSUME NEW ds \in SUBSET Delivery, IsFiniteSet(ds)
  PROVE  /\ MaxId(ds) \in Nat
         /\ Ids(ds) \subseteq Nat
         /\ Ids(ds) = {} => MaxId(ds) = 0
         /\ Ids(ds) # {} => /\ MaxId(ds) \in Ids(ds)
                           /\ MaxId(ds) > 0
                           /\ \A i \in Ids(ds) : i <= MaxId(ds)
<1> USE DeliveryAssumption
<1>1. Ids(ds) \subseteq Nat /\ 0 \notin Ids(ds)
  BY DEF Ids
<1>2. IsFiniteSet(Ids(ds))
  <2> DEFINE all == {IdOf[d] : d \in ds}
  <2>1. [d \in ds |-> IdOf[d]] \in Surjection(ds, all)
    BY DEF Surjection
  <2>2. IsFiniteSet(all)
    BY <2>1, FS_Surjection
  <2>3. QED
    BY <2>2, FS_Subset DEF Ids
<1>3. CASE Ids(ds) = {}
  BY <1>1, <1>3 DEF MaxId
<1>4. CASE Ids(ds) # {}
  <2>1. \E m \in Ids(ds) : \A j \in Ids(ds) : j <= m
    BY <1>1, <1>2, <1>4, FiniteSetHasMaximum
  <2>2. /\ MaxId(ds) \in Ids(ds)
        /\ \A i \in Ids(ds) : i <= MaxId(ds)
    BY <1>4, <2>1 DEF MaxId
  <2>3. QED
    BY <1>1, <1>4, <2>2
<1>5. QED
  BY <1>3, <1>4
-------------------------------------------------------------------------------
LEMMA InitInv == Init => Inv
<1> SUFFICES ASSUME Init PROVE Inv
  OBVIOUS
<1> USE DEF Init
<1>1. TypeOK
  <2>1. Queue!TypeOK
    BY DEF Queue!Init, Queue!TypeOK
  <2>2. Handoff!TypeOK
    BY HandoffAssumption DEF Handoff!Init, Handoff!TypeOK, Handoff!NewCall, Handoff!CallState
  <2>3. NoFlush \in FlushState
    BY DEF NoFlush, FlushState, Await
  <2>4. flush \in [Conv -> FlushState]
    BY <2>3
  <2>5. faults \in 0 .. MaxFaults /\ restarts \in 0 .. MaxRestarts
    BY BoundAssumption
  <2>6. /\ watermark \in [Conv -> Nat] /\ replies \in [Conv -> Nat] /\ late \in [Conv -> Nat]
        /\ offSeen \in [Conv -> BOOLEAN] /\ killSwitch \in BOOLEAN
        /\ hook \in [Delivery -> {"unsent", "sent", "skipped", "buffered"}]
    OBVIOUS
  <2>7. answered \in SUBSET Nat /\ risk \in SUBSET Nat
    OBVIOUS
  <2>8. QED
    BY <2>1, <2>2, <2>4, <2>5, <2>6, <2>7 DEF TypeOK
<1>2. FlushHasBatch
  <2>1. \A c \in Conv : queue[c] = <<>> /\ busy[c] = <<>>
    BY DEF Queue!Init
  <2>2. Queue!Elements(<<>>) = {}
    BY DEF Queue!Elements
  <2>3. QED
    BY <2>1, <2>2 DEF NoFlush, FlushHasBatch
<1>3. TurnIsOwn /\ OwnTurnTracked
  BY DEF NoFlush, TurnIsOwn, OwnTurnTracked, Handoff!Init
<1>4. GroupIsNewOrAnswered /\ WatermarkIsAnswered /\ AnsweredIsCovered
  BY DEF NoFlush, GroupIsNewOrAnswered, WatermarkIsAnswered, AnsweredIsCovered
<1>5. NoneOnTheWay /\ OneReplyPerHumanPeriod /\ OffWasSeen
  BY DEF NoFlush, NoneOnTheWay, OneReplyPerHumanPeriod, OffWasSeen
<1>6. QED
  BY <1>1, <1>2, <1>3, <1>4, <1>5 DEF Inv

\* The bound on faults, whether a step takes one or not.
LEMMA FaultBounds ==
  ASSUME Inv, Fault \/ NoFault
  PROVE  faults' \in 0 .. MaxFaults
BY BoundAssumption DEF Inv, TypeOK, Fault, NoFault

\* The histories after a step that posts no reply: a flush gets past the check of
\* ownership only when the conversation is pending then, and past the check of the
\* switch only when it is off or could not be read.
LEMMA HistoriesFollow ==
  ASSUME Inv, Observe, UNCHANGED replies,
         \A c \in Conv : flush'[c].pc \in {"memory", "dify", "recheck", "post"} =>
           \/ flush[c].pc \in {"memory", "dify", "recheck", "post"}
           \/ flush[c].pc = "owner" /\ status'[c] = "pending",
         \A c \in Conv : flush'[c].pc \in {"owner", "memory"} =>
           \/ flush[c].pc \in {"owner", "memory"}
           \/ ~killSwitch'
           \/ flush[c].pc = "kill" /\ faults' # faults
  PROVE  /\ late' \in [Conv -> Nat]
         /\ offSeen' \in [Conv -> BOOLEAN]
         /\ NoneOnTheWay' /\ OneReplyPerHumanPeriod' /\ OffWasSeen'
<1> USE DEF Inv, TypeOK
<1>1. \A c \in Conv : late'[c] = IF status'[c] = "pending" THEN 0 ELSE late[c]
  BY DEF Observe
<1>2. late' \in [Conv -> Nat]
  BY <1>1 DEF Observe
<1>3. offSeen' \in [Conv -> BOOLEAN]
  BY DEF Observe
<1>4. NoneOnTheWay' /\ OneReplyPerHumanPeriod'
  BY <1>1 DEF NoneOnTheWay, OneReplyPerHumanPeriod
<1>5. OffWasSeen'
  BY DEF OffWasSeen, Observe
<1>6. QED
  BY <1>2, <1>3, <1>4, <1>5

\* The answers after a step that changes neither them nor the watermarks: groups
\* chosen by it are above the watermark, and an acknowledged group is kept or its
\* ids are at risk.
LEMMA AnswersStay ==
  ASSUME Inv, UNCHANGED <<watermark, answered>>, risk \subseteq risk',
         \A c \in Conv :
           \/ /\ flush'[c].acked = flush[c].acked
              /\ flush'[c].eligible = flush[c].eligible
              /\ flush'[c].pc = "persist" <=> flush[c].pc = "persist"
           \/ /\ ~flush'[c].acked /\ flush'[c].pc # "persist"
              /\ flush[c].acked => Ids(flush[c].eligible) \subseteq risk'
              /\ \A d \in flush'[c].eligible : IdOf[d] = 0 \/ IdOf[d] > watermark[c]
  PROVE  GroupIsNewOrAnswered' /\ WatermarkIsAnswered' /\ AnsweredIsCovered'
<1> USE DEF Inv
<1>1. GroupIsNewOrAnswered'
  BY DEF GroupIsNewOrAnswered, Ids
<1>2. WatermarkIsAnswered'
  BY DEF WatermarkIsAnswered
<1>3. AnsweredIsCovered'
  <2> SUFFICES ASSUME NEW d \in Delivery, IdOf[d] \in answered
               PROVE  \/ IdOf[d] <= watermark[ConvOf[d]]
                      \/ IdOf[d] \in risk'
                      \/ /\ flush'[ConvOf[d]].acked
                         /\ IdOf[d] \in Ids(flush'[ConvOf[d]].eligible)
    BY DEF AnsweredIsCovered
  <2>1. QED
    BY DeliveryAssumption DEF AnsweredIsCovered, Ids
<1>4. QED
  BY <1>1, <1>2, <1>3

\* A flush that ends outside its Dify call leaves the batches and the turns in order.
LEMMA EndFlushKeeps ==
  ASSUME Inv, RegistryFacts, NEW c \in Conv, flush[c].pc # "dify", EndFlush(c),
         UNCHANGED handoffVars
  PROVE  /\ Queue!TypeOK' /\ flush' \in [Conv -> FlushState]
         /\ FlushHasBatch' /\ TurnIsOwn' /\ OwnTurnTracked'
         /\ flush'[c] = NoFlush
         /\ \A b \in Conv \ {c} : flush'[b] = flush[b]
<1> USE DEF Inv, EndFlush
<1>1. flush'[c] = NoFlush /\ \A b \in Conv \ {c} : flush'[b] = flush[b]
  BY DEF TypeOK
<1>2. NoFlush \in FlushState
  BY DEF NoFlush, FlushState, Await
<1>3. flush' \in [Conv -> FlushState]
  BY <1>2 DEF TypeOK
<1>4. /\ busy' = [busy EXCEPT ![c] = <<>>]
      /\ done' = done \cup Queue!Elements(busy[c])
      /\ UNCHANGED <<queue, lost>>
  BY DEF Queue!Settle
<1>5. busy \in [Conv -> Seq(Delivery)] /\ Queue!TypeOK
  BY DEF TypeOK, Queue!TypeOK
<1>6. Queue!Elements(busy[c]) \subseteq Delivery /\ Queue!Elements(<<>>) = {}
  BY <1>5, ElementsAreFinite
<1>7. Queue!TypeOK'
  BY <1>4, <1>5, <1>6 DEF Queue!TypeOK
<1>8. FlushHasBatch'
  <2> SUFFICES ASSUME NEW b \in Conv
               PROVE  /\ flush'[b].pc = "idle" <=> busy'[b] = <<>>
                      /\ flush'[b].eligible \subseteq Queue!Elements(busy'[b])
                      /\ \A d \in Queue!Elements(queue'[b]) \cup Queue!Elements(busy'[b]) :
                           ConvOf[d] = b
    BY DEF FlushHasBatch, Queue!Elements
  <2>1. CASE b = c
    BY <1>1, <1>4, <1>5, <1>6, <2>1 DEF FlushHasBatch, NoFlush
  <2>2. CASE b # c
    BY <1>1, <1>4, <1>5, <2>2 DEF FlushHasBatch
  <2>3. QED
    BY <2>1, <2>2
<1>9. TurnIsOwn' /\ OwnTurnTracked'
  <2>1. UNCHANGED <<registry, turnConv, settled>>
    BY DEF handoffVars, turnVars
  <2>2. Handoff!InFlight' = Handoff!InFlight
    BY <2>1 DEF Handoff!InFlight, Handoff!Begun
  <2>3. QED
    BY <1>1, <2>1, <2>2 DEF TurnIsOwn, OwnTurnTracked, NoFlush
<1>10. QED
  BY <1>1, <1>3, <1>7, <1>8, <1>9

\* So does one that goes on to another await, with a group chosen from its batch.
LEMMA GoOnKeeps ==
  ASSUME Inv, NEW c \in Conv, NEW f \in FlushState,
         flush' = [flush EXCEPT ![c] = f],
         flush[c].pc \notin {"idle", "dify"}, f.pc \notin {"idle", "dify"},
         f.eligible \subseteq Queue!Elements(busy[c]),
         UNCHANGED <<queueVars, handoffVars>>
  PROVE  /\ Queue!TypeOK' /\ flush' \in [Conv -> FlushState]
         /\ FlushHasBatch' /\ TurnIsOwn' /\ OwnTurnTracked'
         /\ flush'[c] = f
         /\ \A b \in Conv \ {c} : flush'[b] = flush[b]
<1> USE DEF Inv
<1>1. flush'[c] = f /\ \A b \in Conv \ {c} : flush'[b] = flush[b]
  BY DEF TypeOK
<1>2. flush' \in [Conv -> FlushState]
  BY DEF TypeOK
<1>3. Queue!TypeOK'
  BY DEF TypeOK, Queue!TypeOK, queueVars
<1>4. FlushHasBatch'
  BY <1>1 DEF FlushHasBatch, queueVars, Queue!Elements
<1>5. TurnIsOwn' /\ OwnTurnTracked'
  <2>1. UNCHANGED <<registry, turnConv, settled>>
    BY DEF handoffVars, turnVars
  <2>2. Handoff!InFlight' = Handoff!InFlight
    BY <2>1 DEF Handoff!InFlight, Handoff!Begun
  <2>3. QED
    BY <1>1, <2>1, <2>2 DEF TurnIsOwn, OwnTurnTracked
<1>6. QED
  BY <1>1, <1>2, <1>3, <1>4, <1>5

\* A flush ends without an answer.
LEMMA QuietEnd ==
  ASSUME Inv, RegistryFacts, RegistryFacts', Observe, NEW c \in Conv,
         flush[c].pc \notin {"dify", "persist"}, EndFlush(c), Fault \/ NoFault,
         UNCHANGED <<handoffVars, hook, watermark, killSwitch, restarts, answerVars>>
  PROVE  Inv'
<1>1. /\ Queue!TypeOK' /\ flush' \in [Conv -> FlushState]
      /\ FlushHasBatch' /\ TurnIsOwn' /\ OwnTurnTracked'
      /\ flush'[c] = NoFlush
      /\ \A b \in Conv \ {c} : flush'[b] = flush[b]
  BY EndFlushKeeps
<1>2. ~flush[c].acked
  BY DEF Inv, GroupIsNewOrAnswered
<1>3. GroupIsNewOrAnswered' /\ WatermarkIsAnswered' /\ AnsweredIsCovered'
  BY <1>1, <1>2, AnswersStay DEF NoFlush, answerVars
<1>4. /\ late' \in [Conv -> Nat]
      /\ offSeen' \in [Conv -> BOOLEAN]
      /\ NoneOnTheWay' /\ OneReplyPerHumanPeriod' /\ OffWasSeen'
  BY <1>1, HistoriesFollow DEF NoFlush, answerVars
<1>5. faults' \in 0 .. MaxFaults
  BY FaultBounds
<1>6. TypeOK'
  BY <1>1, <1>4, <1>5 DEF Inv, TypeOK, RegistryFacts, answerVars
<1>7. QED
  BY <1>1, <1>3, <1>4, <1>6 DEF Inv

\* A flush goes on to another await, its group unanswered and above the watermark.
LEMMA QuietGoOn ==
  ASSUME Inv, RegistryFacts', Observe, NEW c \in Conv, NEW f \in FlushState,
         flush' = [flush EXCEPT ![c] = f],
         flush[c].pc \notin {"idle", "dify", "persist"},
         f.pc \notin {"idle", "dify", "persist"}, ~f.acked,
         f.eligible = flush[c].eligible \/ f.eligible = AboveWatermark(c),
         f.pc \in {"memory", "recheck", "post"} =>
           \/ flush[c].pc \in {"memory", "recheck", "post"}
           \/ flush[c].pc = "owner" /\ status[c] = "pending",
         f.pc \in {"owner", "memory"} =>
           \/ flush[c].pc \in {"owner", "memory"}
           \/ flush[c].pc = "kill" /\ (~killSwitch \/ faults' # faults),
         Fault \/ NoFault,
         UNCHANGED <<queueVars, handoffVars, hook, watermark, killSwitch, restarts, answerVars>>
  PROVE  Inv'
<1>1. ~flush[c].acked
  BY DEF Inv, GroupIsNewOrAnswered
<1>2. /\ f.eligible \subseteq Queue!Elements(busy[c])
      /\ \A d \in f.eligible : IdOf[d] = 0 \/ IdOf[d] > watermark[c]
  BY <1>1 DEF AboveWatermark, Inv, FlushHasBatch, GroupIsNewOrAnswered
<1>3. /\ Queue!TypeOK' /\ flush' \in [Conv -> FlushState]
      /\ FlushHasBatch' /\ TurnIsOwn' /\ OwnTurnTracked'
      /\ flush'[c] = f
      /\ \A b \in Conv \ {c} : flush'[b] = flush[b]
  BY <1>2, GoOnKeeps
<1>4. GroupIsNewOrAnswered' /\ WatermarkIsAnswered' /\ AnsweredIsCovered'
  <2>1. \A b \in Conv :
           \/ /\ flush'[b].acked = flush[b].acked
              /\ flush'[b].eligible = flush[b].eligible
              /\ flush'[b].pc = "persist" <=> flush[b].pc = "persist"
           \/ /\ ~flush'[b].acked /\ flush'[b].pc # "persist"
              /\ flush[b].acked => Ids(flush[b].eligible) \subseteq risk'
              /\ \A d \in flush'[b].eligible : IdOf[d] = 0 \/ IdOf[d] > watermark[b]
    BY <1>1, <1>2, <1>3
  <2>2. QED
    BY <2>1, AnswersStay DEF answerVars
<1>5. /\ late' \in [Conv -> Nat]
      /\ offSeen' \in [Conv -> BOOLEAN]
      /\ NoneOnTheWay' /\ OneReplyPerHumanPeriod' /\ OffWasSeen'
  <2>1. \A b \in Conv : flush'[b].pc \in {"memory", "dify", "recheck", "post"} =>
           \/ flush[b].pc \in {"memory", "dify", "recheck", "post"}
           \/ flush[b].pc = "owner" /\ status'[b] = "pending"
    BY <1>3 DEF handoffVars
  <2>2. \A b \in Conv : flush'[b].pc \in {"owner", "memory"} =>
           \/ flush[b].pc \in {"owner", "memory"}
           \/ ~killSwitch'
           \/ flush[b].pc = "kill" /\ faults' # faults
    BY <1>3
  <2>3. QED
    BY <2>1, <2>2, HistoriesFollow DEF answerVars
<1>6. faults' \in 0 .. MaxFaults
  BY FaultBounds
<1>7. TypeOK'
  BY <1>3, <1>5, <1>6 DEF Inv, TypeOK, RegistryFacts, answerVars
<1>8. QED
  BY <1>3, <1>4, <1>5, <1>7 DEF Inv

\* The same for the steps that change the await alone.
LEMMA QuietContinue ==
  ASSUME Inv, RegistryFacts', Observe, NEW c \in Conv,
         NEW next \in Await \ {"idle", "dify", "persist"}, Continue(c, next),
         flush[c].pc \notin {"idle", "dify", "persist"},
         next \in {"memory", "recheck", "post"} =>
           \/ flush[c].pc \in {"memory", "recheck", "post"}
           \/ flush[c].pc = "owner" /\ status[c] = "pending",
         next \in {"owner", "memory"} =>
           \/ flush[c].pc \in {"owner", "memory"}
           \/ flush[c].pc = "kill" /\ (~killSwitch \/ faults' # faults),
         Fault \/ NoFault,
         UNCHANGED <<handoffVars, hook, watermark, killSwitch, restarts, answerVars>>
  PROVE  Inv'
<1> DEFINE f == [flush[c] EXCEPT !.pc = next]
<1>1. flush[c] \in FlushState /\ ~flush[c].acked
  BY DEF Inv, TypeOK, GroupIsNewOrAnswered
<1>2. /\ f \in FlushState
      /\ f.pc = next /\ f.eligible = flush[c].eligible /\ f.acked = flush[c].acked
  BY <1>1 DEF FlushState
<1>3. flush' = [flush EXCEPT ![c] = f] /\ UNCHANGED queueVars
  BY DEF Continue
<1> HIDE DEF f
<1>4. QED
  BY <1>1, <1>2, <1>3, QuietGoOn
-------------------------------------------------------------------------------
LEMMA ReadWatermarkInv ==
  ASSUME Inv, RegistryFacts, RegistryFacts', Observe, NEW c \in Conv, ReadWatermark(c)
  PROVE  Inv'
<1>1. CASE EndFlush(c) /\ (Fault \/ NoFault)
  BY <1>1, QuietEnd DEF ReadWatermark
<1>2. CASE /\ flush' = [flush EXCEPT ![c].pc = "tenant", ![c].eligible = AboveWatermark(c)]
           /\ UNCHANGED queueVars /\ NoFault
  <2> DEFINE f == [flush[c] EXCEPT !.pc = "tenant", !.eligible = AboveWatermark(c)]
  <2>1. flush[c] \in FlushState /\ ~flush[c].acked
    BY DEF Inv, TypeOK, GroupIsNewOrAnswered, ReadWatermark
  <2>2. AboveWatermark(c) \subseteq Delivery
    BY ElementsAreFinite DEF AboveWatermark, Inv, TypeOK, Queue!TypeOK
  <2>3. /\ f \in FlushState
        /\ f.pc = "tenant" /\ f.eligible = AboveWatermark(c) /\ f.acked = flush[c].acked
    BY <2>1, <2>2 DEF FlushState, Await
  <2>4. flush' = [flush EXCEPT ![c] = f]
    BY <1>2
  <2> HIDE DEF f
  <2>5. QED
    BY <1>2, <2>1, <2>3, <2>4, QuietGoOn DEF ReadWatermark
<1>3. QED
  BY <1>1, <1>2 DEF ReadWatermark

LEMMA ResolveTenantInv ==
  ASSUME Inv, RegistryFacts, RegistryFacts', Observe, NEW c \in Conv, ResolveTenant(c)
  PROVE  Inv'
BY QuietEnd, QuietContinue DEF ResolveTenant, Await

LEMMA ReadKillSwitchInv ==
  ASSUME Inv, RegistryFacts, RegistryFacts', Observe, NEW c \in Conv, ReadKillSwitch(c)
  PROVE  Inv'
<1>1. faults' # faults \/ ~Fault
  BY DEF Fault, Inv, TypeOK
<1>2. QED
  BY <1>1, QuietEnd, QuietContinue DEF ReadKillSwitch, KillSwitchStops, Await

LEMMA CheckOwnerInv ==
  ASSUME Inv, RegistryFacts, RegistryFacts', Observe, NEW c \in Conv, CheckOwner(c)
  PROVE  Inv'
BY QuietEnd, QuietContinue DEF CheckOwner, OwnedByBot, Await

LEMMA RecheckOwnerInv ==
  ASSUME Inv, RegistryFacts, RegistryFacts', Observe, NEW c \in Conv, RecheckOwner(c)
  PROVE  Inv'
BY QuietEnd, QuietContinue DEF RecheckOwner, Await

LEMMA CheckOwnerOfFailedInv ==
  ASSUME Inv, RegistryFacts, RegistryFacts', Observe, NEW c \in Conv, CheckOwnerOfFailed(c)
  PROVE  Inv'
BY QuietEnd, QuietContinue DEF CheckOwnerOfFailed, Await

LEMMA PostErrorNoteInv ==
  ASSUME Inv, RegistryFacts, RegistryFacts', Observe, NEW c \in Conv, PostErrorNote(c)
  PROVE  Inv'
BY QuietEnd DEF PostErrorNote, NoFault, bounds
-------------------------------------------------------------------------------
\* A step of someone else: flushes, answers and the turns in flight stay.
LEMMA OutsideInv ==
  ASSUME Inv, RegistryFacts', Observe,
         UNCHANGED <<flush, watermark, answerVars, restarts, registry, turnConv, settled>>,
         Fault \/ NoFault, Queue!TypeOK', FlushHasBatch', killSwitch' \in BOOLEAN,
         hook' \in [Delivery -> {"unsent", "sent", "skipped", "buffered"}]
  PROVE  Inv'
<1>1. GroupIsNewOrAnswered' /\ WatermarkIsAnswered' /\ AnsweredIsCovered'
  BY AnswersStay DEF answerVars
<1>2. /\ late' \in [Conv -> Nat]
      /\ offSeen' \in [Conv -> BOOLEAN]
      /\ NoneOnTheWay' /\ OneReplyPerHumanPeriod' /\ OffWasSeen'
  BY HistoriesFollow DEF answerVars
<1>3. TurnIsOwn' /\ OwnTurnTracked'
  BY DEF Inv, TurnIsOwn, OwnTurnTracked, Handoff!InFlight, Handoff!Begun
<1>4. TypeOK'
  BY <1>2, FaultBounds DEF Inv, TypeOK, RegistryFacts, answerVars
<1>5. QED
  BY <1>1, <1>2, <1>3, <1>4 DEF Inv

LEMMA SendInv ==
  ASSUME Inv, RegistryFacts', Observe, NEW d \in Delivery, Send(d)
  PROVE  Inv'
<1>1. /\ UNCHANGED <<queueVars, handoffVars, flush, watermark, killSwitch, bounds, answerVars>>
      /\ hook' \in [Delivery -> {"unsent", "sent", "skipped", "buffered"}]
  BY DEF Send, Inv, TypeOK
<1>2. Queue!TypeOK' /\ FlushHasBatch'
  BY <1>1 DEF Inv, TypeOK, Queue!TypeOK, FlushHasBatch, queueVars, Queue!Elements
<1>3. NoFault /\ UNCHANGED <<restarts, registry, turnConv, settled>> /\ killSwitch' \in BOOLEAN
  BY <1>1 DEF Inv, TypeOK, NoFault, bounds, handoffVars, turnVars
<1>4. QED
  BY <1>1, <1>2, <1>3, OutsideInv

LEMMA BufferInv ==
  ASSUME Inv, RegistryFacts', Observe, NEW d \in Delivery, Buffer(d)
  PROVE  Inv'
<1>1. /\ UNCHANGED <<handoffVars, flush, watermark, killSwitch, restarts, answerVars>>
      /\ hook' \in [Delivery -> {"unsent", "sent", "skipped", "buffered"}]
      /\ Fault \/ NoFault
  BY DEF Buffer, Inv, TypeOK
<1>2. UNCHANGED <<registry, turnConv, settled>> /\ killSwitch' \in BOOLEAN
  BY <1>1 DEF Inv, TypeOK, handoffVars, turnVars
<1>3. Queue!TypeOK' /\ FlushHasBatch'
  <2>1. CASE UNCHANGED queueVars
    BY <1>1, <2>1 DEF Inv, TypeOK, Queue!TypeOK, FlushHasBatch, queueVars, Queue!Elements
  <2>2. CASE Queue!Put(d)
    <3> DEFINE c == ConvOf[d]
    <3>1. /\ c \in Conv
          /\ queue' = [queue EXCEPT ![c] = Append(@, d)]
          /\ UNCHANGED <<busy, done, lost>>
      BY <2>2, DeliveryAssumption DEF Queue!Put
    <3>2. queue \in [Conv -> Seq(Delivery)]
      BY DEF Inv, TypeOK, Queue!TypeOK
    <3>3. /\ Append(queue[c], d) \in Seq(Delivery)
          /\ Queue!Elements(Append(queue[c], d)) = Queue!Elements(queue[c]) \cup {d}
      BY <3>1, <3>2, ElementsOfAppend
    <3>4. \A b \in Conv : queue'[b] = IF b = c THEN Append(queue[c], d) ELSE queue[b]
      BY <3>1, <3>2
    <3>5. Queue!TypeOK'
      BY <3>1, <3>2, <3>3, <3>4 DEF Inv, TypeOK, Queue!TypeOK
    <3>6. \A b \in Conv : Queue!Elements(queue'[b]) \subseteq Queue!Elements(queue[b]) \cup {d}
                         /\ (b # c => Queue!Elements(queue'[b]) = Queue!Elements(queue[b]))
      BY <3>3, <3>4
    <3>7. FlushHasBatch'
      BY <1>1, <3>1, <3>6 DEF Inv, FlushHasBatch, Queue!Elements
    <3>8. QED
      BY <3>5, <3>7
  <2>3. QED
    BY <2>1, <2>2 DEF Buffer
<1>4. QED
  BY <1>1, <1>2, <1>3, OutsideInv

LEMMA HandoffRouteInv ==
  ASSUME Inv, RegistryFacts', Observe, HandoffRoute
  PROVE  Inv'
<1>1. UNCHANGED <<queueVars, hook, flush, watermark, killSwitch, bounds, answerVars>>
  BY DEF HandoffRoute
<1>2. UNCHANGED <<registry, turnConv, settled>>
  BY DEF HandoffRoute, Handoff!HandoffReceive, Handoff!HandoffStep, Handoff!HandoffToggled,
         Handoff!HandoffLabelled, Handoff!HandoffNoted, Handoff!HandoffFails,
         Handoff!StatusChange, Handoff!turnVars
<1>3. Queue!TypeOK' /\ FlushHasBatch'
  BY <1>1 DEF Inv, TypeOK, Queue!TypeOK, FlushHasBatch, queueVars, Queue!Elements
<1>4. /\ NoFault /\ UNCHANGED restarts /\ killSwitch' \in BOOLEAN
      /\ hook' \in [Delivery -> {"unsent", "sent", "skipped", "buffered"}]
  BY <1>1 DEF Inv, TypeOK, NoFault, bounds
<1>5. QED
  BY <1>1, <1>2, <1>3, <1>4, OutsideInv

LEMMA FlipKillSwitchInv ==
  ASSUME Inv, RegistryFacts', Observe, FlipKillSwitch
  PROVE  Inv'
<1>1. /\ UNCHANGED <<queueVars, handoffVars, hook, flush, watermark, bounds, answerVars>>
      /\ killSwitch' \in BOOLEAN
  BY DEF FlipKillSwitch, Inv, TypeOK
<1>2. Queue!TypeOK' /\ FlushHasBatch'
  BY <1>1 DEF Inv, TypeOK, Queue!TypeOK, FlushHasBatch, queueVars, Queue!Elements
<1>3. /\ NoFault /\ UNCHANGED <<restarts, registry, turnConv, settled>>
      /\ hook' \in [Delivery -> {"unsent", "sent", "skipped", "buffered"}]
  BY <1>1 DEF Inv, TypeOK, NoFault, bounds, handoffVars, turnVars
<1>4. QED
  BY <1>1, <1>2, <1>3, OutsideInv
-------------------------------------------------------------------------------
LEMMA StartFlushInv ==
  ASSUME Inv, RegistryFacts', Observe, NEW c \in Conv, StartFlush(c)
  PROVE  Inv'
<1> DEFINE f == [flush[c] EXCEPT !.pc = "watermark"]
<1>1. /\ UNCHANGED <<handoffVars, hook, watermark, killSwitch, bounds, answerVars>>
      /\ UNCHANGED <<registry, turnConv, settled, status, done, lost, faults, restarts>>
      /\ queue[c] # <<>> /\ busy[c] = <<>>
      /\ busy' = [busy EXCEPT ![c] = queue[c]]
      /\ queue' = [queue EXCEPT ![c] = <<>>]
      /\ flush' = [flush EXCEPT ![c] = f]
  BY DEF StartFlush, Queue!Take, Queue!MayTake, handoffVars, turnVars, bounds
<1>2. /\ queue \in [Conv -> Seq(Delivery)] /\ busy \in [Conv -> Seq(Delivery)]
      /\ flush \in [Conv -> FlushState]
  BY DEF Inv, TypeOK, Queue!TypeOK
<1>3. /\ f \in FlushState
      /\ f.pc = "watermark" /\ f.eligible = flush[c].eligible /\ f.acked = flush[c].acked
  BY <1>2 DEF FlushState, Await
<1> HIDE DEF f
<1>4. flush'[c] = f /\ \A b \in Conv \ {c} : flush'[b] = flush[b]
  BY <1>1, <1>2
<1>5. flush[c].pc = "idle" /\ flush[c].eligible = {}
  <2>1. Queue!Elements(<<>>) = {}
    BY DEF Queue!Elements
  <2>2. QED
    BY <1>1, <2>1 DEF Inv, FlushHasBatch
<1>6. Queue!TypeOK' /\ flush' \in [Conv -> FlushState]
  <2>1. <<>> \in Seq(Delivery)
    OBVIOUS
  <2>2. QED
    BY <1>1, <1>2, <1>3, <2>1 DEF Inv, TypeOK, Queue!TypeOK
<1>7. FlushHasBatch'
  <2> SUFFICES ASSUME NEW b \in Conv
               PROVE  /\ flush'[b].pc = "idle" <=> busy'[b] = <<>>
                      /\ flush'[b].eligible \subseteq Queue!Elements(busy'[b])
                      /\ \A d \in Queue!Elements(queue'[b]) \cup Queue!Elements(busy'[b]) :
                           ConvOf[d] = b
    BY DEF FlushHasBatch, Queue!Elements
  <2>1. CASE b = c
    <3>1. queue'[c] = <<>> /\ busy'[c] = queue[c]
      BY <1>1, <1>2
    <3>2. Queue!Elements(<<>>) = {}
      BY DEF Queue!Elements
    <3>3. QED
      BY <1>1, <1>3, <1>4, <1>5, <2>1, <3>1, <3>2 DEF Inv, FlushHasBatch
  <2>2. CASE b # c
    BY <1>1, <1>2, <1>4, <2>2 DEF Inv, FlushHasBatch
  <2>3. QED
    BY <2>1, <2>2
<1>8. TurnIsOwn' /\ OwnTurnTracked'
  <2>1. Handoff!InFlight' = Handoff!InFlight
    BY <1>1 DEF Handoff!InFlight, Handoff!Begun
  <2>2. QED
    BY <1>1, <1>3, <1>4, <1>5, <2>1 DEF Inv, TurnIsOwn, OwnTurnTracked
<1>9. GroupIsNewOrAnswered' /\ WatermarkIsAnswered' /\ AnsweredIsCovered'
  BY <1>1, <1>3, <1>4, <1>5, AnswersStay DEF answerVars
<1>10. /\ late' \in [Conv -> Nat]
       /\ offSeen' \in [Conv -> BOOLEAN]
       /\ NoneOnTheWay' /\ OneReplyPerHumanPeriod' /\ OffWasSeen'
  BY <1>1, <1>3, <1>4, HistoriesFollow DEF answerVars
<1>11. TypeOK'
  BY <1>1, <1>6, <1>10 DEF Inv, TypeOK, RegistryFacts, answerVars
<1>12. QED
  BY <1>7, <1>8, <1>9, <1>10, <1>11 DEF Inv

\* The new turn is begun under the conversation's own entry, which was free.
LEMMA CallDifyInv ==
  ASSUME Inv, RegistryFacts, RegistryFacts', Observe, NEW c \in Conv, CallDify(c)
  PROVE  Inv'
<1>1. CASE EndFlush(c) /\ Fault /\ UNCHANGED turnVars
  <2>1. UNCHANGED handoffVars
    BY <1>1 DEF CallDify, handoffVars
  <2>2. QED
    BY <1>1, <2>1, QuietEnd DEF CallDify
<1>2. ASSUME NEW t \in Turn, Handoff!BeginDifyTurn(t, c), UNCHANGED queueVars, NoFault,
             flush' = [flush EXCEPT ![c].pc = "dify", ![c].turn = t]
      PROVE  Inv'
  <2> DEFINE f == [flush[c] EXCEPT !.pc = "dify", !.turn = t]
  <2>1. /\ flush[c].pc = "memory"
        /\ UNCHANGED <<status, call, hook, watermark, killSwitch, restarts, answerVars>>
        /\ flush' = [flush EXCEPT ![c] = f]
    BY <1>2 DEF CallDify
  <2>2. flush \in [Conv -> FlushState] /\ Handoff!TypeOK
    BY DEF Inv, TypeOK
  <2>3. /\ f \in FlushState /\ f.pc = "dify" /\ f.turn = t
        /\ f.eligible = flush[c].eligible /\ f.acked = flush[c].acked
    BY <2>2 DEF FlushState, Await
  <2> HIDE DEF f
  <2>4. flush'[c] = f /\ \A b \in Conv \ {c} : flush'[b] = flush[b]
    BY <2>1, <2>2
  <2>5. Queue!TypeOK' /\ flush' \in [Conv -> FlushState] /\ FlushHasBatch'
    BY <1>2, <2>1, <2>2, <2>3, <2>4
       DEF Inv, TypeOK, Queue!TypeOK, FlushHasBatch, queueVars, Queue!Elements
  <2>6. TurnIsOwn' /\ OwnTurnTracked'
    <3>1. /\ turnConv' = [turnConv EXCEPT ![t] = c] /\ turnConv[t] = None
          /\ registry' = registry \/ registry' = [registry EXCEPT ![c] = t]
          /\ UNCHANGED settled
          /\ registry[c] = None
      BY <1>2, <2>1 DEF Handoff!BeginDifyTurn, Handoff!Begun, Inv, OwnTurnTracked
    <3>2. turnConv'[t] = c /\ \A u \in Turn \ {t} : turnConv'[u] = turnConv[u]
      BY <2>2, <3>1 DEF Handoff!TypeOK
    <3>3. t \in Handoff!InFlight'
      BY <3>1, <3>2, HandoffAssumption
         DEF Handoff!InFlight, Handoff!Begun, RegistryFacts, Handoff!KnownHaveBegun
    <3>4. \A u \in Handoff!InFlight : u # t /\ u \in Handoff!InFlight'
      BY <3>1, <3>2 DEF Handoff!InFlight, Handoff!Begun
    <3>5. \A b \in Conv \ {c} : registry'[b] = registry[b]
      BY <2>2, <3>1 DEF Handoff!TypeOK
    <3>6. registry'[c] \in {None, t}
      BY <2>2, <3>1 DEF Handoff!TypeOK
    <3>7. OwnTurnTracked'
      BY <2>3, <2>4, <3>3, <3>4, <3>5, <3>6 DEF Inv, OwnTurnTracked
    <3>8. TurnIsOwn'
      BY <2>3, <2>4, <3>2, <3>4 DEF Inv, TurnIsOwn, OwnTurnTracked, Handoff!InFlight
    <3>9. QED
      BY <3>7, <3>8
  <2>7. GroupIsNewOrAnswered' /\ WatermarkIsAnswered' /\ AnsweredIsCovered'
    BY <2>1, <2>3, <2>4, AnswersStay DEF answerVars
  <2>8. /\ late' \in [Conv -> Nat]
        /\ offSeen' \in [Conv -> BOOLEAN]
        /\ NoneOnTheWay' /\ OneReplyPerHumanPeriod' /\ OffWasSeen'
    BY <2>1, <2>3, <2>4, HistoriesFollow DEF answerVars
  <2>9. TypeOK'
    BY <1>2, <2>1, <2>5, <2>8, FaultBounds DEF Inv, TypeOK, RegistryFacts, answerVars
  <2>10. QED
    BY <2>5, <2>6, <2>7, <2>8, <2>9 DEF Inv
<1>3. QED
  BY <1>1, <1>2 DEF CallDify

\* The turn that ends is the flush's own, so no other flush loses its entry.
LEMMA DifySettlesInv ==
  ASSUME Inv, RegistryFacts, RegistryFacts', Observe, NEW c \in Conv, DifySettles(c)
  PROVE  Inv'
<1>1. PICK next \in {"recheck", "errOwner"} : Continue(c, next) /\ (Fault \/ NoFault)
  BY DEF DifySettles
<1> DEFINE f == [flush[c] EXCEPT !.pc = next]
           t == flush[c].turn
<1>2. /\ flush[c].pc = "dify" /\ Handoff!Finish(t)
      /\ UNCHANGED <<status, call, hook, watermark, killSwitch, restarts, answerVars>>
      /\ UNCHANGED queueVars /\ flush' = [flush EXCEPT ![c] = f]
  BY <1>1 DEF DifySettles, Continue
<1>3. flush \in [Conv -> FlushState] /\ Handoff!TypeOK
  BY DEF Inv, TypeOK
<1>4. /\ f \in FlushState /\ f.pc = next
      /\ f.eligible = flush[c].eligible /\ f.acked = flush[c].acked
  BY <1>3 DEF FlushState, Await
<1> HIDE DEF f
<1>5. flush'[c] = f /\ \A b \in Conv \ {c} : flush'[b] = flush[b]
  BY <1>2, <1>3
<1>6. Queue!TypeOK' /\ flush' \in [Conv -> FlushState] /\ FlushHasBatch'
  BY <1>2, <1>3, <1>4, <1>5
     DEF Inv, TypeOK, Queue!TypeOK, FlushHasBatch, queueVars, Queue!Elements
<1>7. TurnIsOwn' /\ OwnTurnTracked'
  <2>1. /\ turnConv[t] = c /\ t \in Handoff!InFlight
        /\ registry[c] # None => registry[c] = t
    BY <1>2 DEF Inv, TurnIsOwn, OwnTurnTracked
  <2>2. /\ registry' = IF registry[c] = t THEN [registry EXCEPT ![c] = None] ELSE registry
        /\ settled' = settled \cup {t} /\ UNCHANGED turnConv
    BY <1>2, <2>1 DEF Handoff!Finish, Handoff!AfterFinish
  <2>3. registry'[c] = None /\ \A b \in Conv \ {c} : registry'[b] = registry[b]
    BY <1>3, <2>1, <2>2 DEF Handoff!TypeOK
  <2>4. \A u \in Handoff!InFlight \ {t} : u \in Handoff!InFlight'
    BY <2>2 DEF Handoff!InFlight, Handoff!Begun
  <2>5. \A b \in Conv \ {c} : flush[b].pc = "dify" => flush[b].turn # t
    BY <2>1 DEF Inv, TurnIsOwn
  <2>6. QED
    BY <1>4, <1>5, <2>2, <2>3, <2>4, <2>5 DEF Inv, TurnIsOwn, OwnTurnTracked
<1>8. GroupIsNewOrAnswered' /\ WatermarkIsAnswered' /\ AnsweredIsCovered'
  BY <1>2, <1>4, <1>5, AnswersStay DEF answerVars
<1>9. /\ late' \in [Conv -> Nat]
      /\ offSeen' \in [Conv -> BOOLEAN]
      /\ NoneOnTheWay' /\ OneReplyPerHumanPeriod' /\ OffWasSeen'
  BY <1>2, <1>4, <1>5, HistoriesFollow DEF answerVars
<1>10. TypeOK'
  BY <1>1, <1>2, <1>6, <1>9, FaultBounds DEF Inv, TypeOK, RegistryFacts, answerVars
<1>11. QED
  BY <1>6, <1>7, <1>8, <1>9, <1>10 DEF Inv
-------------------------------------------------------------------------------
\* The histories after a reply: it is the first of its period, and the flush that
\* posted it is not on its way to another.
LEMMA HistoriesOfReply ==
  ASSUME Inv, Observe, NEW c \in Conv, flush[c].pc = "post", Reply(c), UNCHANGED status,
         flush'[c].pc \in {"persist", "idle", "errOwner"},
         \A b \in Conv \ {c} : flush'[b] = flush[b]
  PROVE  /\ replies' \in [Conv -> Nat]
         /\ late' \in [Conv -> Nat]
         /\ offSeen' \in [Conv -> BOOLEAN]
         /\ NoneOnTheWay' /\ OneReplyPerHumanPeriod' /\ OffWasSeen'
<1> USE DEF Inv, TypeOK
<1>1. /\ replies' \in [Conv -> Nat]
      /\ replies'[c] - replies[c] = 1
      /\ \A b \in Conv \ {c} : replies'[b] - replies[b] = 0
  BY DEF Reply
<1>2. late[c] = 0
  BY DEF NoneOnTheWay
<1>3. /\ late'[c] = IF status'[c] = "pending" THEN 0 ELSE 1
      /\ \A b \in Conv \ {c} : late'[b] = IF status'[b] = "pending" THEN 0 ELSE late[b]
  BY <1>1, <1>2 DEF Observe
<1>4. late' \in [Conv -> Nat]
  BY <1>3 DEF Observe
<1>5. NoneOnTheWay' /\ OneReplyPerHumanPeriod'
  BY <1>3 DEF NoneOnTheWay, OneReplyPerHumanPeriod
<1>6. offSeen' \in [Conv -> BOOLEAN] /\ OffWasSeen'
  BY DEF OffWasSeen, Observe
<1>7. QED
  BY <1>1, <1>4, <1>5, <1>6

\* The answers after a reply: the group is acknowledged and its watermark comes
\* next, or its ids are at risk.
LEMMA AnswersOfReply ==
  ASSUME Inv, NEW c \in Conv, flush[c].pc = "post", Reply(c),
         UNCHANGED watermark, risk \subseteq risk',
         \A b \in Conv \ {c} : flush'[b] = flush[b],
         \/ /\ flush'[c].acked /\ flush'[c].pc = "persist"
            /\ flush'[c].eligible = flush[c].eligible /\ Ids(flush[c].eligible) # {}
         \/ /\ ~flush'[c].acked /\ flush'[c].pc # "persist"
            /\ flush'[c].eligible \subseteq flush[c].eligible
            /\ Ids(flush[c].eligible) \subseteq risk'
  PROVE  GroupIsNewOrAnswered' /\ WatermarkIsAnswered' /\ AnsweredIsCovered'
<1> USE DEF Inv
<1>1. /\ answered' = answered \cup Ids(flush[c].eligible)
      /\ ~flush[c].acked
  BY DEF Reply, GroupIsNewOrAnswered
<1>2. GroupIsNewOrAnswered'
  BY <1>1 DEF GroupIsNewOrAnswered, Ids
<1>3. WatermarkIsAnswered'
  BY <1>1 DEF WatermarkIsAnswered
<1>4. AnsweredIsCovered'
  <2> SUFFICES ASSUME NEW d \in Delivery, IdOf[d] \in answered'
               PROVE  \/ IdOf[d] <= watermark[ConvOf[d]]
                      \/ IdOf[d] \in risk'
                      \/ /\ flush'[ConvOf[d]].acked
                         /\ IdOf[d] \in Ids(flush'[ConvOf[d]].eligible)
    BY DEF AnsweredIsCovered, Ids
  <2>1. ConvOf[d] \in Conv
    BY DeliveryAssumption
  <2>2. CASE IdOf[d] \in answered
    BY <1>1, <2>1, <2>2 DEF AnsweredIsCovered
  <2>3. CASE IdOf[d] \in Ids(flush[c].eligible)
    <3>1. PICK e \in flush[c].eligible : IdOf[e] = IdOf[d] /\ IdOf[d] # 0
      BY <2>3 DEF Ids
    <3>2. e \in Delivery /\ ConvOf[e] = c
      BY <3>1 DEF FlushHasBatch, TypeOK, FlushState
    <3>3. ConvOf[d] = c
      BY <3>1, <3>2, IdAssumption
    <3>4. QED
      BY <2>3, <3>3
  <2>4. QED
    BY <1>1, <2>2, <2>3
<1>5. QED
  BY <1>2, <1>3, <1>4

LEMMA PostReplyInv ==
  ASSUME Inv, RegistryFacts, RegistryFacts', Observe, NEW c \in Conv, PostReply(c)
  PROVE  Inv'
<1>1. /\ flush[c].pc = "post"
      /\ UNCHANGED <<handoffVars, hook, watermark, killSwitch, restarts>>
      /\ UNCHANGED status
      /\ Fault \/ NoFault
  BY DEF PostReply, handoffVars
<1>2. /\ flush \in [Conv -> FlushState] /\ flush[c] \in FlushState
      /\ risk \subseteq Nat /\ answered \subseteq Nat /\ busy \in [Conv -> Seq(Delivery)]
  BY DEF Inv, TypeOK, Queue!TypeOK
<1>3. /\ flush[c].eligible \subseteq Delivery
      /\ IsFiniteSet(flush[c].eligible)
  <2>1. IsFiniteSet(Queue!Elements(busy[c])) /\ Queue!Elements(busy[c]) \subseteq Delivery
    BY <1>2, ElementsAreFinite
  <2>2. flush[c].eligible \subseteq Queue!Elements(busy[c])
    BY DEF Inv, FlushHasBatch
  <2>3. QED
    BY <2>1, <2>2, FS_Subset
<1>4. /\ Ids(flush[c].eligible) \subseteq Nat
      /\ MaxId(flush[c].eligible) \in Nat
      /\ MaxId(flush[c].eligible) > 0 <=> Ids(flush[c].eligible) # {}
  BY <1>3, MaxIdIsLargest
<1>5. ~flush[c].acked
  BY <1>1 DEF Inv, GroupIsNewOrAnswered
<1>6. ASSUME NEW f \in FlushState, flush' = [flush EXCEPT ![c] = f],
             f.pc \in {"persist", "errOwner"}, f.eligible = flush[c].eligible,
             UNCHANGED queueVars, Reply(c), risk \subseteq risk', risk' \subseteq Nat,
             \/ f.acked /\ f.pc = "persist" /\ Ids(flush[c].eligible) # {}
             \/ ~f.acked /\ f.pc = "errOwner" /\ Ids(flush[c].eligible) \subseteq risk'
      PROVE  Inv'
  <2>1. f.eligible \subseteq Queue!Elements(busy[c])
    BY <1>6 DEF Inv, FlushHasBatch
  <2>2. /\ Queue!TypeOK' /\ flush' \in [Conv -> FlushState]
        /\ FlushHasBatch' /\ TurnIsOwn' /\ OwnTurnTracked'
        /\ flush'[c] = f
        /\ \A b \in Conv \ {c} : flush'[b] = flush[b]
    BY <1>1, <1>6, <2>1, GoOnKeeps
  <2>3. GroupIsNewOrAnswered' /\ WatermarkIsAnswered' /\ AnsweredIsCovered'
    BY <1>1, <1>6, <2>2, AnswersOfReply
  <2>4. /\ replies' \in [Conv -> Nat] /\ late' \in [Conv -> Nat]
        /\ offSeen' \in [Conv -> BOOLEAN]
        /\ NoneOnTheWay' /\ OneReplyPerHumanPeriod' /\ OffWasSeen'
    BY <1>1, <1>6, <2>2, HistoriesOfReply
  <2>5. answered' \subseteq Nat
    BY <1>2, <1>4, <1>6 DEF Reply
  <2>6. TypeOK'
    BY <1>1, <1>6, <2>2, <2>4, <2>5, FaultBounds DEF Inv, TypeOK, RegistryFacts
  <2>7. QED
    BY <2>2, <2>3, <2>4, <2>6 DEF Inv
<1>7. CASE /\ Reply(c) /\ MaxId(flush[c].eligible) > 0
           /\ flush' = [flush EXCEPT ![c].pc = "persist", ![c].acked = TRUE]
           /\ UNCHANGED <<queueVars, risk>>
  <2> DEFINE f == [flush[c] EXCEPT !.pc = "persist", !.acked = TRUE]
  <2>1. /\ f \in FlushState /\ f.pc = "persist" /\ f.acked
        /\ f.eligible = flush[c].eligible
    BY <1>2 DEF FlushState, Await
  <2>2. flush' = [flush EXCEPT ![c] = f]
    BY <1>7
  <2> HIDE DEF f
  <2>3. QED
    BY <1>2, <1>4, <1>6, <1>7, <2>1, <2>2
<1>8. CASE /\ Reply(c) /\ ~(MaxId(flush[c].eligible) > 0)
           /\ EndFlush(c) /\ UNCHANGED risk
  <2>1. /\ Queue!TypeOK' /\ flush' \in [Conv -> FlushState]
        /\ FlushHasBatch' /\ TurnIsOwn' /\ OwnTurnTracked'
        /\ flush'[c] = NoFlush
        /\ \A b \in Conv \ {c} : flush'[b] = flush[b]
    BY <1>1, <1>8, EndFlushKeeps
  <2>2. GroupIsNewOrAnswered' /\ WatermarkIsAnswered' /\ AnsweredIsCovered'
    BY <1>1, <1>4, <1>8, <2>1, AnswersOfReply DEF NoFlush
  <2>3. /\ replies' \in [Conv -> Nat] /\ late' \in [Conv -> Nat]
        /\ offSeen' \in [Conv -> BOOLEAN]
        /\ NoneOnTheWay' /\ OneReplyPerHumanPeriod' /\ OffWasSeen'
    BY <1>1, <1>8, <2>1, HistoriesOfReply DEF NoFlush
  <2>4. answered' \subseteq Nat
    BY <1>2, <1>4, <1>8 DEF Reply
  <2>5. TypeOK'
    BY <1>1, <1>8, <2>1, <2>3, <2>4, FaultBounds DEF Inv, TypeOK, RegistryFacts
  <2>6. QED
    BY <2>1, <2>2, <2>3, <2>5 DEF Inv
<1>9. CASE /\ Reply(c) /\ risk' = risk \cup Ids(flush[c].eligible)
           /\ Continue(c, "errOwner")
  <2> DEFINE f == [flush[c] EXCEPT !.pc = "errOwner"]
  <2>1. /\ f \in FlushState /\ f.pc = "errOwner" /\ ~f.acked
        /\ f.eligible = flush[c].eligible
    BY <1>2, <1>5 DEF FlushState, Await
  <2>2. flush' = [flush EXCEPT ![c] = f] /\ UNCHANGED queueVars
    BY <1>9 DEF Continue
  <2> HIDE DEF f
  <2>3. QED
    BY <1>2, <1>4, <1>6, <1>9, <2>1, <2>2
<1>10. CASE Continue(c, "errOwner") /\ Fault /\ UNCHANGED answerVars
  BY <1>1, <1>10, QuietContinue DEF Await
<1>11. QED
  BY <1>7, <1>8, <1>9, <1>10 DEF PostReply
-------------------------------------------------------------------------------
\* The answers after an attempt to write the watermark: it names an answered
\* message, and the group is tried again, covered, or at risk.
LEMMA AnswersOfPersist ==
  ASSUME Inv, NEW c \in Conv, flush[c].pc = "persist",
         watermark' \in {watermark, AfterPersist(c)},
         UNCHANGED answered, risk \subseteq risk',
         \A b \in Conv \ {c} : flush'[b] = flush[b],
         \/ /\ flush'[c].acked /\ flush'[c].pc = "persist"
            /\ flush'[c].eligible = flush[c].eligible
         \/ /\ flush'[c] = NoFlush
            /\ watermark' = AfterPersist(c) \/ Ids(flush[c].eligible) \subseteq risk'
  PROVE  /\ watermark' \in [Conv -> Nat]
         /\ GroupIsNewOrAnswered' /\ WatermarkIsAnswered' /\ AnsweredIsCovered'
<1> DEFINE m == MaxId(flush[c].eligible)
<1> USE DEF Inv
<1>1. /\ flush[c] \in FlushState /\ watermark \in [Conv -> Nat]
      /\ busy \in [Conv -> Seq(Delivery)]
  BY DEF TypeOK, Queue!TypeOK
<1>2. /\ flush[c].acked
      /\ Ids(flush[c].eligible) # {} /\ Ids(flush[c].eligible) \subseteq answered
  BY DEF GroupIsNewOrAnswered
<1>3. flush[c].eligible \subseteq Delivery /\ IsFiniteSet(flush[c].eligible)
  <2>1. IsFiniteSet(Queue!Elements(busy[c])) /\ Queue!Elements(busy[c]) \subseteq Delivery
    BY <1>1, ElementsAreFinite
  <2>2. flush[c].eligible \subseteq Queue!Elements(busy[c])
    BY DEF FlushHasBatch
  <2>3. QED
    BY <2>1, <2>2, FS_Subset
<1>4. /\ m \in Nat /\ m \in Ids(flush[c].eligible)
      /\ \A i \in Ids(flush[c].eligible) : i \in Nat /\ i <= m
  BY <1>2, <1>3, MaxIdIsLargest
<1> HIDE DEF m
<1>5. /\ \A b \in Conv \ {c} : watermark'[b] = watermark[b]
      /\ watermark' \in [Conv -> Nat]
      /\ watermark'[c] \in {watermark[c], m}
      /\ watermark[c] <= watermark'[c]
      /\ watermark' = AfterPersist(c) => m <= watermark'[c]
  BY <1>1, <1>4 DEF AfterPersist, m
<1>6. GroupIsNewOrAnswered'
  BY <1>2, <1>5 DEF GroupIsNewOrAnswered, NoFlush, Ids
<1>7. WatermarkIsAnswered'
  BY <1>2, <1>4, <1>5 DEF WatermarkIsAnswered
<1>8. AnsweredIsCovered'
  <2> SUFFICES ASSUME NEW d \in Delivery, IdOf[d] \in answered
               PROVE  \/ IdOf[d] <= watermark'[ConvOf[d]]
                      \/ IdOf[d] \in risk'
                      \/ /\ flush'[ConvOf[d]].acked
                         /\ IdOf[d] \in Ids(flush'[ConvOf[d]].eligible)
    BY DEF AnsweredIsCovered, Ids
  <2>1. /\ ConvOf[d] \in Conv /\ IdOf[d] \in Nat
        /\ \/ IdOf[d] <= watermark[ConvOf[d]]
           \/ IdOf[d] \in risk
           \/ flush[ConvOf[d]].acked /\ IdOf[d] \in Ids(flush[ConvOf[d]].eligible)
    BY DeliveryAssumption DEF AnsweredIsCovered
  <2>2. CASE ConvOf[d] # c
    BY <1>5, <2>1, <2>2
  <2>3. CASE ConvOf[d] = c
    <3>1. CASE IdOf[d] <= watermark[c]
      BY <1>1, <1>5, <2>1, <2>3, <3>1
    <3>2. CASE IdOf[d] \in Ids(flush[c].eligible)
      <4>1. IdOf[d] <= m
        BY <1>4, <3>2
      <4>2. watermark' = AfterPersist(c) => IdOf[d] <= watermark'[c]
        BY <1>4, <1>5, <2>1, <4>1
      <4>3. QED
        BY <2>3, <3>2, <4>2
    <3>3. QED
      BY <2>1, <2>3, <3>1, <3>2
  <2>4. QED
    BY <2>2, <2>3
<1>9. QED
  BY <1>5, <1>6, <1>7, <1>8

LEMMA PersistWatermarkInv ==
  ASSUME Inv, RegistryFacts, RegistryFacts', Observe, NEW c \in Conv, PersistWatermark(c)
  PROVE  Inv'
<1>1. /\ flush[c].pc = "persist"
      /\ UNCHANGED <<handoffVars, hook, killSwitch, restarts, answered, replies>>
      /\ watermark' \in {watermark, AfterPersist(c)}
      /\ Fault \/ NoFault
  BY DEF PersistWatermark
<1>2. /\ flush \in [Conv -> FlushState] /\ flush[c] \in FlushState
      /\ flush[c].acked
      /\ Ids(flush[c].eligible) \subseteq Nat /\ risk \subseteq Nat
  BY <1>1 DEF Inv, TypeOK, GroupIsNewOrAnswered
<1>3. ASSUME EndFlush(c), risk \subseteq risk', risk' \subseteq Nat,
             watermark' = AfterPersist(c) \/ Ids(flush[c].eligible) \subseteq risk'
      PROVE  Inv'
  <2>1. /\ Queue!TypeOK' /\ flush' \in [Conv -> FlushState]
        /\ FlushHasBatch' /\ TurnIsOwn' /\ OwnTurnTracked'
        /\ flush'[c] = NoFlush
        /\ \A b \in Conv \ {c} : flush'[b] = flush[b]
    BY <1>1, <1>3, EndFlushKeeps
  <2>2. /\ watermark' \in [Conv -> Nat]
        /\ GroupIsNewOrAnswered' /\ WatermarkIsAnswered' /\ AnsweredIsCovered'
    BY <1>1, <1>3, <2>1, AnswersOfPersist
  <2>3. /\ late' \in [Conv -> Nat] /\ offSeen' \in [Conv -> BOOLEAN]
        /\ NoneOnTheWay' /\ OneReplyPerHumanPeriod' /\ OffWasSeen'
    BY <1>1, <2>1, HistoriesFollow DEF NoFlush
  <2>4. TypeOK'
    BY <1>1, <1>3, <2>1, <2>2, <2>3, FaultBounds DEF Inv, TypeOK, RegistryFacts
  <2>5. QED
    BY <2>1, <2>2, <2>3, <2>4 DEF Inv
<1>4. CASE /\ MayRetry(c) /\ flush' = [flush EXCEPT ![c].tries = @ + 1]
           /\ UNCHANGED <<queueVars, risk>>
  <2> DEFINE f == [flush[c] EXCEPT !.tries = @ + 1]
  <2>1. /\ f \in FlushState /\ f.pc = "persist" /\ f.acked
        /\ f.eligible = flush[c].eligible
    BY <1>1, <1>2, <1>4 DEF FlushState, MayRetry
  <2>2. flush' = [flush EXCEPT ![c] = f]
    BY <1>4
  <2> HIDE DEF f
  <2>3. f.eligible \subseteq Queue!Elements(busy[c])
    BY <2>1 DEF Inv, FlushHasBatch
  <2>4. /\ Queue!TypeOK' /\ flush' \in [Conv -> FlushState]
        /\ FlushHasBatch' /\ TurnIsOwn' /\ OwnTurnTracked'
        /\ flush'[c] = f
        /\ \A b \in Conv \ {c} : flush'[b] = flush[b]
    BY <1>1, <1>4, <2>1, <2>2, <2>3, GoOnKeeps
  <2>5. /\ watermark' \in [Conv -> Nat]
        /\ GroupIsNewOrAnswered' /\ WatermarkIsAnswered' /\ AnsweredIsCovered'
    BY <1>1, <1>4, <2>1, <2>4, AnswersOfPersist
  <2>6. /\ late' \in [Conv -> Nat] /\ offSeen' \in [Conv -> BOOLEAN]
        /\ NoneOnTheWay' /\ OneReplyPerHumanPeriod' /\ OffWasSeen'
    BY <1>1, <2>1, <2>4, HistoriesFollow
  <2>7. TypeOK'
    BY <1>1, <1>4, <2>4, <2>5, <2>6, FaultBounds DEF Inv, TypeOK, RegistryFacts
  <2>8. QED
    BY <2>4, <2>5, <2>6, <2>7 DEF Inv
<1>5. CASE EndFlush(c) /\ watermark' = AfterPersist(c) /\ UNCHANGED risk
  BY <1>2, <1>3, <1>5
<1>6. CASE EndFlush(c) /\ risk' = risk \cup Ids(flush[c].eligible)
  BY <1>2, <1>3, <1>6
<1>7. QED
  BY <1>4, <1>5, <1>6 DEF PersistWatermark, GiveUp

LEMMA RestartInv ==
  ASSUME Inv, RegistryFacts', Observe, Restart
  PROVE  Inv'
<1>1. /\ flush' = [c \in Conv |-> NoFlush]
      /\ queue' = [c \in Conv |-> <<>>] /\ busy' = [c \in Conv |-> <<>>]
      /\ registry' = [c \in Conv |-> None]
      /\ lost' = lost \cup {d \in Delivery : Queue!Held(d)} /\ UNCHANGED done
      /\ UNCHANGED <<hook, watermark, killSwitch, faults, answered, replies>>
      /\ restarts' = restarts + 1 /\ restarts < MaxRestarts
  BY DEF Restart, Queue!Restart, Handoff!Restart
<1>2. risk \subseteq risk' /\ risk' \subseteq Nat
      /\ \A c \in Conv : flush[c].acked => Ids(flush[c].eligible) \subseteq risk'
  BY DEF Restart, Inv, TypeOK, GroupIsNewOrAnswered
<1>3. /\ NoFlush \in FlushState
      /\ NoFlush.pc = "idle" /\ NoFlush.eligible = {} /\ ~NoFlush.acked
  BY DEF NoFlush, FlushState, Await
<1>4. GroupIsNewOrAnswered' /\ WatermarkIsAnswered' /\ AnsweredIsCovered'
  BY <1>1, <1>2, <1>3, AnswersStay
<1>5. /\ late' \in [Conv -> Nat] /\ offSeen' \in [Conv -> BOOLEAN]
      /\ NoneOnTheWay' /\ OneReplyPerHumanPeriod' /\ OffWasSeen'
  BY <1>1, <1>3, HistoriesFollow
<1>6. FlushHasBatch'
  <2>1. Queue!Elements(<<>>) = {}
    BY DEF Queue!Elements
  <2>2. QED
    BY <1>1, <1>3, <2>1 DEF FlushHasBatch, Queue!Elements
<1>7. TurnIsOwn' /\ OwnTurnTracked'
  BY <1>1, <1>3 DEF TurnIsOwn, OwnTurnTracked
<1>8. TypeOK'
  <2>1. Queue!TypeOK'
    BY <1>1 DEF Inv, TypeOK, Queue!TypeOK
  <2>2. flush' \in [Conv -> FlushState]
    BY <1>1, <1>3
  <2>3. restarts' \in 0 .. MaxRestarts
    BY <1>1, BoundAssumption DEF Inv, TypeOK
  <2>4. QED
    BY <1>1, <1>2, <1>5, <2>1, <2>2, <2>3 DEF Inv, TypeOK, RegistryFacts
<1>9. QED
  BY <1>4, <1>5, <1>6, <1>7, <1>8 DEF Inv

LEMMA StutterInv == Inv /\ UNCHANGED vars => Inv'
<1> SUFFICES ASSUME Inv, UNCHANGED vars PROVE Inv'
  OBVIOUS
<1> USE DEF Inv, vars, queueVars, handoffVars, turnVars, bounds, answerVars, ghosts
<1>1. TypeOK'
  BY DEF TypeOK, Queue!TypeOK, Handoff!TypeOK
<1>2. FlushHasBatch' /\ GroupIsNewOrAnswered'
  BY DEF FlushHasBatch, GroupIsNewOrAnswered, Queue!Elements, Ids
<1>3. TurnIsOwn' /\ OwnTurnTracked'
  BY DEF TurnIsOwn, OwnTurnTracked, Handoff!InFlight, Handoff!Begun
<1>4. WatermarkIsAnswered' /\ AnsweredIsCovered'
  BY DEF WatermarkIsAnswered, AnsweredIsCovered, Ids
<1>5. NoneOnTheWay' /\ OneReplyPerHumanPeriod' /\ OffWasSeen'
  BY DEF NoneOnTheWay, OneReplyPerHumanPeriod, OffWasSeen
<1>6. QED
  BY <1>1, <1>2, <1>3, <1>4, <1>5

LEMMA NextInv == Inv /\ RegistryFacts /\ RegistryFacts' /\ [Next]_vars => Inv'
<1> SUFFICES ASSUME Inv, RegistryFacts, RegistryFacts', [Next]_vars PROVE Inv'
  OBVIOUS
<1>1. ASSUME NEW d \in Delivery, Send(d) \/ Buffer(d), Observe PROVE Inv'
  BY <1>1, SendInv, BufferInv
<1>2. ASSUME NEW c \in Conv, StartFlush(c) \/ DifySettles(c), Observe PROVE Inv'
  BY <1>2, StartFlushInv, DifySettlesInv
<1>3. ASSUME NEW c \in Conv, FlushStep(c), Observe PROVE Inv'
  BY <1>3, ReadWatermarkInv, ResolveTenantInv, ReadKillSwitchInv, CheckOwnerInv, CallDifyInv,
     RecheckOwnerInv, PostReplyInv, PersistWatermarkInv, CheckOwnerOfFailedInv, PostErrorNoteInv
     DEF FlushStep
<1>4. ASSUME HandoffRoute \/ FlipKillSwitch \/ Restart, Observe PROVE Inv'
  BY <1>4, HandoffRouteInv, FlipKillSwitchInv, RestartInv
<1>5. CASE UNCHANGED vars
  BY <1>5, StutterInv
<1>6. QED
  BY <1>1, <1>2, <1>3, <1>4, <1>5 DEF Next, Step

\* The inductive invariant holds throughout every behaviour.
THEOREM InvIsInvariant == Spec => []Inv
<1>1. QED
  BY InitInv, NextInv, RegistryFactsHold, PTL DEF Spec

\* Every variable keeps its type.
THEOREM TypeCorrect == Spec => []TypeOK
<1>1. Inv => TypeOK
  BY DEF Inv
<1>2. QED
  BY <1>1, InvIsInvariant, PTL

\* No failed or suppressed reply advances the watermark: the row names an answered
\* message.  (flushGroup, the post before the persist)
THEOREM WatermarksNameAnswers == Spec => []WatermarkIsAnswered
<1>1. Inv => WatermarkIsAnswered
  BY DEF Inv
<1>2. QED
  BY <1>1, InvIsInvariant, PTL

\* Whatever was answered is below the watermark, being written to it, or of the
\* residual risk.  (persistWatermarkResilient)
THEOREM AnswersAreCovered == Spec => []AnsweredIsCovered
<1>1. Inv => AnsweredIsCovered
  BY DEF Inv
<1>2. QED
  BY <1>1, InvIsInvariant, PTL

\* However flushes, handoffs and people interleave, the bot posts one reply at most
\* after a conversation has left "pending".  (the two ownership checks)
THEOREM HumansAreLeftAlone == Spec => []OneReplyPerHumanPeriod
<1>1. Inv => OneReplyPerHumanPeriod
  BY DEF Inv
<1>2. QED
  BY <1>1, InvIsInvariant, PTL

\* No error note follows an acknowledged reply.  (persistWatermarkResilient)
THEOREM NoNoteFollowsAck == Spec => []NoNoteAfterAck
<1>1. Inv => NoNoteAfterAck
  BY DEF Inv, GroupIsNewOrAnswered, NoNoteAfterAck
<1>2. QED
  BY <1>1, InvIsInvariant, PTL

\* The registry's entry for a conversation is the turn of its running Dify call.
\* (beginDifyTurn and the finally that ends the turn)
THEOREM TurnsAreOwn == Spec => []OwnTurnTracked
<1>1. Inv => OwnTurnTracked
  BY DEF Inv
<1>2. QED
  BY <1>1, InvIsInvariant, PTL

\* What a step that posts a reply, or calls Dify, has come from.
LEMMA PostingStep ==
  ASSUME Inv, [Next]_vars, NEW c \in Conv
  PROVE  /\ replies'[c] # replies[c] => flush[c].pc = "post"
         /\ flush[c].pc # "dify" /\ flush'[c].pc = "dify" => flush[c].pc = "memory"
<1> DEFINE Goal == /\ replies'[c] # replies[c] => flush[c].pc = "post"
                   /\ flush[c].pc # "dify" /\ flush'[c].pc = "dify" => flush[c].pc = "memory"
<1> USE DEF answerVars, NoFlush
<1>0. /\ flush \in [Conv -> FlushState] /\ replies \in [Conv -> Nat]
      /\ \A b \in Conv : DOMAIN flush[b] = {"pc", "eligible", "turn", "tries", "acked"}
  BY DEF Inv, TypeOK, FlushState
<1>1. ASSUME NEW d \in Delivery, Send(d) \/ Buffer(d) PROVE Goal
  BY <1>1 DEF Send, Buffer
<1>2. ASSUME NEW b \in Conv, StartFlush(b) \/ DifySettles(b) PROVE Goal
  BY <1>0, <1>2 DEF StartFlush, DifySettles, Continue
<1>3. ASSUME NEW b \in Conv, PostReply(b) PROVE Goal
  BY <1>0, <1>3 DEF PostReply, Reply, EndFlush, Continue
<1>4. ASSUME NEW b \in Conv, FlushStep(b), ~PostReply(b), ~CallDify(b) PROVE Goal
  <2>1. UNCHANGED replies
    BY <1>4 DEF FlushStep, ReadWatermark, ResolveTenant, ReadKillSwitch, CheckOwner,
                RecheckOwner, PersistWatermark, CheckOwnerOfFailed, PostErrorNote
  <2>2. flush'[c].pc # "dify" \/ flush'[c].pc = flush[c].pc
    <3>1. CASE EndFlush(b)
      BY <1>0, <3>1 DEF EndFlush
    <3>2. ASSUME NEW next \in Await \ {"dify"}, Continue(b, next)
          PROVE  <2>2
      BY <1>0, <3>2 DEF Continue
    <3>3. CASE ReadWatermark(b)
      BY <1>0, <3>1, <3>3 DEF ReadWatermark
    <3>4. CASE PersistWatermark(b)
      BY <1>0, <3>1, <3>4 DEF PersistWatermark, GiveUp
    <3>5. CASE \/ ResolveTenant(b) \/ ReadKillSwitch(b) \/ CheckOwner(b)
               \/ RecheckOwner(b) \/ CheckOwnerOfFailed(b) \/ PostErrorNote(b)
      <4>1. EndFlush(b) \/ \E next \in Await \ {"dify"} : Continue(b, next)
        BY <3>5 DEF ResolveTenant, ReadKillSwitch, CheckOwner, RecheckOwner,
                    CheckOwnerOfFailed, PostErrorNote, Await
      <4>2. QED
        BY <3>1, <3>2, <4>1
    <3>6. QED
      BY <1>4, <3>3, <3>4, <3>5 DEF FlushStep
  <2>3. QED
    BY <2>1, <2>2
<1>5. ASSUME NEW b \in Conv, CallDify(b) PROVE Goal
  BY <1>0, <1>5 DEF CallDify, EndFlush
<1>6. ASSUME HandoffRoute \/ FlipKillSwitch \/ Restart PROVE Goal
  BY <1>6 DEF HandoffRoute, FlipKillSwitch, Restart
<1>7. CASE UNCHANGED vars
  BY <1>7 DEF vars
<1>8. QED
  BY <1>1, <1>2, <1>3, <1>4, <1>5, <1>6, <1>7 DEF Next, Step

\* No message is answered twice, in whatever order webhooks, redeliveries, flushes,
\* failures and restarts come, unless its first answer is of the residual risk.
\* (flushGroup's filter and persistWatermarkResilient)
THEOREM NothingIsAnsweredTwice == Spec => AnsweredOnce
<1>1. Inv /\ [Next]_vars =>
        [\A c \in Conv : replies'[c] # replies[c] =>
           Ids(flush[c].eligible) \cap answered \subseteq risk]_vars
  <2> SUFFICES ASSUME Inv, [Next]_vars, NEW c \in Conv, replies'[c] # replies[c],
                      NEW i \in Ids(flush[c].eligible) \cap answered
               PROVE  i \in risk
    OBVIOUS
  <2>1. flush[c].pc = "post" /\ ~flush[c].acked
    BY PostingStep DEF Inv, GroupIsNewOrAnswered
  <2>2. PICK d \in flush[c].eligible : IdOf[d] = i /\ i # 0
    BY DEF Ids
  <2>3. d \in Delivery /\ ConvOf[d] = c
    BY DEF Inv, TypeOK, FlushState, FlushHasBatch
  <2>4. i > watermark[c]
    BY <2>1, <2>2 DEF Inv, GroupIsNewOrAnswered
  <2>5. i \in Nat /\ watermark[c] \in Nat
    BY <2>2, <2>3, DeliveryAssumption DEF Inv, TypeOK
  <2>6. QED
    BY <2>1, <2>2, <2>3, <2>4, <2>5 DEF Inv, AnsweredIsCovered
<1>2. QED
  BY <1>1, InvIsInvariant, PTL DEF Spec, AnsweredOnce

\* The kill switch stops every group that is still in its debounce window when it
\* is flipped.  (isDifyKillSwitchEnabled in flushGroup)
THEOREM SwitchStopsBuffered == Spec => KillSwitchStopsBuffered
<1>1. Inv /\ [Next]_vars =>
        [\A c \in Conv : flush[c].pc # "dify" /\ flush'[c].pc = "dify" => offSeen[c]]_vars
  BY PostingStep DEF Inv, OffWasSeen
<1>2. QED
  BY <1>1, InvIsInvariant, PTL DEF Spec, KillSwitchStopsBuffered
===============================================================================
