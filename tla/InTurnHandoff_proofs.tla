-------------------------- MODULE InTurnHandoff_proofs --------------------------
(***************************************************************************)
(* For every set of conversations, turns and handoff requests, and every   *)
(* cap: the registry is bounded and holds turns in flight only, an entry   *)
(* stays until its own turn settles or is succeeded, and a turn is marked  *)
(* only by a request of its own conversation, while it is in flight and    *)
(* tracked.                                                                *)
(***************************************************************************)
EXTENDS InTurnHandoff, FiniteSetTheorems, TLAPS

LEMMA InitInv == Init => Inv
<1> SUFFICES ASSUME Init PROVE Inv
  OBVIOUS
<1> USE NoneAssumption, StatusAssumption, MaxTrackedTurnsAssumption DEF Init, NewCall
<1>1. TypeOK
  BY DEF TypeOK, CallState
<1>2. Tracked = {}
  BY DEF Tracked
<1>3. IsFiniteSet(Tracked) /\ RegistryBounded
  BY <1>2, FS_EmptySet DEF RegistryBounded
<1>4. RegistryHoldsInFlight /\ CapturedTurns /\ UnreceivedIsNew
  BY DEF RegistryHoldsInFlight, CapturedTurns, UnreceivedIsNew
<1>5. KnownHaveBegun /\ MarkedByOwnHandoff
  BY DEF KnownHaveBegun, MarkedByOwnHandoff
<1>6. QED
  BY <1>1, <1>3, <1>4, <1>5 DEF Inv

\* A set of entries that lost some, or none, is no larger.
LEMMA FewerTracked ==
  ASSUME IsFiniteSet(Tracked), RegistryBounded, Tracked' \subseteq Tracked
  PROVE  IsFiniteSet(Tracked') /\ RegistryBounded'
<1>1. IsFiniteSet(Tracked') /\ Cardinality(Tracked') <= Cardinality(Tracked)
  BY FS_Subset
<1>2. Cardinality(Tracked') \in Nat /\ Cardinality(Tracked) \in Nat
  BY <1>1, FS_CardinalityType
<1>3. QED
  BY <1>1, <1>2, MaxTrackedTurnsAssumption DEF RegistryBounded

LEMMA BeginInv ==
  ASSUME Inv, NEW t \in Turn, NEW c \in Conv,
         BeginDifyTurn(t, c), UNCHANGED <<status, call>>
  PROVE  Inv'
<1> USE NoneAssumption DEF Inv, BeginDifyTurn, Begun
<1>1. TypeOK'
  BY DEF TypeOK
<1>2. IsFiniteSet(Tracked') /\ RegistryBounded'
  <2>1. CASE HasRoom
    <3>1. Tracked' = Tracked \cup {c}
      BY <2>1 DEF Tracked, TypeOK
    <3>2. /\ IsFiniteSet(Tracked \cup {c})
          /\ Cardinality(Tracked \cup {c}) = IF c \in Tracked THEN Cardinality(Tracked)
                                             ELSE Cardinality(Tracked) + 1
      BY FS_AddElement
    <3>3. Cardinality(Tracked) \in Nat /\ Cardinality(Tracked) < MaxTrackedTurns
      BY <2>1, FS_CardinalityType DEF HasRoom
    <3>4. QED
      BY <3>1, <3>2, <3>3, MaxTrackedTurnsAssumption DEF RegistryBounded
  <2>2. CASE ~HasRoom
    BY <2>2, FewerTracked DEF Tracked
  <2>3. QED
    BY <2>1, <2>2
<1>3. RegistryHoldsInFlight'
  <2> SUFFICES ASSUME NEW d \in Conv, registry'[d] # None
               PROVE  turnConv'[registry'[d]] = d /\ registry'[d] \in InFlight'
    BY DEF RegistryHoldsInFlight
  <2>1. CASE registry'[d] = registry[d]
    BY <2>1 DEF RegistryHoldsInFlight, InFlight, TypeOK
  <2>2. CASE registry'[d] # registry[d]
    <3>1. d = c /\ registry'[d] = t
      BY <2>2 DEF TypeOK
    <3>2. t \notin settled
      BY DEF KnownHaveBegun
    <3>3. QED
      BY <3>1, <3>2 DEF InFlight, TypeOK
  <2>3. QED
    BY <2>1, <2>2
<1>4. CapturedTurns'
  BY DEF CapturedTurns, TypeOK, CallState
<1>5. UnreceivedIsNew'
  BY DEF UnreceivedIsNew
<1>6. KnownHaveBegun'
  BY DEF KnownHaveBegun, TypeOK
<1>7. MarkedByOwnHandoff'
  <2> SUFFICES ASSUME NEW u \in Turn, marked[u]
               PROVE  \E h \in HandoffCall : /\ call[h].conv = turnConv'[u]
                                             /\ call[h].opened
                                             /\ u \in call[h].saw
    BY DEF MarkedByOwnHandoff
  <2>1. PICK h \in HandoffCall : /\ call[h].conv = turnConv[u]
                                 /\ call[h].opened
                                 /\ u \in call[h].saw
    BY DEF MarkedByOwnHandoff
  <2>2. u # t
    BY <2>1 DEF KnownHaveBegun
  <2>3. QED
    BY <2>1, <2>2 DEF TypeOK
<1>8. QED
  BY <1>1, <1>2, <1>3, <1>4, <1>5, <1>6, <1>7

LEMMA FinishInv ==
  ASSUME Inv, NEW t \in Turn, Finish(t), UNCHANGED <<status, call>>
  PROVE  Inv'
<1> USE NoneAssumption DEF Inv, Finish, AfterFinish
<1>0. t \in InFlight /\ turnConv[t] \in Conv
  BY DEF InFlight, Begun, TypeOK
<1>1. TypeOK'
  BY DEF TypeOK
<1>2. IsFiniteSet(Tracked') /\ RegistryBounded'
  <2>1. Tracked' \subseteq Tracked
    BY <1>0 DEF Tracked, TypeOK
  <2>2. QED
    BY <2>1, FewerTracked
<1>3. RegistryHoldsInFlight'
  <2> SUFFICES ASSUME NEW d \in Conv, registry'[d] # None
               PROVE  turnConv'[registry'[d]] = d /\ registry'[d] \in InFlight'
    BY DEF RegistryHoldsInFlight
  <2>1. registry'[d] = registry[d]
    BY <1>0 DEF TypeOK
  <2>2. turnConv[registry[d]] = d /\ registry[d] \in InFlight
    BY <2>1 DEF RegistryHoldsInFlight
  <2>3. registry[d] # t
    BY <1>0, <2>1, <2>2 DEF TypeOK
  <2>4. QED
    BY <2>1, <2>2, <2>3 DEF InFlight, Begun
<1>4. CapturedTurns' /\ UnreceivedIsNew'
  BY DEF CapturedTurns, UnreceivedIsNew
<1>5. KnownHaveBegun'
  BY <1>0 DEF KnownHaveBegun, Begun, InFlight
<1>6. MarkedByOwnHandoff'
  BY DEF MarkedByOwnHandoff
<1>7. QED
  BY <1>1, <1>2, <1>3, <1>4, <1>5, <1>6

\* A turn that may be marked holds its entry, so it is in flight.
LEMMA MarkedIsInFlight ==
  ASSUME Inv, NEW h \in HandoffCall, HandoffToggled(h), MayMark(TurnOf(h))
  PROVE  /\ TurnOf(h) \in InFlight
         /\ turnConv[TurnOf(h)] = call[h].conv
         /\ TurnOf(h) \in call[h].saw
         /\ registry[call[h].conv] = TurnOf(h)
<1> USE NoneAssumption DEF Inv, HandoffToggled, MayMark, TurnOf
<1>1. /\ call[h].conv \in Conv
      /\ turnConv[call[h].turn] = call[h].conv
      /\ call[h].turn \in call[h].saw
  BY DEF CapturedTurns
<1>2. registry[call[h].conv] = TurnOf(h)
  BY <1>1
<1>3. TurnOf(h) \in InFlight
  BY <1>1, <1>2 DEF RegistryHoldsInFlight
<1>4. QED
  BY <1>1, <1>2, <1>3

LEMMA ReceiveInv ==
  ASSUME Inv, NEW h \in HandoffCall, NEW c \in Conv, HandoffReceive(h, c)
  PROVE  Inv'
<1> USE NoneAssumption DEF Inv, HandoffReceive, turnVars
<1>0. TrackedTurns \subseteq Turn
  BY DEF TrackedTurns, Tracked, TypeOK
<1>1. TypeOK'
  BY <1>0 DEF TypeOK, CallState
<1>2. IsFiniteSet(Tracked') /\ RegistryBounded' /\ RegistryHoldsInFlight'
  BY DEF Tracked, RegistryBounded, RegistryHoldsInFlight, InFlight, Begun
<1>3. CapturedTurns'
  <2>1. registry[c] # None => turnConv[registry[c]] = c /\ registry[c] \in TrackedTurns
    BY DEF RegistryHoldsInFlight, TrackedTurns, Tracked
  <2>2. QED
    BY <2>1 DEF CapturedTurns, TypeOK, CallState
<1>4. UnreceivedIsNew'
  BY DEF UnreceivedIsNew, TypeOK
<1>5. KnownHaveBegun'
  <2>1. \A t \in TrackedTurns : Begun(t)
    BY DEF TrackedTurns, Tracked, RegistryHoldsInFlight, InFlight
  <2>2. QED
    BY <2>1 DEF KnownHaveBegun, Begun, TypeOK
<1>6. MarkedByOwnHandoff'
  <2> SUFFICES ASSUME NEW t \in Turn, marked[t]
               PROVE  \E g \in HandoffCall : /\ call'[g].conv = turnConv[t]
                                             /\ call'[g].opened
                                             /\ t \in call'[g].saw
    BY DEF MarkedByOwnHandoff
  <2>1. PICK g \in HandoffCall : /\ call[g].conv = turnConv[t]
                                 /\ call[g].opened
                                 /\ t \in call[g].saw
    BY DEF MarkedByOwnHandoff
  <2>2. g # h
    BY <2>1 DEF UnreceivedIsNew
  <2>3. QED
    BY <2>1, <2>2 DEF TypeOK
<1>7. QED
  BY <1>1, <1>2, <1>3, <1>4, <1>5, <1>6

\* A step of request h from one of its awaits, which changes its progress and
\* perhaps sets `opened`, and nothing of what it remembers.
LEMMA SameMemory ==
  ASSUME Inv, NEW h \in HandoffCall, call[h].pc \in {"toggle", "label", "note"},
         UNCHANGED <<registry, turnConv, settled>>,
         call'[h].pc \in {"label", "note", "ok", "failed", "gone"},
         \A g \in HandoffCall : /\ g # h => call'[g] = call[g]
                                /\ call'[g].conv = call[g].conv
                                /\ call'[g].turn = call[g].turn
                                /\ call'[g].saw = call[g].saw
  PROVE  /\ IsFiniteSet(Tracked') /\ RegistryBounded' /\ RegistryHoldsInFlight'
         /\ CapturedTurns' /\ UnreceivedIsNew' /\ KnownHaveBegun'
<1> USE DEF Inv
<1>1. IsFiniteSet(Tracked') /\ RegistryBounded' /\ RegistryHoldsInFlight'
  BY DEF Tracked, RegistryBounded, RegistryHoldsInFlight, InFlight, Begun
<1>2. CapturedTurns'
  BY DEF CapturedTurns
<1>3. UnreceivedIsNew'
  BY DEF UnreceivedIsNew
<1>4. KnownHaveBegun'
  BY DEF KnownHaveBegun, Begun
<1>5. QED
  BY <1>1, <1>2, <1>3, <1>4

LEMMA ToggledInv ==
  ASSUME Inv, NEW h \in HandoffCall, HandoffToggled(h)
  PROVE  Inv'
<1> DEFINE new == [call[h] EXCEPT !.pc = "label", !.opened = TRUE]
<1> USE NoneAssumption, StatusAssumption DEF Inv, HandoffToggled
<1>1. /\ new \in CallState /\ new.pc = "label" /\ new.opened
      /\ new.conv = call[h].conv /\ new.turn = call[h].turn /\ new.saw = call[h].saw
  BY DEF TypeOK, CallState
<1>2. call' = [call EXCEPT ![h] = new]
  BY DEF TypeOK
<1> HIDE DEF new
<1>3. call' \in [HandoffCall -> CallState]
  BY <1>1, <1>2 DEF TypeOK
<1>4. \A g \in HandoffCall : /\ g # h => call'[g] = call[g]
                             /\ call'[g].conv = call[g].conv
                             /\ call'[g].turn = call[g].turn
                             /\ call'[g].saw = call[g].saw
                             /\ call[g].opened => call'[g].opened
  BY <1>1, <1>2 DEF TypeOK
<1>5. call'[h].pc = "label" /\ call'[h].opened
  BY <1>1, <1>2 DEF TypeOK
<1>6. TypeOK'
  <2>1. status' \in [Conv -> Status] /\ marked' \in [Turn -> BOOLEAN]
    BY DEF TypeOK
  <2>2. QED
    BY <1>3, <2>1 DEF TypeOK
<1>7. /\ IsFiniteSet(Tracked') /\ RegistryBounded' /\ RegistryHoldsInFlight'
      /\ CapturedTurns' /\ UnreceivedIsNew' /\ KnownHaveBegun'
  BY <1>4, <1>5, SameMemory
<1>8. MarkedByOwnHandoff'
  <2> SUFFICES ASSUME NEW t \in Turn, marked'[t]
               PROVE  \E g \in HandoffCall : /\ call'[g].conv = turnConv[t]
                                             /\ call'[g].opened
                                             /\ t \in call'[g].saw
    BY DEF MarkedByOwnHandoff
  <2>1. CASE marked[t]
    BY <1>4, <2>1 DEF MarkedByOwnHandoff
  <2>2. CASE ~marked[t]
    <3>1. MayMark(TurnOf(h)) /\ t = TurnOf(h)
      BY <2>2 DEF TypeOK
    <3>2. turnConv[t] = call[h].conv /\ t \in call[h].saw
      BY <3>1, MarkedIsInFlight
    <3>3. QED
      BY <1>4, <1>5, <3>2
  <2>3. QED
    BY <2>1, <2>2
<1>9. QED
  BY <1>6, <1>7, <1>8

\* The other steps of a request: nothing is marked.
LEMMA RequestInv ==
  ASSUME Inv, NEW h \in HandoffCall,
         HandoffLabelled(h) \/ HandoffNoted(h) \/ HandoffFails(h)
  PROVE  Inv'
<1> USE NoneAssumption, StatusAssumption DEF Inv, turnVars
<1>0. PICK new \in CallState :
        /\ call' = [call EXCEPT ![h] = new]
        /\ new.pc \in {"note", "ok", "failed"}
        /\ new.conv = call[h].conv /\ new.turn = call[h].turn /\ new.saw = call[h].saw
        /\ call[h].opened => new.opened
  <2> DEFINE moved(pc) == [call[h] EXCEPT !.pc = pc]
             opened == [call[h] EXCEPT !.pc = "failed", !.opened = TRUE]
  <2>1. \A pc \in {"note", "ok", "failed"} :
          /\ moved(pc) \in CallState /\ moved(pc).pc = pc
          /\ moved(pc).conv = call[h].conv /\ moved(pc).turn = call[h].turn
          /\ moved(pc).saw = call[h].saw /\ moved(pc).opened = call[h].opened
    BY DEF TypeOK, CallState
  <2>2. /\ opened \in CallState /\ opened.pc = "failed" /\ opened.opened
        /\ opened.conv = call[h].conv /\ opened.turn = call[h].turn
        /\ opened.saw = call[h].saw
    BY DEF TypeOK, CallState
  <2>3. \/ \E pc \in {"note", "ok", "failed"} : call' = [call EXCEPT ![h] = moved(pc)]
        \/ call' = [call EXCEPT ![h] = opened]
    BY DEF HandoffLabelled, HandoffNoted, HandoffFails, TypeOK
  <2> HIDE DEF moved, opened
  <2>4. QED
    BY <2>1, <2>2, <2>3
<1>1. /\ UNCHANGED <<registry, turnConv, marked, settled>>
      /\ call[h].pc \in {"toggle", "label", "note"}
      /\ status' = status \/ status' = [status EXCEPT ![call[h].conv] = "open"]
  BY DEF HandoffLabelled, HandoffNoted, HandoffFails
<1>2. call' \in [HandoffCall -> CallState]
  BY <1>0 DEF TypeOK
<1>3. \A g \in HandoffCall : /\ g # h => call'[g] = call[g]
                             /\ call'[g].conv = call[g].conv
                             /\ call'[g].turn = call[g].turn
                             /\ call'[g].saw = call[g].saw
                             /\ call[g].opened => call'[g].opened
  BY <1>0 DEF TypeOK
<1>4. call'[h].pc \in {"note", "ok", "failed"}
  BY <1>0 DEF TypeOK
<1>5. TypeOK'
  BY <1>1, <1>2 DEF TypeOK
<1>6. /\ IsFiniteSet(Tracked') /\ RegistryBounded' /\ RegistryHoldsInFlight'
      /\ CapturedTurns' /\ UnreceivedIsNew' /\ KnownHaveBegun'
  BY <1>1, <1>3, <1>4, SameMemory
<1>7. MarkedByOwnHandoff'
  BY <1>1, <1>3 DEF MarkedByOwnHandoff
<1>8. QED
  BY <1>5, <1>6, <1>7

LEMMA StatusInv ==
  ASSUME Inv, NEW c \in Conv, NEW st \in Status, StatusChange(c, st)
  PROVE  Inv'
<1> USE DEF Inv, StatusChange, turnVars
<1>1. TypeOK'
  BY DEF TypeOK
<1>2. IsFiniteSet(Tracked') /\ RegistryBounded' /\ RegistryHoldsInFlight'
  BY DEF Tracked, RegistryBounded, RegistryHoldsInFlight, InFlight, Begun
<1>3. CapturedTurns' /\ UnreceivedIsNew' /\ KnownHaveBegun' /\ MarkedByOwnHandoff'
  BY DEF CapturedTurns, UnreceivedIsNew, KnownHaveBegun, Begun, MarkedByOwnHandoff
<1>4. QED
  BY <1>1, <1>2, <1>3

LEMMA RestartInv ==
  ASSUME Inv, Restart
  PROVE  Inv'
<1> USE NoneAssumption DEF Inv, Restart
<1>1. \A h \in HandoffCall : /\ call'[h] \in CallState
                             /\ call'[h].conv = call[h].conv
                             /\ call'[h].turn = call[h].turn
                             /\ call'[h].saw = call[h].saw
                             /\ call'[h].opened = call[h].opened
                             /\ call'[h].pc = call[h].pc \/ call'[h].pc = "gone"
  BY DEF TypeOK, CallState
<1>2. TypeOK'
  BY <1>1 DEF TypeOK, InFlight
<1>3. Tracked' = {}
  BY DEF Tracked
<1>4. IsFiniteSet(Tracked') /\ RegistryBounded'
  BY <1>3, FS_EmptySet, MaxTrackedTurnsAssumption DEF RegistryBounded
<1>5. RegistryHoldsInFlight'
  BY DEF RegistryHoldsInFlight
<1>6. CapturedTurns' /\ UnreceivedIsNew'
  BY <1>1 DEF CapturedTurns, UnreceivedIsNew
<1>7. KnownHaveBegun'
  BY <1>1 DEF KnownHaveBegun, InFlight, Begun
<1>8. MarkedByOwnHandoff'
  BY <1>1 DEF MarkedByOwnHandoff
<1>9. QED
  BY <1>2, <1>4, <1>5, <1>6, <1>7, <1>8

LEMMA StutterInv == Inv /\ UNCHANGED vars => Inv'
<1> SUFFICES ASSUME Inv, UNCHANGED vars PROVE Inv'
  OBVIOUS
<1> USE DEF Inv, vars, turnVars
<1>1. TypeOK' /\ IsFiniteSet(Tracked') /\ RegistryBounded' /\ RegistryHoldsInFlight'
  BY DEF TypeOK, Tracked, RegistryBounded, RegistryHoldsInFlight, InFlight, Begun
<1>2. CapturedTurns' /\ UnreceivedIsNew' /\ KnownHaveBegun' /\ MarkedByOwnHandoff'
  BY DEF CapturedTurns, UnreceivedIsNew, KnownHaveBegun, Begun, MarkedByOwnHandoff
<1>3. QED
  BY <1>1, <1>2

\* The inductive invariant holds throughout every behaviour.
THEOREM InvIsInvariant == Spec => []Inv
<1>1. Inv /\ [Next]_vars => Inv'
  <2> SUFFICES ASSUME Inv, [Next]_vars PROVE Inv'
    OBVIOUS
  <2>1. CASE Next
    BY <2>1, BeginInv, FinishInv, ReceiveInv, ToggledInv, RequestInv, StatusInv, RestartInv
       DEF Next, HandoffStep
  <2>2. CASE UNCHANGED vars
    BY <2>2, StutterInv
  <2>3. QED
    BY <2>1, <2>2
<1>2. QED
  BY <1>1, InitInv, PTL DEF Spec

\* Every variable keeps its type.
THEOREM TypeCorrect == Spec => []TypeOK
<1>1. Inv => TypeOK
  BY DEF Inv
<1>2. QED
  BY <1>1, InvIsInvariant, PTL

\* However many Dify calls hang, the registry never outgrows MAX_TRACKED_TURNS.
\* (beginDifyTurn)
THEOREM RegistryStaysBounded == Spec => []RegistryBounded
<1>1. Inv => RegistryBounded
  BY DEF Inv
<1>2. QED
  BY <1>1, InvIsInvariant, PTL

\* The registry holds turns in flight only, each under its own conversation.
\* (finish)
THEOREM EntriesAreInFlight == Spec => []RegistryHoldsInFlight
<1>1. Inv => RegistryHoldsInFlight
  BY DEF Inv
<1>2. QED
  BY <1>1, InvIsInvariant, PTL

\* Only a request for the turn's own conversation that opened it, and that was
\* received while the registry held the turn, has marked a turn.  (handoff.ts)
THEOREM MarksAreEarned == Spec => []MarkedByOwnHandoff
<1>1. Inv => MarkedByOwnHandoff
  BY DEF Inv
<1>2. QED
  BY <1>1, InvIsInvariant, PTL

\* What a step that marks a turn has seen of it.
LEMMA MarkingStep ==
  ASSUME Inv, [Next]_vars, NEW t \in Turn, marked'[t] # marked[t]
  PROVE  t \in InFlight /\ \E c \in Conv : registry[c] = t
<1>1. PICK h \in HandoffCall : HandoffToggled(h) /\ MayMark(TurnOf(h)) /\ t = TurnOf(h)
  <2>1. PICK h \in HandoffCall : HandoffToggled(h)
    BY DEF Next, HandoffStep, BeginDifyTurn, Finish, HandoffReceive, HandoffLabelled,
           HandoffNoted, HandoffFails, StatusChange, Restart, turnVars, vars
  <2>2. QED
    BY <2>1 DEF HandoffToggled, Inv, TypeOK
<1>2. call[h].conv \in Conv
  BY <1>1 DEF Inv, CapturedTurns, HandoffToggled
<1>3. QED
  BY <1>1, <1>2, MarkedIsInFlight

\* Once a turn's Dify call has settled its mark is final, across the awaits after
\* which flushGroup reads it.  (markHandedOff and finish)
THEOREM MarksAreFinal == Spec => MarkFinalOnceSettled
<1>1. Inv /\ [Next]_vars => [\A t \in settled : marked'[t] = marked[t]]_vars
  <2> SUFFICES ASSUME Inv, [Next]_vars, NEW t \in settled
               PROVE  marked'[t] = marked[t]
    OBVIOUS
  <2>1. t \in Turn /\ t \notin InFlight
    BY DEF Inv, TypeOK, InFlight
  <2>2. QED
    BY <2>1, MarkingStep
<1>2. QED
  BY <1>1, InvIsInvariant, PTL DEF Spec, MarkFinalOnceSettled

\* An entry goes when its own turn settles or a turn of its conversation begins: no
\* turn evicts another by settling, and none is entered late.  (finish, beginDifyTurn)
THEOREM EntriesFollowTheirTurns == Spec => EntryFollowsItsTurn
<1> DEFINE Follows(c) ==
      registry'[c] # registry[c] =>
        IF registry'[c] = None THEN registry[c] \in settled' ELSE ~Begun(registry'[c])
<1>1. Inv /\ [Next]_vars => [\A c \in Conv : Follows(c)]_vars
  <2> SUFFICES ASSUME Inv, [Next]_vars, NEW c \in Conv, registry'[c] # registry[c]
               PROVE  Follows(c)
    BY Zenon
  <2> USE NoneAssumption DEF Inv
  <2>1. ASSUME NEW t \in Turn, NEW d \in Conv, BeginDifyTurn(t, d) PROVE Follows(c)
    BY <2>1 DEF BeginDifyTurn, TypeOK
  <2>2. ASSUME NEW t \in Turn, Finish(t) PROVE Follows(c)
    <3>1. registry'[c] = None /\ registry[c] = t
      BY <2>2 DEF Finish, AfterFinish, InFlight, Begun, TypeOK
    <3>2. QED
      BY <2>2, <3>1 DEF Finish
  <2>3. ASSUME Restart PROVE Follows(c)
    BY <2>3 DEF Restart, RegistryHoldsInFlight
  <2>4. QED
    BY <2>1, <2>2, <2>3
       DEF Next, HandoffStep, HandoffReceive, HandoffToggled, HandoffLabelled,
           HandoffNoted, HandoffFails, StatusChange, turnVars, vars
<1>2. QED
  BY <1>1, InvIsInvariant, PTL DEF Spec, EntryFollowsItsTurn
===============================================================================
