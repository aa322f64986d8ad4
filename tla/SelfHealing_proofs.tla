-------------------------- MODULE SelfHealing_proofs --------------------------
(***************************************************************************)
(* For any lines, environments, intervals and limits: insights of one      *)
(* fingerprint are a cooldown apart, sleeps are read, finished iterations  *)
(* forget nothing, and the agent runs without a key only if it may.        *)
(***************************************************************************)
EXTENDS SelfHealing, SequenceTheorems, TLAPS

LEMMA Bounds ==
  /\ Retries \in Nat /\ Retries > 0
  /\ PollInterval \in Nat /\ MaxLate \in Nat /\ MaxTime \in Nat
  /\ Cooldown \in Nat /\ Cooldown > 0
  /\ 0 \in Time /\ 1 \in 1 .. Retries
BY BoundsAssumption DEF Time

\* Times are numbers.
LEMMA Times ==
  ASSUME TypeOK
  PROVE  /\ now \in Nat /\ agent.asleep \in Nat /\ agent.polled \in Nat
         /\ \A i \in DOMAIN insights : insights[i].time \in Nat
<1>1. Time \subseteq Nat
  BY Bounds DEF Time
<1>2. now \in Time /\ agent.asleep \in Time /\ agent.polled \in Time
  BY DEF TypeOK, AgentState
<1>3. \A i \in DOMAIN insights : insights[i].time \in Time
  <2>1. insights \in [1 .. Len(insights) -> [print : Nat, time : Time]]
    BY LenProperties DEF TypeOK
  <2>2. QED
    BY <2>1
<1>4. QED
  BY <1>1, <1>2, <1>3

LEMMA InitInv == Init => Inv
<1> SUFFICES ASSUME Init PROVE Inv
  OBVIOUS
<1> USE Bounds DEF Init, Down
<1>1. TypeOK
  BY DEF TypeOK, AgentState
<1>2. OneInsightPerCooldown /\ Unfiled
  BY DEF OneInsightPerCooldown, Unfiled
<1>3. AwakeInTime /\ CleanIterationFilesAll /\ NoneForgotten /\ DegradedOnlyIfAllowed
  BY DEF AwakeInTime, CleanIterationFilesAll, NoneForgotten, DegradedOnlyIfAllowed
<1>4. QED
  BY <1>1, <1>2, <1>3 DEF Inv

LEMMA DownInv ==
  ASSUME Inv, Becomes(Down)
  PROVE  Inv'
<1> USE Bounds DEF Inv, Becomes, Down
<1>1. TypeOK'
  BY DEF TypeOK, AgentState
<1>2. OneInsightPerCooldown' /\ Unfiled'
  BY DEF OneInsightPerCooldown, Unfiled
<1>3. AwakeInTime' /\ CleanIterationFilesAll' /\ NoneForgotten' /\ DegradedOnlyIfAllowed'
  BY DEF AwakeInTime, CleanIterationFilesAll, NoneForgotten, DegradedOnlyIfAllowed
<1>4. QED
  BY <1>1, <1>2, <1>3

LEMMA LogInv ==
  ASSUME Inv, NEW m \in Message, Log(m)
  PROVE  Inv'
<1> USE DEF Inv, Log
<1>1. TypeOK'
  <2>1. PICK t \in 0 .. now : logged' = logged \cup {[line |-> m, time |-> t]}
    OBVIOUS
  <2>2. t \in Time
    BY BoundsAssumption DEF TypeOK, Time
  <2>3. QED
    BY <2>1, <2>2 DEF TypeOK
<1>2. OneInsightPerCooldown' /\ Unfiled'
  BY DEF OneInsightPerCooldown, Unfiled, CooldownActive
<1>3. AwakeInTime' /\ CleanIterationFilesAll' /\ NoneForgotten' /\ DegradedOnlyIfAllowed'
  BY DEF AwakeInTime, CleanIterationFilesAll, NoneForgotten, Filed, DegradedOnlyIfAllowed
<1>4. QED
  BY <1>1, <1>2, <1>3

\* A cooldown that is over stays over.
LEMMA TickInv ==
  ASSUME Inv, Tick
  PROVE  Inv'
<1> USE Bounds DEF Inv, Tick
<1>0. /\ now \in Nat /\ now' = now + 1 /\ agent.asleep \in Nat /\ agent.polled \in Nat
      /\ \A i \in DOMAIN insights : insights[i].time \in Nat
  BY Times
<1>1. TypeOK'
  <2>1. now' \in Time
    BY <1>0 DEF Time
  <2>2. QED
    BY <2>1 DEF TypeOK
<1>2. OneInsightPerCooldown'
  BY DEF OneInsightPerCooldown
<1>3. Unfiled'
  BY <1>0 DEF Unfiled, CooldownActive
<1>4. AwakeInTime'
  <2> SUFFICES ASSUME agent.pc = "sleep" PROVE agent.asleep <= now' /\ now' <= agent.asleep + PollInterval + MaxLate
    BY DEF AwakeInTime
  <2>1. agent.asleep <= now /\ now <= agent.asleep + PollInterval + MaxLate
    BY DEF AwakeInTime
  <2>2. now # agent.asleep + PollInterval + MaxLate
    BY DEF Overdue
  <2>3. QED
    BY <1>0, <2>1, <2>2
<1>5. CleanIterationFilesAll'
  BY DEF CleanIterationFilesAll
<1>6. NoneForgotten'
  BY <1>0 DEF NoneForgotten, Filed
<1>7. DegradedOnlyIfAllowed'
  BY DEF DegradedOnlyIfAllowed
<1>8. QED
  BY <1>1, <1>2, <1>3, <1>4, <1>5, <1>6, <1>7

\* Until the first poll nothing but the key and the attempts change.
LEMMA ConfigInv ==
  ASSUME Inv, Boot \/ NoSecret \/ FetchConfig
  PROVE  Inv'
<1> USE Bounds DEF Inv
<1>1. CASE Becomes(Down)
  BY <1>1, DownInv
<1>2. CASE \/ Boot
           \/ /\ Becomes([agent EXCEPT !.pc = "poll"])
              /\ deployment.allow
           \/ Becomes([agent EXCEPT !.pc = "poll", !.key = TRUE])
           \/ /\ Becomes([agent EXCEPT !.attempt = @ + 1])
              /\ agent.pc = "config" /\ ~IsLast
  <2> USE DEF Boot, Becomes, IsLast
  <2>1. TypeOK'
    <3>1. ~IsLast => agent.attempt + 1 \in 1 .. Retries
      BY DEF TypeOK, AgentState
    <3>2. agent' \in AgentState
      BY <1>2, <3>1 DEF TypeOK, AgentState
    <3>3. QED
      BY <1>2, <3>2 DEF TypeOK
  <2>2. agent'.pc \in {"config", "poll"}
    BY <1>2 DEF TypeOK, AgentState
  <2>3. insights' = insights /\ now' = now
    BY <1>2
  <2>4. OneInsightPerCooldown' /\ Unfiled'
    BY <2>2, <2>3 DEF OneInsightPerCooldown, Unfiled
  <2>5. AwakeInTime' /\ CleanIterationFilesAll' /\ NoneForgotten'
    BY <2>2 DEF AwakeInTime, CleanIterationFilesAll, NoneForgotten
  <2>6. DegradedOnlyIfAllowed'
    BY <1>2 DEF DegradedOnlyIfAllowed, TypeOK, AgentState
  <2>7. QED
    BY <2>1, <2>4, <2>5, <2>6
<1>3. QED
  BY <1>1, <1>2 DEF Boot, NoSecret, FetchConfig, WithoutConfig, DecideMissingConfig

\* An iteration that ends without having gone through.
LEMMA BrokenInv ==
  ASSUME Inv, Becomes(Ended(FALSE)), agent.pc \in {"poll", "check", "analyze", "save", "sleep"}
  PROVE  Inv'
<1> USE Bounds DEF Inv
<1>1. CASE Becomes(Down)
  BY <1>1, DownInv
<1>2. CASE Becomes([agent EXCEPT !.pc = "sleep", !.asleep = now, !.queue = {}, !.current = None,
                                 !.clean = FALSE])
  <2> USE <1>2 DEF Becomes
  <2>1. TypeOK'
    BY DEF TypeOK, AgentState
  <2>2. /\ agent'.pc = "sleep" /\ agent'.asleep = now /\ agent'.clean = FALSE /\ agent'.key = agent.key
        /\ UNCHANGED <<now, deployment, insights>>
    BY DEF TypeOK, AgentState
  <2>3. OneInsightPerCooldown' /\ Unfiled'
    <3>1. insights' = insights /\ now' = now /\ agent'.pc \notin {"analyze", "save"}
      BY <2>2
    <3>2. QED
      BY <3>1 DEF OneInsightPerCooldown, Unfiled
  <2>4. AwakeInTime'
    <3>1. now \in Nat /\ now <= now /\ now <= now + PollInterval + MaxLate
      BY Times
    <3>2. QED
      BY <2>2, <3>1 DEF AwakeInTime
  <2>5. CleanIterationFilesAll' /\ NoneForgotten' /\ DegradedOnlyIfAllowed'
    BY <2>2 DEF CleanIterationFilesAll, NoneForgotten, DegradedOnlyIfAllowed
  <2>6. QED
    BY <2>1, <2>3, <2>4, <2>5
<1>3. QED
  BY <1>1, <1>2 DEF Ended

\* The two ways an agent's step may leave the insights alone and go on.
LEMMA PollInv ==
  ASSUME Inv, QueryLokiErrors
  PROVE  Inv'
<1> USE DEF Inv
<1>1. CASE Becomes(Ended(FALSE))
  BY <1>1, BrokenInv DEF QueryLokiErrors
<1>2. ASSUME NEW lines \in Newest(Window),
             Becomes([agent EXCEPT !.pc = "check", !.queue = {o.line : o \in lines}, !.asleep = 0,
                                   !.polled = now, !.seen = {o.line : o \in lines}, !.undiagnosed = {}])
      PROVE  Inv'
  <2> DEFINE messages == {o.line : o \in lines}
  <2>1. lines \subseteq logged
    BY DEF Newest, Window
  <2>2. messages \subseteq Message
    BY <2>1 DEF TypeOK
  <2>3. /\ agent' = [agent EXCEPT !.pc = "check", !.queue = messages, !.asleep = 0,
                                  !.polled = now, !.seen = messages, !.undiagnosed = {}]
        /\ UNCHANGED <<now, deployment, logged, insights>>
    BY <1>2 DEF Becomes
  <2> HIDE DEF messages
  <2>4. TypeOK'
    BY <2>2, <2>3, Bounds DEF TypeOK, AgentState
  <2>5. /\ agent'.pc = "check" /\ agent'.queue = messages /\ agent'.polled = now /\ agent'.seen = messages
        /\ agent'.key = agent.key
    BY <2>3 DEF TypeOK, AgentState
  <2>6. OneInsightPerCooldown' /\ Unfiled' /\ AwakeInTime' /\ CleanIterationFilesAll'
    BY <2>3, <2>5 DEF OneInsightPerCooldown, Unfiled, AwakeInTime, CleanIterationFilesAll
  <2>7. NoneForgotten'
    BY <2>3, <2>5, Times DEF NoneForgotten
  <2>8. DegradedOnlyIfAllowed'
    BY <2>3, <2>5 DEF DegradedOnlyIfAllowed, QueryLokiErrors
  <2>9. QED
    BY <2>4, <2>6, <2>7, <2>8
<1>3. QED
  BY <1>1, <1>2 DEF QueryLokiErrors

\* The filter lets every actionable line through.
LEMMA ActionableIsFiled == \A m \in Message : Actionable(m) => ShouldFileIssue(m)
BY DEF Actionable, ShouldFileIssue

\* A line is taken off the queue: it is noise, or has an insight, or is diagnosed now.
LEMMA TakeInv ==
  ASSUME Inv, NEW m \in Message, agent.pc = "check", m \in agent.queue,
         \/ /\ Becomes([agent EXCEPT !.queue = @ \ {m}])
            /\ ~ShouldFileIssue(m) \/ CooldownActive(m)
         \/ /\ Becomes([agent EXCEPT !.queue = @ \ {m}, !.pc = "analyze", !.current = m])
            /\ ~CooldownActive(m)
  PROVE  Inv'
<1> USE DEF Inv, Becomes
<1>1. UNCHANGED <<now, deployment, logged, insights>>
  OBVIOUS
<1>2. TypeOK'
  BY DEF TypeOK, AgentState
<1>3. /\ agent'.queue = agent.queue \ {m} /\ agent'.seen = agent.seen /\ agent'.key = agent.key
      /\ agent'.undiagnosed = agent.undiagnosed /\ agent'.polled = agent.polled
      /\ \/ agent'.pc = "check" /\ (~ShouldFileIssue(m) \/ CooldownActive(m))
         \/ agent'.pc = "analyze" /\ agent'.current = m /\ ~CooldownActive(m)
  BY DEF TypeOK, AgentState
<1>4. OneInsightPerCooldown' /\ AwakeInTime' /\ CleanIterationFilesAll'
  BY <1>1, <1>3 DEF OneInsightPerCooldown, AwakeInTime, CleanIterationFilesAll
<1>5. Unfiled'
  BY <1>1, <1>3 DEF Unfiled, CooldownActive
<1>6. CooldownActive(m) => Filed(m)
  BY Times, Bounds DEF CooldownActive, Filed, NoneForgotten
<1>7. NoneForgotten'
  BY <1>1, <1>3, <1>6, ActionableIsFiled DEF NoneForgotten, Filed
<1>8. DegradedOnlyIfAllowed'
  BY <1>1, <1>3 DEF DegradedOnlyIfAllowed
<1>9. QED
  BY <1>2, <1>4, <1>5, <1>7, <1>8

\* Dify answers, or owes the diagnosis.
LEMMA AnalyzeInv ==
  ASSUME Inv, AnalyzeWithErrorLLM
  PROVE  Inv'
<1> USE DEF Inv, AnalyzeWithErrorLLM, AfterNone, Becomes
<1>1. UNCHANGED <<now, deployment, logged, insights>>
  OBVIOUS
<1>2. agent.current \in Message
  BY DEF Unfiled
<1>3. TypeOK'
  <2>1. agent \in AgentState /\ agent.undiagnosed \cup {agent.current} \in SUBSET Message
    BY <1>2 DEF TypeOK, AgentState
  <2>2. agent' \in AgentState
    BY <2>1 DEF AgentState
  <2>3. QED
    BY <1>1, <2>2 DEF TypeOK
<1>4. /\ agent'.queue = agent.queue /\ agent'.seen = agent.seen /\ agent'.key = agent.key
      /\ agent'.polled = agent.polled
      /\ \/ /\ agent'.pc = "save" /\ agent'.current = agent.current
            /\ agent'.undiagnosed = agent.undiagnosed
         \/ /\ agent'.pc = "check"
            /\ agent'.undiagnosed = agent.undiagnosed \cup {agent.current}
  BY DEF TypeOK, AgentState
<1>5. OneInsightPerCooldown' /\ AwakeInTime' /\ CleanIterationFilesAll'
  BY <1>1, <1>4 DEF OneInsightPerCooldown, AwakeInTime, CleanIterationFilesAll
<1>6. Unfiled'
  BY <1>1, <1>4 DEF Unfiled, CooldownActive
<1>7. NoneForgotten'
  BY <1>1, <1>4 DEF NoneForgotten, Filed
<1>8. DegradedOnlyIfAllowed'
  BY <1>1, <1>4 DEF DegradedOnlyIfAllowed
<1>9. QED
  BY <1>3, <1>5, <1>6, <1>7, <1>8

\* A line whose fingerprint has no insight within the cooldown gets one.
LEMMA SaveInv ==
  ASSUME Inv, SaveInsight
  PROVE  Inv'
<1> USE DEF Inv
<1>1. CASE Becomes(Ended(FALSE))
  BY <1>1, BrokenInv DEF SaveInsight
<1>2. CASE /\ agent.running
           /\ insights' = Append(insights, [print |-> agent.current.print, time |-> now])
           /\ agent' \in {[agent EXCEPT !.pc = "check", !.current = None], Ended(FALSE)}
           /\ UNCHANGED <<now, deployment, logged>>
  <2>1. agent.pc = "save" /\ agent.current \in Message /\ ~CooldownActive(agent.current)
    BY DEF SaveInsight, Unfiled
  <2>2. agent.current.print \in Nat
    BY <2>1, MessageAssumption DEF Line
  <2>3. insights \in Seq([print : Nat, time : Time]) /\ now \in Time
    BY DEF TypeOK
  <2>4. insights' \in Seq([print : Nat, time : Time])
    BY <1>2, <2>2, <2>3
  <2> DEFINE n == Len(insights) + 1
  <2>5. /\ DOMAIN insights = 1 .. Len(insights) /\ Len(insights) \in Nat
        /\ DOMAIN insights' = 1 .. n
        /\ \A i \in DOMAIN insights : insights'[i] = insights[i]
        /\ insights'[n] = [print |-> agent.current.print, time |-> now]
    BY <1>2, <2>2, <2>3
  <2>6. \A i \in DOMAIN insights' : i \in DOMAIN insights \/ i = n
    BY <2>5
  <2>7. /\ agent' \in AgentState
        /\ \/ agent'.pc = "check"
           \/ agent'.pc = "sleep" /\ agent'.asleep = now /\ agent'.clean = FALSE
        /\ agent'.key = agent.key /\ agent'.queue \in {agent.queue, {}} /\ agent'.seen = agent.seen
        /\ agent'.undiagnosed = agent.undiagnosed /\ agent'.polled = agent.polled
        /\ agent'.pc = "check" => agent'.queue = agent.queue
    BY <1>2 DEF Ended, TypeOK, AgentState
  <2>8. TypeOK'
    BY <1>2, <2>3, <2>4, <2>7 DEF TypeOK
  <2>9. OneInsightPerCooldown'
    <3> SUFFICES ASSUME NEW i \in DOMAIN insights', NEW j \in DOMAIN insights', i < j,
                        insights'[i].print = insights'[j].print
                 PROVE  insights'[j].time >= insights'[i].time + Cooldown
      BY DEF OneInsightPerCooldown
    <3>1. i \in DOMAIN insights
      BY <2>5
    <3>2. CASE j \in DOMAIN insights
      BY <2>5, <3>1, <3>2 DEF OneInsightPerCooldown
    <3>3. CASE j = n
      <4>1. ~(insights[i].time + Cooldown > now)
        BY <2>1, <2>5, <3>1, <3>3 DEF CooldownActive
      <4>2. QED
        BY <2>5, <3>1, <3>3, <4>1, Times, Bounds
    <3>4. QED
      BY <2>6, <3>2, <3>3
  <2>10. Unfiled'
    <3>1. \A i \in DOMAIN insights' : insights'[i].time <= now
      BY <2>5, <2>6, Times DEF Unfiled
    <3>2. QED
      BY <1>2, <2>7, <3>1 DEF Unfiled
  <2>11. AwakeInTime'
    <3>1. now <= now /\ now <= now + PollInterval + MaxLate
      BY Times, Bounds
    <3>2. QED
      BY <1>2, <2>7, <3>1 DEF AwakeInTime
  <2>12. CleanIterationFilesAll'
    BY <2>7 DEF CleanIterationFilesAll
  <2>13. NoneForgotten'
    <3> SUFFICES ASSUME agent'.pc = "check", NEW m \in agent.seen, Actionable(m)
                 PROVE  m \in agent.queue \cup agent.undiagnosed \/ Filed(m)'
      BY <1>2, <2>1, <2>7 DEF NoneForgotten
    <3>1. CASE m = agent.current
      <4>1. now + Cooldown > agent.polled
        BY <2>1, Times, Bounds DEF NoneForgotten
      <4>2. n \in DOMAIN insights'
        BY <2>5
      <4>3. QED
        BY <1>2, <2>5, <2>7, <3>1, <4>1, <4>2 DEF Filed
    <3>2. CASE Filed(m)
      BY <2>5, <2>7, <3>2 DEF Filed
    <3>3. QED
      BY <2>1, <3>1, <3>2 DEF NoneForgotten
  <2>14. DegradedOnlyIfAllowed'
    BY <1>2, <2>1, <2>7 DEF DegradedOnlyIfAllowed
  <2>15. QED
    BY <2>8, <2>9, <2>10, <2>11, <2>12, <2>13, <2>14
<1>3. QED
  BY <1>1, <1>2 DEF SaveInsight

\* An iteration that went through has nothing left to do.
LEMMA EndInv ==
  ASSUME Inv, EndIteration
  PROVE  Inv'
<1> USE DEF Inv, EndIteration
<1>1. CASE Becomes(Down)
  BY <1>1, DownInv
<1>2. CASE Becomes([agent EXCEPT !.pc = "sleep", !.asleep = now, !.queue = {}, !.current = None,
                                 !.clean = TRUE])
  <2> USE <1>2 DEF Becomes
  <2>1. TypeOK'
    BY DEF TypeOK, AgentState
  <2>2. /\ agent'.pc = "sleep" /\ agent'.asleep = now /\ agent'.key = agent.key
        /\ agent'.seen = agent.seen /\ agent'.undiagnosed = agent.undiagnosed /\ agent'.polled = agent.polled
    BY DEF TypeOK, AgentState
  <2>3. OneInsightPerCooldown' /\ Unfiled'
    BY <2>2 DEF OneInsightPerCooldown, Unfiled
  <2>4. AwakeInTime'
    <3>1. now <= now /\ now <= now + PollInterval + MaxLate
      BY Times, Bounds
    <3>2. QED
      BY <2>2, <3>1 DEF AwakeInTime
  <2>5. CleanIterationFilesAll'
    <3>1. \A m \in agent.seen : Actionable(m) => m \in agent.undiagnosed \/ Filed(m)
      BY DEF NoneForgotten
    <3>2. insights' = insights
      OBVIOUS
    <3> HIDE <1>2 DEF Becomes, EndIteration
    <3>3. QED
      BY <2>2, <3>1, <3>2 DEF CleanIterationFilesAll, Filed
  <2>6. NoneForgotten' /\ DegradedOnlyIfAllowed'
    BY <2>2 DEF NoneForgotten, DegradedOnlyIfAllowed
  <2>7. QED
    BY <2>1, <2>3, <2>4, <2>5, <2>6
<1>3. QED
  BY <1>1, <1>2 DEF Ended

LEMMA SigtermInv ==
  ASSUME Inv, Sigterm
  PROVE  Inv'
<1> USE DEF Inv, Sigterm, Becomes
<1>1. TypeOK'
  BY DEF TypeOK, AgentState
<1>2. \A f \in {"pc", "key", "attempt", "asleep", "queue", "current", "polled", "seen", "undiagnosed", "clean"} :
        agent'[f] = agent[f]
  BY DEF TypeOK, AgentState
<1>3. UNCHANGED <<now, deployment, logged, insights>>
  OBVIOUS
<1>4. OneInsightPerCooldown' /\ Unfiled' /\ AwakeInTime'
  BY <1>2, <1>3 DEF OneInsightPerCooldown, Unfiled, CooldownActive, AwakeInTime
<1>5. CleanIterationFilesAll' /\ NoneForgotten' /\ DegradedOnlyIfAllowed'
  BY <1>2, <1>3 DEF CleanIterationFilesAll, NoneForgotten, Filed, DegradedOnlyIfAllowed
<1>6. QED
  BY <1>1, <1>4, <1>5

LEMMA NextInv == Inv /\ [Next]_vars => Inv'
<1> SUFFICES ASSUME Inv, [Next]_vars PROVE Inv'
  OBVIOUS
<1>1. ASSUME NEW m \in Message, Log(m) PROVE Inv'
  BY <1>1, LogInv
<1>2. ASSUME NEW m \in Message, Suppress(m) PROVE Inv'
  BY <1>2, TakeInv DEF Suppress
<1>3. ASSUME NEW m \in Message, CheckCooldown(m) PROVE Inv'
  BY <1>3, TakeInv, BrokenInv DEF CheckCooldown
<1>4. CASE Tick
  BY <1>4, TickInv
<1>5. CASE Boot \/ NoSecret \/ FetchConfig
  BY <1>5, ConfigInv
<1>6. CASE QueryLokiErrors
  BY <1>6, PollInv
<1>7. CASE LeaveLoop \/ Kill
  BY <1>7, DownInv DEF LeaveLoop, Kill
<1>8. CASE AnalyzeWithErrorLLM
  BY <1>8, AnalyzeInv
<1>9. CASE SaveInsight
  BY <1>9, SaveInv
<1>10. CASE EndIteration
  BY <1>10, EndInv
<1>11. CASE Sigterm
  BY <1>11, SigtermInv
<1>12. CASE UNCHANGED vars
  BY <1>12 DEF vars, Inv, TypeOK, OneInsightPerCooldown, Unfiled, CooldownActive, AwakeInTime,
               CleanIterationFilesAll, NoneForgotten, Filed, DegradedOnlyIfAllowed
<1>13. QED
  BY <1>1, <1>2, <1>3, <1>4, <1>5, <1>6, <1>7, <1>8, <1>9, <1>10, <1>11, <1>12 DEF Next
-------------------------------------------------------------------------------
\* What the agent remembers of the table and of the iteration it is in is true.
\* (mainLoop)
THEOREM InvIsInvariant == Spec => []Inv
BY InitInv, NextInv, PTL DEF Spec

\* The state of the agent stays within its types.
THEOREM TypeCorrect == Spec => []TypeOK
<1>1. Inv => TypeOK
  BY DEF Inv
<1>2. QED
  BY <1>1, InvIsInvariant, PTL

\* Whatever fails, two insights of one fingerprint are a cooldown apart.
\* (index.ts:234-245, db.ts:49-82)
THEOREM InsightsAreApart == Spec => []OneInsightPerCooldown
<1>1. Inv => OneInsightPerCooldown
  BY DEF Inv
<1>2. QED
  BY <1>1, InvIsInvariant, PTL

\* An iteration that went through forgot no actionable line.  (index.ts:217-247)
THEOREM NothingIsForgotten == Spec => []CleanIterationFilesAll
<1>1. Inv => CleanIterationFilesAll
  BY DEF Inv
<1>2. QED
  BY <1>1, InvIsInvariant, PTL

\* The agent runs without a key only if it may.  (config-gate.ts:18-20)
THEOREM NeverSilentlyDegraded == Spec => []DegradedOnlyIfAllowed
<1>1. Inv => DegradedOnlyIfAllowed
  BY DEF Inv
<1>2. QED
  BY <1>1, InvIsInvariant, PTL

\* The window of a poll covers the sleep before it.  (index.ts:156-172,252-254)
THEOREM SleepsAreRead == Spec => SleepIsCovered
<1>1. Inv /\ [Next]_vars =>
        [agent.pc = "sleep" /\ agent'.pc = "check" /\ Cardinality(Window) <= Limit =>
           \A o \in logged : o.time >= agent.asleep + MaxLate => o.line \in agent'.seen]_vars
  <2> SUFFICES ASSUME Inv, Next, agent.pc = "sleep", agent'.pc = "check", Cardinality(Window) <= Limit,
                      NEW o \in logged, o.time >= agent.asleep + MaxLate
               PROVE  o.line \in agent'.seen
    OBVIOUS
  <2>1. QueryLokiErrors
    BY DEF Next, Log, Tick, Suppress, CheckCooldown, Boot, NoSecret, FetchConfig, LeaveLoop,
           AnalyzeWithErrorLLM, SaveInsight, EndIteration, Sigterm, Kill, Becomes, Inv, TypeOK, AgentState, Down
  <2>2. PICK lines \in Newest(Window) :
          agent' = [agent EXCEPT !.pc = "check", !.queue = {x.line : x \in lines}, !.asleep = 0,
                                 !.polled = now, !.seen = {x.line : x \in lines}, !.undiagnosed = {}]
    BY <2>1 DEF QueryLokiErrors, Becomes, Ended, Down, Inv, TypeOK, AgentState
  <2>3. lines = Window
    BY <2>2 DEF Newest
  <2>4. o.time \in Nat
    BY Bounds DEF Inv, TypeOK, Time
  <2>5. o.time + PollInterval >= now
    BY <2>4, Times, Bounds DEF Inv, AwakeInTime
  <2>6. o \in lines
    BY <2>3, <2>5 DEF Window
  <2>7. agent'.seen = {x.line : x \in lines}
    BY <2>2 DEF Inv, TypeOK, AgentState
  <2>8. QED
    BY <2>6, <2>7
<1>2. QED
  BY <1>1, InvIsInvariant, PTL DEF Spec, SleepIsCovered
===============================================================================
