------------------------------ MODULE SelfHealing ------------------------------
(***************************************************************************)
(* agents/self-healing/src/index.ts, db.ts, config-gate.ts: an agent that  *)
(* asks Loki every PollInterval for the error lines of the last            *)
(* PollInterval, has the new ones diagnosed through Dify and files one     *)
(* insight per fingerprint and cooldown.  It first fetches the key for     *)
(* Dify, and without it refuses to run unless told otherwise.              *)
(*                                                                         *)
(* Time is a number of ticks.  Every call may fail and any step take time. *)
(***************************************************************************)
EXTENDS NoiseFilter, Sequences, FiniteSets

CONSTANTS
  Message,       \* the distinct lines that services write, all matching the query
  Deployments,   \* [secret, allow]: HANDOFF_SHARED_SECRET set, SELF_HEALING_ALLOW_NO_CONFIG=1
  Retries,       \* of fetchConfig
  PollInterval,  \* POLL_INTERVAL_MS, also the window of a query
  Cooldown,      \* COOLDOWN_HOURS
  Limit,         \* lines that a query returns
  MaxLate,       \* bound: how late the timer of a sleep may be
  MaxTime,       \* bound: ticks
  MaxLogged      \* bound: lines in Loki

ASSUME MessageAssumption == Message \subseteq Line
ASSUME DeploymentsAssumption == Deployments \subseteq [secret : BOOLEAN, allow : BOOLEAN]
ASSUME BoundsAssumption ==
  /\ {Retries, PollInterval, Cooldown, Limit, MaxLate, MaxTime, MaxLogged} \subseteq Nat
  /\ Retries > 0 /\ Cooldown > 0

VARIABLES
  now,
  deployment,  \* the environment of the process
  logged,      \* what has reached Loki: [line, time], the time it was written at
  insights,    \* the table, a sequence of [print, time]
  agent        \* the process

vars == <<now, deployment, logged, insights, agent>>
Time == 0 .. MaxTime

\* pc: what the process awaits or does next.  queue: lines of this iteration to look
\* at, current: the one being diagnosed.  History: when the query was made, what it
\* gave, the lines Dify gave no diagnosis for, and whether the iteration went through.
AgentState ==
  [pc : {"down", "config", "poll", "check", "analyze", "save", "sleep"},
   running : BOOLEAN, key : BOOLEAN, attempt : 1 .. Retries, asleep : Time,
   queue : SUBSET Message, current : Message \cup {None},
   polled : Time, seen : SUBSET Message, undiagnosed : SUBSET Message, clean : BOOLEAN]

TypeOK ==
  /\ now \in Time
  /\ deployment \in Deployments
  /\ logged \in SUBSET [line : Message, time : Time]
  /\ insights \in Seq([print : Nat, time : Time])
  /\ agent \in AgentState

Down ==
  [pc |-> "down", running |-> TRUE, key |-> FALSE, attempt |-> 1, asleep |-> 0, queue |-> {},
   current |-> None, polled |-> 0, seen |-> {}, undiagnosed |-> {}, clean |-> FALSE]

Init ==
  /\ now = 0
  /\ deployment \in Deployments
  /\ logged = {}
  /\ insights = <<>>
  /\ agent = Down

\* A line reaches Loki.  Alloy ships it with the time at which the service wrote it,
\* now or earlier.  (external; observability/alloy/config.alloy)
Log(m) ==
  /\ Cardinality(logged) < MaxLogged
  /\ \E t \in 0 .. now : logged' = logged \cup {[line |-> m, time |-> t]}
  /\ UNCHANGED <<now, deployment, insights, agent>>

Overdue == agent.pc = "sleep" /\ now = agent.asleep + PollInterval + MaxLate

Tick ==
  /\ now < MaxTime
  /\ ~Overdue
  /\ now' = now + 1
  /\ UNCHANGED <<deployment, logged, insights, agent>>

\* A step of the process that writes no insight.
Becomes(a) == agent' = a /\ UNCHANGED <<now, deployment, logged, insights>>
-------------------------------------------------------------------------------
\* The container starts; db.init has verified the schema, or it would start again.
Boot ==
  /\ agent.pc = "down"
  /\ Becomes([agent EXCEPT !.pc = "config"])

\* decideMissingConfig
DecideMissingConfig_Degrades(allow) == "degrade"
DecideMissingConfig(allow) == IF allow THEN "degrade" ELSE "fail"

WithoutConfig == IF DecideMissingConfig(deployment.allow) = "degrade" THEN [agent EXCEPT !.pc = "poll"] ELSE Down

\* fetchConfig without a secret.
NoSecret ==
  /\ agent.pc = "config" /\ ~deployment.secret
  /\ Becomes(WithoutConfig)

\* One attempt of fetchConfig: the middleware gives the key, or fails, or has none yet.
IsLast_OffByOne == agent.attempt = Retries + 1
IsLast == agent.attempt = Retries
FetchConfig ==
  /\ agent.pc = "config" /\ deployment.secret
  /\ \/ Becomes([agent EXCEPT !.pc = "poll", !.key = TRUE])
     \/ Becomes(IF IsLast THEN WithoutConfig ELSE [agent EXCEPT !.attempt = @ + 1])
-------------------------------------------------------------------------------
\* What a query at this moment asks for, and what Loki returns of it: the newest lines.
Window_Short == {o \in logged : o.time > now - PollInterval}
Window == {o \in logged : o.time + PollInterval >= now}
Newest(lines) ==
  IF Cardinality(lines) <= Limit THEN {lines}
  ELSE {some \in SUBSET lines :
          Cardinality(some) = Limit /\ \A o \in some, x \in lines \ some : o.time >= x.time}

\* The iteration is over: the process sleeps, or ends after a SIGTERM.
Ended(clean) ==
  IF agent.running THEN [agent EXCEPT !.pc = "sleep", !.asleep = now, !.queue = {}, !.current = None,
                                      !.clean = clean]
                   ELSE Down

\* queryLokiErrors; a failed query returns no lines, and is not repeated.
QueryLokiErrors ==
  /\ agent.running
  /\ agent.pc = "poll" \/ (agent.pc = "sleep" /\ now >= agent.asleep + PollInterval)
  /\ \/ \E lines \in Newest(Window) :
          LET messages == {o.line : o \in lines}
          IN  Becomes([agent EXCEPT !.pc = "check", !.queue = messages, !.asleep = 0,
                                    !.polled = now, !.seen = messages, !.undiagnosed = {}])
     \/ Becomes(Ended(FALSE))

\* After a SIGTERM the loop is not entered, or ends when the process wakes.
LeaveLoop ==
  /\ agent.pc \in {"poll", "sleep"} /\ ~agent.running
  /\ Becomes(Down)

Suppress(m) ==
  /\ agent.pc = "check" /\ m \in agent.queue /\ ~ShouldFileIssue(m)
  /\ Becomes([agent EXCEPT !.queue = @ \ {m}])

\* isCooldownActive.  After a SIGTERM the pool is closed and every query fails; an
\* error ends the iteration.
CooldownActive_Interval(m) ==
  \E i \in DOMAIN insights : insights[i].print = m.print /\ insights[i].time > now - PollInterval
CooldownActive(m) ==
  \E i \in DOMAIN insights : insights[i].print = m.print /\ insights[i].time + Cooldown > now
CheckCooldown(m) ==
  /\ agent.pc = "check" /\ m \in agent.queue /\ ShouldFileIssue(m)
  /\ \/ /\ agent.running
        /\ Becomes(IF CooldownActive(m) THEN [agent EXCEPT !.queue = @ \ {m}]
                   ELSE [agent EXCEPT !.queue = @ \ {m}, !.pc = "analyze", !.current = m])
     \/ Becomes(Ended(FALSE))

\* analyzeWithErrorLLM: a diagnosis, or none: no key, a failed call or an invalid answer.
AfterNone_Break == {}
AfterNone == agent.queue
AnalyzeWithErrorLLM ==
  /\ agent.pc = "analyze"
  /\ \/ /\ agent.key
        /\ Becomes([agent EXCEPT !.pc = "save"])
     \/ Becomes([agent EXCEPT !.pc = "check", !.queue = AfterNone, !.current = None,
                              !.undiagnosed = @ \cup {agent.current}])

\* saveInsight commits, or commits and its answer is lost, or fails.
SaveInsight ==
  /\ agent.pc = "save"
  /\ \/ /\ agent.running
        /\ insights' = Append(insights, [print |-> agent.current.print, time |-> now])
        /\ agent' \in {[agent EXCEPT !.pc = "check", !.current = None], Ended(FALSE)}
        /\ UNCHANGED <<now, deployment, logged>>
     \/ Becomes(Ended(FALSE))

EndIteration ==
  /\ agent.pc = "check" /\ agent.queue = {}
  /\ Becomes(Ended(TRUE))

\* process.on("SIGTERM")
Sigterm ==
  /\ agent.pc # "down" /\ agent.running
  /\ Becomes([agent EXCEPT !.running = FALSE])

\* The process dies: a crash, an exit, or docker after the grace of a SIGTERM.
Kill == agent.pc # "down" /\ Becomes(Down)

Next ==
  \/ \E m \in Message : Log(m) \/ Suppress(m) \/ CheckCooldown(m)
  \/ Tick
  \/ Boot \/ NoSecret \/ FetchConfig
  \/ QueryLokiErrors \/ LeaveLoop \/ AnalyzeWithErrorLLM \/ SaveInsight \/ EndIteration
  \/ Sigterm \/ Kill

Spec == Init /\ [][Next]_vars
-------------------------------------------------------------------------------
\* However the agent is killed, restarted or cut off from its database's answers, two
\* insights of one fingerprint are a cooldown apart, although the diagnosis between the
\* check and the insert takes its time.  (index.ts:234-245, db.ts:49-82)
OneInsightPerCooldown ==
  \A i, j \in DOMAIN insights :
    i < j /\ insights[i].print = insights[j].print => insights[j].time >= insights[i].time + Cooldown

\* A query that answers after a sleep gives every line written during it that Loki has,
\* unless they are more than the limit: windows and sleeps fit, up to the lateness of a
\* timer.  (What is written during an iteration, or before a query that fails, or comes
\* to Loki after the query, nobody reads.)
\* (index.ts:156-172,252-254)
SleepIsCovered ==
  [][agent.pc = "sleep" /\ agent'.pc = "check" /\ Cardinality(Window) <= Limit =>
       \A o \in logged : o.time >= agent.asleep + MaxLate => o.line \in agent'.seen]_vars

\* Error lines, and lines without a level, that no operator typed and no rule excuses.
Actionable(m) ==
  /\ ExtractSeverity(m) \in {"error", "fatal", "unknown"}
  /\ ~IsInteractiveOperatorSession(m)
  /\ m.rules = {}

\* An iteration that went through leaves every actionable line it was given with an
\* insight within the cooldown, or with a diagnosis that Dify owed: one line's failure
\* costs no other line its turn.  (index.ts:217-247, filters.ts:180-204)
CleanIterationFilesAll ==
  agent.pc = "sleep" /\ agent.clean =>
    \A m \in agent.seen :
      Actionable(m) => \/ m \in agent.undiagnosed
                       \/ \E i \in DOMAIN insights :
                            insights[i].print = m.print /\ insights[i].time + Cooldown > agent.polled

\* The agent never looks at logs without a key for Dify, as it did unnoticed in issue
\* 152, unless it was told that it may.  (config-gate.ts:18-20, index.ts:77-141)
DegradedOnlyIfAllowed ==
  agent.pc \in {"poll", "check", "analyze", "save", "sleep"} => agent.key \/ deployment.allow
-------------------------------------------------------------------------------
\* The inductive invariant of SelfHealing_proofs.

\* No insight is from the future, and a line that is diagnosed or saved has none
\* within the cooldown.
Unfiled ==
  /\ \A i \in DOMAIN insights : insights[i].time <= now
  /\ agent.pc \in {"analyze", "save"} => agent.current \in Message /\ ~CooldownActive(agent.current)

\* A sleep ends in time.
AwakeInTime ==
  agent.pc = "sleep" => agent.asleep <= now /\ now <= agent.asleep + PollInterval + MaxLate

\* Filed lately enough for this iteration.
Filed(m) == \E i \in DOMAIN insights : insights[i].print = m.print /\ insights[i].time + Cooldown > agent.polled

\* What an iteration has still to do, it knows.
NoneForgotten ==
  agent.pc \in {"check", "analyze", "save"} =>
    /\ agent.polled <= now
    /\ \A m \in agent.seen : Actionable(m) =>
         \/ m \in agent.queue \cup agent.undiagnosed
         \/ agent.pc # "check" /\ m = agent.current
         \/ Filed(m)

Inv ==
  /\ TypeOK
  /\ OneInsightPerCooldown /\ Unfiled
  /\ AwakeInTime
  /\ CleanIterationFilesAll /\ NoneForgotten
  /\ DegradedOnlyIfAllowed
===============================================================================
