# TLA+ models of NexaDuo chat-services

NexaDuo chat-services connects Chatwoot, where contacts of a company write and people answer them, to
Dify, which runs an AI agent. The program is `middleware/`: it receives a webhook for every message, groups
bursts, asks the agent and posts its answer, and it must stay silent once a person has taken a conversation
over. Around it there are an edge worker, a self-healing agent, provisioning scripts and the deployment.

This directory holds TLA+ models of the middleware's message path, of everything that writes or caches the
tenants table, and of the self-healing agent; the TLC runs that check them on small instances; and proofs, checked
by TLAPS, of all their safety properties for instances of any size. `PROJECT.json` maps
each definition to the source lines it stands for and lists runs, theorems, hazards and findings.

## 1. Inventory

| Component | State it keeps | Operations | Talks to | Model |
|---|---|---|---|---|
| `middleware/src/conversation-debouncer.ts` | a Map of objects {messages, timer, flushing}, armed timers | enqueue, timer callback, flush, its finally block | called by the webhook route, calls flushGroup | `ConversationDebouncer` |
| `in-turn-handoff.ts`, `handlers/handoff.ts` | registry of turns in flight, a flag per turn | beginDifyTurn, markHandedOff, finish, POST /tools/handoff | called by flushGroup and by the agent; calls Chatwoot three times | `InTurnHandoff` |
| `handlers/chatwoot-webhook.ts`: route, flushGroup, watermark | `conversation_watermarks` in Postgres, locals of each flush | POST /webhooks/chatwoot, flushGroup with ten awaits, persistWatermarkResilient | Postgres, Chatwoot, Dify, the two above | `ReplyPipeline` |
| the same file: the agent's memory | a cache, the table `contact_dify_conversations`, a custom attribute in Chatwoot | lookup, write-through, `scripts/backfill-contact-dify-conversations.sh` | Postgres, Chatwoot, Dify | `ContactMemory` |
| `config.ts`, `handlers/config.ts` | table `configs` | kill switch, GET and POST /config | read by flushGroup and the self-healing agent | switch only, in `ReplyPipeline` |
| `dify.ts` | locals of a call | blocking call; streaming call that reads server-sent events | Dify | `DifyStream` |
| `chatwoot.ts` | none | REST calls with a timeout | Chatwoot | outcomes only |
| tenants: `handlers/admin.ts`, `scripts/sync-tenants.ts`, `provisioning/`, read by `config.ts` and `handlers/tenant.ts` | table `tenants`, accounts in Chatwoot | provision with rollbacks, import, update of the key, sync with retries, seed script, CLI | Postgres, Chatwoot platform API | `TenantRegistry` |
| `edge/cloudflare-worker` | a cache per isolate | look up a tenant, proxy | the middleware, the installations of Chatwoot and Dify | `EdgeRouter` |
| `agents/self-healing` | table `insights`, its configuration | configuration with retries, poll, filter, cooldown, diagnosis, insert, SIGTERM | Loki, Dify, Postgres, the config API | `SelfHealing`, `NoiseFilter` |
| admin sessions in `handlers/admin.ts` | table `sessions` | login, logout, check | Postgres | not modelled |
| health, metrics, logger, telemetry, admin UI, edge rewriting, deploy, Terraform, workflows, operations scripts, onboarding | counters or none | I/O, formatting, configuration | | not modelled |

How the parts interact. A webhook is authenticated, filtered and, after one await (the tenant), put into the
debouncer under `account:conversation`. A timer hands the whole buffer to `flushGroup`, one flush per
conversation at a time, while flushes of different conversations run concurrently. A flush reads the watermark,
the tenant, the kill switch, the conversation's owner and the contact's thread, calls Dify within a *turn*, writes
the thread, asks for the owner again, posts the reply and then writes the watermark. While Dify runs, its agent
may call `POST /tools/handoff`, which opens the conversation and marks the turn so that its last answer may
still be posted. There is one process: everything but the three tables and what Chatwoot stores dies with it.

Which Dify app a flush calls is what `resolveTenant` finds in `tenants` for the account. That table has five writers
that do not know of each other: requests to the admin portal, which create accounts in Chatwoot or import them,
the sync of `tenants.yaml` as a program and as a SQL script, and the provisioning CLI. The edge worker reads it by
name, through the middleware, and remembers what it found for ten minutes. The self-healing agent is a process of
its own, which shares nothing with the others but the logs and the config API.

What is hard here: two live timers of one key and closures over objects that have left the Map; every await of a
flush is a point where a person, the operator, another webhook, a handoff or a restart comes in between; calls
that fail after having been carried out; redeliveries and reordered webhooks; a Dify stream that never ends; a
full registry; first turns of one contact in two conversations; responses handled in another order than
Postgres committed; a stream of events cut at any byte; rollbacks over HTTP that fail themselves, and calls that fail
after having been carried out; a sync that starts its list again beside writers it does not see; lookups that
overwrite a newer cache entry; an agent cut off from its database at any step. `PROJECT.json` ("hazards") names each with its line and the properties aimed at it.

What makes each part correct:

* debouncer: nothing enqueued is forgotten, flushed twice or flushed beside another flush of its key; no key
  blocks another;
* handoff: a turn's mark is earned by a request received while the registry held that turn, for its conversation, and
  is final once the call settles; the registry is bounded, an entry goes only with its own turn, and the slot of a
  call that settles comes back;
* pipeline: a message is answered once, apart from the residual risk the code names; the watermark records
  answers only; a person's conversation gets one late reply at most; no failure note after a delivered reply;
* memory: no thread is shared by two people, and a contact's stored thread is not reset;
* event stream: what is read does not depend on how the network cuts it, and an error is never an answer;
* tenants: a key is never wiped, a failed provision leaves no account, requests one after the other map an
  account once (with an exception, section 5), a sync that succeeds has written what it should and one that may
  succeed does;
* edge: nobody is sent to a target older than the cache allows;
* self-healing: one insight per fingerprint and cooldown, no line lost in a finished iteration or in a sleep, never
  silently degraded.

## 2. Modules

| Module | What it is |
|---|---|
| `BatchQueue` | what the debouncer promises: per key, a queue that one consumer empties a batch at a time |
| `ConversationDebouncer` | the class, with heap objects and timers; implements `BatchQueue` |
| `InTurnHandoff` | registry and handoff route, beside people who change the status |
| `ReplyPipeline` | route and `flushGroup`, composed from instances of `BatchQueue` and `InTurnHandoff` |
| `ContactMemory` | the part of `flushGroup` that keeps the agent's memory, and the backfill script |
| `DifyStream` | `chatStreaming`: the reader of the event stream |
| `TenantRegistry` | the tenants table and its writers, composed with an instance of `EdgeRouter` |
| `EdgeRouter` | the edge worker's lookup and its cache |
| `NoiseFilter` | which log lines the self-healing agent looks at, as functions |
| `SelfHealing` | the agent; extends `NoiseFilter` |
| `MC*` | instances for TLC |
| `*_proofs` | theorems about the module of that name |

Operators with an underscore in their name (`CanFlush_Reentrant`, ...) are variants with a plausible bug, next to
the definition they would replace. No specification uses them; each property is known to notice one of them.

**From code to actions.** JavaScript runs a callback to its next `await` without interruption, so an action is one
such stretch of code: the continuation of an awaited call, with every outcome that call can have, up to the next.
An awaited call that succeeds, fails, or fails after having been carried out is a disjunct each.

* `ConversationDebouncer`: `Enqueue` is `enqueue`; `Fire` is a timer's closure with `runFlush` up to its await;
  `FlushEnd` is what follows it, catch and finally together. Objects have identities (`State`), because a closure
  keeps one alive after its key has another. All timers have the same delay, so they fire in the order they were
  armed; a timer is its rank in that order and no clock is needed.
* `InTurnHandoff`: `BeginDifyTurn` and `Finish` are the functions of `in-turn-handoff.ts`; `HandoffReceive`,
  `HandoffToggled`, `HandoffLabelled`, `HandoffNoted` are the route between its three calls and `HandoffFails` its
  catch block. `StatusChange` is everybody else in Chatwoot.
* `ReplyPipeline`: `Send` is the route up to `await resolveTenant`, `Buffer` the rest of it. `flush[c].pc` names the
  call that c's flush awaits, and each of `ReadWatermark`, `ResolveTenant`, `ReadKillSwitch`, `CheckOwner`,
  `CallDify`, `DifySettles`, `RecheckOwner`, `PostReply`, `PersistWatermark`, `CheckOwnerOfFailed` and
  `PostErrorNote` is what follows one. `late` and `offSeen` are histories that any step updates (`Observe`).
* `ContactMemory`: `Begin` is the lookup in the cache, `ReadTable` what follows the query, `DifyAnswers` the
  choice of what to write. A write of the table is `Commit` in Postgres and `Persisted` in the process, since two
  connections answer independently. `turn[c].from` is `resolvedFrom`.
* `DifyStream`: `Data(n)` is the data handler for a chunk of the next n bytes, `End` and `Fail` are the other two
  handlers; what the handler does with a chunk is `Decode`, `Leftover`, `ReadAll` and `AfterChunk`, in that order.
* `TenantRegistry`: `req[p].pc` names the call a request awaits, and `CreateAccount`, `CreateAndLinkUser`, `Rollback`,
  `CheckConflict` and `Insert` are what follows one. `SyncUpsert` is one round of `syncDatabase`'s loop with what
  `withRetry` makes of its failure; `SeedScript` is the transaction of `--print-sql`; `Register` is the CLI.
* `EdgeRouter`: `Visit` is `resolveTenant` up to its fetch, `Resolve` the middleware's query, `Answer` and
  `LookupFails` the rest. `Tick` is time; `stale` counts for how long what is cached or under way has been wrong.
* `SelfHealing`: `agent.pc` names the call awaited. `QueryLokiErrors`, `Suppress`, `CheckCooldown`,
  `AnalyzeWithErrorLLM`, `SaveInsight` and `EndIteration` are one iteration of `mainLoop`. `Log` is a line's
  arrival in Loki, with the time it was written at, since `observability/alloy` ships it some time later.

**Abstractions.** Message texts, tokens, metrics and logs are left out. Account ids are left out of keys, as every
key carries one. Dify is one call that answers, fails or hangs, with `DifyStream` for how a stream becomes one. In `ReplyPipeline` the contact's memory
is one await that may throw; `ContactMemory` has it in full, and nothing in the rest of a flush touches that
state. A conversation's `Delivery` is a webhook that passes the payload filters. `clearAll` of the debouncer has no
caller in the service. A restart is instantaneous and may come between any two steps: `shutdown` in
`index.ts` closes the server and exits without waiting for flushes, so a graceful stop loses what a crash loses.
A write of the contact table or of the attribute that is under way at the restart may still be carried out.

In `DifyStream` an event is six bytes: the head of its line, a character of two bytes, the tail and two newlines. A
longer line would only have more places to cut that are like the ones it has; nothing else of the text matters to the
reader. Decoding keeps positions, so a character remains two of them, and `torn` says of which events one was decoded in two
parts. In `TenantRegistry` the subdomain and the slug of a row are one
name, as every writer but the CLI makes them, and the CLI leaves the slug NULL. Administrators in Chatwoot are not
kept: no rollback removes one. In `SelfHealing` a line is what the regular expressions find in it, with its service
and its fingerprint, and lines with one fingerprint may differ; an insert has committed or will not by the time the agent goes on.

## 3. Runs

Every configuration checks deadlock; none has one.

| Run | Instance | Shows |
|---|---|---|
| `debouncer` | 2 keys (one may hang), 3 deliveries and 1, 4 heap objects, restarts | `OneFlushPerKey`, `MessageFate`, `PendingIsScheduled`, `ImplementsBatchQueue`, `EventuallySettled` |
| `handoff` | 3 conversations (one may hang), 3 turns, 1 request, room for 2 turns | `RegistryBounded`, `MarkedByOwnHandoff`, `MarkFinalOnceSettled`, `EntryFollowsItsTurn`, `SlotsAreReleased` |
| `reply` | 1 conversation, 2 messages, a redelivery, 3 turns, 1 handoff, 2 faults, 1 restart | `AnsweredOnce`, `WatermarkIsAnswered`, `AnsweredIsCovered`, `OneReplyPerHumanPeriod`, `KillSwitchStopsBuffered`, `NoNoteAfterAck`, `OwnTurnTracked` |
| `reply_live` | 2 conversations, one hangs in Dify with the only slot; a message without an id; 1 fault | `EventuallySettled` |
| `memory` | 2 contacts, 3 conversations, 2 threads, 1 fault, 1 restart, the backfill | `NoSharedMemory`, `MemoryIsKept` |
| `stream` | 10 streams of up to 3 events, cut anywhere, 2 calls | `ChunkingIsInvisible`, `ErrorIsNeverAnAnswer` |
| `tenants` | 3 names, 2 installations, 2 seeds, 2 portal requests, 2 visitors, 4 events | `ProvisionCleansUp`, `SerialRequestsMapOnce`, `SyncedMeansSeeded`, `KeyIsNeverWiped`, `SyncCompletes`, `EdgeIsRecent` |
| `healing` | 4 lines with 3 fingerprints, 3 environments, 3 lines in Loki, 4 ticks; failures without bound | `OneInsightPerCooldown`, `SleepIsCovered`, `CleanIterationFilesAll`, `DegradedOnlyIfAllowed` |
| `debouncer_quiet`, `reply_skipped`, `tenants_app`, `stream_torn` | small | what the code does not keep, section 5 |

**Bounds, and why they are enough.**

* Three deliveries under one key, beside one under another, reach what is particular to the debouncer: one is
  flushed, one arms a timer during the flush, the re-arm forgets that timer, it flushes the second and the entry is
  deleted while the other timer is armed, and the third creates it again. Every heap object is created by an enqueue,
  so four deliveries never need a fifth object and `StateFor` always finds one.
* Three conversations and three turns with two slots give two turns in a row for one conversation, a third turn
  that finds the registry full, a request that outlives its turn, and a slot that a hanging call holds for ever
  beside one that comes back.
* A message, a later one and a redelivery of the first can share a group, be in two, or come after a restart.
  `MaxFaults = 2` allows a failing call anywhere and another while the first is being handled (an outage that fails
  all three watermark writes is one fault), and `MaxRestarts = 1` a restart anywhere. One conversation suffices for
  safety: conversations share only the kill switch and the registry, whose competition is the `handoff` run's
  subject, and `reply_live` has two. Turns are interchangeable, and so are heap objects and threads in the runs that
  declare it; no run with a liveness property uses symmetry.
* Contacts 1 and 2 and conversations 1 to 3 overlap as numbers, which the cache's prefixes are there for; contact 1
  has two conversations, for concurrent first turns; one conversation's payloads carry the contact's id only now
  and then.
* `DifyStream` reads one event after the other and remembers an answer, ids, metadata and an error: three events have
  each kind before and after a message. `Data(n)` takes any n, so every cut into chunks is a behaviour. The second
  call shows that none inherits from the first.
* `MaxEvents` of the `tenants` run is one budget for requests, syncs, updates of a key, CLI calls, failing calls,
  crashes and visits, so four of them come in any combination and order: two imports beside each other and a lost
  answer, a sync that fails in its second upsert after somebody wrote the first row, a provision whose insert and
  rollback fail. Two seeds are what a retry in the middle needs; two attempts have one retry. Both physical tenants
  have account 1, as in `tenants.yaml`; account ids go up to 3, and an import or the CLI may name any of them, one
  that Chatwoot has not given out yet included. The edge has a lifetime and a lookup of one tick, and two requests whose
  lookups overlap. `tenants_app` has a second key.
* `healing`: four ticks hold a cooldown of 3, so an insight at 0 and another at 3 or later, and two polls of 2 apart;
  a timer is late by one tick at most. A line reaches Loki when it is written or any time later, and Loki returns two
  of its three lines. Calls fail, and the process is killed, as often as they like. `SleepIsCovered` is about a query
  and the sleep before it, `OneInsightPerCooldown` about two inserts, with any number of kills between.

**Fairness.** Liveness assumes that timers fire, that Postgres answers or fails, that the Chatwoot client times
out (it is created with a timeout) and that the `await` continuations run. Dify calls settle only for the keys of
`Settling` (a constant of `ConversationDebouncer`, `InTurnHandoff` and `ReplyPipeline`): axios' timeout ends with
the headers, and a stream that falls silent afterwards never settles (`dify.ts:88`). The liveness properties speak of the other conversations, so they say that a hang is contained; the
hanging call's own slot in the registry is held until a restart, and `SlotsAreReleased` does not claim it back.
Nothing is assumed of people, of the operator or of handoff requests not yet received. `SyncCompletes` assumes that
Postgres answers each upsert or fails it (`sync-tenants.ts` sets a connection timeout); nothing is assumed of anybody
else there, and `DifyStream` and `SelfHealing` have no liveness property and state no fairness. `pg.Pool` has no timeout of its own
(`index.ts:33`): if Postgres neither answers nor fails, the code makes no progress and no property claims any.

## 4. Proofs

The seven `*_proofs` modules prove, for any values of the constants, every safety property of the passing runs,
invariants and action properties. In each of them the component's invariant `Inv` is a conjunction of named parts, of
which the run's invariants are some; `InvIsInvariant` is proved action by action, and the properties are read off from
it. TLC has checked each `Inv` on the instance of its run.

The assumptions are the named `ASSUME`s of the modules, which TLC evaluates on each instance. They say that functions
and records have the right type, that bounds are numbers, and:

* `None` is none of the values it stands in for (`NoneAssumption`, `HandoffAssumption`, `NamesAssumption`,
  `RowAssumption`);
* a message id belongs to one conversation (`IdAssumption`): Chatwoot numbers all messages from one sequence;
* `Settling` is a set of conversations (`SettlingAssumption`); no safety theorem depends on which;
* `tenants.yaml` names no tenant twice (`SeedsAssumption`) and the sync makes at least one attempt (`BoundsAssumption`;
  the code says 5); cooldown and retries of the agent are at least 1, as the code's are.

The arguments, module by module:

* **Debouncer.** `MessageFate` is not inductive: a flush that ends must be known to be the entry's own, and an
  object that left the Map must be known to hold nothing that counts. `Inv` adds `MapAndFlights` (an entry's
  object belongs to its key, and a flush in flight is the entry's own), `TimerRanks` (ranks name timers, and an
  object never holds the rank of another object's armed timer, so `clearTimeout` hits no other) and `Contents`
  (a message is under its own key, and not both waiting and being flushed). At most one flush per key follows at
  once from `MapAndFlights`. `Implements` maps each step to a step of `BatchQueue` or a stutter: `Enqueue` to
  `Put`, a `Fire` that starts a flush to `Take`, `FlushEnd` to `Settle`.
* **Handoff.** `MarkedByOwnHandoff` needs that the turn a request captured belonged to its conversation and was
  tracked at receipt (`CapturedTurns`), and that the registry's entries are in flight under their own conversation
  (`RegistryHoldsInFlight`, which is part of `Inv` and not a property of a run). The two action properties follow from
  the invariant, action by action: `MarkFinalOnceSettled` since only a turn that holds its entry is marked, and
  `EntryFollowsItsTurn` since a turn that settles removes no entry but its own. `RegistryBounded` carries
  `IsFiniteSet(Tracked)` along, since cardinalities of infinite sets are not numbers.
* **Memory.** `NoSharedMemory` is inductive together with `TableTurns`: the flushes that reach the table know their
  contact. `MemoryIsKept` needs `StoredTurns`: a flush that began when the contact had a row resolves from it or
  from the cache, and never comes to the upsert.
* **Pipeline.** Two refinements come first. `UsesTheQueue` shows that the pipeline implements `BatchQueue`, which the
  debouncer's `Implements` shows of the class from the other side: what the one promises is what the other assumes.
  `UsesTheRegistry` shows that it implements `InTurnHandoff`, so the theorems about the registry are cited, not
  proved again (`InTurnHandoff_proofs` is instantiated; `SameSpec` identifies the two instances).
  Of the rest, `WatermarkIsAnswered` and `AnsweredIsCovered` are inductive only with `GroupIsNewOrAnswered`: what a flush
  may answer is above the watermark until the reply is posted, and answered from then until the watermark is written.
  No other step may move a watermark in between, which is why `FlushHasBatch` ties a flush to its batch. That the new
  watermark covers the whole group needs that the largest id of a group exists, so that a batch is finite
  (`ElementsAreFinite`, `FiniteSetHasMaximum`).
  `AnsweredOnce` then says of the step that posts a reply: what it answers is above the watermark, so by
  `AnsweredIsCovered` not answered before, or of the residual risk. `OneReplyPerHumanPeriod` needs `NoneOnTheWay` (after
  the late reply no flush is between its first check and its post), `OwnTurnTracked` needs `TurnIsOwn`, and
  `KillSwitchStopsBuffered` needs `OffWasSeen`.
* **Event stream.** `After[m]` is what the first m events add up to, and `ReadAllText` shows that a text which begins
  where an event begins is read as the events that end in it. The rest is where a text begins: `BufferIsRest` says
  that the buffer is the text after the last complete event, so buffer and chunk together begin where an event does,
  and `ChunkingIsInvisible` follows. `ErrorsEndTheAnswer` says of `After` what `ErrorIsNeverAnAnswer` needs. The
  reader is a recursive function; that it exists and what it computes are inductions, which the provers cannot take
  from the library, as its theorems have predicates for parameters. `Induction` states it with a set instead and
  is proved from the library's `WFMin`; `RecursionExists` builds the function from that.
* **Tenants.** The invariant has four groups. *Accounts*: ids grow (`AccountsBelowNext`), so the account a provision was
  given is no other provision's, nor that of an earlier import, unless the import named an id not given out yet
  (`AccountIsOwn`; `req[p].early` is the history of that), and stays in Chatwoot until its own rollback
  (`ProvisionHasAccount`), which gives `ProvisionCleansUp`. *Rows*: a row that a request wrote says what the request said (`RowIsByRequest`), a request
  that was not in flight when another began had ended (`BeginInOrder`), and an import that finds the account mapped by
  such a request fails without a row (`ImportsAreChecked`), which gives `SerialRequestsMapOnce`. *Sync*: the seeds
  before the one at hand are in the table or overwritten (`SeededSoFar`), and a retry goes back to the first; it is what
  makes `SyncedMeansSeeded` hold through failures. *Edge*: what is cached or on its way is no staler than its age and
  the lookup it came from allow (`StaleIsBounded`). `KeyIsNeverWiped` is shown writer by writer, from the types alone. A
  step is described once by what it leaves of the fields of `req` and `chatwoot` (the lemmas `...Goes`), and each group
  is proved from these descriptions.
* **Self-healing.** `OneInsightPerCooldown` needs that a line on its way to the table had no insight within the cooldown
  when it was checked, and still has none, as time only grows and nobody else inserts (`Unfiled`).
  `CleanIterationFilesAll` needs where the lines of an unfinished iteration are (`NoneForgotten`), and `SleepIsCovered`
  that a sleep ends in time (`AwakeInTime`).

Two things came out of the proofs. No proof about the pipeline uses that webhooks are sent in the order of their ids:
that the watermark is the largest id of a group is enough. And a sync of an empty `tenants.yaml` ends at once with
success (`sync-tenants.ts:332`), where an earlier version of `StartSync` had it run with no seed to come to.

Model-checked only, and why:

* liveness (`EventuallySettled`, `SlotsAreReleased`, `SyncCompletes`): fairness and ENABLED are out of the proof
  system's reach;
* the four runs of section 5, which end in a counterexample.

## 5. What the code does not keep

Each is a run that ends in a violation, with one property taken from a comment or a document.

* `QuietWindow` (`debouncer_quiet`). A message enqueued during a flush arms a timer; the finally block
  (`conversation-debouncer.ts:113`) overwrites `state.timer` without clearing it. The forgotten timer flushes early and
  splits a burst. Nothing is lost or flushed twice, as the `debouncer` run and its proofs show.
* `SkippedWasAnswered` (`reply_skipped`). "Fully below watermark" is logged as "duplicate delivery", but a message
  overtaken by a later one, or whose group a restart took, is below the watermark and was never answered.
* `AccountHasOneApp` (`tenants_app`). import looks for the account in one statement and inserts in another, and no
  column but slug and subdomain is unique (`admin.ts:568`): two imports at the same time map one account twice, and
  `resolveTenant` takes whichever row comes first. No request needs to overlap another if an import names an id that
  Chatwoot has not given out yet (`POST .../import` does not ask Chatwoot) and a later provision is given it: the INSERT of
  provision looks for no other row of the account (`admin.ts:442`). `SerialRequestsMapOnce` says that among the
  requests to the portal nothing else does that.
* `AnswerIsIntact` (`stream_torn`). Chunks are decoded one by one (`dify.ts:96`), so a character that a chunk boundary
  cuts is torn. It needs a Dify that sends UTF-8 as it is, not as JSON escapes. The events themselves survive any cut.

Noted while modelling, without a run of their own; the models do in each case what the code does:

* after its early flush the overwritten timer's successor returns without freeing the idle entry, which
  the comment of `conversation-debouncer.ts:118` promises;
* two calls are awaited between the read of the kill switch and the Dify call (`chatwoot-webhook.ts:411`), where
  `docs/dify-kill-switch.md` has the read immediately before it;
* setting the cache after the `await` (`chatwoot-webhook.ts:579`) does not align it with the table's commit order, since
  responses of two connections may be handled in the other order;
* after a failed upsert the next turn resolves from the cache and is taken for "already durably persisted"
  (`chatwoot-webhook.ts:538`), so the row is not written until the process restarts;
* a stream that ends early is posted like a complete answer (`dify.ts:139`);
* provision's rollback leaves the user it created (`admin.ts:432`), and when the insert committed but its answer was
  lost, it deletes the account of a row that stays (`admin.ts:447`); the plan asks for rollbacks "to keep states clean"
  (`docs/superpowers/plans/2026-06-20-admin-portal-implementation.md:71`);
* a tenant that the CLI registered has no slug, and the sync of a seed of that name then fails for good, at that seed
  and before the ones after it (`provisioning/src/db.ts:22`, `sync-tenants.ts:78`);
* the edge's cache has no maximum size, which its comment speaks of (`index.ts:21`);
* `loadIgnoreRules` throws where its comment has it return an empty set (`filters.ts:210`), which its caller makes up
  for; a line without a level that contains `DETAIL:` or `LOG:` anywhere counts as 'info' (`filters.ts:80`);
* lines written while an iteration runs, or before a query that fails, or that Alloy ships only after the query that
  asks for their time, are in no later window (`index.ts:158`), the Loki request has no timeout (`index.ts:164`), and a database error drops the rest of a window (`index.ts:248`).

## 6. Plan

Done: `BatchQueue`, `ConversationDebouncer`, `InTurnHandoff`, `ReplyPipeline`, `ContactMemory`, `EdgeRouter`,
`TenantRegistry`, `DifyStream`, `NoiseFilter` and `SelfHealing`, with the proofs of all their safety properties.

Next, in this order:

1. An abstract specification of the pipeline, "each message is answered once, or its answer is of the residual risk", with
   a proof that `ReplyPipeline` implements it.
2. `NoiseFilter`: theorems about which lines can and cannot be dropped, for any line.
3. The steps on which the liveness arguments rest, as safety theorems: no two flushes wait for each other, and whatever is
   awaited is owed by Postgres, Chatwoot or Dify.

## 7. Not modelled

* Admin sessions: login, logout and `checkAuth` are a statement each on the table `sessions`, whose expiry Postgres
  compares itself. There is no state of the process and no second step to interleave with. (A logout whose DELETE
  fails answers 200 all the same.)
* The admin interface (`admin-ui/App.tsx`), the portal's reading pages, the rewriting of paths and HTML at the edge, and
  the content markers of a payload: formatting, without state.
* Health, metrics, logging, telemetry: no control flow depends on them.
* The creation of secrets in GCP and of the admin user by the sync, deployment, Terraform, workflows, backups and
  onboarding: configuration and straight-line I/O against services that are not part of this repository.
* Authentication, validation of request bodies and the text of `configs`: inputs that pass.
