---------------------------- MODULE TenantRegistry ----------------------------
(***************************************************************************)
(* The table `tenants` (infrastructure/postgres/01-init.sql) and all who    *)
(* write it: the admin portal (middleware/src/handlers/admin.ts), which    *)
(* creates accounts in Chatwoot or imports them, scripts/sync-tenants.ts,  *)
(* which seeds the tenants of tenants.yaml, and the provisioning CLI.  The *)
(* middleware reads it by account, the edge worker by name (EdgeRouter).   *)
(*                                                                         *)
(* A physical tenant is a row whose account is 1: it has an installation   *)
(* of Chatwoot of its own, which numbers its accounts from 1.  Of a row,   *)
(* only what tells tenants apart is kept; Dify's URL and app type go along *)
(* with the key.                                                           *)
(***************************************************************************)
EXTENDS Naturals, FiniteSets, Sequences

CONSTANTS
  Name,        \* subdomains, which are also slugs
  Installation,\* installations of Chatwoot, one per physical tenant
  Key,         \* keys of Dify apps
  Seeds,       \* tenants.yaml: a sequence of [name, url, acct, secret]
  Existing,    \* Existing[u]: accounts that Chatwoot u has at the start
  Deployed,    \* names that an earlier sync has put into the table
  Request,     \* requests to the admin portal that last, numbered as they come
  Visitor,     \* requests that reach the edge, numbered as they come
  Watched,     \* the tenant they are for
  None,
  MaxAttempts, \* of the sync: 5 in main
  CacheTtl,    \* of the edge's cache, in ticks
  MaxLookup,   \* bound: ticks a lookup of the edge takes
  MaxAccount,  \* bound: accounts per installation; a provision beyond it fails
  MaxEvents    \* bound: requests, syncs, faults, crashes and visits together

Seed == {Seeds[i] : i \in DOMAIN Seeds}
Account == 1 .. MaxAccount

ASSUME NamesAssumption ==
  Watched \in Name /\ None \notin Name \cup Installation \cup Key \cup Account \cup Request
ASSUME SeedsAssumption ==
  /\ Seeds \in Seq([name : Name, url : Installation, acct : Account, secret : Key \cup {None}])
  /\ \A i, j \in DOMAIN Seeds : Seeds[i].name = Seeds[j].name => i = j
  /\ Deployed \subseteq {s.name : s \in Seed}
ASSUME ExistingAssumption == Existing \in [Installation -> SUBSET Account]
ASSUME RequestAssumption == Request \cup Visitor \subseteq Nat
ASSUME BoundsAssumption ==
  MaxAttempts \in Nat \ {0} /\ {CacheTtl, MaxLookup, MaxAccount, MaxEvents} \subseteq Nat

VARIABLES
  rows,      \* rows[n]: the row with subdomain n, None when there is none
  chatwoot,  \* chatwoot[u]: [accounts, next], next the id that comes next
  req,       \* req[p]: how far the handler of request p is
  sync,      \* the run of sync-tenants.ts
  cached,    \* of EdgeRouter
  visit,     \* of EdgeRouter
  events     \* counts what MaxEvents bounds

registryVars == <<rows, chatwoot, req, sync>>
edge == <<cached, visit>>
vars == <<registryVars, edge, events>>

Target(n) == IF rows[n] = None THEN None ELSE [acct |-> rows[n].acct, url |-> rows[n].url]
Edge == INSTANCE EdgeRouter WITH table <- Target(Watched)

\* A row.  slugged: its slug is its subdomain, not NULL.  History: the request that
\* has written the account, None for the sync and the CLI.
Row == [slugged : BOOLEAN, url : Installation \cup {None}, acct : Account, key : Key \cup {None},
        by : Request \cup {None}]
ASSUME RowAssumption == None \notin Row

\* History: requests in flight when p began; whether p is an import that named an
\* account not given out yet; and whether p was told less than what happened: a call
\* failed after it was carried out, the rollback failed, a crash.
RequestState ==
  [pc : {"new", "account", "user", "rollback", "check", "insert", "ok", "failed"},
   name : Name \cup {None}, url : Installation \cup {None}, acct : Account \cup {None},
   key : Key \cup {None}, creates : BOOLEAN, beside : SUBSET Request, early : BOOLEAN,
   misled : BOOLEAN]

\* History: seeds that others have written since this run has.
SyncState ==
  [pc : {"idle", "running", "ok", "failed"}, next : 1 .. Len(Seeds) + 1, attempt : 1 .. MaxAttempts,
   fetched : SUBSET Name, overwritten : SUBSET Name]

TypeOK ==
  /\ rows \in [Name -> Row \cup {None}]
  /\ chatwoot \in [Installation -> [accounts : SUBSET Account, next : 1 .. MaxAccount + 1]]
  /\ req \in [Request -> RequestState]
  /\ sync \in SyncState
  /\ events \in 0 .. MaxEvents

\* The row of a seed, and whether its secret could be fetched: a key that could
\* not is left out, whatever the row has then.
SeedKey_Placeholder(s, fetched) == IF s.name \in fetched THEN s.secret ELSE "placeholder"
SeedKey(s, fetched) == IF s.name \in fetched THEN s.secret ELSE None
SeedRow(s, fetched) ==
  [slugged |-> TRUE, url |-> s.url, acct |-> s.acct, key |-> SeedKey(s, fetched), by |-> None]

Init ==
  /\ rows = [n \in Name |-> IF n \notin Deployed THEN None ELSE
               SeedRow(CHOOSE s \in Seed : s.name = n, Deployed)]
  /\ chatwoot = [u \in Installation |->
       [accounts |-> Existing[u],
        next |-> CHOOSE k \in 1 .. MaxAccount + 1 :
                   k \notin Existing[u] /\ \A j \in 1 .. MaxAccount : j >= k => j \notin Existing[u]]]
  /\ req = [p \in Request |-> [pc |-> "new", name |-> None, url |-> None, acct |-> None, key |-> None,
                               creates |-> FALSE, beside |-> {}, early |-> FALSE, misled |-> FALSE]]
  /\ sync = [pc |-> "idle", next |-> 1, attempt |-> 1, fetched |-> {}, overwritten |-> {}]
  /\ Edge!EdgeInit
  /\ events = 0

Event == events < MaxEvents /\ events' = events + 1
NoEvent == UNCHANGED events

\* A write of row n by anyone but the sync.
Write(n, row) ==
  /\ rows' = [rows EXCEPT ![n] = row]
  /\ sync' = [sync EXCEPT !.overwritten = @ \cup {n}]

InFlight == {p \in Request : req[p].pc \in {"account", "user", "rollback", "check", "insert"}}
-------------------------------------------------------------------------------
\* The admin portal.  A request is refused, and changes nothing, unless its parent
\* is the slug of a physical tenant, whose URL it takes over.
IsParent(n) == rows[n] # None /\ rows[n].slugged /\ rows[n].acct = 1

Begin(p, n, u, acct, k, creates) ==
  /\ req[p].pc = "new"
  /\ \A q \in Request : q < p => req[q].pc # "new"
  /\ req' = [req EXCEPT ![p] =
       [pc |-> IF creates THEN "account" ELSE "check", name |-> n, url |-> u, acct |-> acct,
        key |-> k, creates |-> creates, beside |-> InFlight,
        early |-> ~creates /\ acct >= chatwoot[u].next, misled |-> FALSE]]
  /\ Event
  /\ UNCHANGED <<rows, chatwoot, sync, edge>>

\* POST .../provision: a new client.  POST .../import: the account that the form names,
\* of which nobody asks Chatwoot whether it exists.
Provision(p) ==
  \E parent \in {n \in Name : IsParent(n)}, n \in Name, k \in Key :
    Begin(p, n, rows[parent].url, None, k, TRUE)
Import(p) ==
  \E parent \in {n \in Name : IsParent(n)}, n \in Name, k \in Key, a \in Account :
    Begin(p, n, rows[parent].url, a, k, FALSE)

\* Chatwoot creates the account, or does not, or does and its answer is lost: the
\* request fails then without a rollback, since it never learns the id.
CreateAccount(p) ==
  LET u == req[p].url
      created == [accounts |-> chatwoot[u].accounts \cup {chatwoot[u].next}, next |-> chatwoot[u].next + 1]
  IN  /\ req[p].pc = "account"
      /\ \/ /\ chatwoot[u].next <= MaxAccount
            /\ chatwoot' = [chatwoot EXCEPT ![u] = created]
            /\ \/ /\ req' = [req EXCEPT ![p].pc = "user", ![p].acct = chatwoot[u].next]
                  /\ NoEvent
               \/ /\ req' = [req EXCEPT ![p].pc = "failed", ![p].misled = TRUE]
                  /\ Event
         \/ /\ req' = [req EXCEPT ![p].pc = "failed"]
            /\ IF chatwoot[u].next <= MaxAccount THEN Event ELSE NoEvent
            /\ UNCHANGED chatwoot
      /\ UNCHANGED <<rows, sync, edge>>

\* The account's administrator is created and linked; either call may fail.  (The
\* user, whom no rollback removes, is not kept here.)
CreateAndLinkUser(p) ==
  /\ req[p].pc = "user"
  /\ \/ /\ req' = [req EXCEPT ![p].pc = "insert"]
        /\ NoEvent
     \/ /\ req' = [req EXCEPT ![p].pc = "rollback"]
        /\ Event
  /\ UNCHANGED <<rows, chatwoot, sync, edge>>

\* The account is deleted; a failure is logged and forgotten.
Rollback(p) ==
  /\ req[p].pc = "rollback"
  /\ \/ /\ chatwoot' = [chatwoot EXCEPT ![req[p].url].accounts = @ \ {req[p].acct}]
        /\ req' = [req EXCEPT ![p].pc = "failed"]
        /\ NoEvent
     \/ /\ req' = [req EXCEPT ![p].pc = "failed", ![p].misled = TRUE]
        /\ Event
        /\ UNCHANGED chatwoot
  /\ UNCHANGED <<rows, sync, edge>>

\* import looks for a row with the subdomain or the account, of whatever parent.
Conflicts_NameOnly(p) == rows[req[p].name] # None
Conflicts(p) ==
  \E n \in Name : rows[n] # None /\ (n = req[p].name \/ rows[n].acct = req[p].acct)
CheckConflict(p) ==
  /\ req[p].pc = "check"
  /\ req' = [req EXCEPT ![p].pc = IF Conflicts(p) THEN "failed" ELSE "insert"]
  /\ NoEvent
  /\ UNCHANGED <<rows, chatwoot, sync, edge>>

\* The INSERT, of which the columns slug and subdomain are unique.  It succeeds, or
\* is refused or fails, or commits and its answer is lost.
AfterInsertError_Kept(p) == "failed"
AfterInsertError(p) == IF req[p].creates THEN "rollback" ELSE "failed"
Insert(p) ==
  LET r == req[p]
      row == [slugged |-> TRUE, url |-> r.url, acct |-> r.acct, key |-> r.key, by |-> p]
  IN  /\ r.pc = "insert"
      /\ \/ /\ rows[r.name] = None
            /\ Write(r.name, row)
            /\ \/ /\ req' = [req EXCEPT ![p].pc = "ok"]
                  /\ NoEvent
               \/ /\ req' = [req EXCEPT ![p].pc = AfterInsertError(p), ![p].misled = TRUE]
                  /\ Event
         \/ /\ req' = [req EXCEPT ![p].pc = AfterInsertError(p)]
            /\ IF rows[r.name] # None THEN NoEvent ELSE Event
            /\ UNCHANGED <<rows, sync>>
      /\ UNCHANGED <<chatwoot, edge>>

\* PUT .../accounts/:slug/dify: a body without a key leaves the row's.
UpdateDify(n, k) ==
  /\ rows[n] # None
  /\ rows[n].slugged
  /\ Write(n, [rows[n] EXCEPT !.key = IF k = None THEN @ ELSE k])
  /\ Event
  /\ UNCHANGED <<chatwoot, req, edge>>

\* The middleware dies, and with it the requests it was serving.
Crash ==
  /\ InFlight # {}
  /\ req' = [p \in Request |->
       IF p \in InFlight THEN [req[p] EXCEPT !.pc = "failed", !.misled = TRUE] ELSE req[p]]
  /\ Event
  /\ UNCHANGED <<rows, chatwoot, sync, edge>>

\* The CLI's register-tenant: a row without a slug, or another account for the row.
\* It does not ask whether the account exists either.
Register(n, acct) ==
  /\ Write(n, IF rows[n] = None
               THEN [slugged |-> FALSE, url |-> None, acct |-> acct, key |-> None, by |-> None]
               ELSE [rows[n] EXCEPT !.acct = acct, !.by = None])
  /\ Event
  /\ UNCHANGED <<chatwoot, req, edge>>
-------------------------------------------------------------------------------
\* sync-tenants.ts.  The upsert of a seed is keyed by its slug: a row of that name
\* without a slug stands in its way, an error that is not transient.
Clashes(n) == rows[n] # None /\ ~rows[n].slugged

Upserted_Wipes(s, fetched) == SeedRow(s, fetched)
Upserted(s, fetched) ==
  LET row == SeedRow(s, fetched)
  IN  IF rows[s.name] # None /\ row.key = None THEN [row EXCEPT !.key = rows[s.name].key] ELSE row

\* A run begins: secrets that cannot be fetched are left out.  Without a seed there
\* is nothing to do.
Start(fetched, pc) ==
  /\ sync.pc # "running"
  /\ sync' = [pc |-> pc, next |-> 1, attempt |-> 1, fetched |-> fetched, overwritten |-> {}]
StartSync(fetched) ==
  /\ Start(fetched, IF Seeds = <<>> THEN "ok" ELSE "running")
  /\ Event
  /\ UNCHANGED <<rows, chatwoot, req, edge>>

\* withRetry after a transient error: the whole list again, with a new pool.
RetryFrom_Next == IF sync.next < Len(Seeds) THEN sync.next + 1 ELSE sync.next
RetryFrom == 1
MayRetry_OffByOne == sync.attempt + 1 < MaxAttempts
MayRetry == sync.attempt < MaxAttempts
Retried ==
  IF MayRetry THEN [sync EXCEPT !.attempt = @ + 1, !.next = RetryFrom] ELSE [sync EXCEPT !.pc = "failed"]

\* The next upsert of syncDatabase, a transaction of its own: it commits, or cannot,
\* or the connection breaks before or after the commit.
SyncUpsert ==
  LET s == Seeds[sync.next]
      applied == [rows EXCEPT ![s.name] = Upserted(s, sync.fetched)]
      done == [sync EXCEPT !.next = @ + 1, !.overwritten = @ \ {s.name},
                           !.pc = IF sync.next = Len(Seeds) THEN "ok" ELSE @]
  IN  /\ sync.pc = "running"
      /\ \/ /\ Clashes(s.name)
            /\ sync' = [sync EXCEPT !.pc = "failed"]
            /\ NoEvent
            /\ UNCHANGED rows
         \/ /\ ~Clashes(s.name)
            /\ rows' = applied
            /\ sync' = done
            /\ NoEvent
         \/ /\ ~Clashes(s.name)
            /\ rows' \in {rows, applied}
            /\ sync' = Retried
            /\ Event
      /\ UNCHANGED <<chatwoot, req, edge>>

\* The deployment's way: the script of --print-sql, one transaction, not retried.
SeedScript(fetched) ==
  LET clash == \E s \in Seed : Clashes(s.name)
  IN  /\ Start(fetched, IF clash THEN "failed" ELSE "ok")
      /\ rows' = IF clash THEN rows ELSE
           [n \in Name |-> IF \A s \in Seed : s.name # n THEN rows[n]
                           ELSE Upserted(CHOOSE s \in Seed : s.name = n, fetched)]
      /\ Event
      /\ UNCHANGED <<chatwoot, req, edge>>
-------------------------------------------------------------------------------
Operator ==
  \/ \E n \in Name, k \in Key \cup {None} : UpdateDify(n, k)
  \/ \E n \in Name, acct \in Account : Register(n, acct)

Serve(p) == CreateAccount(p) \/ CreateAndLinkUser(p) \/ Rollback(p) \/ CheckConflict(p) \/ Insert(p)

EdgeStep ==
  /\ UNCHANGED registryVars
  /\ \/ /\ \E v \in Visitor : Edge!Visit(v)
        /\ Event
     \/ /\ \/ \E v \in Visitor : Edge!Resolve(v) \/ Edge!Answer(v) \/ Edge!LookupFails(v)
           \/ Edge!Tick
        /\ NoEvent

\* Nothing is under way, and the bounds allow nothing more.
Finished == events = MaxEvents /\ InFlight = {} /\ sync.pc # "running" /\ UNCHANGED vars

Next ==
  \/ \E p \in Request : Provision(p) \/ Import(p) \/ Serve(p)
  \/ Operator
  \/ Crash
  \/ \E fetched \in SUBSET {s.name : s \in {x \in Seed : x.secret # None}} :
       StartSync(fetched) \/ SeedScript(fetched)
  \/ SyncUpsert
  \/ EdgeStep
  \/ Finished

\* The sync is a loop of awaits, which Postgres answers or fails.
Spec == Init /\ [][Next]_vars /\ WF_vars(SyncUpsert)
-------------------------------------------------------------------------------
\* No writer's blank wipes a key that another has set: the seeds without a key or
\* whose secret cannot be fetched, and forms without a key.
\* (sync-tenants.ts:88,265-283, admin.ts:353-361)
KeyIsNeverWiped ==
  [][\A n \in Name : rows[n] # None => (rows[n].key # None => rows'[n].key # None)]_vars

\* When a provision has ended and knew what happened, Chatwoot has its account if
\* and only if it succeeded.  (admin.ts:397-465)
ProvisionCleansUp ==
  \A p \in Request :
    req[p].creates /\ ~req[p].misled /\ req[p].acct # None =>
      /\ req[p].pc = "ok" => req[p].acct \in chatwoot[req[p].url].accounts
      /\ req[p].pc = "failed" => req[p].acct \notin chatwoot[req[p].url].accounts

\* Two requests of the portal map an account of an installation twice only if they ran
\* at the same time, or the first imported an id that Chatwoot gave to the second only
\* later: an import checks before it inserts, in two steps, and a provision inserts what
\* it was given without a check.  (admin.ts:405-455,567-581)
SerialRequestsMapOnce ==
  \A n, m \in Name :
    LET by == {rows[n].by, rows[m].by}
    IN  /\ n # m /\ rows[n] # None /\ rows[m] # None
        /\ Target(n) = Target(m) /\ by \subseteq Request
        => \E p, q \in by : p \in req[q].beside \/ (p < q /\ req[p].early /\ req[q].creates)

\* The row of a seed says what tenants.yaml says, or was written after the run wrote it.
Seeded(s) ==
  s.name \in sync.overwritten \/
    /\ Target(s.name) = [acct |-> s.acct, url |-> s.url]
    /\ s.name \in sync.fetched => rows[s.name].key = s.secret

\* After a run that reports success every seed's row says what tenants.yaml says,
\* unless somebody wrote it after this run had, however often the run started over.
\* (sync-tenants.ts:72-106,199-213)
SyncedMeansSeeded == sync.pc = "ok" => \A s \in Seed : Seeded(s)

\* A run whose transient errors are fewer than its attempts succeeds, unless a row
\* without a slug stands in the way of a seed.  (sync-tenants.ts:191-213,353-361)
SyncCompletes ==
  (sync.pc = "running" /\ MaxEvents - events <= MaxAttempts - sync.attempt)
    ~> (sync.pc = "ok" \/ \E s \in Seed : Clashes(s.name))

\* What resolveTenant of config.ts may answer for an account: rows[0] of a query
\* without an order.
Mapping(acct) == {n \in Name : IF rows[n] = None THEN FALSE ELSE rows[n].acct = acct}
ResolveTenant(acct) == {rows[n].key : n \in Mapping(acct)}

\* An account that only the portal has mapped is answered by one Dify app: an import
\* validates the "availability of subdomain and account ID".
\* (admin.ts:567-581, config.ts:157-169, 01-init.sql:73)
AccountHasOneApp ==
  \A acct \in Account :
    (\A n \in Mapping(acct) : rows[n].by \in Request) => Cardinality(ResolveTenant(acct)) <= 1

\* See EdgeRouter: the rows of the table change under the edge's cache in all the ways
\* above.  (edge index.ts:49-83)
EdgeIsRecent == Edge!EdgeIsRecent
-------------------------------------------------------------------------------
\* The inductive invariant, in parts.

\* A row with a slug has what a parent must have.
SluggedHasUrl ==
  \A n \in Name : rows[n] # None => (rows[n].slugged => rows[n].url \in Installation)

AccountsBelowNext == \A u \in Installation : \A a \in chatwoot[u].accounts : a < chatwoot[u].next

\* What a request knows at each step.
RequestIsComplete ==
  \A p \in Request :
    LET r == req[p]
    IN  /\ r.pc # "new" => r.name \in Name /\ r.url \in Installation /\ r.key \in Key
        /\ r.pc \in {"new", "account"} => r.acct = None
        /\ r.pc \in {"user", "rollback", "check", "insert", "ok"} => r.acct \in Account
        /\ r.pc \in {"account", "user", "rollback"} => r.creates
        /\ r.pc = "check" => ~r.creates
        /\ r.early => ~r.creates
        /\ r.acct # None /\ ~r.early => r.acct < chatwoot[r.url].next

\* The account of a provision is its own, and in Chatwoot until it is rolled back.
ProvisionHasAccount ==
  \A p \in Request :
    req[p].creates /\ req[p].pc \in {"user", "rollback", "insert"} =>
      req[p].acct \in chatwoot[req[p].url].accounts

\* No other provision has it, nor a request that came before and named one that existed.
OwnAccount(p, q) ==
  /\ req[p].creates /\ req[p].acct # None /\ req[p].url = req[q].url
  /\ req[q].creates \/ (q < p /\ ~req[q].early)
  => req[q].acct # req[p].acct
AccountIsOwn == \A p, q \in Request : p # q => OwnAccount(p, q)

\* A row that a request wrote says what the request said, as long as it is by it.
RowIsByRequest ==
  \A n \in Name :
    rows[n] # None => (rows[n].by # None =>
      LET r == req[rows[n].by]
      IN  /\ r.pc \in {"rollback", "ok", "failed"}
          /\ rows[n].slugged /\ n = r.name /\ rows[n].url = r.url /\ rows[n].acct = r.acct)

\* Requests begin in their order, and one that was not in flight then had ended.
Ended(q) == req[q].pc \in {"ok", "failed"}
BeginInOrder ==
  \A p, q \in Request : q < p /\ req[p].pc # "new" => req[q].pc # "new" /\ (q \in req[p].beside \/ Ended(q))

\* An import fails when a request that had ended has mapped its account.
IsBy(n, q) == rows[n] # None /\ rows[n].by = q
FindsConflict(p, q) ==
  (\E n \in Name : IsBy(n, q) /\ rows[n].acct = req[p].acct) =>
    req[p].pc \in {"check", "failed"} /\ \A m \in Name : ~IsBy(m, p)
ImportsAreChecked ==
  \A p, q \in Request :
    q < p /\ req[p].pc # "new" /\ ~req[p].creates /\ q \notin req[p].beside => FindsConflict(p, q)

\* The seeds that the run has dealt with, or that it reports, are in the table.
SyncInRange ==
  /\ sync.pc = "running" => sync.next \in DOMAIN Seeds
  /\ \A s \in Seed : s.name \in sync.fetched => s.secret # None
SeededSoFar ==
  \A i \in DOMAIN Seeds :
    sync.pc = "ok" \/ (sync.pc = "running" /\ i < sync.next) => Seeded(Seeds[i])

Targets == [acct : Account, url : Installation \cup {None}]

Inv ==
  /\ TypeOK
  /\ SluggedHasUrl
  /\ AccountsBelowNext
  /\ RequestIsComplete
  /\ ProvisionHasAccount
  /\ AccountIsOwn
  /\ ProvisionCleansUp
  /\ RowIsByRequest
  /\ BeginInOrder
  /\ ImportsAreChecked
  /\ SyncInRange
  /\ SeededSoFar
  /\ Edge!EdgeTypeOK(Targets)
  /\ Edge!StaleIsBounded
===============================================================================
