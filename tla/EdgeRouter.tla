------------------------------ MODULE EdgeRouter ------------------------------
(***************************************************************************)
(* edge/cloudflare-worker/src/index.ts, one isolate of it and one tenant   *)
(* name: a visitor's request is proxied to the account and installation    *)
(* that the middleware names for the tenant, or that TENANT_CACHE           *)
(* remembers.  Several requests may ask the middleware at the same time,   *)
(* and each writes the cache when its own answer comes.                    *)
(*                                                                         *)
(* Time is a number of ticks.  TenantRegistry.tla is composed from these   *)
(* actions, with `table` what GET /resolve-tenant finds for the name.      *)
(***************************************************************************)
EXTENDS Naturals

CONSTANTS
  Visitor,   \* requests of visitors, numbered as they come
  None,
  CacheTtl,  \* CACHE_TTL_MS, in ticks
  MaxLookup  \* bound: ticks a lookup may take

VARIABLES
  table,     \* the target of the name: account and installation; None: no row
  cached,    \* the entry of TENANT_CACHE: [target, age, stale]; None: no entry
  visit      \* visit[v]: how far v's request is: [pc, target, took, stale]

edgeVars == <<cached, visit>>

\* History: `stale` counts the ticks for which `table` has named another target.
MaxStale == CacheTtl + MaxLookup + 1

Visiting == {v \in Visitor : visit[v].pc \in {"asking", "answered"}}

EdgeInit ==
  /\ cached = None
  /\ visit = [v \in Visitor |-> [pc |-> "new", target |-> None, took |-> 0, stale |-> 0]]
-------------------------------------------------------------------------------
\* cached.expiresAt > Date.now()
IsFresh_Always(entry) == TRUE
IsFresh(entry) == entry.age < CacheTtl

\* The route sends the request, plain or a WebSocket, to the installation of the
\* target, with its account in X-Tenant-ID.
Proxy(v, entry) ==
  [visit[v] EXCEPT !.pc = "proxied", !.target = entry.target, !.stale = entry.stale]

\* A request that finds a live entry is proxied at once, any other asks.
Visit(v) ==
  LET hit == IF cached = None THEN FALSE ELSE IsFresh(cached)
  IN  /\ visit[v].pc = "new"
      /\ \A w \in Visitor : w < v => visit[w].pc # "new"
      /\ visit' = [visit EXCEPT ![v] = IF hit THEN Proxy(v, cached) ELSE [@ EXCEPT !.pc = "asking"]]
      /\ UNCHANGED <<table, cached>>

\* GET /resolve-tenant: the query of the tenants table.
Resolve(v) ==
  /\ visit[v].pc = "asking"
  /\ visit' = [visit EXCEPT ![v].pc = "answered", ![v].target = table]
  /\ UNCHANGED <<table, cached>>

\* The answer arrives.  Only a tenant that was found is cached.
Answer(v) ==
  LET entry == [target |-> visit[v].target, age |-> 0, stale |-> visit[v].stale]
      found == entry.target # None
  IN  /\ visit[v].pc = "answered"
      /\ visit' = [visit EXCEPT ![v] = IF found THEN Proxy(v, entry) ELSE [@ EXCEPT !.pc = "not found"]]
      /\ cached' = IF found THEN entry ELSE cached
      /\ UNCHANGED table

\* The lookup fails, in the middleware or on the way: the visitor gets a 404 too.
LookupFails(v) ==
  /\ v \in Visiting
  /\ visit' = [visit EXCEPT ![v].pc = "not found", ![v].target = None]
  /\ UNCHANGED <<table, cached>>

Older(target, stale) ==
  IF target = table THEN 0 ELSE IF stale < MaxStale THEN stale + 1 ELSE stale

\* Time passes.
Tick ==
  /\ \A v \in Visiting : visit[v].took < MaxLookup
  /\ cached # None \/ Visiting # {}
  /\ cached' = IF cached = None THEN None ELSE
       [cached EXCEPT !.age = IF @ < CacheTtl THEN @ + 1 ELSE @, !.stale = Older(cached.target, @)]
  /\ visit' = [v \in Visitor |->
       IF v \notin Visiting THEN visit[v] ELSE
         [visit[v] EXCEPT !.took = @ + 1,
            !.stale = IF visit[v].pc = "answered" THEN Older(visit[v].target, @) ELSE @]]
  /\ UNCHANGED table

EdgeNext ==
  \/ \E v \in Visitor : Visit(v) \/ Resolve(v) \/ Answer(v) \/ LookupFails(v)
  \/ Tick
-------------------------------------------------------------------------------
\* Nobody is sent to a target that the table stopped naming longer ago than an
\* entry lives and a lookup takes, although answers arrive in any order and an
\* older one may overwrite a newer one.  (edge index.ts:49-83)
EdgeIsRecent ==
  \A v \in Visitor : visit[v].pc = "proxied" => visit[v].stale <= CacheTtl + MaxLookup

EdgeTypeOK(Targets) ==
  /\ cached # None => cached \in [target : Targets, age : 0 .. CacheTtl, stale : 0 .. MaxStale]
  /\ visit \in [Visitor ->
       [pc : {"new", "asking", "answered", "proxied", "not found"}, target : Targets \cup {None},
        took : 0 .. MaxLookup, stale : 0 .. MaxStale]]

\* What makes EdgeIsRecent inductive: an answer is no staler than its lookup took,
\* and a live entry no staler than that and its age.
StaleIsBounded ==
  /\ cached # None => (IsFresh(cached) => cached.stale <= cached.age + MaxLookup)
  /\ \A v \in Visitor :
       /\ visit[v].pc \in {"new", "asking"} => visit[v].stale = 0
       /\ visit[v].pc = "answered" => visit[v].stale <= visit[v].took
       /\ visit[v].pc = "proxied" => visit[v].stale <= CacheTtl + MaxLookup
===============================================================================
