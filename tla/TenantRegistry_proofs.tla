------------------------ MODULE TenantRegistry_proofs -------------------------
(***************************************************************************)
(* For every set of tenants, seeds, requests and visitors: the inductive   *)
(* invariant Inv of TenantRegistry, and from it what the portal, the sync  *)
(* and the edge promise about the table `tenants`.  The invariant falls    *)
(* into four groups, of which an action disturbs one or two: what the      *)
(* requests know of Chatwoot's accounts, which rows are whose, which seeds *)
(* are in the table, and how old what the edge uses is.                     *)
(***************************************************************************)
EXTENDS TenantRegistry, TLAPS

-------------------------------------------------------------------------------
\* Facts about the constants.
LEMMA Bounds ==
  /\ MaxAttempts \in Nat /\ MaxAttempts >= 1
  /\ CacheTtl \in Nat /\ MaxLookup \in Nat /\ MaxAccount \in Nat /\ MaxEvents \in Nat
  /\ Account \subseteq Nat
<1>1. /\ MaxAttempts \in Nat \ {0}
      /\ CacheTtl \in Nat /\ MaxLookup \in Nat /\ MaxAccount \in Nat /\ MaxEvents \in Nat
  BY BoundsAssumption
<1>2. QED
  BY <1>1 DEF Account

LEMMA SeedIsTyped ==
  ASSUME NEW s \in Seed
  PROVE  /\ s.name \in Name /\ s.url \in Installation
         /\ s.acct \in Account /\ s.secret \in Key \cup {None}
<1> DEFINE S == [name : Name, url : Installation, acct : Account, secret : Key \cup {None}]
<1>1. \A i \in DOMAIN Seeds : Seeds[i] \in S
  <2> HIDE DEF S
  <2>1. Seeds \in Seq(S)
    BY SeedsAssumption DEF S
  <2>2. QED
    BY <2>1
<1>2. s \in S
  BY <1>1 DEF Seed
<1>3. QED
  BY <1>2

LEMMA SeedOfName ==
  ASSUME NEW s \in Seed
  PROVE  (CHOOSE x \in Seed : x.name = s.name) = s
BY SeedsAssumption DEF Seed

LEMMA SeedRowIsTyped ==
  ASSUME NEW s \in Seed, NEW fetched
  PROVE  SeedRow(s, fetched) \in Row
BY SeedIsTyped DEF SeedRow, SeedKey, Row

LEMMA UpsertedIsTyped ==
  ASSUME NEW s \in Seed, NEW fetched, TypeOK
  PROVE  Upserted(s, fetched) \in Row
<1>1. rows[s.name] \in Row \cup {None}
  BY SeedIsTyped DEF TypeOK
<1>2. SeedRow(s, fetched) \in Row
  BY SeedRowIsTyped
<1>3. QED
  BY <1>1, <1>2 DEF Upserted, Row
-------------------------------------------------------------------------------
\* The edge.  Whatever the table does, what is remembered is typed and recent.
EdgeOK == Edge!EdgeTypeOK(Targets) /\ Edge!StaleIsBounded

LEMMA TargetIsTyped ==
  ASSUME TypeOK
  PROVE  Target(Watched) \in Targets \cup {None}
<1>1. rows[Watched] \in Row \cup {None}
  BY NamesAssumption DEF TypeOK
<1>2. QED
  BY <1>1 DEF Target, Targets, Row

LEMMA EdgeQuiet ==
  ASSUME EdgeOK, UNCHANGED edge
  PROVE  EdgeOK'
BY DEF EdgeOK, edge, Edge!EdgeTypeOK, Edge!StaleIsBounded, Edge!IsFresh, Targets

\* A step of the edge replaces its entry and the records of some visitors, field by
\* field.
Ticks == Nat
VisitTypes ==
  [pc : {"new", "asking", "answered", "proxied", "not found"},
   target : Targets \cup {None}, took : Ticks, stale : Ticks]
VisitOK(r) ==
  /\ r \in VisitTypes
  /\ r.took <= MaxLookup /\ r.stale <= Edge!MaxStale
  /\ r.pc \in {"new", "asking"} => r.stale = 0
  /\ r.pc = "answered" => r.stale <= r.took
  /\ r.pc = "proxied" => r.stale <= CacheTtl + MaxLookup

EntryOK(e) ==
  e # None =>
    /\ e \in [target : Targets, age : Ticks, stale : Ticks]
    /\ e.age <= CacheTtl /\ e.stale <= Edge!MaxStale
    /\ e.age < CacheTtl => e.stale <= e.age + MaxLookup

LEMMA MaxStaleIsNat == Edge!MaxStale \in Nat /\ Edge!MaxStale = CacheTtl + MaxLookup + 1
BY Bounds DEF Edge!MaxStale

LEMMA VisitFields ==
  ASSUME NEW r, VisitOK(r)
  PROVE  /\ r \in VisitTypes
         /\ r.took \in Ticks /\ r.took <= MaxLookup
         /\ r.stale \in Ticks /\ r.stale <= Edge!MaxStale
         /\ r.target \in Targets \cup {None}
         /\ r.pc \in {"new", "asking"} => r.stale = 0
         /\ r.pc = "answered" => r.stale <= r.took
BY DEF VisitOK, VisitTypes

LEMMA VisitMade ==
  ASSUME NEW r \in VisitTypes, r.took <= MaxLookup, r.stale <= Edge!MaxStale,
         r.pc \in {"new", "asking"} => r.stale = 0,
         r.pc = "answered" => r.stale <= r.took,
         r.pc = "proxied" => r.stale <= CacheTtl + MaxLookup
  PROVE  VisitOK(r)
BY DEF VisitOK

LEMMA EdgeParts ==
  EdgeOK <=> /\ EntryOK(cached)
             /\ visit = [v \in Visitor |-> visit[v]]
             /\ \A v \in Visitor : VisitOK(visit[v])
<1> DEFINE Took == 0 .. MaxLookup
           Stale == 0 .. Edge!MaxStale
           Age == 0 .. CacheTtl
           V == [pc : {"new", "asking", "answered", "proxied", "not found"},
                 target : Targets \cup {None}, took : Took, stale : Stale]
           E == [target : Targets, age : Age, stale : Stale]
<1>1. /\ \A n : n \in Took <=> n \in Ticks /\ n <= MaxLookup
      /\ \A n : n \in Stale <=> n \in Ticks /\ n <= Edge!MaxStale
      /\ \A n : n \in Age <=> n \in Ticks /\ n <= CacheTtl
  BY Bounds, MaxStaleIsNat DEF Ticks
<1>2. \A r : r \in V <=> r \in VisitTypes /\ r.took <= MaxLookup /\ r.stale <= Edge!MaxStale
  <2> HIDE DEF Took, Stale, Age
  <2>1. \A r : r \in V => r \in VisitTypes /\ r.took <= MaxLookup /\ r.stale <= Edge!MaxStale
    BY <1>1 DEF VisitTypes
  <2>2. \A r : r \in VisitTypes => (r.took <= MaxLookup /\ r.stale <= Edge!MaxStale => r \in V)
    BY <1>1 DEF VisitTypes
  <2>3. QED
    BY <2>1, <2>2
<1>3. \A e : e \in E <=> /\ e \in [target : Targets, age : Ticks, stale : Ticks]
                         /\ e.age <= CacheTtl /\ e.stale <= Edge!MaxStale
  <2> HIDE DEF Took, Stale, Age
  <2>1. QED
    BY <1>1
<1>4. EdgeOK <=> /\ cached # None => cached \in E
                 /\ cached # None => (cached.age < CacheTtl => cached.stale <= cached.age + MaxLookup)
                 /\ visit \in [Visitor -> V]
                 /\ \A v \in Visitor :
                      /\ visit[v].pc \in {"new", "asking"} => visit[v].stale = 0
                      /\ visit[v].pc = "answered" => visit[v].stale <= visit[v].took
                      /\ visit[v].pc = "proxied" => visit[v].stale <= CacheTtl + MaxLookup
  BY DEF EdgeOK, Edge!EdgeTypeOK, Edge!StaleIsBounded, Edge!IsFresh
<1> HIDE DEF V, E, Took, Stale, Age
<1>5. visit \in [Visitor -> V] <=>
        visit = [v \in Visitor |-> visit[v]] /\ \A v \in Visitor : visit[v] \in V
  OBVIOUS
<1>6. EntryOK(cached) <=>
        /\ cached # None => cached \in E
        /\ cached # None => (cached.age < CacheTtl => cached.stale <= cached.age + MaxLookup)
  BY <1>3 DEF EntryOK
<1>7. \A v \in Visitor : VisitOK(visit[v]) <=>
        /\ visit[v] \in V
        /\ visit[v].pc \in {"new", "asking"} => visit[v].stale = 0
        /\ visit[v].pc = "answered" => visit[v].stale <= visit[v].took
        /\ visit[v].pc = "proxied" => visit[v].stale <= CacheTtl + MaxLookup
  BY <1>2 DEF VisitOK
<1>8. QED
  BY <1>4, <1>5, <1>6, <1>7

LEMMA EdgeStepOK ==
  ASSUME EntryOK(cached'), visit' = [v \in Visitor |-> visit'[v]],
         \A v \in Visitor : VisitOK(visit'[v])
  PROVE  EdgeOK'
<1>1. (EntryOK(cached) /\ visit = [v \in Visitor |-> visit[v]]
        /\ \A v \in Visitor : VisitOK(visit[v]))' => EdgeOK'
  BY EdgeParts, PTL
<1>2. QED
  BY <1>1 DEF EntryOK, VisitOK, Targets

LEMMA EdgeNextOK ==
  ASSUME TypeOK, EdgeOK, EdgeStep
  PROVE  EdgeOK'
<1>b. CacheTtl \in Nat /\ MaxLookup \in Nat
  BY Bounds
<1>v. ASSUME NEW v \in Visitor PROVE VisitOK(visit[v])
  BY EdgeParts
<1>1. ASSUME NEW v \in Visitor, Edge!Visit(v) PROVE EdgeOK'
  <2>1. visit[v].pc = "new" /\ visit[v] \in VisitTypes
    BY <1>1, <1>v, VisitFields DEF Edge!Visit
  <2> DEFINE asking == [visit[v] EXCEPT !.pc = "asking"]
             proxied == Edge!Proxy(v, cached)
  <2>2. VisitOK(asking)
    <3>1. /\ asking \in VisitTypes /\ asking.pc = "asking"
          /\ asking.took = visit[v].took /\ asking.stale = visit[v].stale
      BY <2>1 DEF VisitTypes
    <3> HIDE DEF asking
    <3>2. QED
      BY <2>1, <3>1, <1>v, VisitFields, VisitMade
  <2>3. ASSUME cached # None, Edge!IsFresh(cached) PROVE VisitOK(proxied)
    <3>1. /\ cached.target \in Targets
          /\ cached.stale \in Ticks /\ cached.age \in Ticks
          /\ cached.stale <= cached.age + MaxLookup
          /\ cached.age < CacheTtl /\ cached.stale <= Edge!MaxStale
      BY <2>3, EdgeParts DEF EntryOK, Edge!IsFresh
    <3>2. cached.stale <= CacheTtl + MaxLookup
      BY <3>1, <1>b DEF Ticks
    <3>3. /\ proxied \in VisitTypes /\ proxied.pc = "proxied"
          /\ proxied.took = visit[v].took /\ proxied.stale = cached.stale
      BY <2>1, <3>1 DEF VisitTypes, Edge!Proxy
    <3> HIDE DEF proxied
    <3>4. QED
      BY <3>1, <3>2, <3>3, <1>v, VisitFields, VisitMade
  <2>4. visit' = [visit EXCEPT ![v] = visit'[v]] /\ VisitOK(visit'[v]) /\ cached' = cached
    BY <1>1, <2>2, <2>3, EdgeParts DEF Edge!Visit
  <2>5. QED
    BY <2>4, EdgeParts, EdgeStepOK
<1>2. ASSUME NEW v \in Visitor, Edge!Resolve(v) PROVE EdgeOK'
  <2>1. visit[v].pc = "asking" /\ visit[v] \in VisitTypes
    BY <1>2, <1>v, VisitFields DEF Edge!Resolve
  <2>2. /\ visit'[v] \in VisitTypes /\ visit'[v].pc = "answered"
        /\ visit'[v].took = visit[v].took /\ visit'[v].stale = visit[v].stale
    BY <1>2, <2>1, EdgeParts, TargetIsTyped DEF Edge!Resolve, VisitTypes
  <2>3. 0 <= visit[v].took
    BY <2>1, <1>v, VisitFields DEF Ticks
  <2>4. VisitOK(visit'[v])
    BY <2>1, <2>2, <2>3, <1>v, VisitFields, VisitMade
  <2>5. QED
    BY <1>2, <2>4, EdgeParts, EdgeStepOK DEF Edge!Resolve
<1>3. ASSUME NEW v \in Visitor, Edge!Answer(v) PROVE EdgeOK'
  <2> DEFINE entry == [target |-> visit[v].target, age |-> 0, stale |-> visit[v].stale]
             refused == [visit[v] EXCEPT !.pc = "not found"]
             proxied == Edge!Proxy(v, entry)
  <2>1. visit[v].pc = "answered" /\ visit[v] \in VisitTypes
    BY <1>3, <1>v, VisitFields DEF Edge!Answer
  <2>2. VisitOK(refused)
    <3>1. /\ refused \in VisitTypes /\ refused.pc = "not found"
          /\ refused.took = visit[v].took /\ refused.stale = visit[v].stale
      BY <2>1 DEF VisitTypes
    <3> HIDE DEF refused
    <3>2. QED
      BY <3>1, <1>v, VisitFields, VisitMade
  <2>3. visit[v].stale \in Ticks /\ visit[v].stale <= MaxLookup
        /\ visit[v].stale <= 0 + MaxLookup /\ visit[v].stale <= CacheTtl + MaxLookup
    <3>1. visit[v].took \in Ticks /\ visit[v].stale \in Ticks
          /\ visit[v].took <= MaxLookup /\ visit[v].stale <= visit[v].took
      BY <2>1, <1>v, VisitFields
    <3>2. QED
      BY <3>1, <1>b DEF Ticks
  <2>4. VisitOK(proxied)
    <3>1. /\ proxied \in VisitTypes /\ proxied.pc = "proxied"
          /\ proxied.took = visit[v].took /\ proxied.stale = visit[v].stale
      BY <2>1 DEF VisitTypes, Edge!Proxy
    <3> HIDE DEF proxied
    <3>2. QED
      BY <2>3, <3>1, <1>v, VisitFields, VisitMade
  <2>5. visit[v].target # None => EntryOK(entry)
    <3>1. visit[v].target \in Targets \cup {None} /\ visit[v].stale <= Edge!MaxStale
      BY <1>v, VisitFields
    <3>2. 0 <= CacheTtl /\ 0 \in Ticks
      BY <1>b DEF Ticks
    <3>3. QED
      BY <2>3, <3>1, <3>2 DEF EntryOK
  <2>6. /\ visit' = [visit EXCEPT ![v] = visit'[v]]
        /\ VisitOK(visit'[v]) /\ EntryOK(cached')
    BY <1>3, <2>2, <2>4, <2>5, EdgeParts DEF Edge!Answer
  <2>7. QED
    BY <2>6, EdgeParts, EdgeStepOK
<1>4. ASSUME NEW v \in Visitor, Edge!LookupFails(v) PROVE EdgeOK'
  <2> DEFINE refused == [visit[v] EXCEPT !.pc = "not found", !.target = None]
  <2>1. visit[v] \in VisitTypes
    BY <1>v, VisitFields
  <2>2. /\ refused \in VisitTypes /\ refused.pc = "not found"
        /\ refused.took = visit[v].took /\ refused.stale = visit[v].stale
    BY <2>1 DEF VisitTypes
  <2>3. visit' = [visit EXCEPT ![v] = refused] /\ cached' = cached
    BY <1>4 DEF Edge!LookupFails
  <2> HIDE DEF refused
  <2>4. VisitOK(refused)
    BY <2>2, <1>v, VisitFields, VisitMade
  <2>5. QED
    BY <2>3, <2>4, EdgeParts, EdgeStepOK
<1>5. ASSUME Edge!Tick PROVE EdgeOK'
  <2>1. \A target : \A stale \in Nat :
          stale <= Edge!MaxStale =>
            /\ Edge!Older(target, stale) \in Nat
            /\ Edge!Older(target, stale) <= Edge!MaxStale
            /\ Edge!Older(target, stale) <= stale + 1
    BY MaxStaleIsNat DEF Edge!Older
  <2>2. ASSUME cached # None PROVE EntryOK(cached')
    <3> DEFINE age == IF cached.age < CacheTtl THEN cached.age + 1 ELSE cached.age
               stale == Edge!Older(cached.target, cached.stale)
    <3>1. /\ cached \in [target : Targets, age : Ticks, stale : Ticks]
          /\ cached.stale <= Edge!MaxStale /\ cached.age <= CacheTtl
          /\ cached.age < CacheTtl => cached.stale <= cached.age + MaxLookup
      BY <2>2, EdgeParts DEF EntryOK
    <3>2. cached' = [cached EXCEPT !.age = age, !.stale = stale]
      BY <1>5, <2>2 DEF Edge!Tick
    <3>3. cached.stale \in Nat /\ cached.age \in Nat
      BY <3>1 DEF Ticks
    <3>4. /\ age \in Ticks /\ age <= CacheTtl
          /\ age < CacheTtl => age = cached.age + 1 /\ cached.age < CacheTtl
      BY <3>1, <3>3, <1>b DEF Ticks
    <3>5. stale \in Ticks /\ stale <= Edge!MaxStale /\ stale <= cached.stale + 1
      BY <2>1, <3>1, <3>3 DEF Ticks
    <3> HIDE DEF age, stale
    <3>6. age < CacheTtl => stale <= age + MaxLookup
      BY <3>1, <3>3, <3>4, <3>5, <1>b DEF Ticks
    <3>7. /\ cached' \in [target : Targets, age : Ticks, stale : Ticks]
          /\ cached'.age = age /\ cached'.stale = stale
      BY <3>1, <3>2, <3>4, <3>5
    <3>8. QED
      BY <3>4, <3>5, <3>6, <3>7 DEF EntryOK
  <2>3. ASSUME NEW v \in Visitor, v \in Edge!Visiting PROVE VisitOK(visit'[v])
    <3> DEFINE stale == IF visit[v].pc = "answered" THEN Edge!Older(visit[v].target, visit[v].stale)
                        ELSE visit[v].stale
               took == visit[v].took + 1
    <3>1. visit[v].took < MaxLookup /\ visit[v].pc \in {"asking", "answered"}
      BY <1>5, <2>3 DEF Edge!Tick, Edge!Visiting
    <3>2. visit'[v] = [visit[v] EXCEPT !.took = took, !.stale = stale]
      BY <1>5, <2>3 DEF Edge!Tick
    <3>3. /\ visit[v] \in VisitTypes
          /\ visit[v].stale \in Nat /\ visit[v].stale <= Edge!MaxStale /\ visit[v].took \in Nat
          /\ visit[v].pc = "asking" => visit[v].stale = 0
          /\ visit[v].pc = "answered" => visit[v].stale <= visit[v].took
      BY <3>1, <1>v, VisitFields DEF Ticks
    <3>4. /\ stale \in Ticks /\ stale <= Edge!MaxStale
          /\ visit[v].pc = "asking" => stale = 0
          /\ visit[v].pc = "answered" => stale <= visit[v].stale + 1
      BY <2>1, <3>3 DEF Ticks
    <3> HIDE DEF stale
    <3>5. /\ took \in Ticks /\ took <= MaxLookup
          /\ visit[v].pc = "answered" => stale <= took
      BY <3>1, <3>3, <3>4, <1>b DEF Ticks
    <3> HIDE DEF took
    <3>6. /\ visit'[v] \in VisitTypes
          /\ visit'[v].pc = visit[v].pc /\ visit'[v].took = took /\ visit'[v].stale = stale
      BY <3>2, <3>3, <3>4, <3>5 DEF VisitTypes
    <3>7. QED
      BY <3>1, <3>4, <3>5, <3>6, VisitMade
  <2>4. cached = None => EntryOK(cached')
    BY <1>5 DEF Edge!Tick, EntryOK
  <2>5. \A v \in Visitor : v \notin Edge!Visiting => visit'[v] = visit[v]
    BY <1>5 DEF Edge!Tick
  <2>6. visit' = [v \in Visitor |-> visit'[v]]
    BY <1>5 DEF Edge!Tick
  <2>7. QED
    BY <2>2, <2>3, <2>4, <2>5, <2>6, <1>v, EdgeStepOK
<1>6. QED
  BY <1>1, <1>2, <1>3, <1>4, <1>5 DEF EdgeStep
-------------------------------------------------------------------------------
\* Types, action by action.
LEMMA EventsTyped ==
  ASSUME TypeOK, Event \/ NoEvent
  PROVE  events' \in 0 .. MaxEvents
BY Bounds DEF TypeOK, Event, NoEvent

LEMMA InFlightIsTyped == InFlight \in SUBSET Request
BY DEF InFlight

LEMMA WriteTyped ==
  ASSUME TypeOK, NEW n \in Name, NEW row \in Row, Write(n, row)
  PROVE  rows' \in [Name -> Row \cup {None}] /\ sync' \in SyncState
<1>1. rows' \in [Name -> Row \cup {None}]
  BY DEF TypeOK, Write
<1>2. sync' \in SyncState
  BY DEF TypeOK, Write, SyncState
<1>3. QED
  BY <1>1, <1>2

LEMMA ParentIsComplete ==
  ASSUME Inv, NEW n \in Name, IsParent(n)
  PROVE  rows[n].url \in Installation
BY DEF Inv, SluggedHasUrl, IsParent

LEMMA BeginTyped ==
  ASSUME Inv, NEW p \in Request, NEW n \in Name, NEW u \in Installation,
         NEW acct \in Account \cup {None}, NEW k \in Key, NEW creates \in BOOLEAN,
         Begin(p, n, u, acct, k, creates)
  PROVE  TypeOK'
<1>1. TypeOK
  BY DEF Inv
<1>2. [pc |-> IF creates THEN "account" ELSE "check", name |-> n, url |-> u, acct |-> acct,
       key |-> k, creates |-> creates, beside |-> InFlight,
       early |-> ~creates /\ acct >= chatwoot[u].next, misled |-> FALSE] \in RequestState
  BY InFlightIsTyped DEF RequestState
<1>3. req' \in [Request -> RequestState]
  BY <1>1, <1>2 DEF TypeOK, Begin
<1>4. QED
  BY <1>1, <1>3, EventsTyped DEF TypeOK, Begin

\* What a step of a request does to its record, field by field.
Goes(p, pc, acct, misled) ==
  /\ req' \in [Request -> RequestState]
  /\ req'[p].pc = pc /\ req'[p].acct = acct /\ req'[p].misled = misled
  /\ req'[p].name = req[p].name /\ req'[p].url = req[p].url /\ req'[p].key = req[p].key
  /\ req'[p].creates = req[p].creates /\ req'[p].beside = req[p].beside
  /\ req'[p].early = req[p].early
  /\ \A q \in Request \ {p} : req'[q] = req[q]

LEMMA RecordGoes ==
  ASSUME TypeOK, NEW p \in Request, NEW r \in RequestState, req' = [req EXCEPT ![p] = r],
         r.name = req[p].name, r.url = req[p].url, r.key = req[p].key,
         r.creates = req[p].creates, r.beside = req[p].beside, r.early = req[p].early
  PROVE  Goes(p, r.pc, r.acct, r.misled)
BY DEF TypeOK, Goes

LEMMA GoesForms ==
  ASSUME TypeOK, NEW p \in Request,
         NEW pc \in {"user", "rollback", "insert", "ok", "failed"}, NEW acct \in Account \cup {None}
  PROVE  /\ req' = [req EXCEPT ![p].pc = pc] => Goes(p, pc, req[p].acct, req[p].misled)
         /\ req' = [req EXCEPT ![p].pc = pc, ![p].misled = TRUE] => Goes(p, pc, req[p].acct, TRUE)
         /\ req' = [req EXCEPT ![p].pc = pc, ![p].acct = acct] => Goes(p, pc, acct, req[p].misled)
<1>1. req[p] \in RequestState
  BY DEF TypeOK
<1>2. ASSUME req' = [req EXCEPT ![p].pc = pc] PROVE Goes(p, pc, req[p].acct, req[p].misled)
  <2> DEFINE r == [req[p] EXCEPT !.pc = pc]
  <2>1. req' = [req EXCEPT ![p] = r]
    BY <1>2
  <2>2. r \in RequestState /\ r.pc = pc /\ r.acct = req[p].acct /\ r.misled = req[p].misled
    BY <1>1 DEF RequestState
  <2>3. /\ r.name = req[p].name /\ r.url = req[p].url /\ r.key = req[p].key
        /\ r.creates = req[p].creates /\ r.beside = req[p].beside /\ r.early = req[p].early
    BY <1>1 DEF RequestState
  <2> HIDE DEF r
  <2>4. Goes(p, r.pc, r.acct, r.misled)
    BY <2>1, <2>2, <2>3, RecordGoes
  <2>5. QED
    BY <2>2, <2>4
<1>3. ASSUME req' = [req EXCEPT ![p].pc = pc, ![p].misled = TRUE] PROVE Goes(p, pc, req[p].acct, TRUE)
  <2> DEFINE r == [req[p] EXCEPT !.pc = pc, !.misled = TRUE]
  <2>1. req' = [req EXCEPT ![p] = r]
    BY <1>3 DEF TypeOK
  <2>2. r \in RequestState /\ r.pc = pc /\ r.acct = req[p].acct /\ r.misled = TRUE
    BY <1>1 DEF RequestState
  <2>3. /\ r.name = req[p].name /\ r.url = req[p].url /\ r.key = req[p].key
        /\ r.creates = req[p].creates /\ r.beside = req[p].beside /\ r.early = req[p].early
    BY <1>1 DEF RequestState
  <2> HIDE DEF r
  <2>4. Goes(p, r.pc, r.acct, r.misled)
    BY <2>1, <2>2, <2>3, RecordGoes
  <2>5. QED
    BY <2>2, <2>4
<1>4. ASSUME req' = [req EXCEPT ![p].pc = pc, ![p].acct = acct] PROVE Goes(p, pc, acct, req[p].misled)
  <2> DEFINE r == [req[p] EXCEPT !.pc = pc, !.acct = acct]
  <2>1. req' = [req EXCEPT ![p] = r]
    BY <1>4 DEF TypeOK
  <2>2. r \in RequestState /\ r.pc = pc /\ r.acct = acct /\ r.misled = req[p].misled
    BY <1>1 DEF RequestState
  <2>3. /\ r.name = req[p].name /\ r.url = req[p].url /\ r.key = req[p].key
        /\ r.creates = req[p].creates /\ r.beside = req[p].beside /\ r.early = req[p].early
    BY <1>1 DEF RequestState
  <2> HIDE DEF r
  <2>4. Goes(p, r.pc, r.acct, r.misled)
    BY <2>1, <2>2, <2>3, RecordGoes
  <2>5. QED
    BY <2>2, <2>4
<1>5. QED
  BY <1>2, <1>3, <1>4

\* What a step does to an installation of Chatwoot.
Chatwoots == [Installation -> [accounts : SUBSET Account, next : 1 .. MaxAccount + 1]]
ChatwootTo(u, accounts, next) ==
  /\ chatwoot' \in Chatwoots
  /\ chatwoot'[u].accounts = accounts /\ chatwoot'[u].next = next
  /\ \A w \in Installation \ {u} : chatwoot'[w] = chatwoot[w]

LEMMA ChatwootForms ==
  ASSUME TypeOK, NEW u \in Installation, NEW acct
  PROVE  /\ chatwoot[u].next \in Account =>
              (chatwoot' = [chatwoot EXCEPT ![u] =
                  [accounts |-> @.accounts \cup {chatwoot[u].next}, next |-> chatwoot[u].next + 1]]
                => ChatwootTo(u, chatwoot[u].accounts \cup {chatwoot[u].next}, chatwoot[u].next + 1))
         /\ chatwoot' = [chatwoot EXCEPT ![u].accounts = @ \ {acct}]
              => ChatwootTo(u, chatwoot[u].accounts \ {acct}, chatwoot[u].next)
<1> DEFINE Next1 == 1 .. MaxAccount + 1
           next1 == chatwoot[u].next + 1
<1>1. chatwoot[u].next \in Account => next1 \in Next1
  BY Bounds DEF Account
<1>2. chatwoot \in [Installation -> [accounts : SUBSET Account, next : Next1]]
  BY DEF TypeOK
<1> HIDE DEF Next1, next1
<1>3. ASSUME chatwoot[u].next \in Account,
             chatwoot' = [chatwoot EXCEPT ![u] =
               [accounts |-> @.accounts \cup {chatwoot[u].next}, next |-> next1]]
      PROVE  /\ chatwoot' \in [Installation -> [accounts : SUBSET Account, next : Next1]]
             /\ chatwoot'[u].accounts = chatwoot[u].accounts \cup {chatwoot[u].next}
             /\ chatwoot'[u].next = next1
             /\ \A w \in Installation \ {u} : chatwoot'[w] = chatwoot[w]
  BY <1>1, <1>2, <1>3
<1>4. ASSUME chatwoot' = [chatwoot EXCEPT ![u].accounts = @ \ {acct}]
      PROVE  /\ chatwoot' \in [Installation -> [accounts : SUBSET Account, next : Next1]]
             /\ chatwoot'[u].accounts = chatwoot[u].accounts \ {acct}
             /\ chatwoot'[u].next = chatwoot[u].next
             /\ \A w \in Installation \ {u} : chatwoot'[w] = chatwoot[w]
  <2> DEFINE r == [chatwoot[u] EXCEPT !.accounts = @ \ {acct}]
  <2>1. r \in [accounts : SUBSET Account, next : Next1]
        /\ r.accounts = chatwoot[u].accounts \ {acct} /\ r.next = chatwoot[u].next
    BY <1>2
  <2>2. chatwoot' = [chatwoot EXCEPT ![u] = r]
    BY <1>4
  <2> HIDE DEF r
  <2>3. QED
    BY <1>2, <2>1, <2>2
<1>5. QED
  BY <1>3, <1>4 DEF ChatwootTo, Chatwoots, Next1, next1

\* What is known of a request in flight, and the steps it takes.
LEMMA RequestFacts ==
  ASSUME Inv, NEW p \in Request
  PROVE  /\ req[p] \in RequestState
         /\ req[p].pc # "new" =>
              req[p].name \in Name /\ req[p].url \in Installation /\ req[p].key \in Key
         /\ req[p].pc \in {"user", "rollback", "check", "insert", "ok"} => req[p].acct \in Account
         /\ req[p].pc \in {"account", "user", "rollback"} => req[p].creates
         /\ req[p].pc = "check" => ~req[p].creates
         /\ req[p].pc \in {"new", "account"} => req[p].acct = None
         /\ req[p].early => ~req[p].creates
         /\ req[p].acct # None /\ ~req[p].early => req[p].acct < chatwoot[req[p].url].next
BY DEF Inv, TypeOK, RequestIsComplete

LEMMA CreateAccountGoes ==
  ASSUME Inv, NEW p \in Request, CreateAccount(p)
  PROVE  LET u == req[p].url
             next == chatwoot[u].next
         IN  /\ req[p].pc = "account" /\ u \in Installation
             /\ UNCHANGED <<rows, sync, edge>> /\ (Event \/ NoEvent)
             /\ \/ /\ next \in Account
                   /\ ChatwootTo(u, chatwoot[u].accounts \cup {next}, next + 1)
                   /\ Goes(p, "user", next, req[p].misled) \/ Goes(p, "failed", req[p].acct, TRUE)
                \/ UNCHANGED chatwoot /\ Goes(p, "failed", req[p].acct, req[p].misled)
<1> DEFINE u == req[p].url
           next == chatwoot[u].next
<1>1. TypeOK /\ req[p].pc = "account" /\ u \in Installation
  BY RequestFacts DEF CreateAccount, Inv
<1>2. ASSUME chatwoot[u].next <= MaxAccount PROVE chatwoot[u].next \in Account
  BY <1>1, <1>2, Bounds DEF TypeOK, Account
<1>3. next \in Account =>
        (req' = [req EXCEPT ![p].pc = "user", ![p].acct = next] => Goes(p, "user", next, req[p].misled))
  BY <1>1, GoesForms
<1>4. /\ req' = [req EXCEPT ![p].pc = "failed"] => Goes(p, "failed", req[p].acct, req[p].misled)
      /\ req' = [req EXCEPT ![p].pc = "failed", ![p].misled = TRUE] => Goes(p, "failed", req[p].acct, TRUE)
  BY <1>1, GoesForms, RequestFacts
<1>5. QED
  BY <1>1, <1>2, <1>3, <1>4, ChatwootForms DEF CreateAccount

LEMMA CreateAndLinkUserGoes ==
  ASSUME Inv, NEW p \in Request, CreateAndLinkUser(p)
  PROVE  /\ req[p].pc = "user"
         /\ UNCHANGED <<rows, chatwoot, sync, edge>> /\ (Event \/ NoEvent)
         /\ Goes(p, "insert", req[p].acct, req[p].misled) \/ Goes(p, "rollback", req[p].acct, req[p].misled)
<1>1. TypeOK /\ req[p].acct \in Account
  BY RequestFacts DEF CreateAndLinkUser, Inv
<1>2. QED
  BY <1>1, GoesForms DEF CreateAndLinkUser

LEMMA RollbackGoes ==
  ASSUME Inv, NEW p \in Request, Rollback(p)
  PROVE  /\ req[p].pc = "rollback" /\ req[p].url \in Installation
         /\ UNCHANGED <<rows, sync, edge>> /\ (Event \/ NoEvent)
         /\ \/ /\ ChatwootTo(req[p].url, chatwoot[req[p].url].accounts \ {req[p].acct},
                             chatwoot[req[p].url].next)
               /\ Goes(p, "failed", req[p].acct, req[p].misled)
            \/ UNCHANGED chatwoot /\ Goes(p, "failed", req[p].acct, TRUE)
<1>1. TypeOK /\ req[p].acct \in Account /\ req[p].pc = "rollback" /\ req[p].url \in Installation
  BY RequestFacts DEF Rollback, Inv
<1>2. /\ req' = [req EXCEPT ![p].pc = "failed"] => Goes(p, "failed", req[p].acct, req[p].misled)
      /\ req' = [req EXCEPT ![p].pc = "failed", ![p].misled = TRUE] => Goes(p, "failed", req[p].acct, TRUE)
  BY <1>1, GoesForms
<1>3. QED
  BY <1>1, <1>2, ChatwootForms DEF Rollback

LEMMA CheckConflictGoes ==
  ASSUME Inv, NEW p \in Request, CheckConflict(p)
  PROVE  /\ req[p].pc = "check"
         /\ UNCHANGED <<rows, chatwoot, sync, edge>> /\ (Event \/ NoEvent)
         /\ Goes(p, IF Conflicts(p) THEN "failed" ELSE "insert", req[p].acct, req[p].misled)
<1>1. TypeOK /\ req[p].acct \in Account
  BY RequestFacts DEF CheckConflict, Inv
<1>2. QED
  BY <1>1, GoesForms DEF CheckConflict

InsertedRow(p) ==
  [slugged |-> TRUE, url |-> req[p].url, acct |-> req[p].acct, key |-> req[p].key, by |-> p]

LEMMA InsertGoes ==
  ASSUME Inv, NEW p \in Request, Insert(p)
  PROVE  /\ req[p].pc = "insert"
         /\ UNCHANGED <<chatwoot, edge>> /\ (Event \/ NoEvent)
         /\ \/ /\ rows[req[p].name] = None
               /\ req[p].name \in Name /\ InsertedRow(p) \in Row
               /\ Write(req[p].name, InsertedRow(p))
               /\ \/ Goes(p, "ok", req[p].acct, req[p].misled)
                  \/ Goes(p, AfterInsertError(p), req[p].acct, TRUE)
            \/ /\ UNCHANGED <<rows, sync>>
               /\ Goes(p, AfterInsertError(p), req[p].acct, req[p].misled)
<1>1. TypeOK /\ req[p].acct \in Account /\ req[p].pc = "insert"
  BY RequestFacts DEF Insert, Inv
<1>2. /\ req' = [req EXCEPT ![p].pc = "ok"] => Goes(p, "ok", req[p].acct, req[p].misled)
      /\ req' = [req EXCEPT ![p].pc = AfterInsertError(p)]
           => Goes(p, AfterInsertError(p), req[p].acct, req[p].misled)
      /\ req' = [req EXCEPT ![p].pc = AfterInsertError(p), ![p].misled = TRUE]
           => Goes(p, AfterInsertError(p), req[p].acct, TRUE)
  BY <1>1, GoesForms DEF AfterInsertError
<1>3. req[p].name \in Name /\ InsertedRow(p) \in Row
  BY <1>1, RequestFacts DEF InsertedRow, Row
<1>4. Insert(p) =>
        /\ UNCHANGED <<chatwoot, edge>> /\ (Event \/ NoEvent)
        /\ \/ /\ rows[req[p].name] = None /\ Write(req[p].name, InsertedRow(p))
              /\ \/ req' = [req EXCEPT ![p].pc = "ok"]
                 \/ req' = [req EXCEPT ![p].pc = AfterInsertError(p), ![p].misled = TRUE]
           \/ UNCHANGED <<rows, sync>> /\ req' = [req EXCEPT ![p].pc = AfterInsertError(p)]
  BY DEF Insert, InsertedRow
<1>5. QED
  BY <1>1, <1>2, <1>3, <1>4

LEMMA CrashGoes ==
  ASSUME Inv, Crash, NEW p \in Request
  PROVE  /\ req' \in [Request -> RequestState]
         /\ p \notin InFlight => req'[p] = req[p]
         /\ p \in InFlight =>
              /\ req'[p].pc = "failed" /\ req'[p].acct = req[p].acct /\ req'[p].misled
              /\ req'[p].name = req[p].name /\ req'[p].url = req[p].url /\ req'[p].key = req[p].key
              /\ req'[p].creates = req[p].creates /\ req'[p].beside = req[p].beside
              /\ req'[p].early = req[p].early
<1> DEFINE ended(q) == [req[q] EXCEPT !.pc = "failed", !.misled = TRUE]
<1>1. ASSUME NEW q \in Request
      PROVE  /\ ended(q) \in RequestState
             /\ ended(q).pc = "failed" /\ ended(q).acct = req[q].acct /\ ended(q).misled
             /\ ended(q).name = req[q].name /\ ended(q).url = req[q].url
             /\ ended(q).key = req[q].key
             /\ ended(q).creates = req[q].creates /\ ended(q).beside = req[q].beside
             /\ ended(q).early = req[q].early
  <2>1. req[q] \in RequestState
    BY RequestFacts
  <2>2. ended(q) \in RequestState /\ ended(q).misled = TRUE
    BY <2>1 DEF RequestState
  <2>3. QED
    BY <2>1, <2>2 DEF RequestState
<1>2. req' = [q \in Request |-> IF q \in InFlight THEN ended(q) ELSE req[q]]
  BY DEF Crash
<1> HIDE DEF ended
<1>3. QED
  BY <1>1, <1>2, RequestFacts

LEMMA SeedsAreFinite ==
  /\ Len(Seeds) \in Nat /\ DOMAIN Seeds = 1 .. Len(Seeds)
  /\ \A i \in DOMAIN Seeds : Seeds[i] \in Seed
  /\ \A s \in Seed : \E i \in DOMAIN Seeds : s = Seeds[i]
<1>1. \E S : Seeds \in Seq(S)
  BY SeedsAssumption
<1>2. QED
  BY <1>1 DEF Seed

\* The typed states that a run of the sync goes through.
LEMMA StartTyped ==
  ASSUME NEW fetched \in SUBSET Name, NEW pc \in {"running", "ok", "failed"}, Start(fetched, pc)
  PROVE  sync' \in SyncState
<1>1. 1 \in 1 .. Len(Seeds) + 1 /\ 1 \in 1 .. MaxAttempts
  BY SeedsAreFinite, Bounds
<1>2. QED
  BY <1>1 DEF Start, SyncState

LEMMA SyncFacts ==
  ASSUME Inv, SyncUpsert
  PROVE  /\ TypeOK /\ sync.pc = "running"
         /\ sync.next \in DOMAIN Seeds /\ Seeds[sync.next] \in Seed
         /\ UNCHANGED <<chatwoot, req, edge>> /\ (Event \/ NoEvent)
BY SeedsAreFinite DEF SyncUpsert, Inv, SyncInRange

\* What it does: a seed is applied, or not, and the run goes on, starts over or fails.
Applied(s) == rows' = [rows EXCEPT ![s.name] = Upserted(s, sync.fetched)]
SyncTo(pc, next, attempt, overwritten) ==
  /\ sync' \in SyncState
  /\ sync'.pc = pc /\ sync'.next = next /\ sync'.attempt = attempt
  /\ sync'.fetched = sync.fetched /\ sync'.overwritten = overwritten

LEMMA SyncUpsertGoes ==
  ASSUME Inv, SyncUpsert
  PROVE  LET s == Seeds[sync.next]
         IN  \/ UNCHANGED rows /\ SyncTo("failed", sync.next, sync.attempt, sync.overwritten)
             \/ /\ Applied(s)
                /\ SyncTo(IF sync.next = Len(Seeds) THEN "ok" ELSE "running", sync.next + 1,
                          sync.attempt, sync.overwritten \ {s.name})
             \/ /\ UNCHANGED rows \/ Applied(s)
                /\ \/ SyncTo("running", 1, sync.attempt + 1, sync.overwritten)
                   \/ SyncTo("failed", sync.next, sync.attempt, sync.overwritten)
<1> DEFINE s == Seeds[sync.next]
           failed == [sync EXCEPT !.pc = "failed"]
           done == [sync EXCEPT !.next = @ + 1, !.overwritten = @ \ {s.name},
                                !.pc = IF sync.next = Len(Seeds) THEN "ok" ELSE @]
           again == [sync EXCEPT !.attempt = @ + 1, !.next = 1]
<1>1. sync \in SyncState /\ sync.pc = "running"
  BY SyncFacts DEF TypeOK
<1>2. /\ 1 \in 1 .. Len(Seeds) + 1
      /\ sync.next + 1 \in 1 .. Len(Seeds) + 1
      /\ MayRetry => sync.attempt + 1 \in 1 .. MaxAttempts
  BY <1>1, SyncFacts, SeedsAreFinite, Bounds DEF SyncState, MayRetry
<1>3. failed \in SyncState /\ failed.pc = "failed" /\ failed.next = sync.next
      /\ failed.attempt = sync.attempt /\ failed.fetched = sync.fetched
      /\ failed.overwritten = sync.overwritten
  BY <1>1 DEF SyncState
<1>4. done \in SyncState /\ done.pc = (IF sync.next = Len(Seeds) THEN "ok" ELSE "running")
      /\ done.next = sync.next + 1 /\ done.attempt = sync.attempt /\ done.fetched = sync.fetched
      /\ done.overwritten = sync.overwritten \ {s.name}
  <2> DEFINE N == sync.next + 1
  <2>1. N \in 1 .. Len(Seeds) + 1
    BY <1>2
  <2> HIDE DEF N
  <2> DEFINE d == [sync EXCEPT !.next = N, !.overwritten = @ \ {s.name},
                               !.pc = IF sync.next = Len(Seeds) THEN "ok" ELSE @]
  <2>2. d \in SyncState /\ d.pc = (IF sync.next = Len(Seeds) THEN "ok" ELSE "running")
        /\ d.next = N /\ d.attempt = sync.attempt /\ d.fetched = sync.fetched
        /\ d.overwritten = sync.overwritten \ {s.name}
    BY <1>1, <2>1 DEF SyncState
  <2>3. QED
    BY <2>2 DEF N
<1>5. MayRetry =>
        /\ again \in SyncState /\ again.pc = "running" /\ again.next = 1
        /\ again.attempt = sync.attempt + 1
        /\ again.fetched = sync.fetched /\ again.overwritten = sync.overwritten
  BY <1>1, <1>2 DEF SyncState
<1>6. \/ UNCHANGED rows /\ sync' = failed
      \/ Applied(s) /\ sync' = done
      \/ (UNCHANGED rows \/ Applied(s)) /\ ((MayRetry /\ sync' = again) \/ sync' = failed)
  BY DEF SyncUpsert, Applied, Retried, RetryFrom
<1> HIDE DEF failed, done, again
<1>7. QED
  BY <1>3, <1>4, <1>5, <1>6 DEF SyncTo

LEMMA AppliedTyped ==
  ASSUME TypeOK, NEW s \in Seed, Applied(s)
  PROVE  rows' \in [Name -> Row \cup {None}]
BY UpsertedIsTyped, SeedIsTyped DEF TypeOK, Applied

LEMMA SeedScriptGoes ==
  ASSUME TypeOK, NEW fetched \in SUBSET Name, SeedScript(fetched)
  PROVE  /\ sync' \in SyncState /\ sync'.next = 1 /\ sync'.fetched = fetched /\ sync'.overwritten = {}
         /\ rows' \in [Name -> Row \cup {None}]
         /\ UNCHANGED <<chatwoot, req, edge>> /\ Event
         /\ \/ UNCHANGED rows /\ sync'.pc = "failed"
            \/ /\ sync'.pc = "ok"
               /\ \A s \in Seed : rows'[s.name] = Upserted(s, fetched)
               /\ \A n \in Name : (\A s \in Seed : s.name # n) => rows'[n] = rows[n]
<1> DEFINE clash == \E s \in Seed : Clashes(s.name)
           of(n) == CHOOSE s \in Seed : s.name = n
<1>1. /\ Start(fetched, IF clash THEN "failed" ELSE "ok")
      /\ clash => UNCHANGED rows
      /\ ~clash => rows' = [n \in Name |-> IF \A s \in Seed : s.name # n THEN rows[n]
                                          ELSE Upserted(of(n), fetched)]
      /\ UNCHANGED <<chatwoot, req, edge>> /\ Event
  BY DEF SeedScript
<1>2. sync' \in SyncState
  BY <1>1, StartTyped
<1>3. /\ sync'.next = 1 /\ sync'.fetched = fetched /\ sync'.overwritten = {}
      /\ sync'.pc = IF clash THEN "failed" ELSE "ok"
  BY <1>1 DEF Start
<1> HIDE DEF clash
<1>4. ASSUME ~clash
      PROVE  /\ rows' \in [Name -> Row \cup {None}]
             /\ \A s \in Seed : rows'[s.name] = Upserted(s, fetched)
             /\ \A n \in Name : (\A s \in Seed : s.name # n) => rows'[n] = rows[n]
  <2>1. \A n \in Name : (\E s \in Seed : s.name = n) => of(n) \in Seed
    OBVIOUS
  <2>2. \A n \in Name : (\E s \in Seed : s.name = n) => Upserted(of(n), fetched) \in Row
    BY <2>1, UpsertedIsTyped
  <2>3. \A s \in Seed : s.name \in Name /\ of(s.name) = s
    BY SeedIsTyped, SeedOfName
  <2> HIDE DEF of
  <2>4. rows' \in [Name -> Row \cup {None}]
    BY <1>1, <1>4, <2>2 DEF TypeOK
  <2>5. QED
    BY <1>1, <1>4, <2>3, <2>4
<1>5. QED
  BY <1>1, <1>2, <1>3, <1>4 DEF TypeOK

Fetchable == {s.name : s \in {x \in Seed : x.secret # None}}

LEMMA FetchableIsTyped ==
  /\ Fetchable \subseteq Name
  /\ \A s \in Seed : s.name \in Fetchable => s.secret # None
<1>1. Fetchable \subseteq Name
  BY SeedIsTyped DEF Fetchable
<1>2. \A s, x \in Seed : s.name = x.name => s = x
  BY SeedsAssumption DEF Seed
<1>3. QED
  BY <1>1, <1>2 DEF Fetchable

LEMMA UpdatedIsTyped ==
  ASSUME TypeOK, NEW n \in Name, rows[n] # None, NEW k \in Key \cup {None}, NEW acct \in Account
  PROVE  /\ [rows[n] EXCEPT !.key = IF k = None THEN @ ELSE k] \in Row
         /\ [rows[n] EXCEPT !.acct = acct, !.by = None] \in Row
<1>1. rows[n] \in Row
  BY DEF TypeOK
<1>2. QED
  BY <1>1 DEF Row

Registered(n, acct) ==
  IF rows[n] = None THEN [slugged |-> FALSE, url |-> None, acct |-> acct, key |-> None, by |-> None]
  ELSE [rows[n] EXCEPT !.acct = acct, !.by = None]

LEMMA RegisterGoes ==
  ASSUME TypeOK, NEW n \in Name, NEW acct \in Account, Register(n, acct)
  PROVE  /\ Registered(n, acct) \in Row /\ Write(n, Registered(n, acct))
         /\ UNCHANGED <<chatwoot, req, edge>> /\ Event
<1>1. [slugged |-> FALSE, url |-> None, acct |-> acct, key |-> None, by |-> None] \in Row
  BY DEF Row
<1>2. QED
  BY <1>1, UpdatedIsTyped DEF Register, Registered

LEMMA BeginGoes ==
  ASSUME Inv, NEW p \in Request, Provision(p) \/ Import(p)
  PROVE  \E n \in Name, u \in Installation, acct \in Account \cup {None}, k \in Key, creates \in BOOLEAN :
           /\ Begin(p, n, u, acct, k, creates)
           /\ creates => acct = None
           /\ ~creates => acct \in Account
<1>1. ASSUME Provision(p)
      PROVE  \E parent \in Name, n \in Name, k \in Key :
               IsParent(parent) /\ Begin(p, n, rows[parent].url, None, k, TRUE)
  BY <1>1 DEF Provision
<1>2. ASSUME Import(p)
      PROVE  \E parent \in Name, n \in Name, k \in Key, a \in Account :
               IsParent(parent) /\ Begin(p, n, rows[parent].url, a, k, FALSE)
  BY <1>2 DEF Import
<1>3. QED
  BY <1>1, <1>2, ParentIsComplete

LEMMA ServeTyped ==
  ASSUME Inv, NEW p \in Request, Serve(p)
  PROVE  TypeOK'
<1>1. TypeOK
  BY DEF Inv
<1>2. CASE CreateAccount(p)
  <2>1. chatwoot' \in Chatwoots
    BY <1>1, <1>2, CreateAccountGoes DEF TypeOK, ChatwootTo, Chatwoots
  <2>2. req' \in [Request -> RequestState]
    BY <1>2, CreateAccountGoes DEF Goes
  <2>3. UNCHANGED <<rows, sync>> /\ (Event \/ NoEvent)
    BY <1>2, CreateAccountGoes
  <2>4. QED
    BY <1>1, <2>1, <2>2, <2>3, EventsTyped DEF TypeOK, Chatwoots
<1>3. CASE CreateAndLinkUser(p)
  BY <1>1, <1>3, CreateAndLinkUserGoes, EventsTyped DEF TypeOK, Goes
<1>4. CASE Rollback(p)
  <2>1. chatwoot' \in Chatwoots
    BY <1>1, <1>4, RollbackGoes DEF TypeOK, ChatwootTo, Chatwoots
  <2>2. QED
    BY <1>1, <1>4, <2>1, RollbackGoes, EventsTyped DEF TypeOK, Goes, Chatwoots
<1>5. CASE CheckConflict(p)
  BY <1>1, <1>5, CheckConflictGoes, EventsTyped DEF TypeOK, Goes
<1>6. CASE Insert(p)
  <2>1. req' \in [Request -> RequestState]
    BY <1>6, InsertGoes DEF Goes
  <2>2. rows' \in [Name -> Row \cup {None}] /\ sync' \in SyncState
    BY <1>1, <1>6, InsertGoes, WriteTyped DEF TypeOK
  <2>3. QED
    BY <1>1, <1>6, <2>1, <2>2, InsertGoes, EventsTyped DEF TypeOK
<1>7. QED
  BY <1>2, <1>3, <1>4, <1>5, <1>6 DEF Serve

LEMMA NextTyped ==
  ASSUME Inv, [Next]_vars
  PROVE  TypeOK'
<1>1. TypeOK
  BY DEF Inv
<1>2. ASSUME NEW p \in Request, Provision(p) \/ Import(p) \/ Serve(p) PROVE TypeOK'
  <2>1. ASSUME Provision(p) \/ Import(p) PROVE TypeOK'
    <3>1. PICK n \in Name, u \in Installation, acct \in Account \cup {None}, k \in Key, creates \in BOOLEAN :
            Begin(p, n, u, acct, k, creates)
      BY <2>1, BeginGoes
    <3>2. QED
      BY <3>1, BeginTyped
  <2>2. QED
    BY <1>2, <2>1, ServeTyped
<1>3. ASSUME NEW n \in Name, NEW k \in Key \cup {None}, UpdateDify(n, k) PROVE TypeOK'
  <2> DEFINE row == [rows[n] EXCEPT !.key = IF k = None THEN @ ELSE k]
  <2>1. Write(n, row) /\ rows[n] # None /\ UNCHANGED <<chatwoot, req>> /\ Event
    BY <1>3 DEF UpdateDify
  <2>2. row \in Row
    <3>1. \E a \in Account : TRUE
      BY <1>1, <2>1 DEF TypeOK, Row
    <3>2. QED
      BY <1>1, <2>1, <3>1, UpdatedIsTyped
  <2> HIDE DEF row
  <2>3. QED
    BY <1>1, <2>1, <2>2, WriteTyped, EventsTyped DEF TypeOK
<1>4. ASSUME NEW n \in Name, NEW acct \in Account, Register(n, acct)
      PROVE  TypeOK'
  BY <1>1, <1>4, RegisterGoes, WriteTyped, EventsTyped DEF TypeOK
<1>5. ASSUME Crash PROVE TypeOK'
  <2>1. req' \in [Request -> RequestState]
    <3>1. DOMAIN req' = Request /\ req' = [q \in Request |-> req'[q]]
      BY <1>5 DEF Crash
    <3>2. \A q \in Request : req' \in [Request -> RequestState]
      BY <1>5, CrashGoes
    <3>3. \E q \in Request : q \in InFlight
      BY <1>5 DEF Crash, InFlight
    <3>4. QED
      BY <3>2, <3>3
  <2>2. QED
    BY <1>1, <1>5, <2>1, EventsTyped DEF Crash, TypeOK
<1>6. ASSUME NEW fetched \in SUBSET Fetchable, StartSync(fetched) \/ SeedScript(fetched) PROVE TypeOK'
  <2>1. fetched \in SUBSET Name
    BY FetchableIsTyped
  <2>2. ASSUME StartSync(fetched) PROVE TypeOK'
    BY <1>1, <2>1, <2>2, StartTyped, EventsTyped DEF StartSync, TypeOK
  <2>3. ASSUME SeedScript(fetched) PROVE TypeOK'
    BY <1>1, <2>1, <2>3, SeedScriptGoes, EventsTyped DEF TypeOK
  <2>4. QED
    BY <1>6, <2>2, <2>3
<1>7. ASSUME SyncUpsert PROVE TypeOK'
  <2>1. sync' \in SyncState
    BY <1>7, SyncUpsertGoes DEF SyncTo
  <2>2. rows' \in [Name -> Row \cup {None}]
    BY <1>1, <1>7, SyncUpsertGoes, SyncFacts, AppliedTyped DEF TypeOK
  <2>3. QED
    BY <1>1, <1>7, <2>1, <2>2, SyncFacts, EventsTyped DEF TypeOK
<1>8. ASSUME EdgeStep PROVE TypeOK'
  BY <1>1, <1>8, EventsTyped DEF EdgeStep, registryVars, TypeOK
<1>9. ASSUME UNCHANGED vars PROVE TypeOK'
  BY <1>1, <1>9 DEF vars, registryVars, TypeOK
<1>10. QED
  BY <1>2, <1>3, <1>4, <1>5, <1>6, <1>7, <1>8, <1>9 DEF Next, Operator, Finished, Fetchable
-------------------------------------------------------------------------------
\* What the requests know of Chatwoot's accounts.
AccountsOK ==
  /\ AccountsBelowNext
  /\ RequestIsComplete
  /\ ProvisionHasAccount
  /\ AccountIsOwn
  /\ ProvisionCleansUp

LEMMA AccountsQuiet ==
  ASSUME AccountsOK, UNCHANGED <<chatwoot, req>>
  PROVE  AccountsOK'
BY DEF AccountsOK, AccountsBelowNext, RequestIsComplete, ProvisionHasAccount, AccountIsOwn,
       OwnAccount, ProvisionCleansUp

LEMMA BeginFields ==
  ASSUME TypeOK, NEW p \in Request, NEW n, NEW u, NEW acct, NEW k, NEW creates \in BOOLEAN,
         Begin(p, n, u, acct, k, creates)
  PROVE  /\ req[p].pc = "new" /\ \A q \in Request : q < p => req[q].pc # "new"
         /\ req'[p].pc = (IF creates THEN "account" ELSE "check")
         /\ req'[p].name = n /\ req'[p].url = u /\ req'[p].acct = acct /\ req'[p].key = k
         /\ req'[p].creates = creates /\ req'[p].beside = InFlight /\ ~req'[p].misled
         /\ req'[p].early = (~creates /\ acct >= chatwoot[u].next)
         /\ \A q \in Request \ {p} : req'[q] = req[q]
         /\ UNCHANGED <<rows, chatwoot, sync, edge>>
BY DEF Begin, TypeOK

\* Accounts and requests are numbers, so that `<` orders them.
LEMMA NumbersAreTyped ==
  ASSUME TypeOK
  PROVE  /\ \A u \in Installation : chatwoot[u].next \in Nat /\ chatwoot[u].accounts \subseteq Nat
         /\ \A p \in Request : p \in Nat /\ (req[p].acct # None => req[p].acct \in Nat)
<1>1. \A u \in Installation :
        chatwoot[u].next \in 1 .. MaxAccount + 1 /\ chatwoot[u].accounts \subseteq Account
  BY DEF TypeOK
<1>2. 1 .. MaxAccount + 1 \subseteq Nat /\ Account \subseteq Nat
  BY Bounds
<1>3. \A p \in Request : req[p].acct \in Account \cup {None}
  BY DEF TypeOK, RequestState
<1>4. QED
  BY <1>1, <1>2, <1>3, RequestAssumption

LEMMA BeginAccounts ==
  ASSUME Inv, NEW p \in Request, Provision(p) \/ Import(p)
  PROVE  AccountsOK'
<1>1. PICK n \in Name, u \in Installation, acct \in Account \cup {None}, k \in Key, creates \in BOOLEAN :
        /\ Begin(p, n, u, acct, k, creates)
        /\ creates => acct = None
        /\ ~creates => acct \in Account
  BY BeginGoes
<1>2. /\ req[p].pc = "new"
      /\ req'[p].pc = (IF creates THEN "account" ELSE "check")
      /\ req'[p].name = n /\ req'[p].url = u /\ req'[p].acct = acct /\ req'[p].key = k
      /\ req'[p].creates = creates
      /\ req'[p].early = (~creates /\ acct >= chatwoot[u].next)
      /\ \A q \in Request \ {p} : req'[q] = req[q]
      /\ chatwoot' = chatwoot
  BY <1>1, BeginFields DEF Inv
<1>3. AccountsBelowNext'
  BY <1>2 DEF Inv, AccountsBelowNext
<1>4. RequestIsComplete'
  <2>1. acct # None /\ ~(~creates /\ acct >= chatwoot[u].next) => acct < chatwoot[u].next
    <3>1. chatwoot[u].next \in Nat
      BY NumbersAreTyped DEF Inv
    <3>2. Account \subseteq Nat
      BY Bounds
    <3>3. QED
      BY <1>1, <3>1, <3>2
  <2>2. QED
    BY <1>1, <1>2, <2>1 DEF Inv, RequestIsComplete
<1>5. ProvisionHasAccount'
  BY <1>2 DEF Inv, ProvisionHasAccount
<1>6. AccountIsOwn'
  <2>1. \A q \in Request : p < q => req[q].acct = None
    BY <1>2, RequestFacts DEF Inv, BeginInOrder
  <2>2. creates => acct = None
    BY <1>1
  <2>3. SUFFICES ASSUME NEW x \in Request, NEW q \in Request, x # q PROVE OwnAccount(x, q)'
    BY DEF AccountIsOwn
  <2>4. OwnAccount(x, q)
    BY <2>3 DEF Inv, AccountIsOwn
  <2>5. CASE x = p
    BY <1>2, <2>2, <2>5 DEF OwnAccount
  <2>6. CASE q = p
    BY <1>2, <2>1, <2>2, <2>3, <2>6 DEF OwnAccount
  <2>7. CASE x # p /\ q # p
    BY <1>2, <2>4, <2>7 DEF OwnAccount
  <2>8. QED
    BY <2>5, <2>6, <2>7
<1>7. ProvisionCleansUp'
  BY <1>2 DEF Inv, ProvisionCleansUp
<1>8. QED
  BY <1>3, <1>4, <1>5, <1>6, <1>7 DEF AccountsOK

\* A step that leaves Chatwoot alone.
LEMMA MoveAccounts ==
  ASSUME Inv, NEW p \in Request, NEW pc \in {"rollback", "insert", "ok", "failed"}, NEW misled \in BOOLEAN,
         Goes(p, pc, req[p].acct, misled), UNCHANGED chatwoot,
         req[p].pc # "new",
         pc # "failed" => req[p].acct \in Account,
         pc = "rollback" => req[p].creates,
         req[p].creates /\ pc # "failed" => req[p].acct \in chatwoot[req[p].url].accounts,
         req[p].creates /\ pc = "failed" => misled \/ req[p].acct = None
  PROVE  AccountsOK'
<1> USE DEF Goes
<1>1. AccountsBelowNext'
  BY DEF Inv, AccountsBelowNext
<1>2. RequestIsComplete'
  BY DEF Inv, RequestIsComplete
<1>3. ProvisionHasAccount'
  BY DEF Inv, ProvisionHasAccount
<1>4. AccountIsOwn'
  BY DEF Inv, AccountIsOwn, OwnAccount
<1>5. ProvisionCleansUp'
  BY DEF Inv, ProvisionCleansUp
<1>6. QED
  BY <1>1, <1>2, <1>3, <1>4, <1>5 DEF AccountsOK

\* The account is created: its id is higher than that of every account.
LEMMA CreateAccounts ==
  ASSUME Inv, NEW p \in Request, CreateAccount(p)
  PROVE  AccountsOK'
<1> DEFINE u == req[p].url
           next == chatwoot[u].next
<1>1. req[p].pc = "account" /\ req[p].acct = None /\ req[p].creates /\ u \in Installation /\ TypeOK
  BY CreateAccountGoes, RequestFacts DEF Inv
<1>2. CASE UNCHANGED chatwoot /\ Goes(p, "failed", req[p].acct, req[p].misled)
  <2>1. req[p].misled \in BOOLEAN
    BY <1>1 DEF TypeOK, RequestState
  <2>2. QED
    BY <1>1, <1>2, <2>1, MoveAccounts
<1>3. CASE /\ next \in Account
           /\ ChatwootTo(u, chatwoot[u].accounts \cup {next}, next + 1)
           /\ Goes(p, "user", next, req[p].misled) \/ Goes(p, "failed", req[p].acct, TRUE)
  <2>1. /\ next \in Nat /\ next < next + 1 /\ ~(next < next)
        /\ \A a \in chatwoot[u].accounts : a < next /\ a < next + 1 /\ a # next
        /\ \A q \in Request : req[q].acct # None /\ ~req[q].early /\ req[q].url = u =>
             req[q].acct < next + 1 /\ req[q].acct # next
    <3>1. \A a \in chatwoot[u].accounts : a < next /\ a \in Nat
      BY <1>1, NumbersAreTyped DEF Inv, AccountsBelowNext
    <3>2. \A q \in Request : req[q].acct # None /\ ~req[q].early /\ req[q].url = u =>
            req[q].acct < next /\ req[q].acct \in Nat
      BY <1>1, NumbersAreTyped, RequestFacts
    <3>3. next \in Nat
      BY <1>1, NumbersAreTyped
    <3>4. \A a \in Nat : a < next => a < next + 1 /\ a # next
      BY <3>3
    <3>5. next < next + 1 /\ ~(next < next)
      BY <3>3
    <3>6. QED
      BY <3>1, <3>2, <3>3, <3>4, <3>5
  <2> DEFINE next1 == next + 1
  <2>2. /\ chatwoot'[u].accounts = chatwoot[u].accounts \cup {next} /\ chatwoot'[u].next = next1
        /\ \A w \in Installation \ {u} : chatwoot'[w] = chatwoot[w]
    BY <1>3 DEF ChatwootTo
  <2>3. /\ \/ req'[p].pc = "user" /\ req'[p].acct = next
           \/ req'[p].pc = "failed" /\ req'[p].acct = None /\ req'[p].misled
        /\ req'[p].name = req[p].name /\ req'[p].url = u /\ req'[p].key = req[p].key
        /\ req'[p].creates /\ req'[p].early = req[p].early
        /\ \A q \in Request \ {p} : req'[q] = req[q]
    BY <1>1, <1>3 DEF Goes
  <2>4. \A q \in Request : req[q].pc # "new" => req[q].url \in Installation
    BY RequestFacts
  <2>5. \A q \in Request : req[q].acct # None => req[q].url \in Installation
    BY RequestFacts
  <2>6. /\ \A a \in chatwoot[u].accounts : a < next1
        /\ next < next1
        /\ \A q \in Request :
             req[q].acct # None /\ ~req[q].early /\ req[q].url = u => req[q].acct < next1
    BY <2>1
  <2> HIDE DEF next1
  <2>7. AccountsBelowNext'
    BY <2>2, <2>6 DEF Inv, AccountsBelowNext
  <2>8. RequestIsComplete'
    BY <1>1, <1>3, <2>2, <2>3, <2>5, <2>6 DEF Inv, RequestIsComplete
  <2>9. ProvisionHasAccount'
    BY <2>2, <2>3, <2>4 DEF Inv, ProvisionHasAccount
  <2>10. AccountIsOwn'
    BY <2>1, <2>3, RequestFacts DEF Inv, AccountIsOwn, OwnAccount
  <2>11. ProvisionCleansUp'
    <3>1. SUFFICES ASSUME NEW q \in Request, req'[q].creates, ~req'[q].misled, req'[q].acct # None
                   PROVE  /\ req'[q].pc = "ok" => req'[q].acct \in chatwoot'[req'[q].url].accounts
                          /\ req'[q].pc = "failed" => req'[q].acct \notin chatwoot'[req'[q].url].accounts
      BY DEF ProvisionCleansUp
    <3>2. CASE q = p
      BY <2>3, <3>1, <3>2
    <3>3. CASE q # p
      <4>1. req'[q] = req[q] /\ req[q].url \in Installation
        BY <2>3, <2>5, <3>1, <3>3
      <4>2. /\ req[q].pc = "ok" => req[q].acct \in chatwoot[req[q].url].accounts
            /\ req[q].pc = "failed" => req[q].acct \notin chatwoot[req[q].url].accounts
        BY <3>1, <4>1 DEF Inv, ProvisionCleansUp
      <4>3. req[q].url = u => req[q].acct # next
        BY <2>1, <3>1, <4>1, RequestFacts
      <4>4. QED
        BY <2>2, <4>1, <4>2, <4>3
    <3>4. QED
      BY <3>2, <3>3
  <2>12. QED
    BY <2>7, <2>8, <2>9, <2>10, <2>11 DEF AccountsOK
<1>4. QED
  BY <1>2, <1>3, CreateAccountGoes

\* The account is deleted: nobody else's is.
LEMMA RollbackAccounts ==
  ASSUME Inv, NEW p \in Request, Rollback(p)
  PROVE  AccountsOK'
<1> DEFINE u == req[p].url
           acct == req[p].acct
<1>1. req[p].pc = "rollback" /\ req[p].creates /\ acct \in Account /\ u \in Installation /\ TypeOK
  BY RollbackGoes, RequestFacts DEF Inv
<1>2. CASE UNCHANGED chatwoot /\ Goes(p, "failed", acct, TRUE)
  BY <1>1, <1>2, MoveAccounts
<1>3. CASE /\ ChatwootTo(u, chatwoot[u].accounts \ {acct}, chatwoot[u].next)
           /\ Goes(p, "failed", acct, req[p].misled)
  <2>1. /\ chatwoot'[u].accounts = chatwoot[u].accounts \ {acct}
        /\ \A w \in Installation : chatwoot'[w].next = chatwoot[w].next
        /\ \A w \in Installation \ {u} : chatwoot'[w] = chatwoot[w]
    BY <1>3 DEF ChatwootTo
  <2>2. /\ req'[p].pc = "failed" /\ req'[p].acct = acct
        /\ req'[p].name = req[p].name /\ req'[p].url = u /\ req'[p].key = req[p].key
        /\ req'[p].creates = req[p].creates /\ req'[p].early = req[p].early
        /\ \A q \in Request \ {p} : req'[q] = req[q]
    BY <1>3 DEF Goes
  <2>3. acct # None
    BY <1>1, NamesAssumption
  <2>4. \A q \in Request \ {p} :
          req[q].creates /\ req[q].acct # None /\ req[q].url = u => req[q].acct # acct
    BY <1>1, <2>3 DEF Inv, AccountIsOwn, OwnAccount
  <2>5. \A q \in Request : req[q].acct # None => req[q].url \in Installation
    BY RequestFacts
  <2>6. AccountsBelowNext'
    BY <2>1 DEF Inv, AccountsBelowNext
  <2>7. RequestIsComplete'
    BY <1>1, <2>1, <2>2, <2>5 DEF Inv, RequestIsComplete
  <2>8. ProvisionHasAccount'
    <3>1. SUFFICES ASSUME NEW q \in Request, req'[q].creates, req'[q].pc \in {"user", "rollback", "insert"}
                   PROVE  req'[q].acct \in chatwoot'[req'[q].url].accounts
      BY DEF ProvisionHasAccount
    <3>2. q # p /\ req'[q] = req[q]
      BY <2>2, <3>1
    <3>3. req[q].acct \in chatwoot[req[q].url].accounts /\ req[q].acct \in Account
          /\ req[q].url \in Installation
      BY <3>1, <3>2, RequestFacts DEF Inv, ProvisionHasAccount
    <3>4. req[q].url = u => req[q].acct # acct
      BY <2>4, <3>1, <3>2, <3>3, NamesAssumption
    <3>5. QED
      BY <2>1, <3>2, <3>3, <3>4
  <2>9. AccountIsOwn'
    BY <2>2 DEF Inv, AccountIsOwn, OwnAccount
  <2>10. ProvisionCleansUp'
    <3>1. SUFFICES ASSUME NEW q \in Request, req'[q].creates, ~req'[q].misled, req'[q].acct # None
                   PROVE  /\ req'[q].pc = "ok" => req'[q].acct \in chatwoot'[req'[q].url].accounts
                          /\ req'[q].pc = "failed" => req'[q].acct \notin chatwoot'[req'[q].url].accounts
      BY DEF ProvisionCleansUp
    <3>2. CASE q = p
      BY <2>1, <2>2, <3>2
    <3>3. CASE q # p
      <4>1. req'[q] = req[q] /\ req[q].url \in Installation
        BY <2>2, <2>5, <3>1, <3>3
      <4>2. /\ req[q].pc = "ok" => req[q].acct \in chatwoot[req[q].url].accounts
            /\ req[q].pc = "failed" => req[q].acct \notin chatwoot[req[q].url].accounts
        BY <3>1, <4>1 DEF Inv, ProvisionCleansUp
      <4>3. req[q].url = u => req[q].acct # acct
        BY <2>4, <3>1, <3>3, <4>1
      <4>4. QED
        BY <2>1, <4>1, <4>2, <4>3
    <3>4. QED
      BY <3>2, <3>3
  <2>11. QED
    BY <2>6, <2>7, <2>8, <2>9, <2>10 DEF AccountsOK
<1>4. QED
  BY <1>2, <1>3, RollbackGoes

LEMMA ServeAccounts ==
  ASSUME Inv, NEW p \in Request, Serve(p)
  PROVE  AccountsOK'
<1>1. req[p].misled \in BOOLEAN
  BY RequestFacts DEF RequestState
<1>2. /\ req[p].creates /\ req[p].pc \in {"user", "rollback", "insert"} =>
           req[p].acct \in chatwoot[req[p].url].accounts
  BY DEF Inv, ProvisionHasAccount
<1>3. CASE CreateAndLinkUser(p)
  <2>1. req[p].pc = "user" /\ req[p].acct \in Account /\ req[p].creates /\ UNCHANGED chatwoot
    BY <1>3, CreateAndLinkUserGoes, RequestFacts
  <2>2. Goes(p, "insert", req[p].acct, req[p].misled) \/ Goes(p, "rollback", req[p].acct, req[p].misled)
    BY <1>3, CreateAndLinkUserGoes
  <2>3. QED
    BY <1>1, <1>2, <2>1, <2>2, MoveAccounts
<1>4. CASE CheckConflict(p)
  <2>1. req[p].pc = "check" /\ req[p].acct \in Account /\ ~req[p].creates /\ UNCHANGED chatwoot
    BY <1>4, CheckConflictGoes, RequestFacts
  <2>2. Goes(p, "insert", req[p].acct, req[p].misled) \/ Goes(p, "failed", req[p].acct, req[p].misled)
    BY <1>4, CheckConflictGoes
  <2>3. QED
    BY <1>1, <2>1, <2>2, MoveAccounts
<1>5. CASE Insert(p)
  <2>1. req[p].pc = "insert" /\ req[p].acct \in Account /\ UNCHANGED chatwoot
    BY <1>5, InsertGoes, RequestFacts
  <2>2. \/ Goes(p, "ok", req[p].acct, req[p].misled)
        \/ Goes(p, AfterInsertError(p), req[p].acct, TRUE)
        \/ Goes(p, AfterInsertError(p), req[p].acct, req[p].misled)
    BY <1>5, InsertGoes
  <2>3. CASE req[p].creates
    <3>1. AfterInsertError(p) = "rollback"
      BY <2>3 DEF AfterInsertError
    <3>2. QED
      BY <1>1, <1>2, <2>1, <2>2, <2>3, <3>1, MoveAccounts
  <2>4. CASE ~req[p].creates
    <3>1. AfterInsertError(p) = "failed"
      BY <2>4 DEF AfterInsertError
    <3>2. QED
      BY <1>1, <2>1, <2>2, <2>4, <3>1, MoveAccounts
  <2>5. QED
    BY <2>3, <2>4
<1>6. QED
  BY <1>3, <1>4, <1>5, CreateAccounts, RollbackAccounts DEF Serve

LEMMA CrashAccounts ==
  ASSUME Inv, Crash
  PROVE  AccountsOK'
<1>1. \A q \in Request :
        /\ req'[q].acct = req[q].acct /\ req'[q].creates = req[q].creates /\ req'[q].url = req[q].url
        /\ req'[q].name = req[q].name /\ req'[q].key = req[q].key /\ req'[q].early = req[q].early
        /\ req'[q] = req[q] \/ (req[q].pc # "new" /\ req'[q].pc = "failed" /\ req'[q].misled)
  BY CrashGoes DEF InFlight
<1>2. chatwoot' = chatwoot
  BY DEF Crash
<1>3. AccountsBelowNext'
  BY <1>2 DEF Inv, AccountsBelowNext
<1>4. RequestIsComplete'
  BY <1>1, <1>2 DEF Inv, RequestIsComplete
<1>5. ProvisionHasAccount'
  BY <1>1, <1>2 DEF Inv, ProvisionHasAccount
<1>6. AccountIsOwn'
  BY <1>1 DEF Inv, AccountIsOwn, OwnAccount
<1>7. ProvisionCleansUp'
  BY <1>1, <1>2 DEF Inv, ProvisionCleansUp
<1>8. QED
  BY <1>3, <1>4, <1>5, <1>6, <1>7 DEF AccountsOK

\* The other actions leave Chatwoot and the requests alone.
LEMMA NextAccounts ==
  ASSUME Inv, [Next]_vars
  PROVE  AccountsOK'
<1>1. ASSUME NEW n \in Name, NEW k \in Key \cup {None}, UpdateDify(n, k) PROVE UNCHANGED <<chatwoot, req>>
  BY <1>1 DEF UpdateDify
<1>2. ASSUME NEW n \in Name, NEW acct, Register(n, acct) PROVE UNCHANGED <<chatwoot, req>>
  BY <1>2 DEF Register
<1>3. ASSUME NEW fetched, StartSync(fetched) \/ SeedScript(fetched) PROVE UNCHANGED <<chatwoot, req>>
  BY <1>3 DEF StartSync, SeedScript
<1>4. ASSUME SyncUpsert \/ EdgeStep \/ UNCHANGED vars PROVE UNCHANGED <<chatwoot, req>>
  BY <1>4 DEF SyncUpsert, EdgeStep, registryVars, vars
<1>5. AccountsOK
  BY DEF Inv, AccountsOK
<1>6. QED
  BY <1>1, <1>2, <1>3, <1>4, <1>5, AccountsQuiet, BeginAccounts, ServeAccounts, CrashAccounts
     DEF Next, Operator, Finished
-------------------------------------------------------------------------------
\* Which rows are whose.
RowsOK ==
  /\ SluggedHasUrl
  /\ RowIsByRequest
  /\ BeginInOrder
  /\ ImportsAreChecked

LEMMA RowsQuiet ==
  ASSUME RowsOK, UNCHANGED <<rows, req>>
  PROVE  RowsOK'
BY DEF RowsOK, SluggedHasUrl, RowIsByRequest, BeginInOrder, Ended, ImportsAreChecked,
       FindsConflict, IsBy

\* A row is written by nobody, or by a request there is.
LEMMA WriterIsTyped ==
  ASSUME TypeOK, NEW n \in Name, rows[n] # None
  PROVE  rows[n] \in Row /\ rows[n].by \in Request \cup {None}
<1>1. rows[n] \in Row
  BY DEF TypeOK
<1>2. QED
  BY <1>1 DEF Row

\* Requests go on and no row changes.
Onward(q) ==
  /\ req'[q].name = req[q].name /\ req'[q].url = req[q].url
  /\ req'[q].creates = req[q].creates /\ req'[q].beside = req[q].beside
  /\ req[q].pc # "new" /\ req'[q].pc # "new"
  /\ Ended(q) => req'[q].pc = req[q].pc
  /\ req[q].pc \in {"rollback", "ok", "failed"} =>
       req'[q].pc \in {"rollback", "ok", "failed"} /\ req'[q].acct = req[q].acct
  /\ ~req[q].creates =>
       /\ req'[q].acct = req[q].acct
       /\ req[q].pc \in {"check", "failed"} => req'[q].pc = "failed" \/ ~Conflicts(q)

LEMMA MoveRows ==
  ASSUME Inv, UNCHANGED rows, \A q \in Request : req'[q] = req[q] \/ Onward(q)
  PROVE  RowsOK'
<1>1. SluggedHasUrl'
  BY DEF Inv, SluggedHasUrl
<1>2. RowIsByRequest'
  <2>1. SUFFICES ASSUME NEW n \in Name, rows[n] # None, rows[n].by # None
                 PROVE  LET r == req'[rows[n].by]
                        IN  /\ r.pc \in {"rollback", "ok", "failed"}
                            /\ rows[n].slugged /\ n = r.name /\ rows[n].url = r.url
                            /\ rows[n].acct = r.acct
    BY DEF RowIsByRequest
  <2>2. rows[n].by \in Request
    BY <2>1, WriterIsTyped DEF Inv
  <2>3. QED
    BY <2>1, <2>2 DEF Inv, RowIsByRequest, Onward
<1>3. BeginInOrder'
  BY DEF Inv, BeginInOrder, Ended, Onward
<1>4. ImportsAreChecked'
  <2>1. SUFFICES ASSUME NEW p \in Request, NEW q \in Request, q < p, req'[p].pc # "new",
                        ~req'[p].creates, q \notin req'[p].beside,
                        NEW n \in Name, IsBy(n, q), rows[n].acct = req'[p].acct
                 PROVE  req'[p].pc \in {"check", "failed"} /\ \A m \in Name : ~IsBy(m, p)
    BY DEF ImportsAreChecked, FindsConflict, IsBy
  <2>2. /\ req[p].pc # "new" /\ ~req[p].creates /\ q \notin req[p].beside
        /\ rows[n].acct = req[p].acct
    BY <2>1 DEF Onward
  <2>3. req[p].pc \in {"check", "failed"} /\ \A m \in Name : ~IsBy(m, p)
    BY <2>1, <2>2 DEF Inv, ImportsAreChecked, FindsConflict
  <2>4. Conflicts(p)
    BY <2>1, <2>2 DEF Conflicts, IsBy
  <2>5. QED
    BY <2>2, <2>3, <2>4 DEF Onward
<1>5. QED
  BY <1>1, <1>2, <1>3, <1>4 DEF RowsOK

\* A request goes on from a step that is not its last.
LEMMA GoesOnward ==
  ASSUME Inv, NEW p \in Request, NEW pc, NEW acct, NEW misled, Goes(p, pc, acct, misled),
         req[p].pc \in {"account", "user", "rollback", "check", "insert"},
         pc # "new",
         req[p].pc = "rollback" => pc = "failed",
         acct = req[p].acct \/ (req[p].pc = "account" /\ req[p].creates),
         req[p].pc = "check" => pc = "failed" \/ ~Conflicts(p)
  PROVE  \A q \in Request : req'[q] = req[q] \/ Onward(q)
<1>1. Onward(p)
  BY DEF Goes, Onward, Ended
<1>2. QED
  BY <1>1 DEF Goes

LEMMA BeginRows ==
  ASSUME Inv, NEW p \in Request, Provision(p) \/ Import(p)
  PROVE  RowsOK'
<1>1. /\ req[p].pc = "new" /\ \A q \in Request : q < p => req[q].pc # "new"
      /\ req'[p].pc \in {"account", "check"} /\ req'[p].beside = InFlight
      /\ req'[p].creates \/ req'[p].pc = "check"
      /\ \A q \in Request \ {p} : req'[q] = req[q]
      /\ UNCHANGED rows
  <2>1. PICK n \in Name, u \in Installation, acct \in Account \cup {None}, k \in Key, creates \in BOOLEAN :
          Begin(p, n, u, acct, k, creates)
    BY BeginGoes
  <2>2. QED
    BY <2>1, BeginFields DEF Inv
<1>2. \A n \in Name : ~IsBy(n, p)
  BY <1>1, NamesAssumption DEF Inv, RowIsByRequest, IsBy
<1>3. \A x \in Request : p < x => req[x].pc = "new"
  BY <1>1 DEF Inv, BeginInOrder
<1>4. SluggedHasUrl'
  BY <1>1 DEF Inv, SluggedHasUrl
<1>5. RowIsByRequest'
  <2>1. SUFFICES ASSUME NEW n \in Name, rows[n] # None, rows[n].by # None
                 PROVE  LET r == req'[rows[n].by]
                        IN  /\ r.pc \in {"rollback", "ok", "failed"}
                            /\ rows[n].slugged /\ n = r.name /\ rows[n].url = r.url
                            /\ rows[n].acct = r.acct
    BY <1>1 DEF RowIsByRequest
  <2>2. rows[n].by \in Request \ {p}
    BY <1>2, <2>1, WriterIsTyped DEF Inv, IsBy
  <2>3. QED
    BY <1>1, <2>1, <2>2 DEF Inv, RowIsByRequest
<1>6. BeginInOrder'
  <2>1. SUFFICES ASSUME NEW x \in Request, NEW q \in Request, q < x, req'[x].pc # "new"
                 PROVE  req'[q].pc # "new" /\ (q \in req'[x].beside \/ req'[q].pc \in {"ok", "failed"})
    BY DEF BeginInOrder, Ended
  <2>2. CASE x = p
    <3>1. req[q].pc # "new" /\ q # p
      BY <1>1, <2>1, <2>2
    <3>2. q \in InFlight \/ req[q].pc \in {"ok", "failed"}
      BY <3>1, RequestFacts DEF InFlight, RequestState
    <3>3. QED
      BY <1>1, <2>2, <3>1, <3>2
  <2>3. CASE x # p
    <3>1. req'[x] = req[x] /\ q # p
      BY <1>1, <1>3, <2>1, <2>3
    <3>2. QED
      BY <1>1, <2>1, <3>1 DEF Inv, BeginInOrder, Ended
  <2>4. QED
    BY <2>2, <2>3
<1>7. ImportsAreChecked'
  <2>1. SUFFICES ASSUME NEW x \in Request, NEW q \in Request, q < x, req'[x].pc # "new",
                        ~req'[x].creates, q \notin req'[x].beside,
                        NEW n \in Name, IsBy(n, q), rows[n].acct = req'[x].acct
                 PROVE  req'[x].pc \in {"check", "failed"} /\ \A m \in Name : ~IsBy(m, x)
    BY <1>1 DEF ImportsAreChecked, FindsConflict, IsBy
  <2>2. CASE x = p
    BY <1>1, <1>2, <2>1, <2>2
  <2>3. CASE x # p
    <3>1. req'[x] = req[x]
      BY <1>1, <2>3
    <3>2. QED
      BY <2>1, <3>1 DEF Inv, ImportsAreChecked, FindsConflict
  <2>4. QED
    BY <2>2, <2>3
<1>8. QED
  BY <1>4, <1>5, <1>6, <1>7 DEF RowsOK

\* The row of a request is written: nobody had one of that name.
LEMMA InsertedRows ==
  ASSUME Inv, NEW p \in Request, req[p].pc = "insert",
         NEW pc \in {"rollback", "ok", "failed"}, NEW misled, Goes(p, pc, req[p].acct, misled),
         req[p].name \in Name, Write(req[p].name, InsertedRow(p)), rows[req[p].name] = None
  PROVE  RowsOK'
<1> DEFINE name == req[p].name
           row == InsertedRow(p)
<1>1. /\ rows'[name] = row /\ \A n \in Name \ {name} : rows'[n] = rows[n]
      /\ row.slugged /\ row.url = req[p].url /\ row.acct = req[p].acct /\ row.by = p
  BY DEF Inv, TypeOK, Write, InsertedRow
<1> HIDE DEF row
<1>2. /\ req'[p].pc = pc /\ req'[p].acct = req[p].acct /\ req'[p].name = name
      /\ req'[p].url = req[p].url /\ req'[p].creates = req[p].creates
      /\ req'[p].beside = req[p].beside
      /\ \A q \in Request \ {p} : req'[q] = req[q]
  BY DEF Goes
<1>3. p # None /\ \A n \in Name : ~IsBy(n, p)
  BY NamesAssumption DEF Inv, RowIsByRequest, IsBy
<1>4. SluggedHasUrl'
  BY <1>1, RequestFacts DEF Inv, SluggedHasUrl
<1>5. RowIsByRequest'
  <2>1. SUFFICES ASSUME NEW n \in Name, rows'[n] # None, rows'[n].by # None
                 PROVE  LET r == req'[rows'[n].by]
                        IN  /\ r.pc \in {"rollback", "ok", "failed"}
                            /\ rows'[n].slugged /\ n = r.name /\ rows'[n].url = r.url
                            /\ rows'[n].acct = r.acct
    BY DEF RowIsByRequest
  <2>2. CASE n = name
    BY <1>1, <1>2, <2>2
  <2>3. CASE n # name
    <3>1. rows'[n] = rows[n] /\ rows[n].by \in Request \ {p}
      BY <1>1, <1>3, <2>1, <2>3, WriterIsTyped DEF Inv, IsBy
    <3>2. req'[rows[n].by] = req[rows[n].by]
      BY <1>2, <3>1
    <3>3. QED
      BY <2>1, <3>1, <3>2 DEF Inv, RowIsByRequest
  <2>4. QED
    BY <2>2, <2>3
<1>6. BeginInOrder'
  <2>1. \A q \in Request : Ended(q) => req'[q].pc \in {"ok", "failed"}
    BY <1>2 DEF Ended
  <2>2. \A q \in Request : (req'[q].pc = "new" <=> req[q].pc = "new") /\ req'[q].beside = req[q].beside
    BY <1>2
  <2>3. QED
    BY <2>1, <2>2 DEF Inv, BeginInOrder, Ended
<1>7. ImportsAreChecked'
  <2>1. SUFFICES ASSUME NEW x \in Request, NEW q \in Request, q < x, req'[x].pc # "new",
                        ~req'[x].creates, q \notin req'[x].beside,
                        NEW n \in Name, rows'[n] # None, rows'[n].by = q, rows'[n].acct = req'[x].acct
                 PROVE  /\ req'[x].pc \in {"check", "failed"}
                        /\ \A m \in Name : ~(rows'[m] # None /\ rows'[m].by = x)
    BY DEF ImportsAreChecked, FindsConflict, IsBy
  <2>2. /\ req[x].pc # "new" /\ ~req[x].creates /\ q \notin req[x].beside
        /\ req'[x].acct = req[x].acct
    BY <1>2, <2>1
  <2>3. Ended(q)
    BY <2>1, <2>2 DEF Inv, BeginInOrder
  <2>4. q # p /\ n # name
    BY <1>1, <2>1, <2>3 DEF Ended
  <2>5. IsBy(n, q) /\ rows[n].acct = req[x].acct
    BY <1>1, <2>1, <2>2, <2>4 DEF IsBy
  <2>6. req[x].pc \in {"check", "failed"} /\ \A m \in Name : ~IsBy(m, x)
    BY <2>1, <2>2, <2>5 DEF Inv, ImportsAreChecked, FindsConflict
  <2>7. x # p
    BY <2>6
  <2>8. QED
    BY <1>1, <1>2, <2>6, <2>7 DEF IsBy
<1>8. QED
  BY <1>4, <1>5, <1>6, <1>7 DEF RowsOK

LEMMA ServeRows ==
  ASSUME Inv, NEW p \in Request, Serve(p)
  PROVE  RowsOK'
<1>1. CASE CreateAccount(p)
  <2>1. req[p].pc = "account" /\ req[p].creates /\ UNCHANGED rows
    BY <1>1, CreateAccountGoes, RequestFacts
  <2>2. \E acct, misled : Goes(p, "user", acct, misled) \/ Goes(p, "failed", acct, misled)
    BY <1>1, CreateAccountGoes
  <2>3. QED
    BY <2>1, <2>2, GoesOnward, MoveRows
<1>2. CASE CreateAndLinkUser(p)
  BY <1>2, CreateAndLinkUserGoes, GoesOnward, MoveRows
<1>3. CASE Rollback(p)
  BY <1>3, RollbackGoes, GoesOnward, MoveRows
<1>4. CASE CheckConflict(p)
  BY <1>4, CheckConflictGoes, GoesOnward, MoveRows
<1>5. CASE Insert(p)
  <2>1. AfterInsertError(p) \in {"rollback", "failed"}
    BY DEF AfterInsertError
  <2>2. req[p].pc = "insert"
    BY <1>5, InsertGoes
  <2>3. CASE UNCHANGED rows /\ Goes(p, AfterInsertError(p), req[p].acct, req[p].misled)
    BY <2>1, <2>2, <2>3, GoesOnward, MoveRows
  <2>4. CASE /\ rows[req[p].name] = None /\ req[p].name \in Name
             /\ Write(req[p].name, InsertedRow(p))
             /\ \E pc \in {"rollback", "ok", "failed"} :
                  \E misled : Goes(p, pc, req[p].acct, misled)
    BY <2>2, <2>4, InsertedRows
  <2>5. QED
    BY <1>5, <2>1, <2>3, <2>4, InsertGoes
<1>6. QED
  BY <1>1, <1>2, <1>3, <1>4, <1>5 DEF Serve

LEMMA CrashRows ==
  ASSUME Inv, Crash
  PROVE  RowsOK'
<1>1. \A q \in Request : req'[q] = req[q] \/ Onward(q)
  BY CrashGoes DEF InFlight, Onward, Ended
<1>2. QED
  BY <1>1, MoveRows DEF Crash

\* Rows are written on nobody's behalf, or keep what their request said.
Rewritten(n) ==
  /\ rows'[n] # None
  /\ rows'[n].slugged => rows'[n].url \in Installation
  /\ \/ rows'[n].by = None
     \/ /\ rows[n] # None
        /\ rows'[n].slugged = rows[n].slugged /\ rows'[n].url = rows[n].url
        /\ rows'[n].acct = rows[n].acct /\ rows'[n].by = rows[n].by

LEMMA RewrittenRows ==
  ASSUME Inv, UNCHANGED req, \A n \in Name : rows'[n] = rows[n] \/ Rewritten(n)
  PROVE  RowsOK'
<1>1. SluggedHasUrl'
  BY DEF Inv, SluggedHasUrl, Rewritten
<1>2. \A n \in Name : rows'[n] # None /\ rows'[n].by # None =>
        /\ rows[n] # None /\ rows[n].by = rows'[n].by
        /\ rows'[n].slugged = rows[n].slugged /\ rows'[n].url = rows[n].url
        /\ rows'[n].acct = rows[n].acct
  BY DEF Rewritten
<1>3. RowIsByRequest'
  BY <1>2 DEF Inv, RowIsByRequest
<1>4. BeginInOrder'
  BY DEF Inv, BeginInOrder, Ended
<1>5. ImportsAreChecked'
  <2>1. SUFFICES ASSUME NEW p \in Request, NEW q \in Request, q < p, req[p].pc # "new",
                        ~req[p].creates, q \notin req[p].beside,
                        NEW n \in Name, rows'[n] # None, rows'[n].by = q, rows'[n].acct = req[p].acct
                 PROVE  /\ req[p].pc \in {"check", "failed"}
                        /\ \A m \in Name : ~(rows'[m] # None /\ rows'[m].by = p)
    BY DEF ImportsAreChecked, FindsConflict, IsBy
  <2>2. p # None /\ q # None
    BY NamesAssumption
  <2>3. IsBy(n, q) /\ rows[n].acct = req[p].acct
    BY <1>2, <2>1, <2>2 DEF IsBy
  <2>4. req[p].pc \in {"check", "failed"} /\ \A m \in Name : ~IsBy(m, p)
    BY <2>1, <2>3 DEF Inv, ImportsAreChecked, FindsConflict
  <2>5. QED
    BY <1>2, <2>2, <2>4 DEF IsBy
<1>6. QED
  BY <1>1, <1>3, <1>4, <1>5 DEF RowsOK

LEMMA RowIsNotNone == \A row \in Row : row # None
BY RowAssumption

LEMMA UpdateDifyRewrites ==
  ASSUME Inv, NEW n \in Name, NEW k \in Key \cup {None}, UpdateDify(n, k)
  PROVE  /\ rows[n] # None
         /\ rows'[n] # None
         /\ rows'[n].key = IF k = None THEN rows[n].key ELSE k
         /\ rows'[n].slugged = rows[n].slugged /\ rows'[n].url = rows[n].url
         /\ rows'[n].acct = rows[n].acct /\ rows'[n].by = rows[n].by
         /\ \A m \in Name \ {n} : rows'[m] = rows[m]
         /\ sync' = [sync EXCEPT !.overwritten = @ \cup {n}]
         /\ UNCHANGED <<chatwoot, req, edge>>
<1> DEFINE row == [rows[n] EXCEPT !.key = IF k = None THEN @ ELSE k]
<1>1. /\ rows[n] # None /\ Write(n, row) /\ UNCHANGED <<chatwoot, req, edge>>
  BY DEF UpdateDify
<1>2. rows[n] \in Row
  BY <1>1, WriterIsTyped DEF Inv
<1>3. /\ row \in Row /\ row.key = (IF k = None THEN rows[n].key ELSE k)
      /\ row.slugged = rows[n].slugged /\ row.url = rows[n].url
      /\ row.acct = rows[n].acct /\ row.by = rows[n].by
  BY <1>2 DEF Row
<1> HIDE DEF row
<1>4. rows'[n] = row /\ \A m \in Name \ {n} : rows'[m] = rows[m]
  BY <1>1 DEF Write, Inv, TypeOK
<1>5. QED
  BY <1>1, <1>3, <1>4, RowIsNotNone DEF Write

LEMMA RegisterRewrites ==
  ASSUME Inv, NEW n \in Name, NEW acct \in Account, Register(n, acct)
  PROVE  /\ rows'[n] # None /\ rows'[n].by = None
         /\ rows'[n].slugged => rows[n] # None /\ rows[n].slugged /\ rows'[n].url = rows[n].url
         /\ rows[n] # None => rows'[n].key = rows[n].key
         /\ \A m \in Name \ {n} : rows'[m] = rows[m]
         /\ sync' = [sync EXCEPT !.overwritten = @ \cup {n}]
         /\ UNCHANGED <<chatwoot, req, edge>>
<1> DEFINE row == Registered(n, acct)
<1>1. Registered(n, acct) \in Row /\ Write(n, row) /\ UNCHANGED <<chatwoot, req, edge>>
  BY RegisterGoes DEF Inv
<1>2. rows[n] # None =>
        /\ row.by = None /\ row.slugged = rows[n].slugged
        /\ row.url = rows[n].url /\ row.key = rows[n].key
  <2>1. ASSUME rows[n] # None PROVE rows[n] \in Row
    BY <2>1, WriterIsTyped DEF Inv
  <2>2. QED
    BY <2>1 DEF Registered, Row
<1>3. rows[n] = None => row.by = None /\ row.slugged = FALSE
  BY DEF Registered
<1> HIDE DEF row
<1>4. rows'[n] = row /\ \A m \in Name \ {n} : rows'[m] = rows[m]
  BY <1>1 DEF Write, Inv, TypeOK
<1>5. row # None
  BY <1>1, RowIsNotNone DEF row
<1>6. QED
  BY <1>1, <1>2, <1>3, <1>4, <1>5 DEF Write

\* What an upsert leaves in the row of its seed.
LEMMA UpsertedFields ==
  ASSUME TypeOK, NEW s \in Seed, NEW fetched
  PROVE  LET row == Upserted(s, fetched)
         IN  /\ row # None /\ row.slugged /\ row.by = None
             /\ row.url = s.url /\ row.acct = s.acct
             /\ s.name \in fetched /\ s.secret # None => row.key = s.secret
             /\ rows[s.name] # None /\ rows[s.name].key # None => row.key # None
<1> DEFINE new == SeedRow(s, fetched)
           kept == [new EXCEPT !.key = rows[s.name].key]
<1>1. /\ new \in Row /\ new.slugged /\ new.by = None /\ new.url = s.url /\ new.acct = s.acct
      /\ new.key = SeedKey(s, fetched)
  BY SeedRowIsTyped DEF SeedRow
<1>2. /\ kept.slugged /\ kept.by = None /\ kept.url = s.url /\ kept.acct = s.acct
      /\ kept.key = rows[s.name].key
  BY DEF SeedRow
<1>3. Upserted(s, fetched) = IF rows[s.name] # None /\ new.key = None THEN kept ELSE new
  BY DEF Upserted
<1>4. Upserted(s, fetched) # None
  BY UpsertedIsTyped, RowIsNotNone
<1> HIDE DEF new, kept
<1>5. QED
  BY <1>1, <1>2, <1>3, <1>4 DEF SeedKey

LEMMA AppliedRewrites ==
  ASSUME Inv, NEW s \in Seed, Applied(s)
  PROVE  \A n \in Name : rows'[n] = rows[n] \/ Rewritten(n)
<1>1. TypeOK /\ s.name \in Name /\ s.url \in Installation
  BY SeedIsTyped DEF Inv
<1>2. rows'[s.name] = Upserted(s, sync.fetched)
      /\ \A n \in Name \ {s.name} : rows'[n] = rows[n]
  BY <1>1 DEF Applied, TypeOK
<1>3. Rewritten(s.name)
  BY <1>1, <1>2, UpsertedFields DEF Rewritten
<1>4. QED
  BY <1>2, <1>3

LEMMA SeedScriptRewrites ==
  ASSUME Inv, NEW fetched \in SUBSET Name, SeedScript(fetched)
  PROVE  \A n \in Name : rows'[n] = rows[n] \/ Rewritten(n)
<1>1. TypeOK
  BY DEF Inv
<1>2. CASE UNCHANGED rows
  BY <1>2
<1>3. CASE /\ \A s \in Seed : rows'[s.name] = Upserted(s, fetched)
           /\ \A n \in Name : (\A s \in Seed : s.name # n) => rows'[n] = rows[n]
  <2>1. ASSUME NEW s \in Seed PROVE Rewritten(s.name)
    <3>1. s.name \in Name /\ s.url \in Installation
      BY SeedIsTyped
    <3>2. rows'[s.name] = Upserted(s, fetched)
      BY <1>3
    <3>3. QED
      BY <1>1, <3>1, <3>2, UpsertedFields DEF Rewritten
  <2>2. QED
    BY <1>3, <2>1
<1>4. QED
  BY <1>1, <1>2, <1>3, SeedScriptGoes

LEMMA NextRows ==
  ASSUME Inv, [Next]_vars
  PROVE  RowsOK'
<1>1. ASSUME NEW n \in Name, NEW k \in Key \cup {None}, UpdateDify(n, k) PROVE RowsOK'
  <2>1. rows[n] # None /\ (rows[n].slugged => rows[n].url \in Installation)
    BY <1>1, UpdateDifyRewrites DEF Inv, SluggedHasUrl
  <2>2. \A m \in Name : rows'[m] = rows[m] \/ Rewritten(m)
    BY <1>1, <2>1, UpdateDifyRewrites DEF Rewritten
  <2>3. UNCHANGED req
    BY <1>1, UpdateDifyRewrites
  <2>4. QED
    BY <2>2, <2>3, RewrittenRows
<1>2. ASSUME NEW n \in Name, NEW acct \in Account, Register(n, acct)
      PROVE  RowsOK'
  <2>1. rows[n] # None /\ rows[n].slugged => rows[n].url \in Installation
    BY DEF Inv, SluggedHasUrl
  <2>2. \A m \in Name : rows'[m] = rows[m] \/ Rewritten(m)
    BY <1>2, <2>1, RegisterRewrites DEF Rewritten
  <2>3. UNCHANGED req
    BY <1>2, RegisterRewrites
  <2>4. QED
    BY <2>2, <2>3, RewrittenRows
<1>3. ASSUME NEW fetched \in SUBSET Fetchable, SeedScript(fetched) PROVE RowsOK'
  <2>1. UNCHANGED req /\ \A n \in Name : rows'[n] = rows[n] \/ Rewritten(n)
    BY <1>3, FetchableIsTyped, SeedScriptRewrites DEF SeedScript
  <2>2. QED
    BY <2>1, RewrittenRows
<1>4. ASSUME SyncUpsert PROVE RowsOK'
  <2>1. Seeds[sync.next] \in Seed /\ UNCHANGED req
    BY <1>4, SyncFacts
  <2>2. UNCHANGED rows \/ Applied(Seeds[sync.next])
    BY <1>4, SyncUpsertGoes
  <2>3. \A n \in Name : rows'[n] = rows[n] \/ Rewritten(n)
    BY <2>1, <2>2, AppliedRewrites
  <2>4. QED
    BY <2>1, <2>3, RewrittenRows
<1>5. ASSUME NEW fetched, StartSync(fetched) PROVE UNCHANGED <<rows, req>>
  BY <1>5 DEF StartSync
<1>6. ASSUME EdgeStep \/ UNCHANGED vars PROVE UNCHANGED <<rows, req>>
  BY <1>6 DEF EdgeStep, registryVars, vars
<1>7. RowsOK
  BY DEF Inv, RowsOK
<1>8. QED
  BY <1>1, <1>2, <1>3, <1>4, <1>5, <1>6, <1>7, RowsQuiet, BeginRows, ServeRows, CrashRows
     DEF Next, Operator, Finished, Fetchable
-------------------------------------------------------------------------------
\* Which seeds are in the table.
SyncOK == SyncInRange /\ SeededSoFar

LEMMA SyncQuiet ==
  ASSUME SyncOK, UNCHANGED <<rows, sync>>
  PROVE  SyncOK'
BY DEF SyncOK, SyncInRange, SeededSoFar, Seeded, Target

\* A row that is written meanwhile is noted, and no other is lost.
LEMMA WriteSync ==
  ASSUME Inv, NEW n \in Name, \A m \in Name \ {n} : rows'[m] = rows[m],
         sync' = [sync EXCEPT !.overwritten = @ \cup {n}]
  PROVE  SyncOK'
<1>1. sync \in SyncState
  BY DEF Inv, TypeOK
<1>2. /\ sync'.pc = sync.pc /\ sync'.next = sync.next /\ sync'.fetched = sync.fetched
      /\ sync'.overwritten = sync.overwritten \cup {n}
  BY <1>1 DEF SyncState
<1>3. SyncInRange'
  BY <1>2 DEF Inv, SyncInRange
<1>4. \A s \in Seed : Seeded(s) => Seeded(s)'
  BY <1>2, SeedIsTyped DEF Seeded, Target
<1>5. SeededSoFar'
  BY <1>2, <1>4, SeedsAreFinite DEF Inv, SeededSoFar
<1>6. QED
  BY <1>3, <1>5 DEF SyncOK

LEMMA StartSyncSync ==
  ASSUME Inv, NEW fetched \in SUBSET Fetchable, StartSync(fetched)
  PROVE  SyncOK'
<1>1. /\ sync'.pc = (IF Seeds = <<>> THEN "ok" ELSE "running")
      /\ sync'.next = 1 /\ sync'.fetched = fetched
  BY DEF StartSync, Start
<1>2. Seeds = <<>> \/ 1 \in DOMAIN Seeds
  <2>1. Len(Seeds) \in Nat /\ DOMAIN Seeds = 1 .. Len(Seeds)
    BY SeedsAreFinite
  <2>2. Len(Seeds) = 0 => Seeds = <<>>
    <3>1. \E S : Seeds \in Seq(S)
      BY SeedsAssumption
    <3>2. QED
      BY <3>1
  <2>3. QED
    BY <2>1, <2>2
<1>3. SyncInRange'
  BY <1>1, <1>2, FetchableIsTyped DEF SyncInRange
<1>4. SeededSoFar'
  <2>1. \A i \in DOMAIN Seeds : ~(i < 1)
    BY SeedsAreFinite
  <2>2. Seeds = <<>> => DOMAIN Seeds = {}
    OBVIOUS
  <2>3. QED
    BY <1>1, <2>1, <2>2 DEF SeededSoFar
<1>5. QED
  BY <1>3, <1>4 DEF SyncOK

\* The row that an upsert leaves is the seed's.
LEMMA UpsertedIsSeeded ==
  ASSUME Inv, NEW s \in Seed, s.name \in sync'.fetched => s.secret # None,
         rows'[s.name] = Upserted(s, sync'.fetched)
  PROVE  Seeded(s)'
<1>1. LET row == Upserted(s, sync'.fetched)
      IN  /\ row # None /\ row.url = s.url /\ row.acct = s.acct
          /\ s.name \in sync'.fetched /\ s.secret # None => row.key = s.secret
  BY UpsertedFields DEF Inv
<1>2. Target(s.name)' = [acct |-> s.acct, url |-> s.url]
  BY <1>1 DEF Target
<1>3. s.name \in sync'.fetched => rows'[s.name].key = s.secret
  BY <1>1
<1>4. QED
  BY <1>2, <1>3 DEF Seeded

LEMMA SeedScriptSync ==
  ASSUME Inv, NEW fetched \in SUBSET Fetchable, SeedScript(fetched)
  PROVE  SyncOK'
<1>1. /\ sync'.fetched = fetched
      /\ \/ sync'.pc = "failed"
         \/ sync'.pc = "ok" /\ \A s \in Seed : rows'[s.name] = Upserted(s, fetched)
  BY FetchableIsTyped, SeedScriptGoes DEF Inv
<1>2. \A s \in Seed : s.name \in sync'.fetched => s.secret # None
  BY <1>1, FetchableIsTyped
<1>3. SyncInRange'
  BY <1>1, <1>2 DEF SyncInRange
<1>4. sync'.pc = "ok" => \A s \in Seed : Seeded(s)'
  BY <1>1, <1>2, UpsertedIsSeeded
<1>5. SeededSoFar'
  BY <1>1, <1>4, SeedsAreFinite DEF SeededSoFar
<1>6. QED
  BY <1>3, <1>5 DEF SyncOK

LEMMA SyncUpsertSync ==
  ASSUME Inv, SyncUpsert
  PROVE  SyncOK'
<1>0. PICK k \in DOMAIN Seeds : k = sync.next
  BY SyncFacts
<1> DEFINE s == Seeds[k]
<1>1. /\ sync.pc = "running" /\ k \in DOMAIN Seeds /\ s \in Seed /\ TypeOK
      /\ \A x \in Seed : x.name \in sync.fetched => x.secret # None
  BY <1>0, SyncFacts DEF Inv, SyncInRange
<1>2. Len(Seeds) \in Nat /\ DOMAIN Seeds = 1 .. Len(Seeds) /\ k \in 1 .. Len(Seeds)
  BY <1>1, SeedsAreFinite
<1>3. CASE \E overwritten : SyncTo("failed", k, sync.attempt, overwritten)
  <2>1. sync'.pc = "failed" /\ sync'.fetched = sync.fetched
    BY <1>3 DEF SyncTo
  <2>2. QED
    BY <1>1, <2>1 DEF SyncOK, SyncInRange, SeededSoFar
<1>4. CASE SyncTo("running", 1, sync.attempt + 1, sync.overwritten)
  <2>1. sync'.pc = "running" /\ sync'.next = 1 /\ sync'.fetched = sync.fetched
    BY <1>4 DEF SyncTo
  <2>2. 1 \in DOMAIN Seeds /\ \A i \in DOMAIN Seeds : ~(i < 1)
    BY <1>2
  <2>3. QED
    BY <1>1, <2>1, <2>2 DEF SyncOK, SyncInRange, SeededSoFar
<1>5. CASE /\ Applied(s)
           /\ SyncTo(IF k = Len(Seeds) THEN "ok" ELSE "running", k + 1, sync.attempt,
                     sync.overwritten \ {s.name})
  <2>1. /\ sync'.pc = (IF k = Len(Seeds) THEN "ok" ELSE "running") /\ sync'.next = k + 1
        /\ sync'.fetched = sync.fetched /\ sync'.overwritten = sync.overwritten \ {s.name}
    BY <1>5 DEF SyncTo
  <2>2. /\ k # Len(Seeds) => k + 1 \in DOMAIN Seeds
        /\ \A i \in DOMAIN Seeds : i < k + 1 => i < k \/ i = k
        /\ k = Len(Seeds) => \A i \in DOMAIN Seeds : i < k \/ i = k
    BY <1>2
  <2>3. SyncInRange'
    BY <1>1, <2>1, <2>2 DEF SyncInRange
  <2>4. Seeded(s)'
    <3>1. rows'[s.name] = Upserted(s, sync'.fetched)
      BY <1>1, <1>5, <2>1, SeedIsTyped DEF Applied, TypeOK
    <3>2. QED
      BY <1>1, <2>1, <3>1, UpsertedIsSeeded
  <2>5. ASSUME NEW i \in DOMAIN Seeds, i < k PROVE Seeded(Seeds[i])'
    <3> DEFINE x == Seeds[i]
    <3>1. x \in Seed /\ Seeded(x)
      BY <1>1, <2>5, SeedsAreFinite, <1>0 DEF Inv, SeededSoFar
    <3>2. x.name # s.name
      <4>1. i # k
        BY <1>2, <2>5
      <4>2. QED
        BY <1>1, <4>1, SeedsAssumption
    <3>3. rows'[x.name] = rows[x.name]
      BY <1>1, <1>5, <3>1, <3>2, SeedIsTyped DEF Applied, TypeOK
    <3> HIDE DEF x
    <3>4. Seeded(x)'
      BY <2>1, <3>1, <3>2, <3>3 DEF Seeded, Target
    <3>5. QED
      BY <3>4 DEF x
  <2>6. SeededSoFar'
    BY <2>1, <2>2, <2>4, <2>5 DEF SeededSoFar
  <2>7. QED
    BY <2>3, <2>6 DEF SyncOK
<1>6. QED
  BY <1>0, <1>3, <1>4, <1>5, SyncUpsertGoes

LEMMA NextSync ==
  ASSUME Inv, [Next]_vars
  PROVE  SyncOK'
<1>1. ASSUME NEW p \in Request, Provision(p) \/ Import(p) PROVE UNCHANGED <<rows, sync>>
  BY <1>1 DEF Provision, Import, Begin
<1>2. ASSUME NEW p \in Request, Serve(p) PROVE SyncOK'
  <2>1. CASE CreateAccount(p) \/ CreateAndLinkUser(p) \/ Rollback(p) \/ CheckConflict(p)
    <3>1. UNCHANGED <<rows, sync>>
      BY <2>1 DEF CreateAccount, CreateAndLinkUser, Rollback, CheckConflict
    <3>2. QED
      BY <3>1, SyncQuiet DEF Inv, SyncOK
  <2>2. CASE Insert(p)
    <3>1. CASE UNCHANGED <<rows, sync>>
      BY <3>1, SyncQuiet DEF Inv, SyncOK
    <3>2. CASE req[p].name \in Name /\ Write(req[p].name, InsertedRow(p))
      BY <3>2, WriteSync DEF Write, Inv, TypeOK
    <3>3. QED
      BY <2>2, <3>1, <3>2, InsertGoes
  <2>3. QED
    BY <1>2, <2>1, <2>2 DEF Serve
<1>3. ASSUME NEW n \in Name, NEW k \in Key \cup {None}, UpdateDify(n, k) PROVE SyncOK'
  BY <1>3, UpdateDifyRewrites, WriteSync
<1>4. ASSUME NEW n \in Name, NEW acct \in Account, Register(n, acct)
      PROVE  SyncOK'
  BY <1>4, RegisterRewrites, WriteSync
<1>5. ASSUME NEW fetched \in SUBSET Fetchable, StartSync(fetched) \/ SeedScript(fetched) PROVE SyncOK'
  BY <1>5, StartSyncSync, SeedScriptSync
<1>6. ASSUME Crash \/ EdgeStep \/ UNCHANGED vars PROVE UNCHANGED <<rows, sync>>
  BY <1>6 DEF Crash, EdgeStep, registryVars, vars
<1>7. SyncOK
  BY DEF Inv, SyncOK
<1>8. QED
  BY <1>1, <1>2, <1>3, <1>4, <1>5, <1>6, <1>7, SyncUpsertSync, SyncQuiet
     DEF Next, Operator, Finished, Fetchable
-------------------------------------------------------------------------------
LEMMA NextEdge ==
  ASSUME Inv, [Next]_vars
  PROVE  EdgeOK'
<1>1. ASSUME NEW p \in Request, Provision(p) \/ Import(p) \/ Serve(p) PROVE UNCHANGED edge
  BY <1>1 DEF Provision, Import, Begin, Serve, CreateAccount, CreateAndLinkUser, Rollback,
              CheckConflict, Insert
<1>2. ASSUME Operator \/ Crash \/ SyncUpsert PROVE UNCHANGED edge
  BY <1>2 DEF Operator, UpdateDify, Register, Crash, SyncUpsert
<1>3. ASSUME NEW fetched, StartSync(fetched) \/ SeedScript(fetched) PROVE UNCHANGED edge
  BY <1>3 DEF StartSync, SeedScript
<1>4. ASSUME UNCHANGED vars PROVE UNCHANGED edge
  BY <1>4 DEF vars, edge
<1>5. TypeOK /\ EdgeOK
  BY DEF Inv, EdgeOK
<1>6. QED
  BY <1>1, <1>2, <1>3, <1>4, <1>5, EdgeQuiet, EdgeNextOK DEF Next, Finished

LEMMA InvParts == Inv <=> TypeOK /\ AccountsOK /\ RowsOK /\ SyncOK /\ EdgeOK
BY DEF Inv, AccountsOK, RowsOK, SyncOK, EdgeOK

LEMMA NextInv == Inv /\ [Next]_vars => Inv'
<1> SUFFICES ASSUME Inv, [Next]_vars PROVE Inv'
  OBVIOUS
<1>1. TypeOK' /\ AccountsOK' /\ RowsOK' /\ SyncOK' /\ EdgeOK'
  BY NextTyped, NextAccounts, NextRows, NextSync, NextEdge
<1>2. QED
  BY <1>1, InvParts, PTL

LEMMA InitInv == Init => Inv
<1> SUFFICES ASSUME Init PROVE Inv
  OBVIOUS
<1> DEFINE of(n) == CHOOSE s \in Seed : s.name = n
           free(u) == {k \in 1 .. MaxAccount + 1 :
                         k \notin Existing[u] /\ \A j \in 1 .. MaxAccount : j >= k => j \notin Existing[u]}
           next(u) == CHOOSE k \in 1 .. MaxAccount + 1 :
                        k \notin Existing[u] /\ \A j \in 1 .. MaxAccount : j >= k => j \notin Existing[u]
<1>1. ASSUME NEW n \in Deployed
      PROVE  /\ SeedRow(of(n), Deployed) \in Row
             /\ SeedRow(of(n), Deployed).url \in Installation /\ SeedRow(of(n), Deployed).by = None
  <2>1. of(n) \in Seed
    BY SeedsAssumption
  <2> HIDE DEF of
  <2>2. SeedRow(of(n), Deployed).url = of(n).url /\ SeedRow(of(n), Deployed).by = None
    BY DEF SeedRow
  <2>3. QED
    BY <2>1, <2>2, SeedRowIsTyped, SeedIsTyped
<1>2. ASSUME NEW u \in Installation
      PROVE  /\ Existing[u] \subseteq Account
             /\ next(u) \in 1 .. MaxAccount + 1
             /\ \A a \in Existing[u] : a < next(u)
  <2>1. Existing[u] \subseteq 1 .. MaxAccount
    BY ExistingAssumption DEF Account
  <2>2. MaxAccount + 1 \in free(u)
    BY <2>1, Bounds
  <2>3. next(u) \in free(u)
    BY <2>2
  <2>4. \A a \in 1 .. MaxAccount : a \in Existing[u] => ~(a >= next(u))
    BY <2>3
  <2>5. next(u) \in Nat
    BY <2>3, Bounds
  <2> HIDE DEF next
  <2>6. \A a \in Existing[u] : a < next(u)
    BY <2>1, <2>4, <2>5, Bounds
  <2>7. QED
    BY <2>1, <2>3, <2>6 DEF Account
<1>3. rows = [n \in Name |-> IF n \notin Deployed THEN None ELSE SeedRow(of(n), Deployed)]
  BY DEF Init
<1>4. chatwoot = [u \in Installation |-> [accounts |-> Existing[u], next |-> next(u)]]
  BY DEF Init
<1> HIDE DEF of, next
<1>5. /\ req = [p \in Request |-> [pc |-> "new", name |-> None, url |-> None, acct |-> None, key |-> None,
                                   creates |-> FALSE, beside |-> {}, early |-> FALSE,
                                   misled |-> FALSE]]
      /\ sync = [pc |-> "idle", next |-> 1, attempt |-> 1, fetched |-> {}, overwritten |-> {}]
      /\ events = 0
  BY DEF Init
<1>6. rows \in [Name -> Row \cup {None}]
  BY <1>1, <1>3
<1>7. chatwoot \in Chatwoots
  BY <1>2, <1>4 DEF Chatwoots
<1>8. req \in [Request -> RequestState]
  BY <1>5 DEF RequestState
<1>9. sync \in SyncState
  <2>1. 1 \in 1 .. Len(Seeds) + 1 /\ 1 \in 1 .. MaxAttempts
    BY SeedsAreFinite, Bounds
  <2>2. QED
    BY <1>5, <2>1 DEF SyncState
<1>10. TypeOK
  <2>1. events \in 0 .. MaxEvents
    BY <1>5, Bounds
  <2>2. QED
    BY <1>6, <1>7, <1>8, <1>9, <2>1 DEF TypeOK, Chatwoots
<1>11. AccountsOK
  <2>1. AccountsBelowNext
    BY <1>2, <1>4 DEF AccountsBelowNext
  <2>2. \A p \in Request : req[p].pc = "new" /\ req[p].acct = None /\ ~req[p].creates /\ ~req[p].early
    BY <1>5
  <2>3. QED
    BY <2>1, <2>2 DEF AccountsOK, RequestIsComplete, ProvisionHasAccount, AccountIsOwn, OwnAccount,
                      ProvisionCleansUp
<1>12. RowsOK
  <2>1. \A n \in Name : rows[n] # None => rows[n].url \in Installation /\ rows[n].by = None
    BY <1>1, <1>3
  <2>2. \A p \in Request : req[p].pc = "new"
    BY <1>5
  <2>3. QED
    BY <2>1, <2>2 DEF RowsOK, SluggedHasUrl, RowIsByRequest, BeginInOrder, ImportsAreChecked
<1>13. SyncOK
  BY <1>5 DEF SyncOK, SyncInRange, SeededSoFar
<1>14. EdgeOK
  <2> DEFINE new == [pc |-> "new", target |-> None, took |-> 0, stale |-> 0]
  <2>1. cached = None /\ visit = [v \in Visitor |-> new]
    BY DEF Init, Edge!EdgeInit
  <2>2. VisitOK(new)
    <3>1. 0 \in Ticks /\ 0 <= MaxLookup /\ 0 <= Edge!MaxStale
      BY Bounds, MaxStaleIsNat DEF Ticks
    <3>2. QED
      BY <3>1 DEF VisitOK, VisitTypes
  <2> HIDE DEF new
  <2>3. QED
    BY <2>1, <2>2, EdgeParts DEF EntryOK
<1>15. QED
  BY <1>10, <1>11, <1>12, <1>13, <1>14, InvParts
-------------------------------------------------------------------------------
\* The invariant that the theorems below are read off from.
\* (admin.ts, sync-tenants.ts and the edge worker, over the table tenants)
THEOREM InvIsInvariant == Spec => []Inv
<1>1. QED
  BY InitInv, NextInv, PTL DEF Spec

\* The state stays within its types: no id beyond the numbered ones, no attempt of the
\* sync beyond MaxAttempts.
\* (01-init.sql, and withRetry of sync-tenants.ts)
THEOREM TypeCorrect == Spec => []TypeOK
<1>1. Inv => TypeOK
  BY DEF Inv
<1>2. QED
  BY <1>1, InvIsInvariant, PTL

\* For any number of provisions side by side: one that has ended and was told what
\* happened has left an account in Chatwoot exactly if it succeeded.
\* (the rollbacks of POST /admin/api/tenants/:tenantSlug/provision in admin.ts)
THEOREM ProvisionsCleanUp == Spec => []ProvisionCleansUp
<1>1. Inv => ProvisionCleansUp
  BY DEF Inv
<1>2. QED
  BY <1>1, InvIsInvariant, PTL

\* For any number of provisions and imports: two that were never in flight together have
\* not mapped one account twice, but for an import of an id that Chatwoot had not given
\* out, which a later provision is then given.
\* (the conflict check that POST /admin/api/tenants/:tenantSlug/import makes before its INSERT,
\* and the INSERT of provision, which makes none)
THEOREM SerialRequestsAreSafe == Spec => []SerialRequestsMapOnce
<1>1. ASSUME Inv, NEW n \in Name, NEW m \in Name, rows[n] # None, rows[m] # None,
             Target(n) = Target(m), NEW q \in Request, NEW p \in Request,
             rows[n].by = q, rows[m].by = p, q < p
      PROVE  q \in req[p].beside \/ (req[q].early /\ req[p].creates)
  <2>1. SUFFICES ASSUME q \notin req[p].beside, ~(req[q].early /\ req[p].creates) PROVE FALSE
    OBVIOUS
  <2>2. p # None /\ q # None
    BY NamesAssumption
  <2>3. rows[n].acct = rows[m].acct /\ rows[n].url = rows[m].url
    BY <1>1 DEF Target
  <2>4. /\ req[q].acct = rows[n].acct /\ req[q].url = rows[n].url
        /\ req[p].acct = rows[m].acct /\ req[p].url = rows[m].url
        /\ req[p].pc # "new"
    BY <1>1, <2>2 DEF Inv, RowIsByRequest
  <2>5. req[p].acct # None
    <3>1. rows[m] \in Row
      BY <1>1, WriterIsTyped DEF Inv
    <3>2. rows[m].acct \in Account
      BY <3>1 DEF Row
    <3>3. QED
      BY <2>4, <3>2, NamesAssumption
  <2>6. CASE req[p].creates
    <3>1. p # q
      BY <1>1, RequestAssumption
    <3>2. OwnAccount(p, q)
      BY <1>1, <3>1 DEF Inv, AccountIsOwn
    <3>3. QED
      BY <1>1, <2>1, <2>3, <2>4, <2>5, <2>6, <3>2 DEF OwnAccount
  <2>7. CASE ~req[p].creates
    <3>1. FindsConflict(p, q)
      BY <1>1, <2>1, <2>4, <2>7 DEF Inv, ImportsAreChecked
    <3>2. QED
      BY <1>1, <2>3, <2>4, <3>1 DEF FindsConflict, IsBy
  <2>8. QED
    BY <2>6, <2>7
<1>2. Inv => SerialRequestsMapOnce
  <2>1. SUFFICES ASSUME Inv, NEW n \in Name, NEW m \in Name, n # m, rows[n] # None, rows[m] # None,
                        Target(n) = Target(m), rows[n].by \in Request, rows[m].by \in Request
                 PROVE  \E p, q \in {rows[n].by, rows[m].by} :
                          p \in req[q].beside \/ (p < q /\ req[p].early /\ req[q].creates)
    BY DEF SerialRequestsMapOnce
  <2>2. rows[n].by # rows[m].by
    BY <2>1, NamesAssumption DEF Inv, RowIsByRequest
  <2>3. rows[n].by < rows[m].by \/ rows[m].by < rows[n].by
    BY <2>1, <2>2, RequestAssumption
  <2>4. QED
    BY <1>1, <2>1, <2>3
<1>3. QED
  BY <1>2, InvIsInvariant, PTL

\* For any seeds: a sync that reports success has left every seed in the table, or
\* somebody has written its row since.
\* (syncDatabase under withRetry, and buildSeedSql)
THEOREM SyncedSeedsAreThere == Spec => []SyncedMeansSeeded
<1>1. Inv => SyncedMeansSeeded
  BY SeedsAreFinite DEF Inv, SeededSoFar, SyncedMeansSeeded
<1>2. QED
  BY <1>1, InvIsInvariant, PTL

\* For any number of visitors, and lookups of any length: nobody is proxied to a
\* target staler than CACHE_TTL_MS and one lookup.
\* (the edge worker's resolveTenant, over a table that its writers change at will)
THEOREM EdgeStaysRecent == Spec => []EdgeIsRecent
<1>1. Inv => EdgeIsRecent
  BY DEF Inv, Edge!StaleIsBounded, EdgeIsRecent, Edge!EdgeIsRecent
<1>2. QED
  BY <1>1, InvIsInvariant, PTL

KeyIsKept == \A n \in Name : rows[n] # None => (rows[n].key # None => rows'[n].key # None)

\* Every writer of the table leaves a key that is set, its own blank notwithstanding.
\* (COALESCE in syncDatabase, buildSeedSql and PUT /admin/api/accounts/:slug/dify)
THEOREM KeysAreNeverWiped == Spec => KeyIsNeverWiped
<1>1. ASSUME Inv, [Next]_vars PROVE KeyIsKept
  <2>1. ASSUME UNCHANGED rows PROVE KeyIsKept
    BY <2>1 DEF KeyIsKept
  <2>2. ASSUME NEW p \in Request, Provision(p) \/ Import(p) PROVE UNCHANGED rows
    BY <2>2 DEF Provision, Import, Begin
  <2>3. ASSUME NEW p \in Request, Serve(p) PROVE KeyIsKept
    <3>1. CASE Insert(p)
      <4>1. CASE rows[req[p].name] = None /\ Write(req[p].name, InsertedRow(p))
        BY <1>1, <4>1 DEF KeyIsKept, Write, Inv, TypeOK
      <4>2. QED
        BY <1>1, <3>1, <2>1, <4>1, InsertGoes
    <3>2. CASE CreateAccount(p) \/ CreateAndLinkUser(p) \/ Rollback(p) \/ CheckConflict(p)
      BY <2>1, <3>2 DEF CreateAccount, CreateAndLinkUser, Rollback, CheckConflict
    <3>3. QED
      BY <2>3, <3>1, <3>2 DEF Serve
  <2>4. ASSUME NEW n \in Name, NEW k \in Key \cup {None}, UpdateDify(n, k) PROVE KeyIsKept
    <3>1. /\ rows'[n].key = IF k = None THEN rows[n].key ELSE k
          /\ \A m \in Name \ {n} : rows'[m] = rows[m]
      BY <1>1, <2>4, UpdateDifyRewrites
    <3>2. QED
      BY <3>1 DEF KeyIsKept
  <2>5. ASSUME NEW n \in Name, NEW acct \in Account, Register(n, acct)
        PROVE  KeyIsKept
    <3>1. /\ rows[n] # None => rows'[n].key = rows[n].key
          /\ \A m \in Name \ {n} : rows'[m] = rows[m]
      BY <1>1, <2>5, RegisterRewrites
    <3>2. QED
      BY <3>1 DEF KeyIsKept
  <2>6. ASSUME NEW fetched \in SUBSET Fetchable, SeedScript(fetched) PROVE KeyIsKept
    <3>1. TypeOK /\ fetched \in SUBSET Name
      BY <1>1, FetchableIsTyped DEF Inv
    <3>2. CASE /\ \A s \in Seed : rows'[s.name] = Upserted(s, fetched)
               /\ \A n \in Name : (\A s \in Seed : s.name # n) => rows'[n] = rows[n]
      <4>1. ASSUME NEW s \in Seed, rows[s.name] # None, rows[s.name].key # None
            PROVE  rows'[s.name].key # None
        BY <3>1, <3>2, <4>1, UpsertedFields
      <4>2. QED
        BY <3>2, <4>1 DEF KeyIsKept
    <3>3. QED
      BY <2>1, <2>6, <3>1, <3>2, SeedScriptGoes
  <2>7. ASSUME SyncUpsert PROVE KeyIsKept
    <3>1. PICK s \in Seed : UNCHANGED rows \/ Applied(s)
      BY <1>1, <2>7, SyncFacts, SyncUpsertGoes
    <3>2. CASE Applied(s)
      <4>1. s.name \in Name /\ rows'[s.name] = Upserted(s, sync.fetched)
            /\ \A n \in Name \ {s.name} : rows'[n] = rows[n]
        BY <1>1, <3>2, SeedIsTyped DEF Applied, Inv, TypeOK
      <4>2. rows[s.name] # None /\ rows[s.name].key # None => rows'[s.name].key # None
        BY <1>1, <4>1, UpsertedFields DEF Inv
      <4>3. QED
        BY <4>1, <4>2 DEF KeyIsKept
    <3>3. QED
      BY <2>1, <3>1, <3>2
  <2>8. ASSUME NEW fetched, StartSync(fetched) PROVE UNCHANGED rows
    BY <2>8 DEF StartSync
  <2>9. ASSUME Crash \/ EdgeStep \/ UNCHANGED vars PROVE UNCHANGED rows
    BY <2>9 DEF Crash, EdgeStep, registryVars, vars
  <2>10. QED
    BY <1>1, <2>1, <2>2, <2>3, <2>4, <2>5, <2>6, <2>7, <2>8, <2>9
       DEF Next, Operator, Finished, Fetchable
<1>2. Inv /\ [Next]_vars => [KeyIsKept]_vars
  BY <1>1
<1>3. QED
  BY <1>2, InvIsInvariant, PTL DEF Spec, KeyIsNeverWiped, KeyIsKept
===============================================================================
