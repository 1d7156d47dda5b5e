------------------------------ MODULE DnsCache ------------------------------
(***************************************************************************)
(* The answer cache of the resolver (dns_mw_cache.rs): the store of        *)
(* DnsCacheEntry records, the stale-hit path that answers from an expired  *)
(* entry and spawns a refresh, the single-flight map that folds concurrent *)
(* misses, the background prefetch scan, the garbage collector, the flush  *)
(* and the hot reload that replaces the middleware but keeps the store.    *)
(*                                                                         *)
(* A request is run by a task.  Every acquisition of a shard lock or of    *)
(* the inflight lock is one atomic step; between two of them any other     *)
(* task may run.                                                           *)
(***************************************************************************)
EXTENDS Naturals, FiniteSets

CONSTANTS
  Keys,          \* CacheKey values
  Sibling,       \* the A/AAAA partner of a key; a key of another type maps to itself
  Asked,         \* the keys clients ask for (bound)
  Clients,       \* slots for foreground requests
  Strict,        \* the clients of listeners with -no-serve-expired
  Refreshers,    \* slots for spawned refresh tasks (bound on live refreshes)
  NoTask,        \* "no sender in the inflight map"
  NoEntry,       \* "key absent from its shard"
  TTLs,          \* effective TTLs of upstream answers, in seconds
  ReplyTtl,      \* serve-expired-reply-ttl
  ExpiredTtl,    \* serve-expired-ttl
  PrefetchTime,  \* serve-expired-prefetch-time
  ServeExpired,  \* the process-wide serve-expired switch
  PrefetchDomain, \* the process-wide prefetch-domain switch
  Ahead,         \* seconds_ahead of get_expired when serve-expired is off
  HitCap,        \* bound on a hit counter
  MaxNow,        \* bound on the clock
  MaxGen         \* bound on the number of reloads

Tasks == Clients \cup Refreshers
Gens == 0 .. MaxGen

ASSUME KeyAssumption ==
  /\ Keys # {} /\ Asked \subseteq Keys
  /\ Sibling \in [Keys -> Keys]
  /\ \A k \in Keys : Sibling[Sibling[k]] = k

ASSUME TaskAssumption ==
  /\ Clients \cap Refreshers = {}
  /\ Strict \subseteq Clients
  /\ NoTask \notin Tasks

ASSUME NumberAssumption ==
  /\ TTLs \subseteq Nat
  /\ {ReplyTtl, ExpiredTtl, PrefetchTime, Ahead, MaxNow, MaxGen} \subseteq Nat
  /\ HitCap \in Nat
  /\ ServeExpired \in BOOLEAN /\ PrefetchDomain \in BOOLEAN

\* DnsCacheEntry: exp is the valid_until written with the data (DnsResponse
\* carries it too), until the entry's own valid_until, which stale hits push
\* forward, pf is is_in_prefetching, hits is stats.hits.
Entry == [exp : Nat, until : Nat, pf : BOOLEAN, hits : 0 .. HitCap]

ASSUME EntryAssumption == NoEntry \notin Entry

VARIABLES
  now,       \* Instant::now(), in whole seconds
  gen,       \* which DnsCacheMiddleware the app's handler currently holds
  cache,     \* the sharded store, shared by all middleware generations
  inflight,  \* the single-flight map of each generation: the leading task
  pc,        \* where each task is in `handle`
  key,       \* the CacheKey of the task's query
  agen,      \* the middleware generation that runs the task
  chan,      \* for a follower: the leader whose broadcast it subscribed to
  res,       \* the TTL of the upstream answer in hand
  sync,      \* sync_valid_until of a stale hit
  guards,    \* the keys whose PrefetchGuard the task owns
  ploop,     \* the prefetch loop: "wait", "scan" or "dispatch"
  todo,      \* shards get_expired has still to visit
  picked,    \* keys get_expired has marked and nobody has spawned yet
  reply,     \* the last reply each client got
  accessed   \* history: keys hit since the last background refresh of them

store == <<cache, accessed>>
locals == <<pc, key, agen, chan, res, sync, guards>>
loop == <<ploop, todo, picked>>
vars == <<now, gen, cache, inflight, pc, key, agen, chan, res, sync, guards,
          ploop, todo, picked, reply, accessed>>

LeaderPC == {"lead", "store", "storeSib", "finish"}
ClientPC == {"mark", "bump", "sibmark", "sibbump", "spawn"}
PC == {"idle", "send", "flight", "wait", "recv", "failed", "done"} \cup LeaderPC \cup ClientPC

AnyKey == CHOOSE k \in Keys : TRUE   \* what an idle task's key is set to

\* A reply: made from data past its lifetime or not, and the TTL it carries
\* (0 in an error reply and while there is none).
NoReply == [stale |-> FALSE, ttl |-> 0]
Replies == [stale : BOOLEAN, ttl : Nat]

Init ==
  /\ now = 0
  /\ gen = 0
  /\ cache = [k \in Keys |-> NoEntry]
  /\ inflight = [g \in Gens |-> [k \in Keys |-> NoTask]]
  /\ pc = [t \in Tasks |-> "idle"]
  /\ key = [t \in Tasks |-> AnyKey]
  /\ agen = [t \in Tasks |-> 0]
  /\ chan = [t \in Tasks |-> NoTask]
  /\ res = [t \in Tasks |-> 0]
  /\ sync = [t \in Tasks |-> 0]
  /\ guards = [t \in Tasks |-> {}]
  /\ ploop = "wait"
  /\ todo = {}
  /\ picked = {}
  /\ reply = [c \in Clients |-> NoReply]
  /\ accessed = {}

----------------------------------------------------------------------------
(* The store: one operator per method of DnsCache, each under one lock.    *)

Has(k) == cache[k] # NoEntry

\* Mutant: an entry is still taken for valid one second after its end.
IsCurrentLate(e, t) == t <= e.until + 1

IsCurrent(e, t) == t <= e.until

\* DnsCacheStats::hit, saturating at the bound.
Capped(n) == IF n < HitCap THEN n ELSE HitCap
Hit(e) == [e EXCEPT !.hits = Capped(@ + 1)]

\* The history is kept while there is a prefetch task to compare it with.
Access(ks) == IF PrefetchDomain THEN accessed \cup ks ELSE accessed

\* mark_prefetching wins also when the entry is gone.
MarkWins(k) == Has(k) => ~cache[k].pf
Mark(k) == IF Has(k) THEN [cache EXCEPT ![k].pf = TRUE] ELSE cache

\* set_valid_until_for_prefetch only moves forward.
Bump(k, t) ==
  IF Has(k) /\ cache[k].until < t THEN [cache EXCEPT ![k].until = t] ELSE cache

\* Mutant: a background refresh keeps the hits the entry had.
InsertKeepsHits(k, ttl, fromPrefetch) ==
  [exp |-> now + ttl, until |-> now + ttl, pf |-> FALSE,
   hits |-> IF ~Has(k) THEN 0 ELSE cache[k].hits]

\* insert_full_response.  An existing entry keeps its hits unless the write
\* comes from a background refresh; a put into a full shard evicts another key.
InsertEntry(k, ttl, fromPrefetch) ==
  [exp |-> now + ttl, until |-> now + ttl, pf |-> FALSE,
   hits |-> IF ~Has(k) THEN 0 ELSE IF fromPrefetch THEN Capped(1) ELSE cache[k].hits]

Insert(k, ttl, fromPrefetch) ==
  /\ \E victim \in Keys :
       /\ victim # k => ~Has(k)
       /\ cache' = [j \in Keys |-> IF j = k THEN InsertEntry(k, ttl, fromPrefetch)
                                   ELSE IF j = victim THEN NoEntry ELSE cache[j]]
  /\ accessed' = IF fromPrefetch THEN accessed \ {k} ELSE accessed

\* PrefetchGuard::drop clears the marker, whoever set it.
Unmark(k) == IF Has(k) THEN [cache EXCEPT ![k].pf = FALSE] ELSE cache

Grace == IF ServeExpired THEN ExpiredTtl ELSE 0
Dead(e) == now > e.until + Grace

\* The tests of get_expired for one entry.
Expiring(k) ==
  /\ Has(k)
  /\ ~cache[k].pf
  /\ Sibling[k] # k
  /\ cache[k].hits >= 2
  /\ IF ServeExpired
     THEN ~IsCurrent(cache[k], now) /\ now - cache[k].until >= PrefetchTime
     ELSE ~IsCurrent(cache[k], now + Ahead)

----------------------------------------------------------------------------
(* DnsCacheMiddleware::handle, foreground entry.                           *)

\* A task that leaves `handle` gives up its local state.
Leave(t) ==
  /\ pc' = [pc EXCEPT ![t] = IF t \in Clients THEN "idle" ELSE "done"]
  /\ key' = [key EXCEPT ![t] = AnyKey]
  /\ agen' = [agen EXCEPT ![t] = 0]
  /\ res' = [res EXCEPT ![t] = 0]
  /\ UNCHANGED <<chan, sync>>

Answer(t, stale, ttl) ==
  reply' = IF t \in Clients
           THEN [reply EXCEPT ![t] = [stale |-> stale, ttl |-> ttl]]
           ELSE reply

\* A lookup of a current entry answers at once with the remaining lifetime.
GetValid(c, k) ==
  /\ pc[c] = "idle"
  /\ Has(k) /\ IsCurrent(cache[k], now)
  /\ cache' = [cache EXCEPT ![k] = Hit(@)]
  /\ accessed' = Access({k})
  /\ Answer(c, now > cache[k].exp, cache[k].until - now)
  /\ UNCHANGED <<now, gen, inflight, locals, loop>>

\* A lookup that cannot be answered: a stale entry goes to the stale-hit path
\* unless the request refuses expired data, everything else to single-flight.
GetOther(c, k) ==
  /\ pc[c] = "idle"
  /\ ~(Has(k) /\ IsCurrent(cache[k], now))
  /\ pc' = [pc EXCEPT ![c] = IF Has(k) /\ ServeExpired /\ c \notin Strict
                             THEN "mark" ELSE "flight"]
  /\ key' = [key EXCEPT ![c] = k]
  /\ agen' = [agen EXCEPT ![c] = gen]
  /\ reply' = [reply EXCEPT ![c] = NoReply]
  /\ cache' = IF Has(k) THEN [cache EXCEPT ![k] = Hit(@)] ELSE cache
  /\ accessed' = Access(IF Has(k) THEN {k} ELSE {})
  /\ UNCHANGED <<now, gen, inflight, chan, res, sync, guards, loop>>

----------------------------------------------------------------------------
(* The stale-hit path.                                                     *)

\* Another request refreshes the key already: answer from the expired copy.
MarkLost(c) ==
  /\ pc[c] = "mark"
  /\ ~MarkWins(key[c])
  /\ Leave(c)
  /\ Answer(c, TRUE, ReplyTtl)
  /\ UNCHANGED <<now, gen, store, inflight, guards, loop>>

MarkWon(c) ==
  /\ pc[c] = "mark"
  /\ MarkWins(key[c])
  /\ cache' = Mark(key[c])
  /\ guards' = [guards EXCEPT ![c] = {key[c]}]
  /\ pc' = [pc EXCEPT ![c] = "bump"]
  /\ UNCHANGED <<now, gen, accessed, inflight, key, agen, chan, res, sync, loop, reply>>

\* Mutant: an entry served stale is pushed forward by serve-expired-ttl.
SyncByExpiredTtl == now + ExpiredTtl

\* sync_valid_until: what a stale hit grants the key and its sibling.
SyncUntil == now + ReplyTtl

BumpOwn(c) ==
  /\ pc[c] = "bump"
  /\ sync' = [sync EXCEPT ![c] = SyncUntil]
  /\ cache' = Bump(key[c], SyncUntil)
  /\ pc' = [pc EXCEPT ![c] = IF Sibling[key[c]] # key[c] THEN "sibmark" ELSE "spawn"]
  /\ UNCHANGED <<now, gen, accessed, inflight, key, agen, chan, res, guards, loop, reply>>

MarkSibling(c) ==
  LET s == Sibling[key[c]] IN
  /\ pc[c] = "sibmark"
  /\ IF MarkWins(s)
     THEN /\ cache' = Mark(s)
          /\ guards' = [guards EXCEPT ![c] = @ \cup {s}]
          /\ pc' = [pc EXCEPT ![c] = "sibbump"]
     ELSE /\ pc' = [pc EXCEPT ![c] = "spawn"]
          /\ UNCHANGED <<cache, guards>>
  /\ UNCHANGED <<now, gen, accessed, inflight, key, agen, chan, res, sync, loop, reply>>

BumpSibling(c) ==
  /\ pc[c] = "sibbump"
  /\ cache' = Bump(Sibling[key[c]], sync[c])
  /\ pc' = [pc EXCEPT ![c] = "spawn"]
  /\ UNCHANGED <<now, gen, accessed, inflight, key, agen, chan, res, sync, guards, loop, reply>>

\* Mutant: only the guard of the queried key moves into the refresh.
HandedOwnOnly(c) == guards[c] \cap {key[c]}

\* prefetch_guard and sibling_guard, moved into the spawned task.
Handed(c) == guards[c]

\* The guards move into the spawned refresh and the client is answered with
\* what is left of the synchronised lifetime.
SpawnRefresh(c, r) ==
  /\ pc[c] = "spawn" /\ pc[r] = "idle"
  /\ guards' = [guards EXCEPT ![c] = {}, ![r] = Handed(c)]
  /\ key' = [key EXCEPT ![c] = AnyKey, ![r] = key[c]]
  /\ agen' = [agen EXCEPT ![c] = 0]
  /\ pc' = [pc EXCEPT ![c] = "idle", ![r] = "send"]
  /\ sync' = [sync EXCEPT ![c] = 0]
  /\ Answer(c, TRUE, IF sync[c] > now THEN sync[c] - now ELSE 0)
  /\ UNCHANGED <<now, gen, store, inflight, chan, res, loop>>

----------------------------------------------------------------------------
(* A spawned refresh: client.send through the server queue, then guards.   *)

\* The queue accepts the query and the current handler runs it; a background
\* request skips the lookup.
SendAccepted(r) ==
  /\ pc[r] = "send"
  /\ pc' = [pc EXCEPT ![r] = "flight"]
  /\ agen' = [agen EXCEPT ![r] = gen]
  /\ UNCHANGED <<now, gen, store, inflight, key, chan, res, sync, guards, loop, reply>>

\* The queue is full or no background permit is free: send returns at once.
SendRefused(r) ==
  /\ pc[r] = "send"
  /\ pc' = [pc EXCEPT ![r] = "done"]
  /\ key' = [key EXCEPT ![r] = AnyKey]
  /\ UNCHANGED <<now, gen, store, inflight, agen, chan, res, sync, guards, loop, reply>>

\* The guards are dropped one after the other; the task ends with the last.
DropGuard(r, k) ==
  /\ pc[r] = "done" /\ k \in guards[r]
  /\ cache' = Unmark(k)
  /\ guards' = [guards EXCEPT ![r] = @ \ {k}]
  /\ pc' = [pc EXCEPT ![r] = IF guards[r] = {k} THEN "idle" ELSE "done"]
  /\ UNCHANGED <<now, gen, accessed, inflight, key, agen, chan, res, sync, loop, reply>>

----------------------------------------------------------------------------
(* Single-flight: the first task for a key leads, the others subscribe.    *)

\* Mutant: the sender is put into the map without looking whether one is there.
LeaderlessUnchecked(t) == TRUE

\* inflight.get(&key): nobody of this generation asks the upstream for the key.
Leaderless(t) == inflight[agen[t]][key[t]] = NoTask

BecomeLeader(t) ==
  /\ pc[t] = "flight"
  /\ Leaderless(t)
  /\ inflight' = [inflight EXCEPT ![agen[t]][key[t]] = t]
  /\ pc' = [pc EXCEPT ![t] = "lead"]
  /\ UNCHANGED <<now, gen, store, key, agen, chan, res, sync, guards, loop, reply>>

Subscribe(t) ==
  /\ pc[t] = "flight"
  /\ ~Leaderless(t)
  /\ chan' = [chan EXCEPT ![t] = inflight[agen[t]][key[t]]]
  /\ pc' = [pc EXCEPT ![t] = "wait"]
  /\ UNCHANGED <<now, gen, store, inflight, key, agen, res, sync, guards, loop, reply>>

\* The rest of the chain answered: a complete answer is stored, a truncated
\* one or one marked no_cache is not; the dual-stack middleware may have left
\* a record for the sibling key.
UpstreamOk(t, ttl, next) ==
  /\ pc[t] = "lead"
  /\ next = "storeSib" => Sibling[key[t]] # key[t]
  /\ res' = [res EXCEPT ![t] = ttl]
  /\ pc' = [pc EXCEPT ![t] = next]
  /\ UNCHANGED <<now, gen, store, inflight, key, agen, chan, sync, guards, loop, reply>>

StoreOwn(t, next) ==
  /\ pc[t] = "store"
  /\ next = "storeSib" => Sibling[key[t]] # key[t]
  /\ Insert(key[t], res[t], t \in Refreshers)
  /\ pc' = [pc EXCEPT ![t] = next]
  /\ UNCHANGED <<now, gen, inflight, key, agen, chan, res, sync, guards, loop, reply>>

StoreSibling(t) ==
  /\ pc[t] = "storeSib"
  /\ Insert(Sibling[key[t]], res[t], t \in Refreshers)
  /\ pc' = [pc EXCEPT ![t] = "finish"]
  /\ UNCHANGED <<now, gen, inflight, key, agen, chan, res, sync, guards, loop, reply>>

\* Mutant: the outcome is not broadcast.
FollowersForgotten(t) == {}

\* The receivers of a leader's broadcast.
Followers(t) == {w \in Tasks : pc[w] = "wait" /\ chan[w] = t}

\* Under the inflight lock: remove the sender and broadcast the outcome.
Broadcast(t, outcome, ttl) ==
  LET out == IF t \in Clients THEN "idle" ELSE "done" IN
  /\ inflight' = [inflight EXCEPT ![agen[t]][key[t]] = NoTask]
  /\ pc' = [w \in Tasks |-> IF w = t THEN out
                            ELSE IF w \in Followers(t) THEN outcome ELSE pc[w]]
  /\ res' = [w \in Tasks |-> IF w = t THEN 0
                             ELSE IF w \in Followers(t) THEN ttl ELSE res[w]]
  /\ chan' = [w \in Tasks |-> IF w \in Followers(t) THEN NoTask ELSE chan[w]]
  /\ key' = [key EXCEPT ![t] = AnyKey]
  /\ agen' = [agen EXCEPT ![t] = 0]

Finish(t) ==
  /\ pc[t] = "finish"
  /\ Broadcast(t, "recv", res[t])
  /\ Answer(t, FALSE, res[t])
  /\ UNCHANGED <<now, gen, store, sync, guards, loop>>

\* Mutant: the error path returns and leaves the sender in the map.
FailKeepsSender(t) ==
  /\ pc[t] = "lead"
  /\ Leave(t)
  /\ Answer(t, FALSE, 0)
  /\ UNCHANGED <<now, gen, store, inflight, guards, loop>>

\* The chain failed, or it panicked and InflightCacheGuard spoke for it.
UpstreamFailed(t) ==
  /\ pc[t] = "lead"
  /\ Broadcast(t, "failed", 0)
  /\ Answer(t, FALSE, 0)
  /\ UNCHANGED <<now, gen, store, sync, guards, loop>>

\* A follower wakes up with the leader's outcome.
Receive(t) ==
  /\ pc[t] \in {"recv", "failed"}
  /\ Leave(t)
  /\ Answer(t, FALSE, res[t])
  /\ UNCHANGED <<now, gen, store, inflight, guards, loop>>

----------------------------------------------------------------------------
(* Background work and administration.                                     *)

\* The prefetch task wakes up and starts get_expired.
ScanStart ==
  /\ PrefetchDomain
  /\ ploop = "wait"
  /\ ploop' = "scan"
  /\ todo' = Keys
  /\ UNCHANGED <<now, gen, store, inflight, locals, picked, reply>>

ScanVisit(k) ==
  /\ ploop = "scan" /\ k \in todo
  /\ todo' = todo \ {k}
  /\ IF Expiring(k)
     THEN /\ cache' = [cache EXCEPT ![k].pf = TRUE, ![k].hits = @ - 1]
          /\ picked' = picked \cup {k}
     ELSE UNCHANGED <<cache, picked>>
  /\ ploop' = IF todo = {k} THEN "dispatch" ELSE "scan"
  /\ UNCHANGED <<now, gen, accessed, inflight, locals, reply>>

\* One spawned task per picked key, holding its guard.
Dispatch(k, r) ==
  /\ ploop = "dispatch" /\ k \in picked
  /\ pc[r] = "idle"
  /\ picked' = picked \ {k}
  /\ guards' = [guards EXCEPT ![r] = {k}]
  /\ key' = [key EXCEPT ![r] = k]
  /\ pc' = [pc EXCEPT ![r] = "send"]
  /\ UNCHANGED <<now, gen, store, inflight, agen, chan, res, sync, ploop, todo, reply>>

ScanEnd ==
  /\ ploop = "dispatch" /\ picked = {}
  /\ ploop' = "wait"
  /\ UNCHANGED <<now, gen, store, inflight, locals, todo, picked, reply>>

\* purge_dead_records, one shard at a time.
Purge(k) ==
  /\ Has(k) /\ Dead(cache[k])
  /\ cache' = [cache EXCEPT ![k] = NoEntry]
  /\ UNCHANGED <<now, gen, accessed, inflight, locals, loop, reply>>

\* DnsCache::clear, one shard at a time.
Clear(k) ==
  /\ Has(k)
  /\ cache' = [cache EXCEPT ![k] = NoEntry]
  /\ UNCHANGED <<now, gen, accessed, inflight, locals, loop, reply>>

\* with_cache: a new middleware with an empty inflight map over the old store.
Reload ==
  /\ gen < MaxGen
  /\ gen' = gen + 1
  /\ UNCHANGED <<now, store, inflight, locals, loop, reply>>

Tick ==
  /\ now < MaxNow
  /\ now' = now + 1
  /\ UNCHANGED <<gen, store, inflight, locals, loop, reply>>

----------------------------------------------------------------------------

Lookup == \E c \in Clients, k \in Asked : GetValid(c, k) \/ GetOther(c, k)

StaleStep(c) ==
  \/ MarkLost(c) \/ MarkWon(c) \/ BumpOwn(c) \/ MarkSibling(c) \/ BumpSibling(c)
  \/ \E r \in Refreshers : SpawnRefresh(c, r)

RefreshStep(r) == SendAccepted(r) \/ SendRefused(r) \/ \E k \in Keys : DropGuard(r, k)

Upstream(t) ==
  \/ \E ttl \in TTLs, next \in {"store", "storeSib", "finish"} : UpstreamOk(t, ttl, next)
  \/ UpstreamFailed(t)

FlightStep(t) ==
  \/ BecomeLeader(t) \/ Subscribe(t) \/ Upstream(t)
  \/ \E next \in {"storeSib", "finish"} : StoreOwn(t, next)
  \/ StoreSibling(t) \/ Finish(t) \/ Receive(t)

ScanStep ==
  \/ ScanEnd
  \/ \E k \in Keys : ScanVisit(k) \/ \E r \in Refreshers : Dispatch(k, r)

Next ==
  \/ Lookup
  \/ \E c \in Clients : StaleStep(c)
  \/ \E r \in Refreshers : RefreshStep(r)
  \/ \E t \in Tasks : FlightStep(t)
  \/ ScanStart \/ ScanStep
  \/ \E k \in Keys : Purge(k) \/ Clear(k)
  \/ Reload
  \/ Tick

Spec == Init /\ [][Next]_vars

\* Every spawned task runs on; the chain below always returns (each upstream
\* exchange has a timeout), the prefetch loop finishes the scan it started.
Fairness ==
  /\ \A c \in Clients : WF_vars(StaleStep(c))
  /\ \A r \in Refreshers : WF_vars(RefreshStep(r))
  /\ \A t \in Tasks : WF_vars(FlightStep(t))
  /\ WF_vars(ScanStep)

FairSpec == Spec /\ Fairness

----------------------------------------------------------------------------
(* Properties.                                                             *)

StoreOK ==
  /\ now \in Nat
  /\ gen \in Gens
  /\ cache \in [Keys -> Entry \cup {NoEntry}]
  /\ accessed \subseteq Keys

FlightOK ==
  /\ inflight \in [Gens -> [Keys -> Tasks \cup {NoTask}]]
  /\ pc \in [Tasks -> PC]
  /\ key \in [Tasks -> Keys]
  /\ agen \in [Tasks -> Gens]
  /\ chan \in [Tasks -> Tasks \cup {NoTask}]

HandOK ==
  /\ res \in [Tasks -> Nat]
  /\ sync \in [Tasks -> Nat]
  /\ guards \in [Tasks -> SUBSET Keys]
  /\ reply \in [Clients -> Replies]

LoopOK ==
  /\ ploop \in {"wait", "scan", "dispatch"}
  /\ todo \subseteq Keys
  /\ picked \subseteq Keys

\* The type invariant: every part of the state stays in its range; a reply's
\* TTL and a hit counter never go below zero.
TypeOK == StoreOK /\ FlightOK /\ HandOK /\ LoopOK

\* Single-flight: the inflight map of a generation names exactly the tasks
\* that are leading, so two tasks of one generation never ask the upstream
\* for one key at a time (handle, the block under the inflight lock).
SingleFlight ==
  \A g \in Gens, k \in Keys, t \in Tasks :
    inflight[g][k] = t <=> pc[t] \in LeaderPC /\ agen[t] = g /\ key[t] = k

\* No orphaned follower: whoever waits on a broadcast waits on a task that
\* still leads its own key in its own generation, so the answer or the error
\* of that leader will release it (Finish, Err branch, InflightCacheGuard).
NoOrphan ==
  \A t \in Tasks : pc[t] = "wait" =>
    /\ chan[t] \in Tasks
    /\ inflight[agen[t]][key[t]] = chan[t]

Fold == INSTANCE Folding WITH
  Flights <- Gens \X Keys,
  leader <- [f \in Gens \X Keys |-> inflight[f[1]][f[2]]],
  joined <- [f \in Gens \X Keys |->
               {t \in Tasks : pc[t] = "wait" /\ agen[t] = f[1] /\ key[t] = f[2]}]

\* The inflight maps keep the promise of folding: per key and generation one
\* task asks, those that come meanwhile join it, and its end, by an answer, an
\* error or the guard of a dropped task, releases all of them in one step.
CacheFolds == Fold!Spec

\* No leaked marker: an entry that says a refresh is under way is vouched for
\* by a live guard or by the running scan.  A marker nobody will clear would
\* stop the key from ever being refreshed again while its stale data is served.
MarkerHeld ==
  \A k \in Keys : (Has(k) /\ cache[k].pf) =>
    k \in picked \/ \E t \in Tasks : k \in guards[t]

\* A reply made from data past its own lifetime never tells the client to
\* keep it longer than serve-expired-reply-ttl.
StaleTtlShort ==
  \A c \in Clients : reply[c].stale => reply[c].ttl <= ReplyTtl

\* The synchronised lifetime of a stale hit ends within serve-expired-reply-ttl.
SyncBounded == \A t \in Tasks : sync[t] <= now + ReplyTtl

\* Only a task between mark_prefetching and the end of its refresh owns guards.
GuardsHome ==
  \A t \in Tasks : guards[t] # {} =>
    /\ pc[t] # "idle"
    /\ t \in Clients => pc[t] \in {"bump", "sibmark", "sibbump", "spawn"}

\* An entry's lifetime is the one its data came with, or one a stale hit has
\* granted, which ends within serve-expired-reply-ttl from now.
GrantBounded ==
  \A k \in Keys : Has(k) =>
    cache[k].until = cache[k].exp \/ cache[k].until <= now + ReplyTtl

\* The inductive invariant behind the theorems of DnsCacheProofs.
IInv ==
  /\ TypeOK
  /\ SingleFlight /\ NoOrphan
  /\ MarkerHeld /\ GuardsHome
  /\ GrantBounded /\ SyncBounded /\ StaleTtlShort

\* After a background refresh a key is only picked for prefetch again once a
\* client has asked for it (hits are reset to 1 and 2 are needed).
ColdNotPrefetched ==
  [][\A k \in Keys : k \in picked' \ picked => k \in accessed]_vars

\* Every request that enters `handle` leaves it: as leader, as follower of a
\* leader that may fail, or from the stale-hit path once a refresh is spawned.
RequestsAnswered == \A c \in Clients : pc[c] # "idle" ~> pc[c] = "idle"

\* Every spawned refresh ends, and with it the guards it was given, whether
\* the server took it, refused it or the upstream failed (PrefetchGuard).
RefreshEnds == \A r \in Refreshers : pc[r] # "idle" ~> pc[r] = "idle"

\* A client of a listener with -no-serve-expired is never given data that is
\* past its lifetime.  It does not hold: the hit of another listener's client
\* pushes valid_until of the shared entry, which is then taken for current.
StrictNeverStale == \A c \in Strict : ~reply[c].stale
=============================================================================
